------------------------------- MODULE SpoolSync -------------------------------
(***************************************************************************)
(* Which spool is in which gate, kept in three places: Happy Hare's gate   *)
(* map (gate_spool_id of mmu_gate_maps.py), the Moonraker component's      *)
(* cache (spool_location of components/mmu_server.py) and the Spoolman     *)
(* database, which other printers and users edit as well.                  *)
(*                                                                         *)
(* Happy Hare calls remote methods and does not wait for them.  The        *)
(* component serves them one at a time under cache_lock, in the order they *)
(* were called, sends the requests to the database in parallel, and        *)
(* answers with MMU_GATE_MAP MAP=... FROM_SPOOLMAN=1, a gcode command that *)
(* waits for Klipper's gcode mutex while the lock is held.  What it says   *)
(* may then be older than the gate map it is applied to.                   *)
(***************************************************************************)
EXTENDS Integers, Sequences

CONSTANTS
    Gates,
    Spools,
    Modes,          \* values of spoolman_support to look at
    FreshSpools,    \* spools may be added to the database behind the cache
    Budget          \* bound: commands and foreign edits

None   == "none"    \* -1: no spool, or no gate
Keep   == "keep"    \* not mentioned
Away   == "away"    \* on another printer
Absent == "absent"  \* not in the database, or not in the cache
Broken == "broken"  \* None in the place of a spool's attributes

ASSUME SpoolSyncAssumption ==
    /\ Modes \subseteq {"push", "pull", "readonly"}
    /\ FreshSpools \in BOOLEAN
    /\ Budget \in Nat
    /\ (Gates \cup Spools) \cap {None, Keep, Away, Absent, Broken} = {}

VARIABLES
    mode,      \* spoolman_support
    local,     \* gate_spool_id
    db,        \* the printer and gate Spoolman has for each spool
    cache,     \* spool_location
    bare,      \* spools in the cache without attributes
    calls,     \* remote calls not yet served
    phase,     \* what the component is doing
    call,      \* the call it is serving
    todo,      \* its requests to the database: where each spool goes
    left,      \* spools whose request is not answered
    done,      \* spools whose request was answered well
    reply,     \* what it tells Happy Hare about each gate
    unseen,    \* ghost: spools the database may have moved without the cache
    stray,     \* ghost: spools moved otherwise than by a push that was answered in full
    budget

vars == <<mode, local, db, cache, bare, calls, phase, call, todo, left, done, reply,
          unseen, stray, budget>>
serving == <<phase, call, todo, left, done, reply>>
ghosts  == <<unseen, stray>>

Places == Gates \cup {None, Away, Absent}
Ids    == [Gates -> Spools \cup {None, Keep}]
Call   == [op : {"push", "pull", "get", "getLive", "refresh", "fix", "clear", "set",
                 "unset"},
           ids : Ids, of : Spools \cup {None}]

Nothing == [g \in Gates |-> Keep]
NoCall  == [op |-> "pull", ids |-> Nothing, of |-> None]
Plain(op) == [NoCall EXCEPT !.op = op]

-----------------------------------------------------------------------------
(* Happy Hare: the gate map and the calls it makes.                        *)

\* Faulty variant: the spool is left in the gate it was in.
Assigned_LeavesOld(map, m) ==
    [g \in Gates |-> IF m[g] # Keep THEN m[g] ELSE map[g]]

(* assign_spool_id for each gate of m: the spool leaves any other gate.    *)
Assigned(map, m) ==
    [g \in Gates |-> IF m[g] # Keep THEN m[g]
                     ELSE IF map[g] \in Spools /\ \E h \in Gates : m[h] = map[g] THEN None
                     ELSE map[g]]

(* The changes assign_spool_id returns.  Taking the spool out of one gate  *)
(* also lists the gates that have none, which have the same id: -1.        *)
Changes(map, m) ==
    [g \in Gates |->
        IF Assigned(map, m)[g] # map[g] THEN Assigned(map, m)[g]
        ELSE IF map[g] = None /\ \E h \in Gates : m[h] = None /\ map[h] # None THEN None
        ELSE Keep]

(* _spoolman_update_filaments asks nothing of gates without a spool.       *)
Pruned(ids) == [g \in Gates |-> IF ids[g] = None THEN Keep ELSE ids[g]]

Requests(op, ids) ==
    IF ids = Nothing THEN <<>> ELSE <<[NoCall EXCEPT !.op = op, !.ids = ids]>>

(* persist_gate_map with spoolman_sync: the calls that follow a change.    *)
Persisted(ids) ==
    CASE mode = "push"     -> Requests("push", ids)
      [] mode = "readonly" -> Requests("getLive", Pruned(ids))
      [] mode = "pull"     -> <<>>

(* _spoolman_sync                                                          *)
Synced ==
    CASE mode = "push"     -> Requests("push", local)
      [] mode = "readonly" -> Requests("get", Pruned(local))
      [] mode = "pull"     -> <<Plain("pull")>>

Send(s) == calls' = calls \o s

Unique(m) == \A g, h \in Gates : m[g] \in Spools /\ m[g] = m[h] => g = h

Spend   == budget > 0 /\ budget' = budget - 1
Command == Spend /\ UNCHANGED <<mode, db, cache, bare, serving, ghosts>>

(* MMU_GATE_MAP GATE= (or GATES=, or MAP= from a UI) SPOOLID=, and the     *)
(* assignment of a pending or scanned spool.  Not in pull mode.            *)
AssignSpools ==
    /\ mode # "pull"
    /\ \E m \in Ids :
           /\ Unique(m)
           /\ Changes(local, m) # Nothing
           /\ local' = Assigned(local, m)
           /\ Send(Persisted(Changes(local, m)))
    /\ Command

(* set_gate_status(EMPTY), reset_gate after an ejection, and MMU_GATE_MAP  *)
(* RESET=1 with no default_gate_spool_id: the spool is gone from the gate. *)
EmptyGates ==
    /\ \E D \in (SUBSET Gates) \ {{}} :
           /\ local' = [g \in Gates |-> IF g \in D THEN None ELSE local[g]]
           /\ Send(Persisted([g \in Gates |-> IF g \in D THEN None ELSE Keep]))
    /\ Command

(* MMU_SPOOLMAN REFRESH=1 [FIX=1], or SYNC=1 alone.                        *)
SyncCommand ==
    /\ \E first \in {<<>>, <<Plain("refresh")>>, <<Plain("fix")>>} : Send(first \o Synced)
    /\ Command /\ UNCHANGED local

(* MMU_SPOOLMAN SPOOLID= GATE=, SPOOLID=, GATE= or CLEAR=1: the database   *)
(* is edited directly, and only in pull mode is the gate map told.         *)
DirectCommand ==
    /\ \/ \E g \in Gates, s \in Spools :
              Send(<<[op |-> "set", ids |-> [Nothing EXCEPT ![g] = s], of |-> s]>>)
       \/ \E g \in Gates : Send(<<[op |-> "unset", ids |-> [Nothing EXCEPT ![g] = None], of |-> None]>>)
       \/ \E s \in Spools : Send(<<[Plain("unset") EXCEPT !.of = s]>>)
       \/ Send(<<Plain("clear")>>)
    /\ Command /\ UNCHANGED local

-----------------------------------------------------------------------------
(* The component: one call at a time.                                      *)

At(c, g) == {s \in Spools : c[s] = g}
Ours(c)  == {s \in Spools : c[s] \in Gates}
First(c, g) == CHOOSE s \in At(c, g) : TRUE
To(gate, moved) == [s \in Spools |-> IF s \in moved THEN gate ELSE Keep]

\* Faulty variant: a spool is not taken out of the gate that another gets.
PushUpdates_LeavesOld(ids) ==
    [s \in Spools |->
        IF \E g \in Gates : ids[g] = s THEN CHOOSE g \in Gates : ids[g] = s ELSE Keep]

Full(ids) == \A g \in Gates : ids[g] # Keep

(* push_gate_map: the spools cached at the gates it names leave them, those*)
(* of a full map all do, and the spools named go where they are named.     *)
PushUpdates(ids) ==
    [s \in Spools |->
        IF \E g \in Gates : ids[g] = s THEN CHOOSE g \in Gates : ids[g] = s
        ELSE IF cache[s] \in Gates /\ (Full(ids) \/ ids[cache[s]] # Keep) THEN None
        ELSE Keep]

(* set_spool_gate, unset_spool_gate, clear_spools_for_printer              *)
SetUpdates(c) ==
    LET gate == CHOOSE g \in Gates : c.ids[g] = c.of
    IN  [To(None, At(cache, gate)) EXCEPT ![c.of] = gate]

UnsetUpdates(c) ==
    To(None, IF c.of # None THEN {c.of}
             ELSE {s \in Spools : cache[s] \in Gates /\ c.ids[cache[s]] = None})

Updates(c) ==
    CASE c.op = "push"  -> PushUpdates(c.ids)
      [] c.op = "set"   -> SetUpdates(c)
      [] c.op = "unset" -> UnsetUpdates(c)
      [] c.op = "clear" -> To(None, Ours(cache))
      [] OTHER          -> To(None, {})

(* _build_spool_location_cache FIX=1: all but the first spool of a gate.   *)
Surplus(c) == {s \in Ours(c) : s # First(c, c[s])}

Asked(u) == {s \in Spools : u[s] # Keep}

Patching(u) == phase' = "patching" /\ todo' = u /\ left' = Asked(u) /\ done' = {}

Idle == /\ phase' = "idle" /\ call' = NoCall /\ todo' = To(None, {})
        /\ left' = {} /\ done' = {} /\ reply' = Nothing

(* cache_lock is taken; the requests are made from the cache.              *)
Take ==
    /\ phase = "idle" /\ calls # <<>>
    /\ call' = Head(calls) /\ calls' = Tail(calls)
    /\ IF Head(calls).op \in {"refresh", "fix", "getLive"}
       THEN /\ phase' = "reading" /\ done' = {} /\ UNCHANGED todo
            /\ left' = IF Head(calls).op = "getLive"
                       THEN {s \in Spools : \E g \in Gates : Head(calls).ids[g] = s} ELSE {}
       ELSE Patching(Updates(Head(calls)))
    /\ UNCHANGED <<mode, local, db, cache, bare, reply, ghosts, budget>>

(* refresh_cache: the whole cache is replaced by what was read, or kept.   *)
Refresh ==
    /\ phase = "reading" /\ call.op \in {"refresh", "fix"}
    /\ \/ /\ cache' = db /\ bare' = {} /\ unseen' = {}
          /\ stray' = stray \cup {s \in Spools : cache[s] # db[s]}
          /\ IF call.op = "fix" THEN Patching(To(None, Surplus(db))) /\ UNCHANGED <<call, reply>>
             ELSE Idle
       \/ Idle /\ UNCHANGED <<cache, bare, ghosts>>
    /\ UNCHANGED <<mode, local, db, calls, budget>>

(* _send_gate_map_update with refresh: each spool is read again first.     *)
Fetch ==
    /\ phase = "reading" /\ call.op = "getLive"
    /\ \E s \in left :
           /\ left' = left \ {s}
           /\ \/ /\ db[s] # Absent
                 /\ cache' = [cache EXCEPT ![s] = db[s]]
                 /\ bare' = bare \ {s} /\ unseen' = unseen \ {s}
              \/ UNCHANGED <<cache, bare, unseen>>
    /\ UNCHANGED <<mode, local, db, calls, phase, call, todo, done, reply, stray, budget>>

\* A push of a spool the cache has no attributes of is answered in part only.
Answerable(s) == call.op = "push" /\ cache[s] # Absent /\ s \notin bare

(* _set_spool_gate, _unset_spool_gate.  A request that failed may have     *)
(* been carried out, its answer lost.                                      *)
Patched ==
    /\ phase = "patching"
    /\ \E s \in left :
           /\ left' = left \ {s}
           /\ \/ /\ db[s] # Absent
                 /\ db' = [db EXCEPT ![s] = todo[s]]
                 /\ done' = done \cup {s}
                 /\ unseen' = unseen \ {s}
                 /\ stray' = IF ~Answerable(s) THEN stray \cup {s}
                             ELSE IF todo[s] = None /\ ~Full(call.ids) THEN stray
                             ELSE stray \ {s}
              \/ /\ db' \in {db, IF db[s] = Absent THEN db ELSE [db EXCEPT ![s] = todo[s]]}
                 /\ unseen' = unseen \cup {s}
                 /\ stray' = stray \cup {s}
                 /\ UNCHANGED done
    /\ UNCHANGED <<mode, local, cache, bare, calls, phase, call, todo, reply, budget>>

\* Faulty variant: that a spool was taken out of a gate is not noted.
Noted_SetsOnly == [s \in Spools |-> IF s \in done /\ todo[s] # None THEN todo[s] ELSE cache[s]]

(* Only what was answered well is noted in the cache.                      *)
Noted == [s \in Spools |-> IF s \in done THEN todo[s] ELSE cache[s]]

(* The attributes of a spool, by which the answer names it: its own id is  *)
(* among them, so a spool without attributes reads as no spool.            *)
Attributes(s, c, b) ==
    IF s = None THEN None ELSE IF c[s] = Absent THEN Broken ELSE IF s \in b THEN None ELSE s

(* The answer to a direct command: gates left, then the gate filled.       *)
DirectReply(c, b) ==
    [g \in Gates |->
        IF mode # "pull" THEN Keep
        ELSE IF call.op = "set" /\ call.of \in done /\ call.ids[g] = call.of THEN Attributes(call.of, c, b)
        ELSE IF \E s \in done : cache[s] = g THEN None
        ELSE Keep]

Answer(c, b) ==
    CASE call.op \in {"push", "get", "getLive"} ->
             [g \in Gates |-> IF call.ids[g] = Keep THEN Keep ELSE Attributes(call.ids[g], c, b)]
      [] call.op = "pull" ->
             [g \in Gates |-> IF At(c, g) = {} THEN None ELSE Attributes(First(c, g), c, b)]
      [] call.op \in {"set", "unset", "clear"} -> DirectReply(c, b)
      [] OTHER -> Nothing

(* All requests are answered: cache and answer.                            *)
Finish ==
    /\ phase = "patching" \/ (phase = "reading" /\ call.op = "getLive")
    /\ left = {}
    /\ cache' = Noted
    /\ bare' = bare \cup {s \in done : cache[s] = Absent}
    /\ IF Answer(cache', bare') = Nothing THEN Idle
       ELSE /\ phase' = "replying" /\ reply' = Answer(cache', bare')
            /\ todo' = To(None, {}) /\ done' = {} /\ UNCHANGED <<call, left>>
    /\ UNCHANGED <<mode, local, db, calls, ghosts, budget>>

(* How the answer reads: with REPLACE=1, in pull mode, spools are entered  *)
(* as they are; else by assign_spool_id.  An entry without attributes      *)
(* raises: what comes after it is not applied.                             *)
Applied(r, on) ==
    LET m == [g \in Gates |-> IF g \in on THEN r[g] ELSE Keep]
    IN  IF mode = "pull" THEN [g \in Gates |-> IF m[g] = Keep THEN local[g] ELSE m[g]]
        ELSE Assigned(local, m)

Reach(r) ==
    LET whole == {g \in Gates : r[g] # Broken}
    IN  IF whole = Gates THEN {Gates} ELSE SUBSET whole

\* The spools of the gates where the answer was not applied.
Missed(r, on) ==
    {s \in Spools : \E g \in Gates \ on : r[g] # Keep /\ (r[g] = s \/ local[g] = s)}

\* Faulty variant: a change that came from Spoolman is sent to Spoolman.
Deliver_Echoes ==
    /\ phase = "replying"
    /\ \E on \in Reach(reply) :
           local' = Applied(reply, on) /\ stray' = stray \cup Missed(reply, on)
    /\ Send(Persisted([g \in Gates |-> IF reply[g] = Broken THEN Keep ELSE reply[g]]))
    /\ Idle
    /\ UNCHANGED <<mode, db, cache, bare, unseen, budget>>

(* MMU_GATE_MAP MAP=... FROM_SPOOLMAN=1 gets the mutex.  No call follows.  *)
Deliver ==
    /\ phase = "replying"
    /\ \E on \in Reach(reply) :
           local' = Applied(reply, on) /\ stray' = stray \cup Missed(reply, on)
    /\ Idle
    /\ UNCHANGED <<mode, db, cache, bare, calls, unseen, budget>>

-----------------------------------------------------------------------------
(* Somebody else edits the database, or deletes a spool.                   *)
ForeignEdit ==
    /\ \E s \in Spools, p \in Places :
           /\ db[s] \notin {p, Absent}
           /\ db' = [db EXCEPT ![s] = p]
           /\ unseen' = unseen \cup {s} /\ stray' = stray \cup {s}
    /\ Spend
    /\ UNCHANGED <<mode, local, cache, bare, calls, serving>>

(* Klipper is ready: the gate map is restored, as the database had it when *)
(* the last session ended, the component has built its cache, and          *)
(* _spoolman_sync is called.                                               *)
Init ==
    /\ mode \in Modes
    /\ local \in [Gates -> Spools \cup {None}] /\ Unique(local)
    /\ db = [s \in Spools |-> IF \E g \in Gates : local[g] = s
                              THEN CHOOSE g \in Gates : local[g] = s ELSE None]
    /\ \E fresh \in SUBSET Spools :
           /\ fresh # {} => FreshSpools
           /\ cache = [s \in Spools |-> IF s \in fresh THEN Absent ELSE db[s]]
           /\ unseen = fresh /\ stray = fresh
    /\ bare = {}
    /\ calls = Synced
    /\ phase = "idle" /\ call = NoCall /\ todo = To(None, {})
    /\ left = {} /\ done = {} /\ reply = Nothing
    /\ budget = Budget

Component == Take \/ Refresh \/ Fetch \/ Patched \/ Finish \/ Deliver

Next ==
    \/ AssignSpools \/ EmptyGates \/ SyncCommand \/ DirectCommand
    \/ ForeignEdit
    \/ Take \/ Refresh \/ Fetch \/ Patched \/ Finish \/ Deliver

Spec == Init /\ [][Next]_vars

(* The event loop serves the component, Spoolman answers or times out, and *)
(* the gcode mutex is FIFO.                                                *)
FairSpec == Spec /\ WF_vars(Component)

-----------------------------------------------------------------------------
(* Properties.                                                             *)

TypeOK ==
    /\ mode \in Modes
    /\ local \in [Gates -> Spools \cup {None}]
    /\ db \in [Spools -> Places]
    /\ cache \in [Spools -> Places]
    /\ bare \subseteq Spools
    /\ calls \in Seq(Call)
    /\ phase \in {"idle", "reading", "patching", "replying"}
    /\ call \in Call
    /\ todo \in [Spools -> Gates \cup {None, Keep}]
    /\ left \subseteq Spools /\ done \subseteq Spools
    /\ reply \in [Gates -> Spools \cup {None, Keep, Broken}]
    /\ unseen \subseteq Spools /\ stray \subseteq Spools
    /\ budget \in Nat

Quiet == phase = "idle" /\ calls = <<>>

(* When nothing is under way in push mode, gate map and cache agree on     *)
(* every spool that was last moved by a push that did not fail.            *)
PushSettled ==
    Quiet /\ mode = "push" =>
        \A s \in Spools \ stray, g \in Gates : local[g] = s <=> cache[s] = g

(* In pull mode every spool the gate map has is cached in that gate; not   *)
(* the other way round, as a gate may have been emptied.                   *)
PullSettled ==
    Quiet /\ mode = "pull" =>
        \A g \in Gates : local[g] \in Spools => cache[local[g]] = g

(* When nothing is under way the two maps agree, as far as the mode says.  *)
SettledMapsAgree == PushSettled /\ PullSettled

(* The cache has what the database has, but for spools edited elsewhere or *)
(* whose request failed, and while requests are under way.                 *)
CacheTrue ==
    phase # "patching" => \A s \in Spools \ unseen : cache[s] = db[s]

(* A spool is in one gate at most, whatever the order in which answers and *)
(* commands reach the gate map.                                            *)
OneGatePerSpool == Unique(local)

(* Answers give rise to no further calls: once the users rest, so do the   *)
(* calls (mmu_gate_map.py: "make sure that an update from spoolman does    *)
(* [not] end up in infinite loop").                                        *)
Settles == <>[]Quiet

(* "Update attributes but don't allow spoolman to accidentally clear"      *)
(* (mmu_gate_map.py): an answer takes no spool out of the gate map but one *)
(* it was asked to take out.                                               *)
ReplyNeverClears ==
    [][\A g \in Gates :
           phase = "replying" /\ phase' = "idle" /\ mode # "pull" /\ local[g] = call.ids[g]
           => local'[g] = local[g]]_vars
===============================================================================

----------------------------- MODULE SpoolPending -----------------------------
(***************************************************************************)
(* From a tag held to a shared NFC reader to a spool in a gate.            *)
(*                                                                         *)
(* A reader of an MMU unit is polled (unit/mmu_nfc_manager.py).  A new tag *)
(* is staged in the controller and Moonraker is asked which spool it is    *)
(* on; until the answer, MMU_GATE_MAP NEXT_SPOOLID=, the readers of all    *)
(* units are inactive (the lookup guard), and a timer releases them if no  *)
(* answer comes.  Staged tag and pending spool go to the gate filament is  *)
(* next put into, or are dropped by a timer, any other movement,           *)
(* MMU_PRINT_START or RESUME.  The answer is a gcode command: it waits     *)
(* while a preload or a scan has the mutex, the timers do not.             *)
(***************************************************************************)
EXTENDS Naturals, Sequences

CONSTANTS
    Gates,
    Tags,
    Spools,
    Known,        \* tags registered to a spool
    SpoolOf,      \* and the spool each is on
    Readers,      \* the shared readers, one of each unit
    Modes,        \* values of spoolman_support to look at
    MaxRequests,  \* bound: lookups in flight
    Budget        \* bound: what users do, and failures

None == "none"

ASSUME SpoolPendingAssumption ==
    /\ Known \subseteq Tags
    /\ SpoolOf \in [Known -> Spools]
    /\ \A t, u \in Known : SpoolOf[t] = SpoolOf[u] => t = u
    /\ Modes \subseteq {"off", "push", "readonly", "pull"}
    /\ MaxRequests \in Nat /\ Budget \in Nat
    /\ None \notin Gates \cup Tags \cup Spools

VARIABLES
    mode,      \* spoolman_support
    enabled,   \* the MMU is enabled, which has the readers polled
    job,       \* "off" (or paused), "started", "printing"
    op,        \* the operation that has the gcode mutex
    at,        \* the tag in each reader's field
    held,      \* _last_uid: the tag each reader has reported
    active,    \* shared_active
    lookup,    \* nfc_lookup_pending: the lookup guard
    guard,     \* nfc_lookup_timeout_timer is armed
    requests,  \* lookups Moonraker has not answered
    spool,     \* pending_spool_id
    tag,       \* pending_tag
    timer,     \* pending_timer is armed
    gateSpool, \* gate_spool_id
    gateTag,   \* gate_spool_rfid
    odd,       \* ghost: the pending spool may not be that of the staged tag
    woken,     \* ghost: the readers were woken in spite of a print or a lookup
    stranded,  \* ghost: nothing is left that would wake the readers
    loaded,    \* ghost: tags in the field whose spool was just loaded
    budget

vars    == <<mode, enabled, job, op, at, held, active, lookup, guard, requests, spool, tag,
             timer, gateSpool, gateTag, odd, woken, stranded, loaded, budget>>
readers == <<held, active, lookup, guard, woken, stranded>>
pending == <<spool, tag, timer, odd>>
map     == <<gateSpool, gateTag>>
machine == <<mode, enabled, job>>

All(v)  == [r \in Readers |-> v]
Free    == [kind |-> "none"]
Idle    == enabled /\ op = Free
Spend   == budget > 0 /\ budget' = budget - 1

-----------------------------------------------------------------------------
(* The pending spool and tag.                                              *)

(* _clear_pending                                                          *)
Clear == spool' = None /\ tag' = None /\ timer' = FALSE /\ odd' = FALSE

(* The dedupe is dropped: what is in the field counts as new.              *)
AllowReread == held' = All(None) /\ loaded' = {}

\* Faulty variant: the timer is stopped though a tag is still staged.
Cancel_StopsTimer == spool' = None /\ timer' = FALSE /\ UNCHANGED tag

(* set_pending_spool_id with no spool: the tag stays, in a new window.     *)
Cancel == spool' = None /\ timer' = (tag # None) /\ UNCHANGED tag

(* assign_spool_id: the spool leaves any other gate.                       *)
Assigned(g, s) ==
    [h \in Gates |-> IF h = g THEN s ELSE IF gateSpool[h] = s THEN None ELSE gateSpool[h]]

(* _apply_tag_to_gate: a tag that is neither the one seen last nor another *)
(* of the same spool says that the spool was changed.  Whether the spool's *)
(* tags are known depends on what Spoolman has sent.                       *)
ApplyTag(g, t) ==
    IF mode = "pull" THEN UNCHANGED map
    ELSE /\ gateTag' = [gateTag EXCEPT ![g] = t]
         /\ \/ gateSpool' = [gateSpool EXCEPT ![g] = IF t = gateTag[g] THEN @ ELSE None]
            \/ t \in Known /\ gateSpool[g] = SpoolOf[t] /\ UNCHANGED gateSpool

(* _check_pending_filament                                                 *)
Apply(g, s, t) ==
    IF s # None /\ mode # "pull"
    THEN /\ gateSpool' = Assigned(g, s)
         /\ gateTag' = IF t = None THEN gateTag ELSE [gateTag EXCEPT ![g] = t]
    ELSE IF t # None THEN ApplyTag(g, t)
    ELSE UNCHANGED map

Seen(t) == \E r \in Readers : at[r] = t /\ held[r] = t
Consumed(t) == loaded' = IF t # None /\ Seen(t) THEN loaded \cup {t} ELSE loaded

-----------------------------------------------------------------------------
(* The readers and the lookup guard.                                       *)

(* A tag is put in a reader's field, or taken away.                        *)
Present(r) ==
    /\ \E t \in Tags \cup {None} :
           /\ t # at[r] /\ \A q \in Readers : t # None => at[q] # t
           /\ at' = [at EXCEPT ![r] = t]
    /\ loaded' = loaded \ {at[r]}
    /\ Spend
    /\ UNCHANGED <<machine, op, readers, requests, pending, map>>

Polled(r) == Idle /\ active[r]

\* Faulty variant: only the reader that saw the tag is made inactive.
Guard_OwnReader(r) ==
    IF lookup THEN UNCHANGED <<active, lookup, guard, woken, stranded>>
    ELSE /\ lookup' = TRUE /\ guard' = TRUE
         /\ active' = [active EXCEPT ![r] = FALSE]
         /\ woken' = FALSE /\ stranded' = FALSE

(* _nfc_set_lookup_pending(True), which all units are told of.             *)
Guard(r) ==
    IF lookup THEN UNCHANGED <<active, lookup, guard, woken, stranded>>
    ELSE /\ lookup' = TRUE /\ guard' = TRUE
         /\ active' = All(FALSE)
         /\ woken' = FALSE /\ stranded' = FALSE

(* _poll_shared_reader, _nfc_tag_read: a tag not reported yet is staged    *)
(* and, unless spoolman_support is off, looked up.                         *)
Poll(r) ==
    /\ Polled(r) /\ at[r] \notin {None, held[r]}
    /\ held' = [held EXCEPT ![r] = at[r]]
    /\ tag' = at[r] /\ timer' = TRUE
    /\ IF mode = "off"
       THEN UNCHANGED <<active, lookup, guard, woken, stranded, requests>>
       ELSE /\ Len(requests) < MaxRequests
            /\ requests' = Append(requests, [tag |-> at[r], gate |-> None])
            /\ Guard(r)
    /\ odd' = (odd \/ (mode = "off" /\ spool # None))
    /\ UNCHANGED <<machine, op, at, spool, map, loaded, budget>>

(* Nothing is read: the field is empty, or the read failed.                *)
PollNothing(r) ==
    /\ Polled(r) /\ held[r] # None
    /\ IF at[r] = None THEN UNCHANGED budget ELSE Spend
    /\ held' = [held EXCEPT ![r] = None]
    /\ loaded' = loaded \ {at[r]}
    /\ UNCHANGED <<machine, op, at, active, lookup, guard, woken, stranded, requests, pending, map>>

(* _nfc_set_lookup_pending(False)                                          *)
Release ==
    IF ~lookup THEN UNCHANGED <<active, lookup, guard, woken, stranded>>
    ELSE /\ lookup' = FALSE /\ guard' = FALSE
         /\ active' = All(TRUE)
         /\ woken' = (job = "printing") /\ stranded' = FALSE

(* _nfc_lookup_timeout_handler.  A timer left over from before the MMU was *)
(* disabled finds nothing to release.                                      *)
LookupTimesOut ==
    /\ guard /\ guard' = FALSE
    /\ IF lookup THEN Release ELSE UNCHANGED <<active, lookup, woken, stranded>>
    /\ UNCHANGED <<machine, op, at, held, requests, pending, map, loaded, budget>>

(* _pending_timer_handler                                                  *)
PendingTimesOut ==
    /\ timer /\ Clear /\ AllowReread
    /\ UNCHANGED <<machine, op, at, active, lookup, guard, woken, stranded, requests, map, budget>>

-----------------------------------------------------------------------------
(* Moonraker (components/mmu_server.py) answers, one lookup at a time in   *)
(* the order asked; and MMU_GATE_MAP carries the answer out.               *)

Answering(t, g) ==
    /\ Idle /\ requests # <<>> /\ Head(requests) = [tag |-> t, gate |-> g]
    /\ requests' = Tail(requests)

(* NEXT_SPOOLID=<id>, refused in pull mode                                 *)
AnswerSpool ==
    /\ \E t \in Known :
           /\ Answering(t, None)
           /\ IF mode = "pull" THEN UNCHANGED <<spool, timer, odd>>
              ELSE spool' = SpoolOf[t] /\ timer' = TRUE /\ odd' = FALSE
    /\ Release
    /\ UNCHANGED <<machine, op, at, held, tag, map, loaded, budget>>

\* Faulty variant: a tag without a spool leaves an earlier spool pending.
AnswerUnknown_KeepsSpool ==
    /\ \E t \in Tags \ Known : Answering(t, None)
    /\ Release
    /\ UNCHANGED <<machine, op, at, held, pending, map, loaded, budget>>

(* NEXT_SPOOLID=-2: the tag is on no spool                                 *)
AnswerUnknown ==
    /\ \E t \in Tags \ Known : Answering(t, None)
    /\ Cancel /\ odd' = FALSE /\ Release
    /\ UNCHANGED <<machine, op, at, held, map, loaded, budget>>

(* NEXT_SPOOLID=-1: Spoolman could not be asked; the tag may be read again *)
AnswerFailed ==
    /\ \E t \in Tags : Answering(t, None)
    /\ Cancel /\ odd' = FALSE /\ Release
    /\ IF lookup THEN AllowReread ELSE UNCHANGED <<held, loaded>>
    /\ Spend
    /\ UNCHANGED <<machine, op, at, map>>

(* GATE= SPOOLID= for a gate's own reader, or LOOKUP= if there is no spool *)
AnswerGate ==
    /\ \E t \in Tags, g \in Gates :
           /\ Answering(t, g)
           /\ \/ t \in Known /\ mode # "pull" /\ gateSpool' = Assigned(g, SpoolOf[t])
              \/ UNCHANGED gateSpool
    /\ UNCHANGED <<machine, op, at, readers, pending, gateTag, loaded, budget>>

(* Moonraker was not ready, or the command came while the MMU was disabled.*)
NoAnswer ==
    /\ requests # <<>> /\ requests' = Tail(requests)
    /\ odd' = (odd \/ (Head(requests).gate = None /\ spool # None))
    /\ Spend
    /\ UNCHANGED <<machine, op, at, readers, spool, tag, timer, map, loaded>>

(* MMU_GATE_MAP NEXT_SPOOLID= by the user; 0 cancels.                      *)
ManualNext ==
    /\ Idle
    /\ \/ Cancel /\ odd' = FALSE
       \/ /\ mode # "pull"
          /\ spool' \in Spools /\ timer' = TRUE /\ odd' = TRUE /\ UNCHANGED tag
    /\ Release
    /\ Spend
    /\ UNCHANGED <<machine, op, at, held, requests, map, loaded>>

-----------------------------------------------------------------------------
(* What the MMU does with it.                                              *)

(* MMU_PRELOAD: _grab_pending, then the selector moves.                    *)
Grab(g) ==
    /\ op' = [kind |-> "preload", gate |-> g, spool |-> spool, tag |-> tag]
    /\ Clear

Preload(g) ==
    /\ Idle /\ job = "off" /\ Grab(g) /\ Spend
    /\ UNCHANGED <<machine, at, readers, requests, map, loaded>>

\* Faulty variant: the readers forget what they have seen.
Insert_Rereads(g) ==
    /\ Idle /\ Apply(g, spool, tag) /\ Clear
    /\ Consumed(tag) /\ held' = All(None)
    /\ Spend
    /\ UNCHANGED <<machine, op, at, active, lookup, guard, woken, stranded, requests>>

(* Filament reaches the entry sensor of a gate that is not preloaded now   *)
(* (it printing, or gate_autoload being off): _check_pending_filament.     *)
Insert(g) ==
    /\ Idle /\ Apply(g, spool, tag) /\ Clear
    /\ Consumed(tag)
    /\ Spend
    /\ UNCHANGED <<machine, op, at, readers, requests>>

(* The gate's own reader has seen a tag: _nfc_tag_read with a gate.  The   *)
(* tag is noted in pull mode too.                                          *)
OwnRead(g) ==
    \E t \in Tags :
        /\ IF mode = "pull" THEN gateTag' = [gateTag EXCEPT ![g] = t] /\ UNCHANGED gateSpool
           ELSE ApplyTag(g, t)
        /\ IF mode = "off" THEN UNCHANGED requests
           ELSE /\ Len(requests) < MaxRequests
                /\ requests' = Append(requests, [tag |-> t, gate |-> g])

(* The preload ends: the gate's own reader is asked if no spool was        *)
(* grabbed, and else, or if it saw no tag, what was grabbed is applied;    *)
(* or it failed, and nothing is.                                           *)
PreloadEnds ==
    /\ op.kind = "preload" /\ op' = Free
    /\ \/ /\ Apply(op.gate, op.spool, op.tag) /\ Clear /\ Consumed(op.tag)
          /\ UNCHANGED requests
       \/ /\ op.spool = None /\ OwnRead(op.gate)
          /\ UNCHANGED <<pending, loaded>>
       \/ UNCHANGED <<pending, map, requests, loaded>>
    /\ UNCHANGED <<machine, at, readers, budget>>

(* Any other movement of filament: _set_action clears what is pending.     *)
Move ==
    /\ Idle /\ op' = [kind |-> "move"] /\ Clear /\ Spend
    /\ UNCHANGED <<machine, at, readers, requests, map, loaded>>

MoveEnds ==
    /\ op.kind = "move" /\ op' = Free
    /\ UNCHANGED <<machine, at, readers, requests, pending, map, loaded, budget>>

(* MMU_NFC_SCAN jogs the filament of a gate past its own reader: all other *)
(* readers are inactive meanwhile, and then as they were.                  *)
Scan(g) ==
    /\ Idle /\ job = "off" /\ Clear /\ Spend
    /\ op' = [kind |-> "scan", gate |-> g, active |-> active]
    /\ active' = All(FALSE)
    /\ UNCHANGED <<machine, at, held, lookup, guard, woken, stranded, requests, map, loaded>>

ScanEnds ==
    /\ op.kind = "scan" /\ op' = Free
    /\ active' = op.active
    /\ stranded' = (stranded \/ (~lookup /\ op.active # All(TRUE)))
    /\ OwnRead(op.gate) \/ UNCHANGED <<map, requests>>
    /\ UNCHANGED <<machine, at, held, lookup, guard, woken, pending, loaded, budget>>

-----------------------------------------------------------------------------
(* The print, and the MMU as a whole.                                      *)

(* The job state machine's own on_print_start(pre_start_only), on an event  *)
(* of idle_timeout: at any time.  Only the controller's clears what is      *)
(* pending, so that stays until MMU_PRINT_START has the mutex.              *)
PreStart ==
    /\ enabled /\ job = "off" /\ job' = "started"
    /\ Spend
    /\ UNCHANGED <<mode, enabled, op, at, readers, requests, pending, map, loaded>>

(* MMU_PRINT_START, or RESUME, which clear what is pending: mmu:printing   *)
PrintStarts ==
    /\ Idle /\ job # "printing" /\ job' = "printing"
    /\ Clear /\ Spend
    /\ active' = All(FALSE) /\ woken' = FALSE /\ stranded' = FALSE
    /\ UNCHANGED <<mode, enabled, op, at, held, lookup, guard, requests, map, loaded>>

(* mmu:not_printing wakes the readers, be there a lookup or not.           *)
Wake ==
    IF job = "printing"
    THEN active' = All(TRUE) /\ woken' = lookup /\ stranded' = FALSE
    ELSE UNCHANGED <<active, woken, stranded>>

(* The print ends, is paused, or fails.                                    *)
Stop ==
    /\ enabled /\ job # "off" /\ job' = "off"
    /\ Wake
    /\ UNCHANGED <<mode, enabled, op, at, held, lookup, guard, requests, pending, map, loaded, budget>>

(* MMU ENABLE=0                                                            *)
Disable ==
    /\ Idle /\ enabled' = FALSE /\ job' = "off"
    /\ Clear /\ Wake /\ Spend
    /\ UNCHANGED <<mode, op, at, held, lookup, guard, requests, map, loaded>>

(* MMU ENABLE=1: reinit forgets a lookup under way, and tells nobody.      *)
Enable ==
    /\ ~enabled /\ enabled' = TRUE
    /\ spool' = None /\ tag' = None /\ odd' = FALSE /\ UNCHANGED timer
    /\ lookup' = FALSE
    /\ AllowReread
    /\ stranded' = (stranded \/ (lookup /\ ~woken))
    /\ woken' = FALSE
    /\ UNCHANGED <<mode, job, op, at, active, guard, requests, map, budget>>

-----------------------------------------------------------------------------
Init ==
    /\ mode \in Modes
    /\ enabled = TRUE /\ job = "off" /\ op = Free
    /\ at = All(None) /\ held = All(None) /\ active = All(TRUE)
    /\ lookup = FALSE /\ guard = FALSE /\ requests = <<>>
    /\ spool = None /\ tag = None /\ timer = FALSE
    /\ gateSpool = [g \in Gates |-> None] /\ gateTag = [g \in Gates |-> None]
    /\ odd = FALSE /\ woken = FALSE /\ stranded = FALSE /\ loaded = {}
    /\ budget = Budget

Next ==
    \/ \E r \in Readers : Present(r) \/ Poll(r) \/ PollNothing(r)
    \/ LookupTimesOut \/ PendingTimesOut
    \/ AnswerSpool \/ AnswerUnknown \/ AnswerFailed \/ AnswerGate \/ NoAnswer
    \/ ManualNext
    \/ \E g \in Gates : Preload(g) \/ Insert(g) \/ Scan(g)
    \/ PreloadEnds \/ Move \/ MoveEnds \/ ScanEnds
    \/ PreStart \/ PrintStarts \/ Stop \/ Disable \/ Enable

Spec == Init /\ [][Next]_vars

(* Timers fire: what is armed again and again spends the budget.           *)
FairSpec == Spec /\ WF_vars(LookupTimesOut) /\ WF_vars(PendingTimesOut)

-----------------------------------------------------------------------------
(* Properties.                                                             *)

Operation ==
    {Free, [kind |-> "move"]}
    \cup [kind : {"preload"}, gate : Gates, spool : Spools \cup {None}, tag : Tags \cup {None}]
    \cup [kind : {"scan"}, gate : Gates, active : [Readers -> BOOLEAN]]

TypeOK ==
    /\ mode \in Modes /\ enabled \in BOOLEAN
    /\ job \in {"off", "started", "printing"}
    /\ op \in Operation
    /\ at \in [Readers -> Tags \cup {None}]
    /\ held \in [Readers -> Tags \cup {None}]
    /\ active \in [Readers -> BOOLEAN]
    /\ lookup \in BOOLEAN /\ guard \in BOOLEAN
    /\ requests \in Seq([tag : Tags, gate : Gates \cup {None}])
    /\ spool \in Spools \cup {None} /\ tag \in Tags \cup {None} /\ timer \in BOOLEAN
    /\ gateSpool \in [Gates -> Spools \cup {None}]
    /\ gateTag \in [Gates -> Tags \cup {None}]
    /\ odd \in BOOLEAN /\ woken \in BOOLEAN /\ stranded \in BOOLEAN
    /\ loaded \subseteq Tags
    /\ budget \in Nat

Asked == \E i \in DOMAIN requests : requests[i].gate = None

(* Once the lookups are answered, spool and tag that are pending together  *)
(* belong together, though answers may come late, after other scans.       *)
Paired ==
    spool # None /\ tag # None /\ ~Asked /\ ~odd => tag \in Known /\ SpoolOf[tag] = spool

(* Readers are inactive in a print, and while a lookup is under way, and   *)
(* active otherwise: those of all units, and but for what woken and        *)
(* stranded note.                                                          *)
ReadersFollow ==
    /\ (job = "printing" \/ lookup) /\ ~woken => active = All(FALSE)
    /\ job # "printing" /\ ~lookup /\ op.kind # "scan" /\ ~stranded => active = All(TRUE)

(* "The just-loaded spool's tag must not immediately create a new pending" *)
(* (_pending_timer_handler): while it stays in the field it is not staged. *)
JustLoadedIgnored == tag # None => tag \notin loaded

(* Guard and pending spool do not outlast their timers: the guard is       *)
(* released though no answer comes, the pending spool applied or dropped.  *)
NothingHangs ==
    /\ lookup ~> ~lookup
    /\ []<>(spool = None /\ tag = None)

(* "Deactivate all readers while actively printing so no NFC transaction   *)
(* runs on the reactor thread mid-print" (_handle_printing).               *)
QuietInPrint == job = "printing" => active = All(FALSE)

(* Released guard, no print, no scan: the readers are polled again         *)
(* (nfc_lookup_resolved: "so the shared reader(s) resume").                *)
ReadersResume ==
    enabled /\ job # "printing" /\ ~lookup /\ op.kind # "scan" => active = All(TRUE)
===============================================================================

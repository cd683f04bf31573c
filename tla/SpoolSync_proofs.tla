--------------------------- MODULE SpoolSync_proofs ---------------------------
(***************************************************************************)
(* Proofs about SpoolSync for any gates, spools, modes and any number of   *)
(* commands.  The inductive invariant says what is true of the calls that  *)
(* wait, of the answer on its way, and of the cache while requests are     *)
(* under way.  A second one, of push mode, says what the pushes under way  *)
(* will settle and that everything else is settled.                        *)
(***************************************************************************)
EXTENDS SpoolSync, SequenceTheorems, TLAPS

USE SpoolSyncAssumption
USE DEF None, Keep, Away, Absent, Broken

CallOK(c) ==
    /\ Unique(c.ids)
    /\ c.op = "set" => c.of \in Spools /\ \E g \in Gates : c.ids[g] = c.of
    /\ mode = "pull" => c.op \notin {"push", "get", "getLive"}

CallsOK == CallOK(call) /\ \A i \in 1..Len(calls) : CallOK(calls[i])

(* The registers of the component that are not in use are empty.           *)
Registers ==
    /\ phase # "replying" => reply = Nothing
    /\ phase # "patching" => done = {}
    /\ phase = "reading" => call.op \in {"refresh", "fix", "getLive"}
    /\ phase = "patching" => call.op # "refresh"
    /\ phase = "replying" => call.op \notin {"refresh", "fix"}
    /\ \A s \in left \cup done : phase = "patching" => todo[s] # Keep

Uniqueness == Unique(local) /\ Unique(reply)

(* The cache while requests are under way: of those answered the database  *)
(* has the new place.                                                      *)
CacheInv ==
    \A s \in Spools \ unseen :
        db[s] = IF phase = "patching" /\ s \in done THEN todo[s] ELSE cache[s]

(* Pull mode.  A refresh of the cache is followed by a pull; but for the   *)
(* time between the two, what the gate map has is in the cache, once the   *)
(* answer on its way is delivered.                                         *)
PullNext == calls # <<>> /\ Head(calls).op = "pull"
PullFollows(s) ==
    \A i \in 1..Len(s) : s[i].op \in {"refresh", "fix"} => i < Len(s) /\ s[i + 1].op = "pull"
InStep(r) ==
    \A g \in Gates :
        /\ r[g] = Keep /\ local[g] \in Spools => cache[local[g]] = g
        /\ r[g] \in Spools => cache[r[g]] = g
PullInv ==
    mode = "pull" =>
        /\ PullFollows(calls)
        /\ \A g \in Gates : reply[g] # Broken
        /\ phase # "idle" /\ call.op \in {"refresh", "fix"} => PullNext
        /\ phase = "patching" /\ call.op = "set" =>
               \A g \in Gates : call.ids[g] = call.of => todo[call.of] = g
        /\ \/ InStep(reply)
           \/ phase = "idle" /\ PullNext
           \/ phase = "patching" /\ call.op \in {"fix", "pull"}

(* Push mode.  A push settles where the spools it names are, and what is   *)
(* in the gates it names.  What no push under way speaks of is settled:    *)
(* gate map and cache agree, if the spool is not stray.                    *)
Mentions(c, s, g) == c.op = "push" /\ (c.ids[g] # Keep \/ \E h \in Gates : c.ids[h] = s)
Waiting(s, g) == \E i \in 1..Len(calls) : Mentions(calls[i], s, g)
Served(s, g)  == phase # "idle" /\ Mentions(call, s, g)
Agree(s, g)   == local[g] = s <=> cache[s] = g

PushOps == {"push", "refresh", "fix", "set", "unset", "clear"}
PushCalls ==
    /\ \A i \in 1..Len(calls) : calls[i].op \in PushOps
    /\ phase # "idle" => call.op \in PushOps

(* The requests of a push come from the cache; a spool whose request was   *)
(* answered well and that is not stray can be named in the answer.         *)
PushRequests ==
    phase = "patching" =>
        /\ done \subseteq Asked(todo)
        /\ Asked(todo) \subseteq left \cup done \cup stray
        /\ \A s \in done \ stray : Answerable(s)
        /\ call.op = "push" => todo = PushUpdates(call.ids)

(* The answer names what the push named, and the cache has the push's gate.*)
PushReply ==
    phase = "replying" =>
        /\ call.op = "push"
        /\ \A g \in Gates :
               /\ call.ids[g] = Keep => reply[g] = Keep
               /\ call.ids[g] # Keep => reply[g] \in {call.ids[g], None, Broken}
        /\ \A g \in Gates, s \in Spools \ stray :
               /\ call.ids[g] = s => cache[s] = g /\ reply[g] = s
               /\ call.ids[g] \notin {s, Keep} => cache[s] # g

PushAgrees ==
    \A s \in Spools \ stray, g \in Gates : Agree(s, g) \/ Waiting(s, g) \/ Served(s, g)

PushInv == mode = "push" => PushCalls /\ PushRequests /\ PushReply /\ PushAgrees

IInv == TypeOK /\ CallsOK /\ Registers /\ Uniqueness /\ CacheInv /\ PullInv

-----------------------------------------------------------------------------
(* The operators of the model. *)

LEMMA ModeFacts ==
  ASSUME mode \in Modes
  PROVE  mode \in {"push", "pull", "readonly"}
  OBVIOUS

LEMMA NothingFacts ==
  /\ Nothing \in Ids /\ Unique(Nothing) /\ NoCall \in Call
  /\ \A g \in Gates : Nothing[g] = Keep
  /\ Nothing \in [Gates -> Spools \cup {None, Keep, Broken}]
  /\ NoCall.op = "pull" /\ NoCall.ids = Nothing /\ NoCall.of = None
  BY DEF Nothing, Ids, Unique, NoCall, Call

LEMMA PlainCalls ==
  ASSUME NEW op \in {"pull", "refresh", "fix", "clear", "push", "get", "getLive"}
  PROVE  /\ Plain(op) \in Call /\ Plain(op).op = op /\ Plain(op).ids = Nothing
         /\ Plain(op).of = None
  BY NothingFacts DEF Plain, NoCall, Call

LEMMA AssignedType ==
  ASSUME NEW map \in [Gates -> Spools \cup {None}], NEW m \in Ids
  PROVE  Assigned(map, m) \in [Gates -> Spools \cup {None}]
  BY DEF Assigned, Ids

LEMMA AssignedUnique ==
  ASSUME NEW map \in [Gates -> Spools \cup {None}], NEW m \in Ids, Unique(map), Unique(m)
  PROVE  Unique(Assigned(map, m))
  BY DEF Assigned, Ids, Unique

LEMMA ChangesType ==
  ASSUME NEW map \in [Gates -> Spools \cup {None}], NEW m \in Ids, Unique(map), Unique(m)
  PROVE  Changes(map, m) \in Ids /\ Unique(Changes(map, m))
<1> DEFINE new == Assigned(map, m)
<1>1. new \in [Gates -> Spools \cup {None}] /\ Unique(new)
  BY AssignedType, AssignedUnique
<1>2. \A g \in Gates : Changes(map, m)[g] \in {new[g], None, Keep}
  BY DEF Changes
<1>3. Changes(map, m) \in Ids
  BY <1>1 DEF Changes, Ids
<1> QED
  BY <1>1, <1>2, <1>3 DEF Unique

LEMMA PrunedType ==
  ASSUME NEW ids \in Ids, Unique(ids)
  PROVE  Pruned(ids) \in Ids /\ Unique(Pruned(ids))
  BY DEF Pruned, Ids, Unique

(* What one command sends is well formed.                                  *)
Sent(s) ==
    /\ s \in Seq(Call)
    /\ \A i \in 1..Len(s) : CallOK(s[i])
    /\ mode = "pull" => PullFollows(s)

LEMMA RequestsSent ==
  ASSUME mode \in {"push", "readonly"}, NEW op \in {"push", "get", "getLive"},
         NEW ids \in Ids, Unique(ids)
  PROVE  Sent(Requests(op, ids))
<1> DEFINE c == [NoCall EXCEPT !.op = op, !.ids = ids]
<1>1. c \in Call /\ CallOK(c)
  BY NothingFacts DEF NoCall, Call, CallOK
<1>2. <<c>> \in Seq(Call) /\ Len(<<c>>) = 1 /\ <<c>>[1] = c
  BY <1>1
<1>3. <<>> \in Seq(Call) /\ Len(<<>>) = 0
  OBVIOUS
<1> QED
  BY <1>1, <1>2, <1>3 DEF Requests, Sent

LEMMA NoneSent == Sent(<<>>)
  BY DEF Sent, PullFollows

LEMMA OneSent ==
  ASSUME NEW c \in Call, CallOK(c), c.op \notin {"refresh", "fix"}
  PROVE  Sent(<<c>>)
<1>1. <<c>> \in Seq(Call) /\ Len(<<c>>) = 1 /\ <<c>>[1] = c
  OBVIOUS
<1> QED
  BY <1>1 DEF Sent, PullFollows

LEMMA PersistedSent ==
  ASSUME mode \in Modes, NEW ids \in Ids, Unique(ids)
  PROVE  Sent(Persisted(ids))
<1>1. CASE mode = "push"
  BY <1>1, RequestsSent DEF Persisted
<1>2. CASE mode = "readonly"
  BY <1>2, RequestsSent, PrunedType DEF Persisted
<1>3. CASE mode = "pull"
  BY <1>3, NoneSent DEF Persisted
<1> QED
  BY <1>1, <1>2, <1>3, ModeFacts

LEMMA SyncedSent ==
  ASSUME mode \in Modes, local \in [Gates -> Spools \cup {None}], Unique(local)
  PROVE  Sent(Synced) /\ (mode = "pull" => Synced = <<Plain("pull")>>)
<1>0. local \in Ids
  BY DEF Ids
<1>1. CASE mode = "push"
  BY <1>0, <1>1, RequestsSent DEF Synced
<1>2. CASE mode = "readonly"
  BY <1>0, <1>2, RequestsSent, PrunedType DEF Synced
<1>3. CASE mode = "pull"
  <2>1. CallOK(Plain("pull"))
    BY PlainCalls, NothingFacts DEF CallOK
  <2> QED
    BY <1>3, <2>1, PlainCalls, OneSent DEF Synced
<1> QED
  BY <1>1, <1>2, <1>3, ModeFacts

(* The queue stays well formed when a command appends to it.               *)
LEMMA QueueGrows ==
  ASSUME TypeOK, CallsOK, PullInv, NEW s, Sent(s), Send(s), mode' = mode
  PROVE  /\ calls' \in Seq(Call)
         /\ \A i \in 1..Len(calls') : CallOK(calls'[i])
         /\ mode = "pull" => PullFollows(calls')
         /\ PullNext => PullNext'
<1>1. calls' = calls \o s /\ calls \in Seq(Call) /\ s \in Seq(Call)
  BY DEF Send, TypeOK, Sent
<1>2. Len(calls') = Len(calls) + Len(s) /\ Len(calls) \in Nat /\ Len(s) \in Nat
  BY <1>1
<1>3. /\ calls' \in Seq(Call)
      /\ \A i \in 1..Len(calls) : calls'[i] = calls[i]
      /\ \A i \in 1..Len(s) : calls'[Len(calls) + i] = s[i]
  BY <1>1
<1>4. ASSUME NEW i \in 1..Len(calls')
      PROVE  \/ i \in 1..Len(calls) /\ calls'[i] = calls[i]
             \/ \E j \in 1..Len(s) : i = Len(calls) + j /\ calls'[i] = s[j]
  <2>1. CASE i \in 1..Len(calls)
    BY <2>1, <1>3
  <2>2. CASE i \notin 1..Len(calls)
    <3>1. i - Len(calls) \in 1..Len(s) /\ i = Len(calls) + (i - Len(calls))
      BY <2>2, <1>2
    <3> QED
      BY <3>1, <1>3
  <2> QED
    BY <2>1, <2>2
<1>5. \A i \in 1..Len(calls') : CallOK(calls'[i])
  BY <1>4 DEF CallsOK, Sent
<1>6. ASSUME mode = "pull", NEW i \in 1..Len(calls'), calls'[i].op \in {"refresh", "fix"}
      PROVE  i < Len(calls') /\ calls'[i + 1].op = "pull"
  <2>1. CASE i \in 1..Len(calls) /\ calls'[i] = calls[i]
    <3>1. i < Len(calls) /\ calls[i + 1].op = "pull"
      BY <2>1, <1>6 DEF PullInv, PullFollows
    <3>2. i + 1 \in 1..Len(calls)
      BY <3>1, <2>1, <1>2
    <3> QED
      BY <3>1, <3>2, <1>2, <1>3
  <2>2. ASSUME NEW j \in 1..Len(s), i = Len(calls) + j, calls'[i] = s[j]
        PROVE  i < Len(calls') /\ calls'[i + 1].op = "pull"
    <3>1. j < Len(s) /\ s[j + 1].op = "pull"
      BY <2>2, <1>6 DEF Sent, PullFollows
    <3>2. j + 1 \in 1..Len(s) /\ i + 1 = Len(calls) + (j + 1)
      BY <3>1, <2>2, <1>2
    <3> QED
      BY <3>1, <3>2, <2>2, <1>2, <1>3
  <2> QED
    BY <2>1, <2>2, <1>4
<1>7. PullNext => PullNext'
  <2>1. calls # <<>> => 1 \in 1..Len(calls) /\ Head(calls) = calls[1] /\ calls' # <<>> /\ Head(calls') = calls'[1]
    BY <1>1, <1>2, <1>3
  <2> QED
    BY <2>1, <1>3 DEF PullNext
<1> QED
  BY <1>3, <1>5, <1>6, <1>7 DEF PullFollows

-----------------------------------------------------------------------------
(* The commands. *)

LEMMA CommandKeeps ==
  ASSUME IInv, Command, NEW s, Sent(s), Send(s),
         local' \in [Gates -> Spools \cup {None}], Unique(local'),
         mode = "pull" => \A g \in Gates : local'[g] \in {local[g], None}
  PROVE  IInv'
<1> USE DEF IInv, Command
<1>0. TypeOK /\ CallsOK /\ PullInv /\ mode' = mode
  OBVIOUS
<1>1. /\ calls' \in Seq(Call)
      /\ \A i \in 1..Len(calls') : CallOK(calls'[i])
      /\ mode = "pull" => PullFollows(calls')
      /\ PullNext => PullNext'
  BY <1>0, QueueGrows
<1>2. TypeOK'
  BY <1>1 DEF TypeOK, Spend, serving, ghosts
<1>3. CallsOK'
  BY <1>1 DEF CallsOK, CallOK, serving
<1>4. Registers' /\ CacheInv'
  BY DEF Registers, CacheInv, serving, ghosts
<1>5. Uniqueness'
  BY DEF Uniqueness, serving
<1>6. PullInv'
  <2>1. ASSUME mode = "pull", InStep(reply)
        PROVE  InStep(reply)'
    BY <2>1 DEF InStep, serving, TypeOK
  <2> QED
    BY <1>1, <2>1 DEF PullInv, serving
<1> QED
  BY <1>2, <1>3, <1>4, <1>5, <1>6

LEMMA AssignKeeps == IInv /\ AssignSpools => IInv'
<1> SUFFICES ASSUME IInv, AssignSpools PROVE IInv'
  OBVIOUS
<1>1. PICK m \in Ids :
          /\ Unique(m)
          /\ local' = Assigned(local, m)
          /\ Send(Persisted(Changes(local, m)))
  BY DEF AssignSpools
<1>2. local \in [Gates -> Spools \cup {None}] /\ Unique(local) /\ mode \in Modes
  BY DEF IInv, TypeOK, Uniqueness
<1>3. Sent(Persisted(Changes(local, m)))
  BY <1>1, <1>2, ChangesType, PersistedSent
<1>4. local' \in [Gates -> Spools \cup {None}] /\ Unique(local')
  BY <1>1, <1>2, AssignedType, AssignedUnique
<1> QED
  BY <1>1, <1>3, <1>4, CommandKeeps DEF AssignSpools

LEMMA EmptyKeeps == IInv /\ EmptyGates => IInv'
<1> SUFFICES ASSUME IInv, EmptyGates PROVE IInv'
  OBVIOUS
<1>1. PICK D \in (SUBSET Gates) \ {{}} :
          /\ local' = [g \in Gates |-> IF g \in D THEN None ELSE local[g]]
          /\ Send(Persisted([g \in Gates |-> IF g \in D THEN None ELSE Keep]))
  BY DEF EmptyGates
<1>2. local \in [Gates -> Spools \cup {None}] /\ Unique(local) /\ mode \in Modes
  BY DEF IInv, TypeOK, Uniqueness
<1> DEFINE ids == [g \in Gates |-> IF g \in D THEN None ELSE Keep]
<1>3. ids \in Ids /\ Unique(ids)
  BY DEF Ids, Unique
<1>4. Sent(Persisted(ids))
  BY <1>2, <1>3, PersistedSent
<1>5. /\ local' \in [Gates -> Spools \cup {None}] /\ Unique(local')
      /\ \A g \in Gates : local'[g] \in {local[g], None}
  BY <1>1, <1>2 DEF Unique
<1> QED
  BY <1>1, <1>4, <1>5, CommandKeeps DEF EmptyGates

LEMMA SyncKeeps == IInv /\ SyncCommand => IInv'
<1> SUFFICES ASSUME IInv, SyncCommand PROVE IInv'
  OBVIOUS
<1>1. local \in [Gates -> Spools \cup {None}] /\ Unique(local) /\ mode \in Modes
  BY DEF IInv, TypeOK, Uniqueness
<1>2. Sent(Synced) /\ (mode = "pull" => Synced = <<Plain("pull")>>)
  BY <1>1, SyncedSent
<1>3. ASSUME NEW op \in {"refresh", "fix"}
      PROVE  Sent(<<Plain(op)>> \o Synced)
  <2> DEFINE s == <<Plain(op)>> \o Synced
  <2>1. Plain(op) \in Call /\ CallOK(Plain(op)) /\ Synced \in Seq(Call)
    BY <1>2, PlainCalls, NothingFacts DEF CallOK, Sent
  <2>2. s \in Seq(Call) /\ Len(s) = 1 + Len(Synced) /\ s[1] = Plain(op)
    BY <2>1
  <2>3. \A i \in 1..Len(s) : i # 1 => i - 1 \in 1..Len(Synced) /\ s[i] = Synced[i - 1]
    BY <2>1, <2>2
  <2>4. \A i \in 1..Len(s) : CallOK(s[i])
    BY <1>2, <2>1, <2>2, <2>3 DEF Sent
  <2>5. ASSUME mode = "pull" PROVE PullFollows(s)
    <3>1. Len(s) = 2 /\ s[2] = Plain("pull") /\ s[1] = Plain(op)
      <4>1. Synced = <<Plain("pull")>> /\ Plain("pull") \in Call
        BY <1>2, <2>5, PlainCalls
      <4>2. Len(Synced) = 1 /\ Synced[1] = Plain("pull")
        BY <4>1
      <4>3. 2 \in 1..Len(s) /\ Len(s) = 2
        BY <4>2, <2>2
      <4>4. s[2] = Synced[2 - 1]
        BY <4>3, <2>3
      <4> QED
        BY <4>2, <4>3, <4>4, <2>2
    <3> QED
      BY <3>1, PlainCalls DEF PullFollows
  <2> QED
    BY <2>2, <2>4, <2>5 DEF Sent
<1>4. \E s : Sent(s) /\ Send(s)
  <2>1. Sent(<<>> \o Synced)
    <3>1. <<>> \o Synced = Synced
      BY <1>2 DEF Sent
    <3> QED
      BY <3>1, <1>2
  <2> QED
    BY <1>3, <2>1 DEF SyncCommand
<1> QED
  BY <1>1, <1>4, CommandKeeps DEF SyncCommand

LEMMA DirectKeeps == IInv /\ DirectCommand => IInv'
<1> SUFFICES ASSUME IInv, DirectCommand PROVE IInv'
  OBVIOUS
<1>1. local \in [Gates -> Spools \cup {None}] /\ Unique(local) /\ mode \in Modes
  BY DEF IInv, TypeOK, Uniqueness
<1>2. \E c \in Call : CallOK(c) /\ c.op \notin {"refresh", "fix"} /\ Send(<<c>>)
  <2>1. ASSUME NEW g \in Gates, NEW s \in Spools,
               Send(<<[op |-> "set", ids |-> [Nothing EXCEPT ![g] = s], of |-> s]>>)
        PROVE  \E c \in Call : CallOK(c) /\ c.op \notin {"refresh", "fix"} /\ Send(<<c>>)
    <3> DEFINE c == [op |-> "set", ids |-> [Nothing EXCEPT ![g] = s], of |-> s]
    <3>1. c.ids \in Ids /\ Unique(c.ids) /\ c.ids[g] = s
      BY NothingFacts DEF Ids, Unique, Nothing
    <3>2. c \in Call /\ CallOK(c)
      BY <3>1 DEF Call, CallOK
    <3> QED
      BY <2>1, <3>2
  <2>2. ASSUME NEW g \in Gates,
               Send(<<[op |-> "unset", ids |-> [Nothing EXCEPT ![g] = None], of |-> None]>>)
        PROVE  \E c \in Call : CallOK(c) /\ c.op \notin {"refresh", "fix"} /\ Send(<<c>>)
    <3> DEFINE c == [op |-> "unset", ids |-> [Nothing EXCEPT ![g] = None], of |-> None]
    <3>1. c.ids \in Ids /\ Unique(c.ids)
      BY NothingFacts DEF Ids, Unique, Nothing
    <3>2. c \in Call /\ CallOK(c)
      BY <3>1 DEF Call, CallOK
    <3> QED
      BY <2>2, <3>2
  <2>3. ASSUME NEW s \in Spools, Send(<<[Plain("unset") EXCEPT !.of = s]>>)
        PROVE  \E c \in Call : CallOK(c) /\ c.op \notin {"refresh", "fix"} /\ Send(<<c>>)
    <3> DEFINE c == [Plain("unset") EXCEPT !.of = s]
    <3>1. c \in Call /\ CallOK(c) /\ c.op = "unset"
      BY NothingFacts DEF Plain, NoCall, Call, CallOK
    <3> QED
      BY <2>3, <3>1
  <2>4. Plain("clear") \in Call /\ CallOK(Plain("clear")) /\ Plain("clear").op = "clear"
    BY PlainCalls, NothingFacts DEF CallOK
  <2> QED
    BY <2>1, <2>2, <2>3, <2>4 DEF DirectCommand
<1>3. \E s : Sent(s) /\ Send(s)
  BY <1>2, OneSent
<1> QED
  BY <1>1, <1>3, CommandKeeps DEF DirectCommand

LEMMA ForeignKeeps == IInv /\ ForeignEdit => IInv'
<1> SUFFICES ASSUME IInv, ForeignEdit PROVE IInv'
  OBVIOUS
<1> USE DEF IInv, ForeignEdit, serving
<1>1. TypeOK'
  BY DEF TypeOK, Spend, Places
<1>2. CallsOK' /\ Registers' /\ Uniqueness'
  BY DEF CallsOK, CallOK, Registers, Uniqueness
<1>3. CacheInv'
  BY DEF CacheInv, TypeOK
<1>4. PullInv'
  BY DEF PullInv, InStep, PullNext
<1> QED
  BY <1>1, <1>2, <1>3, <1>4

-----------------------------------------------------------------------------
(* The component. *)

LEMMA QueueHead ==
  ASSUME calls \in Seq(Call), calls # <<>>
  PROVE  /\ Head(calls) \in Call /\ Tail(calls) \in Seq(Call)
         /\ 1 \in 1..Len(calls) /\ Head(calls) = calls[1]
         /\ Len(Tail(calls)) = Len(calls) - 1 /\ Len(calls) \in Nat
         /\ \A i \in 1..Len(Tail(calls)) : i + 1 \in 1..Len(calls) /\ Tail(calls)[i] = calls[i + 1]
  OBVIOUS

LEMMA ToType ==
  ASSUME NEW moved \in SUBSET Spools
  PROVE  To(None, moved) \in [Spools -> Gates \cup {None, Keep}]
  BY DEF To

LEMMA UpdatesType ==
  ASSUME TypeOK, NEW c \in Call, CallOK(c)
  PROVE  /\ Updates(c) \in [Spools -> Gates \cup {None, Keep}]
         /\ c.op = "set" => \A g \in Gates : c.ids[g] = c.of => Updates(c)[c.of] = g
<1>1. CASE c.op = "push"
  BY <1>1 DEF Updates, PushUpdates
<1>2. CASE c.op = "set"
  <2> DEFINE gate == CHOOSE g \in Gates : c.ids[g] = c.of
  <2>1. c.of \in Spools /\ gate \in Gates /\ c.ids[gate] = c.of
    BY <1>2 DEF CallOK
  <2>2. \A g \in Gates : c.ids[g] = c.of => g = gate
    BY <2>1 DEF CallOK, Unique
  <2>3. To(None, At(cache, gate)) \in [Spools -> Gates \cup {None, Keep}]
    BY ToType DEF At
  <2>4. Updates(c) = [To(None, At(cache, gate)) EXCEPT ![c.of] = gate]
    BY <1>2 DEF Updates, SetUpdates
  <2> QED
    BY <1>2, <2>1, <2>2, <2>3, <2>4
<1>3. CASE c.op = "unset"
  <2>1. c.of \in Spools \cup {None}
    BY DEF Call
  <2> DEFINE moved == IF c.of # None THEN {c.of}
                      ELSE {s \in Spools : cache[s] \in Gates /\ c.ids[cache[s]] = None}
  <2>2. moved \in SUBSET Spools
    BY <2>1
  <2>3. Updates(c) = To(None, moved)
    BY <1>3 DEF Updates, UnsetUpdates
  <2> QED
    BY <1>3, <2>2, <2>3, ToType
<1>4. CASE c.op = "clear"
  BY <1>4, ToType DEF Updates, Ours
<1>5. CASE c.op \in {"pull", "get", "getLive", "refresh", "fix"}
  BY <1>5, ToType DEF Updates
<1> QED
  BY <1>1, <1>2, <1>3, <1>4, <1>5 DEF Call

LEMMA TakeKeeps == IInv /\ Take => IInv'
<1> SUFFICES ASSUME IInv, Take PROVE IInv'
  OBVIOUS
<1> USE DEF IInv, Take
<1>0. calls \in Seq(Call) /\ calls # <<>> /\ phase = "idle" /\ TypeOK
  BY DEF TypeOK
<1>1. /\ call' \in Call /\ calls' \in Seq(Call)
      /\ call' = calls[1] /\ 1 \in 1..Len(calls) /\ Len(calls) \in Nat
      /\ Len(calls') = Len(calls) - 1
      /\ \A i \in 1..Len(calls') : i + 1 \in 1..Len(calls) /\ calls'[i] = calls[i + 1]
  BY <1>0, QueueHead
<1>2. CallOK(call') /\ \A i \in 1..Len(calls') : CallOK(calls'[i])
  BY <1>1 DEF CallsOK
<1>3. CallsOK'
  BY <1>2 DEF CallsOK, CallOK
<1>4. /\ Updates(call') \in [Spools -> Gates \cup {None, Keep}]
      /\ call'.op = "set" => \A g \in Gates : call'.ids[g] = call'.of => Updates(call')[call'.of] = g
  BY <1>0, <1>1, <1>2, UpdatesType
<1>5. TypeOK'
  BY <1>1, <1>4 DEF TypeOK, Patching, Asked, ghosts
<1>6. Registers' /\ Uniqueness' /\ CacheInv'
  BY <1>0, <1>1 DEF Registers, Uniqueness, CacheInv, Patching, Asked, ghosts
<1>7. PullInv'
  <2> SUFFICES ASSUME mode = "pull" PROVE PullInv'
    BY DEF PullInv
  <2>1. PullFollows(calls')
    BY <1>1 DEF PullInv, PullFollows
  <2>2. call'.op \in {"refresh", "fix"} => PullNext'
    <3> SUFFICES ASSUME call'.op \in {"refresh", "fix"} PROVE PullNext'
      OBVIOUS
    <3>1. 1 < Len(calls) /\ calls[2].op = "pull"
      BY <1>1 DEF PullInv, PullFollows
    <3>2. 1 \in 1..Len(calls') /\ calls'[1] = calls[2]
      BY <3>1, <1>1
    <3>3. calls' # <<>> /\ Head(calls') = calls'[1]
      BY <3>2, <1>1
    <3> QED
      BY <3>1, <3>2, <3>3 DEF PullNext
  <2>3. InStep(reply) => InStep(reply)'
    BY DEF InStep
  <2>4. InStep(reply) \/ call'.op = "pull"
    BY <1>0 DEF PullInv, PullNext
  <2>5. call'.op = "pull" => phase' = "patching"
    BY DEF Patching
  <2>6. phase' = "patching" => todo' = Updates(call')
    BY DEF Patching
  <2>7. \A g \in Gates : reply'[g] # Broken
    BY DEF PullInv
  <2> QED
    BY <2>1, <2>2, <2>3, <2>4, <2>5, <2>6, <2>7, <1>4 DEF PullInv
<1> QED
  BY <1>3, <1>5, <1>6, <1>7

LEMMA IdleFacts ==
  ASSUME Idle
  PROVE  /\ phase' = "idle" /\ call' = NoCall /\ left' = {} /\ done' = {} /\ reply' = Nothing
         /\ todo' \in [Spools -> Gates \cup {None, Keep}]
         /\ call' \in Call /\ reply' \in [Gates -> Spools \cup {None, Keep, Broken}]
         /\ mode' = mode => CallOK(call')
  BY NothingFacts, ToType DEF Idle, CallOK

LEMMA RefreshKeeps == IInv /\ Refresh => IInv'
<1> SUFFICES ASSUME IInv, Refresh PROVE IInv'
  OBVIOUS
<1> USE DEF IInv, Refresh
<1>0. /\ phase = "reading" /\ call.op \in {"refresh", "fix"} /\ TypeOK /\ done = {}
      /\ reply = Nothing /\ Unique(local)
  BY DEF Registers, Uniqueness
<1>1. PullNext' = PullNext /\ (mode = "pull" => PullNext)
  BY <1>0 DEF PullInv, PullNext
<1>2. CASE /\ call.op = "fix" /\ Patching(To(None, Surplus(db))) /\ UNCHANGED <<call, reply>>
           /\ cache' = db /\ bare' = {} /\ unseen' = {}
           /\ stray' = stray \cup {s \in Spools : cache[s] # db[s]}
  <2>1. To(None, Surplus(db)) \in [Spools -> Gates \cup {None, Keep}]
    BY ToType DEF Surplus, Ours
  <2>2. TypeOK'
    BY <1>2, <2>1 DEF TypeOK, Patching, Asked
  <2>3. CallsOK' /\ Registers' /\ Uniqueness' /\ CacheInv'
    BY <1>0, <1>2 DEF CallsOK, CallOK, Registers, Uniqueness, CacheInv, Patching, Asked, TypeOK
  <2>4. PullInv'
    BY <1>0, <1>1, <1>2 DEF PullInv, Patching
  <2> QED
    BY <2>2, <2>3, <2>4
<1>3. CASE /\ Idle
           /\ \/ /\ cache' = db /\ bare' = {} /\ unseen' = {}
                 /\ stray' = stray \cup {s \in Spools : cache[s] # db[s]}
              \/ UNCHANGED <<cache, bare, ghosts>>
  <2>0. Idle
    BY <1>3
  <2>1. /\ phase' = "idle" /\ call' = NoCall /\ left' = {} /\ done' = {} /\ reply' = Nothing
        /\ todo' \in [Spools -> Gates \cup {None, Keep}]
        /\ call' \in Call /\ reply' \in [Gates -> Spools \cup {None, Keep, Broken}]
        /\ CallOK(call')
    BY <2>0, IdleFacts
  <2>2. TypeOK'
    BY <1>3, <2>1 DEF TypeOK, ghosts
  <2>3. CallsOK' /\ Registers' /\ Uniqueness'
    BY <1>0, <2>1 DEF CallsOK, CallOK, Registers, Uniqueness
  <2>4. CacheInv'
    BY <1>0, <1>3, <2>1 DEF CacheInv, ghosts, TypeOK
  <2>5. PullInv'
    BY <1>0, <1>1, <2>1, NothingFacts DEF PullInv
  <2> QED
    BY <2>2, <2>3, <2>4, <2>5
<1> QED
  BY <1>2, <1>3

LEMMA FetchKeeps == IInv /\ Fetch => IInv'
<1> SUFFICES ASSUME IInv, Fetch PROVE IInv'
  OBVIOUS
<1> USE DEF IInv, Fetch
<1>1. mode # "pull"
  BY DEF CallsOK, CallOK
<1>2. TypeOK'
  BY DEF TypeOK
<1>3. CallsOK' /\ Registers' /\ Uniqueness'
  BY DEF CallsOK, CallOK, Registers, Uniqueness
<1>4. CacheInv'
  BY DEF CacheInv, TypeOK
<1>5. PullInv'
  BY <1>1 DEF PullInv
<1> QED
  BY <1>2, <1>3, <1>4, <1>5

LEMMA PatchedKeeps == IInv /\ Patched => IInv'
<1> SUFFICES ASSUME IInv, Patched PROVE IInv'
  OBVIOUS
<1> USE DEF IInv, Patched
<1>1. /\ \A s \in left : s \in Spools /\ todo[s] \in Gates \cup {None} /\ todo[s] \in Places
      /\ phase = "patching"
  BY DEF TypeOK, Registers, Places
<1>2. TypeOK'
  BY <1>1 DEF TypeOK
<1>3. CallsOK' /\ Registers' /\ Uniqueness'
  BY DEF CallsOK, CallOK, Registers, Uniqueness
<1>4. CacheInv'
  BY <1>1 DEF CacheInv, TypeOK
<1>5. PullInv'
  BY DEF PullInv, InStep, PullNext
<1> QED
  BY <1>2, <1>3, <1>4, <1>5

LEMMA NotedType ==
  ASSUME IInv, phase = "patching"
  PROVE  /\ Noted \in [Spools -> Places]
         /\ \A s \in done : s \in Spools /\ Noted[s] = todo[s] /\ todo[s] \in Gates \cup {None}
         /\ \A s \in Spools \ done : Noted[s] = cache[s]
  BY DEF IInv, Noted, TypeOK, Registers, Places

LEMMA NotedUnchanged ==
  ASSUME IInv, phase # "patching"
  PROVE  Noted = cache
  BY DEF IInv, Noted, TypeOK, Registers

(* What an answer says of a gate: a spool the call named for it, or in pull*)
(* mode one the cache has there.                                           *)
LEMMA AnswerType ==
  ASSUME IInv, NEW c \in [Spools -> Places], NEW b \in SUBSET Spools,
         \A s \in Spools : s \in done => c[s] = todo[s],
         \A s \in Spools : s \notin done => c[s] = cache[s],
         phase = "patching" \/ (phase = "reading" /\ call.op = "getLive")
  PROVE  /\ Answer(c, b) \in [Gates -> Spools \cup {None, Keep, Broken}]
         /\ Unique(Answer(c, b))
         /\ mode = "pull" => \A g \in Gates : Answer(c, b)[g] # Broken
         /\ mode = "pull" /\ call.op # "fix" /\ (InStep(reply) \/ call.op = "pull") =>
                \A g \in Gates :
                    /\ Answer(c, b)[g] = Keep /\ local[g] \in Spools => c[local[g]] = g
                    /\ Answer(c, b)[g] \in Spools => c[Answer(c, b)[g]] = g
         /\ call.op = "fix" => Answer(c, b) = Nothing
<1> DEFINE r == Answer(c, b)
<1>0. /\ call \in Call /\ CallOK(call) /\ call.ids \in Ids /\ call.of \in Spools \cup {None}
      /\ local \in [Gates -> Spools \cup {None}] /\ cache \in [Spools -> Places]
      /\ phase = "patching" => \A s \in done : s \in Spools /\ todo[s] \in Gates \cup {None}
      /\ phase = "reading" => done = {}
      /\ reply = Nothing
  BY DEF IInv, TypeOK, CallsOK, Registers, Call
<1>1. \A s \in Spools \cup {None} :
          /\ Attributes(s, c, b) \in {s, None, Broken}
          /\ Attributes(s, c, b) = Broken => s \in Spools /\ c[s] = Absent
  BY DEF Attributes
<1>2. CASE call.op \in {"push", "get", "getLive"}
  <2>1. r = [g \in Gates |-> IF call.ids[g] = Keep THEN Keep ELSE Attributes(call.ids[g], c, b)]
    BY <1>2 DEF Answer
  <2>2. r \in [Gates -> Spools \cup {None, Keep, Broken}]
    BY <1>0, <1>1, <2>1 DEF Ids
  <2>3. Unique(r)
    BY <1>0, <1>1, <2>1 DEF Ids, Unique, CallOK
  <2>4. mode # "pull" /\ call.op # "fix"
    BY <1>0, <1>2 DEF CallOK
  <2> QED
    BY <2>2, <2>3, <2>4
<1>3. CASE call.op = "pull"
  <2>1. r = [g \in Gates |-> IF At(c, g) = {} THEN None ELSE Attributes(First(c, g), c, b)]
    BY <1>3 DEF Answer
  <2>2. \A g \in Gates : At(c, g) # {} => First(c, g) \in Spools /\ c[First(c, g)] = g
    BY DEF At, First
  <2>3. \A g \in Gates : r[g] \in Spools \cup {None} /\ (r[g] \in Spools => c[r[g]] = g)
    <3> SUFFICES ASSUME NEW g \in Gates
                 PROVE  r[g] \in Spools \cup {None} /\ (r[g] \in Spools => c[r[g]] = g)
      OBVIOUS
    <3>1. CASE At(c, g) = {}
      BY <3>1, <2>1
    <3>2. CASE At(c, g) # {}
      <4> DEFINE s == First(c, g)
      <4>1. s \in Spools /\ c[s] = g /\ c[s] # Absent
        BY <3>2, <2>2
      <4>2. Attributes(s, c, b) \in {s, None}
        BY <4>1, <1>1
      <4>3. r[g] = Attributes(s, c, b)
        BY <3>2, <2>1
      <4> HIDE DEF s
      <4> QED
        BY <4>1, <4>2, <4>3
    <3> QED
      BY <3>1, <3>2
  <2>4. r \in [Gates -> Spools \cup {None, Keep, Broken}] /\ Unique(r)
    BY <2>1, <2>3 DEF Unique
  <2>5. \A g \in Gates : r[g] # Broken /\ r[g] # Keep
    BY <2>3
  <2> QED
    BY <1>3, <2>3, <2>4, <2>5
<1>4. CASE call.op \in {"set", "unset", "clear"}
  <2>1. r = DirectReply(c, b)
    BY <1>4 DEF Answer
  <2>2. \A g \in Gates : r[g] \in {None, Keep, Attributes(call.of, c, b)}
    BY <2>1 DEF DirectReply
  <2>3. \A g \in Gates :
           r[g] \notin {None, Keep} =>
               call.op = "set" /\ call.of \in done /\ call.ids[g] = call.of /\ mode = "pull"
    BY <2>1 DEF DirectReply
  <2>4. phase = "patching"
    BY <1>4
  <2>5. \A g \in Gates :
           r[g] \notin {None, Keep} =>
               r[g] = call.of /\ call.of \in Spools /\ todo[call.of] = g /\ c[call.of] = g
    <3> SUFFICES ASSUME NEW g \in Gates, r[g] \notin {None, Keep}
                 PROVE  r[g] = call.of /\ call.of \in Spools /\ todo[call.of] = g /\ c[call.of] = g
      OBVIOUS
    <3>1. call.op = "set" /\ call.of \in done /\ call.ids[g] = call.of /\ mode = "pull"
      BY <2>3
    <3>2. todo[call.of] = g /\ call.of \in Spools
      BY <3>1, <2>4, <1>0 DEF IInv, PullInv
    <3>3. c[call.of] = g /\ g # Absent
      BY <3>1, <3>2
    <3> QED
      BY <3>2, <3>3, <2>2, <1>1
  <2>6. r \in [Gates -> Spools \cup {None, Keep, Broken}]
    BY <2>1, <2>2, <2>5 DEF DirectReply
  <2>7. Unique(r) /\ \A g \in Gates : r[g] # Broken
    BY <2>5 DEF Unique
  <2>8. \A g \in Gates : r[g] \in Spools => c[r[g]] = g
    BY <2>5
  <2>9. ASSUME mode = "pull", InStep(reply), NEW g \in Gates, r[g] = Keep, local[g] \in Spools
        PROVE  c[local[g]] = g
    <3>1. cache[local[g]] = g
      BY <2>9, <1>0, NothingFacts DEF InStep
    <3>2. local[g] \notin done
      <4> SUFFICES ASSUME local[g] \in done PROVE FALSE
        OBVIOUS
      <4>1. \E s \in done : cache[s] = g
        BY <3>1
      <4>2. r[g] = IF call.op = "set" /\ call.of \in done /\ call.ids[g] = call.of
                   THEN Attributes(call.of, c, b) ELSE None
        BY <2>1, <2>9, <4>1 DEF DirectReply
      <4> QED
        BY <4>2, <2>9, <1>0, <1>1
    <3> QED
      BY <3>1, <3>2, <2>9
  <2> QED
    BY <1>4, <2>6, <2>7, <2>8, <2>9
<1>5. CASE call.op \in {"refresh", "fix"}
  <2>1. call.op = "fix" /\ r = Nothing
    BY <1>5 DEF Answer, IInv, Registers
  <2> QED
    BY <2>1, NothingFacts
<1> QED
  BY <1>0, <1>2, <1>3, <1>4, <1>5 DEF Call

LEMMA FinishKeeps == IInv /\ Finish => IInv'
<1> SUFFICES ASSUME IInv, Finish PROVE IInv'
  OBVIOUS
<1> DEFINE r == Answer(cache', bare')
<1>0. /\ phase = "patching" \/ (phase = "reading" /\ call.op = "getLive")
      /\ left = {} /\ cache' = Noted /\ bare' = bare \cup {s \in done : cache[s] = Absent}
      /\ \/ Idle /\ r = Nothing
         \/ /\ phase' = "replying" /\ reply' = r
            /\ todo' = To(None, {}) /\ done' = {} /\ call' = call /\ left' = left /\ r # Nothing
      /\ UNCHANGED <<mode, local, db, calls, unseen, stray, budget>>
      /\ TypeOK /\ CallsOK /\ Registers /\ Uniqueness /\ CacheInv /\ PullInv
  BY DEF Finish, ghosts, IInv
<1>1. /\ cache' \in [Spools -> Places] /\ bare' \in SUBSET Spools
      /\ \A s \in Spools : s \in done => cache'[s] = todo[s]
      /\ \A s \in Spools : s \notin done => cache'[s] = cache[s]
  <2>1. bare' \in SUBSET Spools /\ done \subseteq Spools
    BY <1>0 DEF TypeOK
  <2>2. CASE phase = "patching"
    BY <2>1, <2>2, <1>0, NotedType
  <2>3. CASE phase = "reading"
    <3>1. cache' = cache /\ done = {}
      BY <2>3, <1>0, NotedUnchanged DEF Registers
    <3> QED
      BY <2>1, <3>1, <1>0 DEF TypeOK
  <2> QED
    BY <1>0, <2>2, <2>3
<1>2. /\ r \in [Gates -> Spools \cup {None, Keep, Broken}]
      /\ Unique(r)
      /\ mode = "pull" => \A g \in Gates : r[g] # Broken
      /\ mode = "pull" /\ call.op # "fix" /\ (InStep(reply) \/ call.op = "pull") =>
             \A g \in Gates :
                 /\ r[g] = Keep /\ local[g] \in Spools => cache'[local[g]] = g
                 /\ r[g] \in Spools => cache'[r[g]] = g
      /\ call.op = "fix" => r = Nothing
  BY <1>0, <1>1, AnswerType
<1>3. /\ phase' \in {"idle", "replying"} /\ left' = {} /\ done' = {}
      /\ reply' = r
      /\ todo' \in [Spools -> Gates \cup {None, Keep}]
      /\ call' \in Call /\ CallOK(call')
      /\ phase' = "replying" => call' = call /\ r # Nothing
      /\ phase' = "idle" => r = Nothing
  <2>1. CASE Idle /\ r = Nothing
    BY <2>1, <1>0, IdleFacts
  <2>2. CASE ~(Idle /\ r = Nothing)
    BY <2>2, <1>0, ToType DEF TypeOK, CallsOK
  <2> QED
    BY <2>1, <2>2
<1> HIDE DEF r
<1>4. TypeOK'
  BY <1>0, <1>1, <1>2, <1>3 DEF TypeOK
<1>5. CallsOK'
  BY <1>0, <1>3 DEF CallsOK, CallOK
<1>6. Registers'
  BY <1>0, <1>2, <1>3 DEF Registers
<1>7. Uniqueness'
  BY <1>0, <1>2, <1>3 DEF Uniqueness
<1>8. CacheInv'
  BY <1>0, <1>1, <1>3 DEF CacheInv, Registers
<1>9. PullInv'
  <2> SUFFICES ASSUME mode = "pull" PROVE PullInv'
    BY <1>0 DEF PullInv
  <2>1. PullNext' = PullNext
    BY <1>0 DEF PullNext
  <2>2. phase = "patching"
    BY <1>0 DEF CallsOK, CallOK
  <2>3. CASE call.op = "fix"
    <3>1. phase' = "idle" /\ PullNext
      BY <2>2, <2>3, <1>0, <1>2, <1>3 DEF PullInv
    <3> QED
      BY <3>1, <2>1, <1>0, <1>2, <1>3 DEF PullInv
  <2>4. CASE call.op # "fix"
    <3>1. InStep(reply) \/ call.op = "pull"
      BY <2>2, <2>4, <1>0 DEF PullInv
    <3>2. InStep(reply)'
      BY <3>1, <2>4, <1>0, <1>2, <1>3 DEF InStep
    <3>3. phase' # "idle" => call'.op \notin {"refresh", "fix"}
      BY <2>2, <2>4, <1>0, <1>3 DEF Registers
    <3> QED
      BY <3>2, <3>3, <1>0, <1>2, <1>3 DEF PullInv
  <2> QED
    BY <2>3, <2>4
<1> QED
  BY <1>4, <1>5, <1>6, <1>7, <1>8, <1>9 DEF IInv

LEMMA DeliverKeeps == IInv /\ Deliver => IInv'
<1> SUFFICES ASSUME IInv, Deliver PROVE IInv'
  OBVIOUS
<1>0. /\ phase = "replying" /\ Idle
      /\ UNCHANGED <<mode, db, cache, bare, calls, unseen, budget>>
      /\ stray' \subseteq Spools
      /\ TypeOK /\ CallsOK /\ Registers /\ Uniqueness /\ CacheInv /\ PullInv
  BY DEF Deliver, IInv, Missed, TypeOK
<1>1. PICK on \in Reach(reply) : local' = Applied(reply, on)
  BY DEF Deliver
<1>2. /\ on \subseteq Gates
      /\ \A g \in on : reply[g] # Broken
      /\ mode = "pull" => on = Gates
  <2>1. mode = "pull" => {g \in Gates : reply[g] # Broken} = Gates
    BY <1>0 DEF PullInv
  <2> QED
    BY <1>1, <2>1 DEF Reach
<1> DEFINE m == [g \in Gates |-> IF g \in on THEN reply[g] ELSE Keep]
<1>3. m \in Ids /\ Unique(m) /\ (mode = "pull" => m = reply)
  BY <1>0, <1>2 DEF TypeOK, Ids, Unique, Uniqueness
<1>4. IF mode = "pull"
      THEN local' = [g \in Gates |-> IF reply[g] = Keep THEN local[g] ELSE reply[g]]
      ELSE local' = Assigned(local, m)
  BY <1>1, <1>3 DEF Applied
<1> HIDE DEF m
<1>5. ASSUME mode = "pull"
      PROVE  /\ InStep(reply)
             /\ \A g \in Gates : local'[g] \in Spools => cache[local'[g]] = g
             /\ local' \in [Gates -> Spools \cup {None}]
  <2>1. InStep(reply) /\ \A g \in Gates : reply[g] \in Spools \cup {None, Keep}
    BY <1>0, <1>5 DEF PullInv, TypeOK
  <2> QED
    BY <1>4, <1>5, <2>1, <1>0 DEF InStep, TypeOK
<1>6. local' \in [Gates -> Spools \cup {None}] /\ Unique(local')
  <2>1. CASE mode = "pull"
    BY <2>1, <1>5 DEF Unique
  <2>2. CASE mode # "pull"
    BY <2>2, <1>0, <1>3, <1>4, AssignedType, AssignedUnique DEF TypeOK, Uniqueness
  <2> QED
    BY <2>1, <2>2
<1>7. /\ phase' = "idle" /\ call' = NoCall /\ left' = {} /\ done' = {} /\ reply' = Nothing
      /\ todo' \in [Spools -> Gates \cup {None, Keep}]
      /\ call' \in Call /\ reply' \in [Gates -> Spools \cup {None, Keep, Broken}]
      /\ CallOK(call')
  BY <1>0, IdleFacts
<1>8. TypeOK'
  BY <1>0, <1>6, <1>7 DEF TypeOK
<1>9. CallsOK' /\ Registers'
  BY <1>0, <1>7 DEF CallsOK, CallOK, Registers
<1>10. Uniqueness' /\ CacheInv'
  BY <1>0, <1>6, <1>7, NothingFacts DEF Uniqueness, CacheInv
<1>11. PullInv'
  BY <1>0, <1>5, <1>7, NothingFacts DEF PullInv, InStep
<1> QED
  BY <1>8, <1>9, <1>10, <1>11 DEF IInv

-----------------------------------------------------------------------------
(* The invariant. *)

LEMMA Initially == Init => IInv
<1> SUFFICES ASSUME Init PROVE IInv
  OBVIOUS
<1> USE DEF Init
<1>1. local \in [Gates -> Spools \cup {None}] /\ Unique(local) /\ mode \in Modes
  OBVIOUS
<1>2. Sent(Synced) /\ (mode = "pull" => Synced = <<Plain("pull")>>)
  BY <1>1, SyncedSent
<1>3. db \in [Spools -> Places]
  BY DEF Places
<1>4. /\ cache \in [Spools -> Places] /\ unseen \subseteq Spools /\ stray \subseteq Spools
      /\ \A s \in Spools \ unseen : cache[s] = db[s]
  <2>1. PICK fresh \in SUBSET Spools :
            /\ cache = [s \in Spools |-> IF s \in fresh THEN Absent ELSE db[s]]
            /\ unseen = fresh /\ stray = fresh
    OBVIOUS
  <2>2. Absent \in Places
    BY DEF Places
  <2> QED
    BY <2>1, <2>2, <1>3
<1>5. TypeOK
  BY <1>1, <1>2, <1>3, <1>4, NothingFacts, ToType DEF TypeOK, Sent
<1>6. CallsOK
  BY <1>2, NothingFacts DEF CallsOK, Sent, CallOK
<1>7. Registers /\ Uniqueness /\ CacheInv
  BY <1>1, <1>4, NothingFacts DEF Registers, Uniqueness, CacheInv
<1>8. PullInv
  <2> SUFFICES ASSUME mode = "pull" PROVE PullInv
    BY DEF PullInv
  <2>1. calls = <<Plain("pull")>> /\ Plain("pull").op = "pull"
    BY <1>2, PlainCalls
  <2>2. calls # <<>> /\ Head(calls) = Plain("pull")
    BY <2>1
  <2> QED
    BY <1>2, <2>1, <2>2, NothingFacts DEF PullInv, PullNext, Sent
<1> QED
  BY <1>5, <1>6, <1>7, <1>8 DEF IInv

LEMMA Stuttering == IInv /\ UNCHANGED vars => IInv'
  BY DEF IInv, vars, TypeOK, CallsOK, CallOK, Registers, Uniqueness, CacheInv, PullInv,
         InStep, PullNext

LEMMA Step == IInv /\ [Next]_vars => IInv'
  BY AssignKeeps, EmptyKeeps, SyncKeeps, DirectKeeps, ForeignKeeps, TakeKeeps, RefreshKeeps,
     FetchKeeps, PatchedKeeps, FinishKeeps, DeliverKeeps, Stuttering DEF Next

THEOREM Invariance == Spec => []IInv
  BY Initially, Step, PTL DEF Spec

(* Types: the gate map holds spools, whatever order answers arrive in.     *)
THEOREM TypeCorrect == Spec => []TypeOK
<1>1. IInv => TypeOK
  BY DEF IInv
<1> QED
  BY <1>1, Invariance, PTL

(* A spool is in one gate at most (assign_spool_id, and the answers of the *)
(* component in every mode).                                               *)
THEOREM OneGateCorrect == Spec => []OneGatePerSpool
<1>1. IInv => OneGatePerSpool
  BY DEF IInv, Uniqueness, OneGatePerSpool
<1> QED
  BY <1>1, Invariance, PTL

(* The cache of mmu_server.py has what the database has, but for spools    *)
(* edited elsewhere or whose request failed.                               *)
THEOREM CacheCorrect == Spec => []CacheTrue
<1>1. IInv => CacheTrue
  BY DEF IInv, CacheInv, CacheTrue
<1> QED
  BY <1>1, Invariance, PTL

(* In pull mode, the gate map at rest has only what the cache has.         *)
THEOREM PullCorrect == Spec => []PullSettled
<1>1. IInv => PullSettled
  <2> SUFFICES ASSUME IInv, Quiet, mode = "pull", NEW g \in Gates, local[g] \in Spools
               PROVE  cache[local[g]] = g
    BY DEF PullSettled
  <2>1. InStep(reply) /\ reply = Nothing
    BY DEF IInv, PullInv, PullNext, Quiet, Registers
  <2> QED
    BY <2>1, NothingFacts DEF InStep
<1> QED
  BY <1>1, Invariance, PTL

-----------------------------------------------------------------------------
(* Push mode. *)

(* What one command sends in push mode.                                    *)
LEMMA PushSent ==
  ASSUME mode = "push", NEW ids \in Ids
  PROVE  /\ \A i \in 1..Len(Persisted(ids)) : Persisted(ids)[i].op \in PushOps
         /\ \A s, g : ids # Nothing /\ (ids[g] # Keep \/ \E h \in Gates : ids[h] = s) =>
                \E i \in 1..Len(Persisted(ids)) : Mentions(Persisted(ids)[i], s, g)
<1> DEFINE c == [NoCall EXCEPT !.op = "push", !.ids = ids]
<1>1. c.op = "push" /\ c.ids = ids
  BY NothingFacts DEF NoCall
<1>2. Len(<<c>>) = 1 /\ <<c>>[1] = c /\ Len(<<>>) = 0
  OBVIOUS
<1>3. Persisted(ids) = IF ids = Nothing THEN <<>> ELSE <<c>>
  BY DEF Persisted, Requests
<1> HIDE DEF c
<1> QED
  BY <1>1, <1>2, <1>3 DEF PushOps, Mentions

LEMMA PushSynced ==
  ASSUME mode = "push", local \in Ids
  PROVE  \A i \in 1..Len(Synced) : Synced[i].op \in PushOps
<1>1. Synced = Persisted(local)
  BY DEF Synced, Persisted
<1> QED
  BY <1>1, PushSent

(* A command may change what the pushes it sends speak of.                 *)
LEMMA PushCommand ==
  ASSUME IInv, PushInv, mode = "push", Command, NEW s, Sent(s), Send(s),
         \A i \in 1..Len(s) : s[i].op \in PushOps,
         \A t \in Spools, g \in Gates :
             \/ local'[g] = t <=> local[g] = t
             \/ \E i \in 1..Len(s) : Mentions(s[i], t, g)
  PROVE  PushInv'
<1>1. /\ calls' = calls \o s /\ calls \in Seq(Call) /\ s \in Seq(Call)
      /\ UNCHANGED <<mode, cache, bare, stray, phase, call, todo, left, done, reply>>
  BY DEF Command, serving, ghosts, Send, Sent, IInv, TypeOK
<1>2. /\ Len(calls') = Len(calls) + Len(s) /\ Len(calls) \in Nat /\ Len(s) \in Nat
      /\ \A i \in 1..Len(calls) : i \in 1..Len(calls') /\ calls'[i] = calls[i]
      /\ \A i \in 1..Len(s) : Len(calls) + i \in 1..Len(calls') /\ calls'[Len(calls) + i] = s[i]
  BY <1>1
<1>3. \A i \in 1..Len(calls') :
          \/ i \in 1..Len(calls)
          \/ i - Len(calls) \in 1..Len(s) /\ i = Len(calls) + (i - Len(calls))
  BY <1>2
<1>4. PushCalls'
  BY <1>1, <1>2, <1>3 DEF PushInv, PushCalls
<1>5. PushRequests' /\ PushReply'
  BY <1>1 DEF PushInv, PushRequests, PushReply, Answerable, Asked, PushUpdates, Full
<1>6. PushAgrees'
  <2> SUFFICES ASSUME NEW t \in Spools \ stray, NEW g \in Gates
               PROVE  Agree(t, g)' \/ Waiting(t, g)' \/ Served(t, g)'
    BY <1>1 DEF PushAgrees
  <2>1. Waiting(t, g) => Waiting(t, g)'
    BY <1>2 DEF Waiting
  <2>2. (\E i \in 1..Len(s) : Mentions(s[i], t, g)) => Waiting(t, g)'
    BY <1>2 DEF Waiting
  <2>3. Served(t, g) => Served(t, g)'
    BY <1>1 DEF Served
  <2>4. (local'[g] = t <=> local[g] = t) => (Agree(t, g) => Agree(t, g)')
    BY <1>1 DEF Agree
  <2> QED
    BY <2>1, <2>2, <2>3, <2>4 DEF PushInv, PushAgrees
<1> QED
  BY <1>4, <1>5, <1>6 DEF PushInv

LEMMA AssignPush == IInv /\ PushInv /\ AssignSpools => PushInv'
<1> SUFFICES ASSUME IInv, PushInv, AssignSpools, mode = "push" PROVE PushInv'
  BY DEF AssignSpools, Command, PushInv
<1>1. PICK m \in Ids :
          /\ Unique(m)
          /\ Changes(local, m) # Nothing
          /\ local' = Assigned(local, m)
          /\ Send(Persisted(Changes(local, m)))
  BY DEF AssignSpools
<1>2. local \in [Gates -> Spools \cup {None}] /\ Unique(local) /\ mode \in Modes
  BY DEF IInv, TypeOK, Uniqueness
<1>3. Changes(local, m) \in Ids /\ Sent(Persisted(Changes(local, m)))
  BY <1>1, <1>2, ChangesType, PersistedSent
<1>4. \A g \in Gates : Changes(local, m)[g] = Keep => local'[g] = local[g]
  BY <1>1, <1>2, AssignedType DEF Changes
<1> QED
  BY <1>1, <1>3, <1>4, PushSent, PushCommand DEF AssignSpools

LEMMA EmptyPush == IInv /\ PushInv /\ EmptyGates => PushInv'
<1> SUFFICES ASSUME IInv, PushInv, EmptyGates, mode = "push" PROVE PushInv'
  BY DEF EmptyGates, Command, PushInv
<1>1. PICK D \in (SUBSET Gates) \ {{}} :
          /\ local' = [g \in Gates |-> IF g \in D THEN None ELSE local[g]]
          /\ Send(Persisted([g \in Gates |-> IF g \in D THEN None ELSE Keep]))
  BY DEF EmptyGates
<1> DEFINE ids == [g \in Gates |-> IF g \in D THEN None ELSE Keep]
<1>2. ids \in Ids /\ Unique(ids) /\ mode \in Modes
  BY DEF Ids, Unique, IInv, TypeOK
<1>3. Sent(Persisted(ids))
  BY <1>2, PersistedSent
<1>4. ids # Nothing /\ \A g \in Gates : ids[g] = Keep => local'[g] = local[g]
  <2>0. D # {} /\ D \subseteq Gates
    OBVIOUS
  <2>1. PICK d \in D : d \in Gates
    BY <2>0
  <2>2. ids[d] = None /\ Nothing[d] = Keep
    BY <2>1, NothingFacts
  <2> QED
    BY <1>1, <2>2
<1>5. Send(Persisted(ids))
  BY <1>1
<1> HIDE DEF ids
<1> QED
  BY <1>2, <1>3, <1>4, <1>5, PushSent, PushCommand DEF EmptyGates

LEMMA SyncPush == IInv /\ PushInv /\ SyncCommand => PushInv'
<1> SUFFICES ASSUME IInv, PushInv, SyncCommand, mode = "push" PROVE PushInv'
  BY DEF SyncCommand, Command, PushInv
<1>1. local \in [Gates -> Spools \cup {None}] /\ Unique(local) /\ mode \in Modes
  BY DEF IInv, TypeOK, Uniqueness
<1>2. local \in Ids /\ Sent(Synced)
  BY <1>1, SyncedSent DEF Ids
<1>3. \A i \in 1..Len(Synced) : Synced[i].op \in PushOps
  BY <1>2, PushSynced
<1>4. PICK first \in {<<>>, <<Plain("refresh")>>, <<Plain("fix")>>} : Send(first \o Synced)
  BY DEF SyncCommand
<1> DEFINE s == first \o Synced
<1>5. Synced \in Seq(Call) /\ first \in Seq(Call)
  <2>1. Plain("refresh") \in Call /\ Plain("fix") \in Call
    BY PlainCalls
  <2>2. <<>> \in Seq(Call) /\ <<Plain("refresh")>> \in Seq(Call) /\ <<Plain("fix")>> \in Seq(Call)
    BY <2>1
  <2> QED
    BY <1>2, <1>4, <2>2 DEF Sent
<1>6. \A i \in 1..Len(first) : first[i].op \in PushOps
  BY PlainCalls DEF PushOps
<1>7. \A i \in 1..Len(s) :
          \/ i \in 1..Len(first) /\ s[i] = first[i]
          \/ i - Len(first) \in 1..Len(Synced) /\ s[i] = Synced[i - Len(first)]
  BY <1>5
<1>8. s \in Seq(Call) /\ \A i \in 1..Len(s) : s[i].op \in PushOps
  BY <1>3, <1>5, <1>6, <1>7
<1>9. Sent(s)
  <2>1. \A i \in 1..Len(first) : CallOK(first[i])
    BY PlainCalls, NothingFacts DEF CallOK
  <2> QED
    BY <1>2, <1>7, <1>8, <2>1 DEF Sent
<1>10. Send(s) /\ local' = local /\ Command
  BY <1>4 DEF SyncCommand
<1> HIDE DEF s
<1> QED
  BY <1>8, <1>9, <1>10, PushCommand

LEMMA DirectPush == IInv /\ PushInv /\ DirectCommand => PushInv'
<1> SUFFICES ASSUME IInv, PushInv, DirectCommand, mode = "push" PROVE PushInv'
  BY DEF DirectCommand, Command, PushInv
<1>1. \E c \in Call : CallOK(c) /\ c.op \in {"set", "unset", "clear"} /\ Send(<<c>>)
  <2>1. ASSUME NEW g \in Gates, NEW s \in Spools
        PROVE  LET c == [op |-> "set", ids |-> [Nothing EXCEPT ![g] = s], of |-> s]
               IN  c \in Call /\ CallOK(c) /\ c.op = "set"
    <3> DEFINE c == [op |-> "set", ids |-> [Nothing EXCEPT ![g] = s], of |-> s]
    <3>1. c.ids \in Ids /\ Unique(c.ids) /\ c.ids[g] = s
      BY NothingFacts DEF Ids, Unique, Nothing
    <3> QED
      BY <3>1 DEF Call, CallOK
  <2>2. ASSUME NEW g \in Gates
        PROVE  LET c == [op |-> "unset", ids |-> [Nothing EXCEPT ![g] = None], of |-> None]
               IN  c \in Call /\ CallOK(c) /\ c.op = "unset"
    <3> DEFINE c == [op |-> "unset", ids |-> [Nothing EXCEPT ![g] = None], of |-> None]
    <3>1. c.ids \in Ids /\ Unique(c.ids)
      BY NothingFacts DEF Ids, Unique, Nothing
    <3> QED
      BY <3>1 DEF Call, CallOK
  <2>3. ASSUME NEW s \in Spools
        PROVE  LET c == [Plain("unset") EXCEPT !.of = s]
               IN  c \in Call /\ CallOK(c) /\ c.op = "unset"
    BY NothingFacts DEF Plain, NoCall, Call, CallOK
  <2>4. Plain("clear") \in Call /\ CallOK(Plain("clear")) /\ Plain("clear").op = "clear"
    BY PlainCalls, NothingFacts DEF CallOK
  <2> QED
    BY <2>1, <2>2, <2>3, <2>4 DEF DirectCommand
<1>2. PICK c \in Call : CallOK(c) /\ c.op \in {"set", "unset", "clear"} /\ Send(<<c>>)
  BY <1>1
<1>3. Len(<<c>>) = 1 /\ <<c>>[1] = c
  OBVIOUS
<1>4. Sent(<<c>>) /\ \A i \in 1..Len(<<c>>) : <<c>>[i].op \in PushOps
  BY <1>2, <1>3, OneSent DEF PushOps
<1> QED
  BY <1>2, <1>4, PushCommand DEF DirectCommand

LEMMA ForeignPush == IInv /\ PushInv /\ ForeignEdit => PushInv'
<1> SUFFICES ASSUME PushInv, ForeignEdit, mode = "push" PROVE PushInv'
  BY DEF ForeignEdit, PushInv
<1>1. /\ UNCHANGED <<mode, local, cache, bare, calls, phase, call, todo, left, done, reply>>
      /\ stray \subseteq stray'
  BY DEF ForeignEdit, serving
<1>2. PushCalls' /\ PushRequests' /\ PushReply'
  BY <1>1 DEF PushInv, PushCalls, PushRequests, PushReply, Answerable, Asked, PushUpdates, Full
<1>3. PushAgrees'
  BY <1>1 DEF PushInv, PushAgrees, Agree, Waiting, Served
<1> QED
  BY <1>2, <1>3 DEF PushInv

LEMMA TakePush == IInv /\ PushInv /\ Take => PushInv'
<1> SUFFICES ASSUME IInv, PushInv, Take, mode = "push" PROVE PushInv'
  BY DEF Take, PushInv
<1>0. calls \in Seq(Call) /\ calls # <<>> /\ phase = "idle"
  BY DEF Take, IInv, TypeOK
<1>1. /\ call' = calls[1] /\ 1 \in 1..Len(calls) /\ Len(calls) \in Nat
      /\ Len(calls') = Len(calls) - 1
      /\ \A i \in 1..Len(calls') : i + 1 \in 1..Len(calls) /\ calls'[i] = calls[i + 1]
      /\ UNCHANGED <<mode, local, cache, bare, stray>>
  BY <1>0, QueueHead DEF Take, ghosts
<1>2. /\ PushCalls' /\ call'.op \in PushOps
      /\ phase' = "patching" => todo' = Updates(call') /\ left' = Asked(todo') /\ done' = {}
      /\ phase' \in {"patching", "reading"}
  BY <1>0, <1>1 DEF PushInv, PushCalls, Take, Patching
<1>3. call'.op = "push" => Updates(call') = PushUpdates(call.ids)'
  BY <1>1 DEF Updates, PushUpdates, Full
<1>4. PushRequests' /\ PushReply'
  BY <1>2, <1>3 DEF PushRequests, PushReply, Asked
<1>5. PushAgrees'
  <2> SUFFICES ASSUME NEW t \in Spools \ stray, NEW g \in Gates
               PROVE  Agree(t, g)' \/ Waiting(t, g)' \/ Served(t, g)'
    BY <1>1 DEF PushAgrees
  <2>1. CASE Agree(t, g)
    BY <2>1, <1>1 DEF Agree
  <2>2. CASE Waiting(t, g)
    <3>1. PICK i \in 1..Len(calls) : Mentions(calls[i], t, g)
      BY <2>2 DEF Waiting
    <3>2. CASE i = 1
      BY <3>1, <3>2, <1>1, <1>2 DEF Served, Mentions
    <3>3. CASE i # 1
      <4>1. i - 1 \in 1..Len(calls') /\ calls'[i - 1] = calls[i]
        BY <3>3, <1>1
      <4> QED
        BY <3>1, <4>1 DEF Waiting, Mentions
    <3> QED
      BY <3>2, <3>3
  <2> QED
    BY <2>1, <2>2, <1>0 DEF PushInv, PushAgrees, Served
<1> QED
  BY <1>2, <1>4, <1>5 DEF PushInv

LEMMA RefreshPush == IInv /\ PushInv /\ Refresh => PushInv'
<1> SUFFICES ASSUME IInv, PushInv, Refresh, mode = "push" PROVE PushInv'
  BY DEF Refresh, PushInv
<1>1. /\ call.op \in {"refresh", "fix"} /\ phase = "reading"
      /\ UNCHANGED <<mode, local, calls>>
      /\ stray \subseteq stray' /\ \A s \in Spools \ stray' : cache'[s] = cache[s]
      /\ \/ phase' = "idle"
         \/ phase' = "patching" /\ call' = call /\ call.op = "fix"
            /\ left' = Asked(todo') /\ done' = {}
  BY DEF Refresh, Patching, Idle, ghosts, IInv, TypeOK
<1>2. PushCalls' /\ PushRequests' /\ PushReply'
  BY <1>1 DEF PushInv, PushCalls, PushRequests, PushReply, Asked, PushOps
<1>3. PushAgrees'
  BY <1>1 DEF PushInv, PushAgrees, Agree, Waiting, Served, Mentions
<1> QED
  BY <1>2, <1>3 DEF PushInv

LEMMA PatchedPush == IInv /\ PushInv /\ Patched => PushInv'
<1> SUFFICES ASSUME IInv, PushInv, Patched, mode = "push" PROVE PushInv'
  BY DEF Patched, PushInv
<1>1. PICK s \in left :
          /\ left' = left \ {s}
          /\ \/ /\ done' = done \cup {s}
                /\ stray' = IF ~Answerable(s) THEN stray \cup {s}
                            ELSE IF todo[s] = None /\ ~Full(call.ids) THEN stray
                            ELSE stray \ {s}
             \/ stray' = stray \cup {s} /\ done' = done
  BY DEF Patched
<1>2. /\ phase = "patching" /\ UNCHANGED <<mode, local, cache, bare, calls, phase, call, todo, reply>>
      /\ s \in Spools /\ todo[s] \in Gates \cup {None}
      /\ call \in Call
  BY DEF Patched, IInv, TypeOK, Registers
<1>3. PushCalls' /\ PushReply'
  BY <1>2 DEF PushInv, PushCalls, PushReply
<1>4. PushRequests'
  <2>1. s \in Asked(todo)
    BY <1>2 DEF Asked
  <2>2. \A t \in Spools : Answerable(t)' <=> Answerable(t)
    BY <1>2 DEF Answerable
  <2>3. done' \subseteq Asked(todo) /\ Asked(todo) \subseteq left' \cup done' \cup stray'
    BY <1>1, <1>2, <2>1 DEF PushInv, PushRequests
  <2>4. ASSUME NEW t \in done' \ stray' PROVE Answerable(t)'
    <3>1. t \in Spools
      BY <1>1, <1>2 DEF IInv, TypeOK
    <3>2. CASE t = s
      BY <3>1, <3>2, <2>2, <1>1 DEF PushInv, PushRequests
    <3>3. CASE t # s
      BY <3>1, <3>3, <2>2, <1>1, <1>2 DEF PushInv, PushRequests
    <3> QED
      BY <3>2, <3>3
  <2>5. call.op = "push" => todo = PushUpdates(call.ids)'
    BY <1>2 DEF PushInv, PushRequests, PushUpdates, Full
  <2> QED
    BY <1>2, <2>3, <2>4, <2>5 DEF PushRequests, Asked
<1>5. PushAgrees'
  <2> SUFFICES ASSUME NEW t \in Spools \ stray', NEW g \in Gates
               PROVE  Agree(t, g)' \/ Waiting(t, g)' \/ Served(t, g)'
    BY DEF PushAgrees
  <2>1. CASE t \notin stray
    BY <2>1, <1>2 DEF PushInv, PushAgrees, Agree, Waiting, Served
  <2>2. CASE t \in stray
    <3>1. /\ t = s /\ Answerable(s) /\ (todo[s] # None \/ Full(call.ids))
      BY <2>2, <1>1
    <3>2. call.op = "push" /\ todo = PushUpdates(call.ids)
      BY <3>1, <1>2 DEF Answerable, PushInv, PushRequests
    <3>3. todo[s] # None => \E h \in Gates : call.ids[h] = s
      BY <3>2, <1>2 DEF PushUpdates
    <3> QED
      BY <3>1, <3>2, <3>3, <1>2 DEF Served, Mentions, Full
  <2> QED
    BY <2>1, <2>2
<1> QED
  BY <1>3, <1>4, <1>5 DEF PushInv


(* Where a push has left the spools that are not stray, once all of its    *)
(* requests are answered.                                                  *)
LEMMA PushNoted ==
  ASSUME IInv, PushInv, mode = "push", phase = "patching", call.op = "push", left = {},
         NEW t \in Spools \ stray, NEW g \in Gates
  PROVE  /\ call.ids[g] = t => Noted[t] = g /\ Answerable(t)
         /\ call.ids[g] \notin {t, Keep} => Noted[t] # g
         /\ ~Mentions(call, t, g) => (Noted[t] = g <=> cache[t] = g)
<1>1. /\ todo = PushUpdates(call.ids) /\ done \subseteq Asked(todo)
      /\ t \in Asked(todo) => t \in done /\ Answerable(t)
      /\ Unique(call.ids)
  BY DEF PushInv, PushRequests, IInv, CallsOK, CallOK
<1>2. t \in Asked(todo) <=> todo[t] # Keep
  BY DEF Asked
<1>3. Noted[t] = IF todo[t] # Keep THEN todo[t] ELSE cache[t]
  BY <1>1, <1>2 DEF Noted
<1>4. CASE \E h \in Gates : call.ids[h] = t
  <2>1. PICK h \in Gates : call.ids[h] = t
    BY <1>4
  <2>2. \A k \in Gates : call.ids[k] = t => k = h
    BY <2>1, <1>1 DEF Unique
  <2>3. todo[t] = h
    <3>1. todo[t] = CHOOSE k \in Gates : call.ids[k] = t
      BY <1>1, <1>4 DEF PushUpdates
    <3> QED
      BY <3>1, <2>1, <2>2
  <2>4. h # Keep
    OBVIOUS
  <2> QED
    BY <2>1, <2>2, <2>3, <2>4, <1>1, <1>2, <1>3 DEF Mentions
<1>5. CASE ~\E h \in Gates : call.ids[h] = t
  <2>1. todo[t] = IF cache[t] \in Gates /\ (Full(call.ids) \/ call.ids[cache[t]] # Keep)
                  THEN None ELSE Keep
    BY <1>1, <1>5 DEF PushUpdates
  <2>2. g # None
    OBVIOUS
  <2>3. call.ids[g] # Keep => Noted[t] # g
    BY <2>1, <2>2, <1>3
  <2>4. call.ids[g] = Keep => (Noted[t] = g <=> cache[t] = g)
    BY <2>1, <2>2, <1>3 DEF Full
  <2> QED
    BY <2>3, <2>4, <1>5 DEF Mentions
<1> QED
  BY <1>4, <1>5

LEMMA FinishPush == IInv /\ PushInv /\ Finish => PushInv'
<1> SUFFICES ASSUME IInv, PushInv, Finish, mode = "push" PROVE PushInv'
  BY DEF Finish, PushInv
<1> DEFINE r == Answer(cache', bare')
<1>1. /\ phase = "patching" /\ left = {} /\ cache' = Noted /\ call.op \in PushOps
      /\ bare' = bare \cup {s \in done : cache[s] = Absent}
      /\ UNCHANGED <<mode, local, calls, stray>>
      /\ done \subseteq Spools /\ call.ids \in Ids
  BY DEF Finish, ghosts, PushInv, PushCalls, PushOps, IInv, TypeOK, Call
<1>2. \/ phase' = "idle" /\ r = Nothing
      \/ phase' = "replying" /\ reply' = r /\ call' = call
  BY DEF Finish, Idle
<1>3. CASE call.op # "push"
  <2>1. done \subseteq stray
    BY <1>1, <1>3 DEF PushInv, PushRequests, Answerable
  <2>2. \A t \in Spools \ stray : cache'[t] = cache[t]
    BY <1>1, <2>1 DEF Noted
  <2>3. r = Nothing
    BY <1>1, <1>3 DEF Answer, DirectReply, Nothing, PushOps
  <2>4. phase' = "idle"
    <3>1. CASE r = Nothing
      BY <3>1 DEF Finish, Idle
    <3> QED
      BY <3>1, <2>3
  <2>5. PushAgrees'
    BY <1>1, <1>3, <2>2 DEF PushInv, PushAgrees, Agree, Waiting, Served, Mentions
  <2> QED
    BY <1>1, <2>4, <2>5 DEF PushInv, PushCalls, PushRequests, PushReply
<1>4. CASE call.op = "push"
  <2>1. r = [g \in Gates |-> IF call.ids[g] = Keep THEN Keep
                             ELSE Attributes(call.ids[g], cache', bare')]
    BY <1>4 DEF Answer
  <2>2. \A g \in Gates :
            /\ call.ids[g] = Keep => r[g] = Keep
            /\ call.ids[g] # Keep => r[g] \in {call.ids[g], None, Broken}
    BY <2>1 DEF Attributes
  <2>3. ASSUME NEW g \in Gates, NEW t \in Spools \ stray
        PROVE  /\ call.ids[g] = t => cache'[t] = g /\ r[g] = t
               /\ call.ids[g] \notin {t, Keep} => cache'[t] # g
               /\ ~Mentions(call, t, g) => (cache'[t] = g <=> cache[t] = g)
    <3>1. /\ call.ids[g] = t => cache'[t] = g /\ Answerable(t)
          /\ call.ids[g] \notin {t, Keep} => cache'[t] # g
          /\ ~Mentions(call, t, g) => (cache'[t] = g <=> cache[t] = g)
      BY <1>1, <1>4, PushNoted
    <3>2. ASSUME call.ids[g] = t PROVE r[g] = t
      <4>1. cache'[t] # Absent /\ t \notin bare' /\ t # None /\ t # Keep
        BY <3>1, <3>2, <1>1 DEF Answerable
      <4>2. Attributes(t, cache', bare') = t
        BY <4>1 DEF Attributes
      <4> QED
        BY <2>1, <3>2, <4>1, <4>2
    <3> QED
      BY <3>1, <3>2
  <2> HIDE DEF r
  <2>4. PushReply' /\ PushCalls' /\ PushRequests'
    <3>1. CASE phase' = "idle"
      BY <3>1, <1>1 DEF PushInv, PushCalls, PushRequests, PushReply
    <3>2. CASE phase' = "replying" /\ reply' = r /\ call' = call
      <4>1. PushReply'
        BY <3>2, <1>1, <1>4, <2>2, <2>3 DEF PushReply
      <4> QED
        BY <3>2, <4>1, <1>1 DEF PushInv, PushCalls, PushRequests
    <3> QED
      BY <3>1, <3>2, <1>2
  <2>5. PushAgrees'
    <3> SUFFICES ASSUME NEW t \in Spools \ stray, NEW g \in Gates
                 PROVE  Agree(t, g)' \/ Waiting(t, g)' \/ Served(t, g)'
      BY <1>1 DEF PushAgrees
    <3>1. CASE Mentions(call, t, g)
      <4>1. r # Nothing
        <5>1. CASE call.ids[g] # Keep
          BY <5>1, <2>2, NothingFacts DEF Ids
        <5>2. CASE \E h \in Gates : call.ids[h] = t
          BY <5>2, <2>3, NothingFacts
        <5> QED
          BY <3>1, <5>1, <5>2 DEF Mentions
      <4> QED
        BY <3>1, <4>1, <1>2 DEF Served, Mentions
    <3>2. CASE ~Mentions(call, t, g)
      BY <3>2, <2>3, <1>1 DEF PushInv, PushAgrees, Agree, Waiting, Served
    <3> QED
      BY <3>1, <3>2
  <2> QED
    BY <2>4, <2>5 DEF PushInv
<1> QED
  BY <1>3, <1>4

LEMMA DeliverPush == IInv /\ PushInv /\ Deliver => PushInv'
<1> SUFFICES ASSUME IInv, PushInv, Deliver, mode = "push" PROVE PushInv'
  BY DEF Deliver, PushInv
<1>1. PICK on \in Reach(reply) :
          local' = Applied(reply, on) /\ stray' = stray \cup Missed(reply, on)
  BY DEF Deliver
<1>2. /\ phase = "replying" /\ phase' = "idle" /\ UNCHANGED <<mode, cache, calls>>
      /\ local \in [Gates -> Spools \cup {None}] /\ Unique(local)
      /\ reply \in [Gates -> Spools \cup {None, Keep, Broken}] /\ Unique(reply)
  BY DEF Deliver, Idle, IInv, TypeOK, Uniqueness
<1>3. on \subseteq Gates /\ \A g \in on : reply[g] # Broken
  BY <1>1 DEF Reach
<1> DEFINE m == [g \in Gates |-> IF g \in on THEN reply[g] ELSE Keep]
<1>4. m \in Ids /\ Unique(m) /\ local' = Assigned(local, m)
  BY <1>1, <1>2, <1>3 DEF Ids, Unique, Applied
<1>5. Unique(local') /\ local' \in [Gates -> Spools \cup {None}]
  BY <1>2, <1>4, AssignedUnique, AssignedType
<1>6. \A g \in Gates :
          /\ m[g] # Keep => local'[g] = m[g]
          /\ m[g] = Keep => local'[g] \in {local[g], None}
          /\ m[g] = Keep /\ (~\E h \in Gates : m[h] = local[g]) => local'[g] = local[g]
  BY <1>4 DEF Assigned
<1>7. PushCalls' /\ PushRequests' /\ PushReply'
  BY <1>2 DEF PushInv, PushCalls, PushRequests, PushReply
<1>8. PushAgrees'
  <2> SUFFICES ASSUME NEW t \in Spools \ stray', NEW g \in Gates, ~Waiting(t, g)
               PROVE  Agree(t, g)'
    BY <1>2 DEF PushAgrees, Waiting
  <2>1. /\ t \notin stray
        /\ \A h \in Gates \ on : reply[h] # Keep => reply[h] # t /\ local[h] # t
    BY <1>1 DEF Missed
  <2>2. \A h \in Gates :
            /\ call.ids[h] = Keep => reply[h] = Keep
            /\ call.ids[h] # Keep => reply[h] \in {call.ids[h], None, Broken}
            /\ call.ids[h] = t => cache[t] = h /\ reply[h] = t
            /\ call.ids[h] \notin {t, Keep} => cache[t] # h
    BY <1>2, <2>1 DEF PushInv, PushReply
  <2>3. t \notin {None, Keep, Broken}
    OBVIOUS
  <2>4. CASE \E h \in Gates : call.ids[h] = t
    <3>1. PICK h \in Gates : call.ids[h] = t
      BY <2>4
    <3>2. cache[t] = h /\ m[h] = t
      BY <3>1, <2>1, <2>2, <2>3
    <3>3. local'[h] = t
      BY <3>2, <2>3, <1>6
    <3>4. local'[g] = t => g = h
      BY <3>3, <1>5 DEF Unique
    <3> QED
      BY <3>2, <3>3, <3>4, <1>2 DEF Agree
  <2>5. CASE call.ids[g] # Keep /\ ~\E h \in Gates : call.ids[h] = t
    <3>1. cache[t] # g /\ reply[g] # t
      BY <2>5, <2>2, <2>3
    <3>2. local'[g] # t
      <4>1. CASE g \in on /\ reply[g] # Keep
        BY <4>1, <3>1, <1>6
      <4>2. CASE g \notin on /\ reply[g] # Keep
        BY <4>2, <2>1, <2>3, <1>6
      <4>3. reply[g] # Keep
        <5>1. call.ids[g] # Keep /\ call.ids[g] \in Spools \cup {None, Keep}
          BY <2>5 DEF IInv, TypeOK, Call, Ids
        <5> QED
          BY <5>1, <2>2
      <4> QED
        BY <4>1, <4>2, <4>3
    <3> QED
      BY <3>1, <3>2, <1>2 DEF Agree
  <2>6. CASE ~Mentions(call, t, g)
    <3>1. call.op = "push" /\ call.ids[g] = Keep /\ \A h \in Gates : call.ids[h] # t
      BY <2>6, <1>2 DEF Mentions, PushInv, PushReply
    <3>2. m[g] = Keep /\ \A h \in Gates : m[h] # t
      BY <3>1, <2>2, <2>3
    <3>3. local'[g] = t <=> local[g] = t
      BY <3>2, <2>3, <1>6
    <3>4. Agree(t, g)
      BY <2>1, <2>6 DEF PushInv, PushAgrees, Served
    <3> QED
      BY <3>3, <3>4, <1>2 DEF Agree
  <2> QED
    BY <2>4, <2>5, <2>6 DEF Mentions
<1> QED
  BY <1>7, <1>8 DEF PushInv

LEMMA InitiallyPush == Init => PushInv
<1> SUFFICES ASSUME Init, mode = "push" PROVE PushInv
  BY DEF PushInv
<1>1. local \in [Gates -> Spools \cup {None}] /\ Unique(local) /\ phase = "idle"
  BY DEF Init
<1>2. PushCalls
  BY <1>1, PushSynced DEF Init, PushCalls, Ids
<1>3. ASSUME NEW s \in Spools \ stray, NEW g \in Gates
      PROVE  Agree(s, g)
  <2>1. cache[s] = db[s]
    BY DEF Init
  <2>2. db[s] = IF \E h \in Gates : local[h] = s
                THEN CHOOSE h \in Gates : local[h] = s ELSE None
    BY DEF Init
  <2>3. g # None
    OBVIOUS
  <2> QED
    BY <1>1, <2>1, <2>2, <2>3 DEF Agree, Unique
<1> QED
  BY <1>1, <1>2, <1>3 DEF PushInv, PushRequests, PushReply, PushAgrees

LEMMA PushStep == IInv /\ PushInv /\ [Next]_vars => PushInv'
<1>1. IInv /\ PushInv /\ Fetch => PushInv'
  BY DEF Fetch, PushInv, PushCalls, PushOps
<1>2. PushInv /\ UNCHANGED vars => PushInv'
  BY DEF vars, PushInv, PushCalls, PushRequests, PushReply, PushAgrees, Agree, Waiting, Served,
         Answerable, Asked, PushUpdates, Full
<1> QED
  BY <1>1, <1>2, AssignPush, EmptyPush, SyncPush, DirectPush, ForeignPush, TakePush,
     RefreshPush, PatchedPush, FinishPush, DeliverPush DEF Next

THEOREM PushInvariance == Spec => []PushInv
  BY InitiallyPush, PushStep, Invariance, PTL DEF Spec

(* In push mode, once every call is answered, gate map and cache agree on  *)
(* each spool whose last request was answered well and in full.            *)
THEOREM PushCorrect == Spec => []PushSettled
<1>1. PushInv => PushSettled
  BY DEF PushSettled, Quiet, PushInv, PushAgrees, Agree, Waiting, Served
<1> QED
  BY <1>1, PushInvariance, PTL

(* Gate map and cache settle in agreement, in either mode.                 *)
THEOREM MapsCorrect == Spec => []SettledMapsAgree
  BY PushCorrect, PullCorrect, PTL DEF SettledMapsAgree
===============================================================================

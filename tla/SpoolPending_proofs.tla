-------------------------- MODULE SpoolPending_proofs --------------------------
(***************************************************************************)
(* Proofs about SpoolPending for any gates, tags, spools and readers, any  *)
(* number of lookups in flight, and any number of things users do.         *)
(***************************************************************************)
EXTENDS SpoolPending, SequenceTheorems, TLAPS

USE DEF None

(* The last shared lookup in flight is for tag t.                          *)
LastAsked(t) ==
    \E i \in DOMAIN requests :
        /\ requests[i] = [tag |-> t, gate |-> None]
        /\ \A j \in DOMAIN requests : j > i => requests[j].gate # None

(* A staged tag is the last one looked up, if lookups are in flight at all.*)
PairInv ==
    /\ Paired
    /\ tag # None /\ Asked => LastAsked(tag)
    /\ mode = "pull" => spool = None
    /\ mode = "off" => ~Asked

(* What is pending will time out, and so will the guard.                   *)
Timed == (spool # None \/ tag # None => timer) /\ (lookup => guard)

(* The readers, as they are or as a scan found them.                       *)
Found == IF op.kind = "scan" THEN op.active ELSE active
ReadersInv ==
    /\ ReadersFollow
    /\ op.kind = "scan" => job # "printing"
    /\ ~enabled => op = Free /\ job = "off"
    /\ lookup /\ ~woken => Found = All(FALSE)
    /\ lookup /\ woken => Found = All(TRUE)

(* A tag just loaded is in the field of the reader that has reported it.   *)
LoadedInv ==
    /\ JustLoadedIgnored
    /\ \A t \in loaded : Seen(t)
    /\ \A q, r \in Readers : at[q] # None /\ at[q] = at[r] => q = r

-----------------------------------------------------------------------------
LEMMA AllTypes ==
  /\ All(TRUE) \in [Readers -> BOOLEAN] /\ All(FALSE) \in [Readers -> BOOLEAN]
  /\ All(None) \in [Readers -> Tags \cup {None}]
  BY DEF All

LEMMA InitType == Init => TypeOK
<1> SUFFICES ASSUME Init PROVE TypeOK
  OBVIOUS
<1>1. requests \in Seq([tag : Tags, gate : Gates \cup {None}])
  BY DEF Init
<1>2. op \in Operation
  BY DEF Init, Operation
<1> QED
  BY <1>1, <1>2, AllTypes, SpoolPendingAssumption DEF Init, TypeOK

(* Guard and Release, in a step whose other variables are known.           *)
LEMMA GuardType ==
  ASSUME TypeOK, NEW r \in Readers, Guard(r)
  PROVE  /\ active' \in [Readers -> BOOLEAN] /\ lookup' \in BOOLEAN /\ guard' \in BOOLEAN
         /\ woken' \in BOOLEAN /\ stranded' \in BOOLEAN
<1>1. CASE lookup
  BY <1>1 DEF TypeOK, Guard
<1>2. CASE ~lookup
  BY <1>2, AllTypes DEF Guard
<1> QED
  BY <1>1, <1>2

LEMMA ReleaseType ==
  ASSUME TypeOK, Release
  PROVE  /\ active' \in [Readers -> BOOLEAN] /\ lookup' \in BOOLEAN /\ guard' \in BOOLEAN
         /\ woken' \in BOOLEAN /\ stranded' \in BOOLEAN
  BY AllTypes DEF TypeOK, Release

MapType ==
    /\ gateSpool \in [Gates -> Spools \cup {None}]
    /\ gateTag \in [Gates -> Tags \cup {None}]

LEMMA ApplyTagType ==
  ASSUME TypeOK, NEW g \in Gates, NEW t \in Tags, ApplyTag(g, t)
  PROVE  MapType'
  BY DEF TypeOK, MapType, ApplyTag, map

LEMMA ApplyType ==
  ASSUME TypeOK, NEW g \in Gates, NEW s \in Spools \cup {None}, NEW t \in Tags \cup {None},
         Apply(g, s, t)
  PROVE  MapType'
<1>1. CASE s # None /\ mode # "pull"
  <2>1. gateSpool' = Assigned(g, s) /\ s \in Spools
    BY <1>1 DEF Apply
  <2>2. gateSpool' \in [Gates -> Spools \cup {None}]
    BY <2>1 DEF Assigned, TypeOK
  <2>3. gateTag' \in [Gates -> Tags \cup {None}]
    BY <1>1 DEF Apply, TypeOK
  <2> QED
    BY <2>2, <2>3 DEF MapType
<1>2. CASE ~(s # None /\ mode # "pull") /\ t # None
  BY <1>2, ApplyTagType DEF Apply
<1>3. CASE ~(s # None /\ mode # "pull") /\ t = None
  <2>1. UNCHANGED <<gateSpool, gateTag>>
    BY <1>3 DEF Apply, map
  <2> QED
    BY <2>1 DEF TypeOK, MapType
<1> QED
  BY <1>1, <1>2, <1>3

LEMMA AppendType ==
  ASSUME TypeOK, NEW t \in Tags, NEW g \in Gates \cup {None},
         requests' = Append(requests, [tag |-> t, gate |-> g])
  PROVE  requests' \in Seq([tag : Tags, gate : Gates \cup {None}])
  BY DEF TypeOK

LEMMA TailType ==
  ASSUME TypeOK, requests # <<>>, requests' = Tail(requests)
  PROVE  requests' \in Seq([tag : Tags, gate : Gates \cup {None}])
  BY DEF TypeOK

LEMMA OwnReadType ==
  ASSUME TypeOK, NEW g \in Gates, OwnRead(g)
  PROVE  MapType' /\ requests' \in Seq([tag : Tags, gate : Gates \cup {None}])
<1> PICK t \in Tags :
        /\ IF mode = "pull" THEN gateTag' = [gateTag EXCEPT ![g] = t] /\ UNCHANGED gateSpool
           ELSE ApplyTag(g, t)
        /\ IF mode = "off" THEN UNCHANGED requests
           ELSE /\ Len(requests) < MaxRequests
                /\ requests' = Append(requests, [tag |-> t, gate |-> g])
  BY DEF OwnRead
<1>1. MapType'
  BY ApplyTagType DEF TypeOK, MapType
<1>2. requests' \in Seq([tag : Tags, gate : Gates \cup {None}])
  BY AppendType DEF TypeOK
<1> QED
  BY <1>1, <1>2

LEMMA ConsumedType ==
  ASSUME TypeOK, NEW t \in Tags \cup {None}, Consumed(t)
  PROVE  loaded' \subseteq Tags
  BY DEF TypeOK, Consumed

LEMMA ClearType ==
  ASSUME Clear
  PROVE  /\ spool' \in Spools \cup {None} /\ tag' \in Tags \cup {None}
         /\ timer' \in BOOLEAN /\ odd' \in BOOLEAN
  BY DEF Clear

LEMMA SpendType ==
  ASSUME TypeOK, Spend
  PROVE  budget' \in Nat
  BY DEF TypeOK, Spend

LEMMA OpFacts ==
  ASSUME op \in Operation
  PROVE  /\ op.kind \in {"none", "move", "preload", "scan"}
         /\ op.kind = "scan" => op.gate \in Gates /\ op.active \in [Readers -> BOOLEAN]
         /\ op.kind = "preload" => op.gate \in Gates /\ op.spool \in Spools \cup {None}
                                   /\ op.tag \in Tags \cup {None}
         /\ Free.kind = "none"
  BY DEF Operation, Free

-----------------------------------------------------------------------------
(* Type correctness: one step per action.                                  *)

LEMMA TypeStep == TypeOK /\ [Next]_vars => TypeOK'
<1> SUFFICES ASSUME TypeOK, [Next]_vars PROVE TypeOK'
  OBVIOUS
<1> USE DEF machine, readers, pending, map, AllowReread
<1> USE AllTypes, ClearType, SpendType
<1>0. op \in Operation /\ Free \in Operation /\ [kind |-> "move"] \in Operation
  BY DEF TypeOK, Operation
<1>1. ASSUME NEW r \in Readers, Present(r) PROVE TypeOK'
  BY <1>1 DEF TypeOK, Present
<1>2. ASSUME NEW r \in Readers, Poll(r) PROVE TypeOK'
  <2>1. requests' \in Seq([tag : Tags, gate : Gates \cup {None}])
    BY <1>2, AppendType DEF TypeOK, Poll
  <2>2. /\ active' \in [Readers -> BOOLEAN] /\ lookup' \in BOOLEAN /\ guard' \in BOOLEAN
        /\ woken' \in BOOLEAN /\ stranded' \in BOOLEAN
    BY <1>2, GuardType DEF TypeOK, Poll
  <2>3. at[r] \in Tags
    BY <1>2 DEF TypeOK, Poll
  <2>4. /\ held' \in [Readers -> Tags \cup {None}]
        /\ tag' \in Tags \cup {None} /\ timer' \in BOOLEAN /\ odd' \in BOOLEAN
    BY <1>2, <2>3 DEF TypeOK, Poll
  <2> QED
    BY <1>2, <2>1, <2>2, <2>4 DEF TypeOK, Poll
<1>3. ASSUME NEW r \in Readers, PollNothing(r) PROVE TypeOK'
  BY <1>3 DEF TypeOK, PollNothing
<1>4. CASE LookupTimesOut
  <2>1. /\ active' \in [Readers -> BOOLEAN] /\ lookup' \in BOOLEAN /\ guard' \in BOOLEAN
        /\ woken' \in BOOLEAN /\ stranded' \in BOOLEAN
    BY <1>4, ReleaseType DEF TypeOK, LookupTimesOut
  <2> QED
    BY <1>4, <2>1 DEF TypeOK, LookupTimesOut
<1>5. CASE PendingTimesOut
  BY <1>5 DEF TypeOK, PendingTimesOut
<1>6. CASE AnswerSpool \/ AnswerUnknown \/ AnswerFailed \/ ManualNext
  <2>1. Release
    BY <1>6 DEF AnswerSpool, AnswerUnknown, AnswerFailed, ManualNext
  <2>2. requests' \in Seq([tag : Tags, gate : Gates \cup {None}])
    BY <1>6, TailType DEF TypeOK, AnswerSpool, AnswerUnknown, AnswerFailed, ManualNext, Answering
  <2>3. /\ spool' \in Spools \cup {None} /\ tag' \in Tags \cup {None} /\ timer' \in BOOLEAN
        /\ odd' \in BOOLEAN
    <3>1. CASE AnswerSpool
      <4> PICK t \in Known : IF mode = "pull" THEN UNCHANGED <<spool, timer, odd>>
                              ELSE spool' = SpoolOf[t] /\ timer' = TRUE /\ odd' = FALSE
        BY <3>1 DEF AnswerSpool
      <4>1. SpoolOf[t] \in Spools
        BY SpoolPendingAssumption
      <4> QED
        BY <3>1, <4>1 DEF TypeOK, AnswerSpool
    <3>2. CASE AnswerUnknown \/ AnswerFailed
      BY <3>2 DEF TypeOK, AnswerUnknown, AnswerFailed, Cancel
    <3>3. CASE ManualNext
      BY <3>3 DEF TypeOK, ManualNext, Cancel
    <3> QED
      BY <1>6, <3>1, <3>2, <3>3
  <2>4. held' \in [Readers -> Tags \cup {None}] /\ loaded' \subseteq Tags /\ budget' \in Nat
    BY <1>6 DEF TypeOK, AnswerSpool, AnswerUnknown, AnswerFailed, ManualNext
  <2>5. UNCHANGED <<mode, enabled, job, op, at, gateSpool, gateTag>>
    BY <1>6 DEF AnswerSpool, AnswerUnknown, AnswerFailed, ManualNext
  <2> QED
    BY <2>1, <2>2, <2>3, <2>4, <2>5, ReleaseType DEF TypeOK
<1>7. CASE AnswerGate
  <2> PICK t \in Tags, g \in Gates :
          /\ Answering(t, g)
          /\ \/ t \in Known /\ mode # "pull" /\ gateSpool' = Assigned(g, SpoolOf[t])
             \/ UNCHANGED gateSpool
    BY <1>7 DEF AnswerGate
  <2>1. requests' \in Seq([tag : Tags, gate : Gates \cup {None}])
    BY TailType DEF Answering
  <2>2. gateSpool' \in [Gates -> Spools \cup {None}]
    BY SpoolPendingAssumption DEF TypeOK, Assigned
  <2> QED
    BY <1>7, <2>1, <2>2 DEF TypeOK, AnswerGate
<1>8. CASE NoAnswer
  BY <1>8, TailType DEF TypeOK, NoAnswer
<1>9. ASSUME NEW g \in Gates, Preload(g) PROVE TypeOK'
  <2>1. op' \in Operation
    BY <1>9 DEF TypeOK, Preload, Grab, Operation
  <2> QED
    BY <1>9, <2>1 DEF TypeOK, Preload, Grab
<1>10. ASSUME NEW g \in Gates, Insert(g) PROVE TypeOK'
  <2>1. MapType' /\ loaded' \subseteq Tags
    BY <1>10, ApplyType, ConsumedType DEF TypeOK, Insert
  <2> QED
    BY <1>10, <2>1 DEF TypeOK, MapType, Insert
<1>11. ASSUME NEW g \in Gates, Scan(g) PROVE TypeOK'
  <2>1. op' \in Operation
    BY <1>11 DEF TypeOK, Scan, Operation
  <2> QED
    BY <1>11, <2>1 DEF TypeOK, Scan
<1>12. CASE PreloadEnds
  <2>1. MapType' /\ loaded' \subseteq Tags
        /\ requests' \in Seq([tag : Tags, gate : Gates \cup {None}])
    BY <1>0, <1>12, OpFacts, ApplyType, OwnReadType, ConsumedType
       DEF TypeOK, PreloadEnds, MapType
  <2>2. spool' \in Spools \cup {None} /\ tag' \in Tags \cup {None} /\ timer' \in BOOLEAN
        /\ odd' \in BOOLEAN
    BY <1>12 DEF TypeOK, PreloadEnds
  <2> QED
    BY <1>0, <1>12, <2>1, <2>2 DEF TypeOK, MapType, PreloadEnds
<1>13. CASE Move \/ MoveEnds
  BY <1>0, <1>13 DEF TypeOK, Move, MoveEnds
<1>14. CASE ScanEnds
  <2>1. MapType' /\ requests' \in Seq([tag : Tags, gate : Gates \cup {None}])
    BY <1>0, <1>14, OpFacts, OwnReadType DEF TypeOK, ScanEnds, MapType
  <2>2. active' \in [Readers -> BOOLEAN] /\ stranded' \in BOOLEAN
    BY <1>0, <1>14, OpFacts DEF TypeOK, ScanEnds
  <2> QED
    BY <1>0, <1>14, <2>1, <2>2 DEF TypeOK, MapType, ScanEnds
<1>15. CASE PreStart \/ PrintStarts
  BY <1>15 DEF TypeOK, PreStart, PrintStarts
<1>16. CASE Stop \/ Disable
  BY <1>16 DEF TypeOK, Stop, Disable, Wake
<1>17. CASE Enable
  BY <1>17 DEF TypeOK, Enable
<1>18. CASE UNCHANGED vars
  BY <1>18 DEF TypeOK, vars
<1> QED
  BY <1>1, <1>2, <1>3, <1>4, <1>5, <1>6, <1>7, <1>8, <1>9, <1>10, <1>11, <1>12, <1>13,
     <1>14, <1>15, <1>16, <1>17, <1>18 DEF Next

(* Every variable keeps its type: no answer leaves a spool pending, or an  *)
(* operation holding one, that is not a spool.                             *)
THEOREM TypeCorrect == Spec => []TypeOK
  BY InitType, TypeStep, PTL DEF Spec

-----------------------------------------------------------------------------
(* Pending spools and tags.                                                *)

(* What the lookups in flight say after one is asked, or the first is done.*)
LEMMA AskShared ==
  ASSUME TypeOK, NEW t \in Tags, requests' = Append(requests, [tag |-> t, gate |-> None])
  PROVE  LastAsked(t)' /\ Asked'
<1> DEFINE c == [tag |-> t, gate |-> None]
           n == Len(requests)
<1>1. /\ DOMAIN requests = 1..n /\ n \in Nat /\ DOMAIN requests' = 1..(n + 1)
      /\ requests'[n + 1] = c
  BY DEF TypeOK
<1>2. n + 1 \in DOMAIN requests' /\ \A j \in DOMAIN requests' : ~(j > n + 1)
  BY <1>1
<1>3. c.gate = None
  OBVIOUS
<1> QED
  BY <1>1, <1>2, <1>3 DEF LastAsked, Asked

LEMMA AskGate ==
  ASSUME TypeOK, NEW t \in Tags, NEW g \in Gates,
         requests' = Append(requests, [tag |-> t, gate |-> g])
  PROVE  Asked' = Asked /\ \A u \in Tags : LastAsked(u) => LastAsked(u)'
<1> DEFINE c == [tag |-> t, gate |-> g]
           n == Len(requests)
<1>1. /\ DOMAIN requests = 1..n /\ n \in Nat /\ DOMAIN requests' = 1..(n + 1)
      /\ requests'[n + 1] = c
      /\ \A i \in 1..n : requests'[i] = requests[i]
  BY DEF TypeOK
<1>2. c.gate # None
  BY SpoolPendingAssumption
<1>3. \A j \in 1..(n + 1) : j \in 1..n \/ j = n + 1
  BY <1>1
<1>4. Asked' = Asked
  BY <1>1, <1>2, <1>3 DEF Asked
<1>5. ASSUME NEW u \in Tags, LastAsked(u) PROVE LastAsked(u)'
  <2> PICK i \in 1..n : /\ requests[i] = [tag |-> u, gate |-> None]
                         /\ \A j \in 1..n : j > i => requests[j].gate # None
    BY <1>1, <1>5 DEF LastAsked
  <2> QED
    BY <1>1, <1>2, <1>3 DEF LastAsked
<1> QED
  BY <1>4, <1>5

LEMMA Answered ==
  ASSUME TypeOK, requests # <<>>, requests' = Tail(requests)
  PROVE  /\ Asked' => Asked
         /\ Head(requests).gate = None => Asked
         /\ \A u \in Tags : LastAsked(u) /\ Asked' => LastAsked(u)'
         /\ \A u \in Tags : LastAsked(u) /\ ~Asked' => Head(requests) = [tag |-> u, gate |-> None]
<1> DEFINE n == Len(requests)
<1>1. /\ DOMAIN requests = 1..n /\ n \in Nat /\ n > 0 /\ DOMAIN requests' = 1..(n - 1)
      /\ Head(requests) = requests[1]
      /\ \A i \in 1..(n - 1) : requests'[i] = requests[i + 1]
  BY DEF TypeOK
<1>2. /\ \A i \in 1..(n - 1) : i + 1 \in 1..n
      /\ \A i \in 1..n : i = 1 \/ i - 1 \in 1..(n - 1)
      /\ 1 \in 1..n
  BY <1>1
<1>3. Asked' => Asked
  BY <1>1, <1>2 DEF Asked
<1>4. Head(requests).gate = None => Asked
  BY <1>1, <1>2 DEF Asked
<1>5. ASSUME NEW u \in Tags, LastAsked(u)
      PROVE  /\ Asked' => LastAsked(u)'
             /\ ~Asked' => Head(requests) = [tag |-> u, gate |-> None]
  <2> PICK i \in 1..n : /\ requests[i] = [tag |-> u, gate |-> None]
                         /\ \A j \in 1..n : j > i => requests[j].gate # None
    BY <1>1, <1>5 DEF LastAsked
  <2>1. CASE i = 1
    <3>1. \A k \in 1..(n - 1) : requests'[k].gate # None
      <4> SUFFICES ASSUME NEW k \in 1..(n - 1) PROVE requests'[k].gate # None
        OBVIOUS
      <4>1. k + 1 \in 1..n /\ k + 1 > i
        BY <1>1, <2>1
      <4> QED
        BY <1>1, <4>1
    <3> QED
      BY <1>1, <2>1, <3>1 DEF Asked
  <2>2. CASE i # 1
    <3> DEFINE k == i - 1
    <3>1. k \in 1..(n - 1) /\ requests'[k] = [tag |-> u, gate |-> None]
      BY <1>1, <1>2, <2>2
    <3>2. \A j \in 1..(n - 1) : j > k => requests'[j].gate # None
      <4> SUFFICES ASSUME NEW j \in 1..(n - 1), j > k PROVE requests'[j].gate # None
        OBVIOUS
      <4>1. j + 1 \in 1..n /\ j + 1 > i
        BY <1>1
      <4> QED
        BY <1>1, <4>1
    <3> HIDE DEF k
    <3>3. LastAsked(u)'
      <4>1. DOMAIN requests' = 1..(n - 1)
        BY <1>1
      <4> QED
        BY <3>1, <3>2, <4>1 DEF LastAsked
    <3>4. Asked'
      <4>1. requests'[k].gate = None /\ k \in DOMAIN requests'
        BY <1>1, <3>1
      <4> QED
        BY <4>1 DEF Asked
    <3> QED
      BY <3>3, <3>4
  <2> QED
    BY <2>1, <2>2
<1> QED
  BY <1>3, <1>4, <1>5

(* What is pending cleared, or nothing of it touched.                      *)
LEMMA PairCleared ==
  ASSUME PairInv, Clear, UNCHANGED mode, Asked' = Asked
  PROVE  PairInv'
  BY DEF PairInv, Paired, Clear

LEMMA PairKept ==
  ASSUME TypeOK, PairInv, UNCHANGED <<mode, pending>>, Asked' = Asked,
         \A u \in Tags : LastAsked(u) => LastAsked(u)'
  PROVE  PairInv'
  BY DEF PairInv, Paired, pending, TypeOK

LEMMA SameRequests ==
  ASSUME UNCHANGED requests
  PROVE  Asked' = Asked /\ \A u \in Tags : LastAsked(u) => LastAsked(u)'
  BY DEF Asked, LastAsked

(* What a gate's own reader asks is not asked for what is pending.         *)
LEMMA OwnReadAsks ==
  ASSUME TypeOK, NEW g \in Gates, OwnRead(g)
  PROVE  Asked' = Asked /\ \A u \in Tags : LastAsked(u) => LastAsked(u)'
<1> PICK t \in Tags :
        IF mode = "off" THEN UNCHANGED requests
        ELSE requests' = Append(requests, [tag |-> t, gate |-> g])
  BY DEF OwnRead
<1>1. CASE mode = "off"
  BY <1>1, SameRequests
<1>2. CASE mode # "off"
  BY <1>2, AskGate
<1> QED
  BY <1>1, <1>2

(* A shared lookup is answered, and spool' and tag are what the answer     *)
(* leaves.                                                                 *)
LEMMA PairAnswered ==
  ASSUME TypeOK, PairInv, requests # <<>>, requests' = Tail(requests),
         UNCHANGED <<mode, tag>>,
         mode = "pull" => spool' = None,
         tag # None /\ spool' # None /\ ~Asked' /\ ~odd' /\ Asked =>
             (Head(requests) = [tag |-> tag, gate |-> None] => tag \in Known /\ SpoolOf[tag] = spool'),
         ~Asked => UNCHANGED <<spool, odd>>
  PROVE  PairInv'
<1>1. /\ Asked' => Asked
      /\ \A u \in Tags : LastAsked(u) /\ Asked' => LastAsked(u)'
      /\ \A u \in Tags : LastAsked(u) /\ ~Asked' => Head(requests) = [tag |-> u, gate |-> None]
  BY Answered
<1>2. tag # None => tag \in Tags
  BY DEF TypeOK
<1>3. ASSUME tag' # None, Asked' PROVE LastAsked(tag)'
  <2> PICK t \in Tags : t = tag
    BY <1>2, <1>3
  <2>1. LastAsked(t)
    BY <1>1, <1>3 DEF PairInv, LastAsked
  <2>2. LastAsked(t)'
    BY <1>1, <1>3, <2>1
  <2> QED
    BY <2>2 DEF LastAsked
<1>4. Paired'
  <2> SUFFICES ASSUME spool' # None, tag # None, ~Asked', ~odd'
               PROVE  tag \in Known /\ SpoolOf[tag] = spool'
    BY DEF Paired
  <2>1. CASE Asked
    BY <1>1, <1>2, <2>1 DEF PairInv
  <2>2. CASE ~Asked
    BY <2>2 DEF PairInv, Paired
  <2> QED
    BY <2>1, <2>2
<1> QED
  BY <1>1, <1>3, <1>4 DEF PairInv

LEMMA PairStep == TypeOK /\ PairInv /\ [Next]_vars => PairInv'
<1> SUFFICES ASSUME TypeOK, PairInv, [Next]_vars PROVE PairInv'
  OBVIOUS
<1> USE DEF machine
<1>1. ASSUME NEW r \in Readers, Present(r) \/ PollNothing(r) PROVE PairInv'
  BY <1>1, PairKept, SameRequests DEF Present, PollNothing
<1>2. ASSUME NEW r \in Readers, Poll(r) PROVE PairInv'
  <2>1. at[r] \in Tags /\ tag' = at[r] /\ UNCHANGED <<mode, spool>>
    BY <1>2 DEF Poll, TypeOK
  <2>2. CASE mode = "off"
    <3>1. UNCHANGED requests /\ (spool # None => odd')
      BY <1>2, <2>2 DEF Poll
    <3> QED
      BY <2>1, <2>2, <3>1, SameRequests DEF PairInv, Paired
  <2>3. CASE mode # "off"
    <3> PICK t \in Tags : t = at[r]
      BY <2>1
    <3>1. requests' = Append(requests, [tag |-> t, gate |-> None])
      BY <1>2, <2>3 DEF Poll
    <3>2. LastAsked(t)' /\ Asked' /\ tag' = t
      BY <2>1, <3>1, AskShared
    <3>3. LastAsked(tag)'
      BY <3>2 DEF LastAsked
    <3> QED
      BY <2>1, <2>3, <3>2, <3>3 DEF PairInv, Paired
  <2> QED
    BY <2>2, <2>3
<1>3. CASE LookupTimesOut
  BY <1>3, PairKept, SameRequests DEF LookupTimesOut
<1>4. CASE PendingTimesOut
  BY <1>4, PairCleared, SameRequests DEF PendingTimesOut
<1>5. CASE AnswerSpool
  <2> PICK t \in Known :
        /\ Answering(t, None)
        /\ IF mode = "pull" THEN UNCHANGED <<spool, timer, odd>>
           ELSE spool' = SpoolOf[t] /\ timer' = TRUE /\ odd' = FALSE
    BY <1>5 DEF AnswerSpool
  <2>1. /\ requests # <<>> /\ requests' = Tail(requests) /\ UNCHANGED <<mode, tag>>
        /\ Head(requests) = [tag |-> t, gate |-> None]
    BY <1>5 DEF AnswerSpool, Answering
  <2>2. Head(requests).gate = None /\ Head(requests).tag = t
    BY <2>1
  <2>3. Asked
    BY <2>1, <2>2, Answered
  <2>4. Head(requests) = [tag |-> tag, gate |-> None] => tag = t
    BY <2>2
  <2> QED
    BY <2>1, <2>3, <2>4, PairAnswered DEF PairInv
<1>6. CASE AnswerUnknown \/ AnswerFailed
  <2>1. /\ requests # <<>> /\ requests' = Tail(requests) /\ UNCHANGED <<mode, tag>>
        /\ Head(requests).gate = None /\ spool' = None
    BY <1>6 DEF AnswerUnknown, AnswerFailed, Answering, Cancel
  <2>2. Asked
    BY <2>1, Answered
  <2> QED
    BY <2>1, <2>2, PairAnswered
<1>7. CASE AnswerGate
  <2>1. /\ requests # <<>> /\ requests' = Tail(requests) /\ UNCHANGED <<mode, tag, spool, odd>>
        /\ \E g \in Gates : Head(requests).gate = g
    BY <1>7 DEF AnswerGate, Answering, pending
  <2>2. Head(requests).gate # None
    BY <2>1, SpoolPendingAssumption
  <2>3. Head(requests) # [tag |-> tag, gate |-> None]
    BY <2>2
  <2>4. tag # None /\ Asked => Asked'
    BY <2>1, <2>3, Answered DEF PairInv, TypeOK
  <2> QED
    BY <2>1, <2>4, PairAnswered DEF PairInv
<1>8. CASE NoAnswer
  <2>1. /\ requests # <<>> /\ requests' = Tail(requests) /\ UNCHANGED <<mode, tag, spool>>
        /\ odd' = (odd \/ (Head(requests).gate = None /\ spool # None))
    BY <1>8 DEF NoAnswer
  <2>2. Head(requests).gate = None => Asked
    BY <2>1, Answered
  <2>3. Head(requests) = [tag |-> tag, gate |-> None] => Head(requests).gate = None
    OBVIOUS
  <2>4. ~Asked => odd' = odd
    BY <2>1, <2>2 DEF TypeOK
  <2>5. tag # None /\ spool' # None /\ ~Asked' /\ ~odd' /\ Asked =>
            ~(Head(requests) = [tag |-> tag, gate |-> None])
    BY <2>1, <2>3
  <2> QED
    BY <2>1, <2>4, <2>5, PairAnswered DEF PairInv
<1>9. CASE ManualNext
  <2>1. UNCHANGED <<mode, tag, requests>> /\ (spool' = None \/ (mode # "pull" /\ odd'))
    BY <1>9 DEF ManualNext, Cancel
  <2>2. tag # None => tag \in Tags
    BY DEF TypeOK
  <2> QED
    BY <2>1, <2>2, SameRequests DEF PairInv, Paired
<1>10. ASSUME NEW g \in Gates, Preload(g) \/ Insert(g) \/ Scan(g) PROVE PairInv'
  BY <1>10, PairCleared, SameRequests DEF Preload, Grab, Insert, Scan
<1>11. CASE PreloadEnds
  <2>1. op.gate \in Gates /\ UNCHANGED mode
    BY <1>11, OpFacts DEF PreloadEnds, TypeOK
  <2>2. \/ Clear /\ UNCHANGED requests
        \/ OwnRead(op.gate) /\ UNCHANGED pending
        \/ UNCHANGED <<pending, requests>>
    BY <1>11 DEF PreloadEnds
  <2> QED
    BY <2>1, <2>2, PairCleared, PairKept, SameRequests, OwnReadAsks
<1>12. CASE ScanEnds
  <2>1. op.gate \in Gates /\ UNCHANGED <<mode, pending>>
    BY <1>12, OpFacts DEF ScanEnds, TypeOK
  <2>2. OwnRead(op.gate) \/ UNCHANGED requests
    BY <1>12 DEF ScanEnds
  <2> QED
    BY <2>1, <2>2, PairKept, SameRequests, OwnReadAsks
<1>13. CASE Move \/ PrintStarts \/ Disable
  BY <1>13, PairCleared, SameRequests DEF Move, PrintStarts, Disable
<1>14. CASE MoveEnds \/ PreStart \/ Stop \/ UNCHANGED vars
  BY <1>14, PairKept, SameRequests DEF MoveEnds, PreStart, Stop, vars, pending
<1>15. CASE Enable
  BY <1>15, SameRequests DEF Enable, PairInv, Paired
<1> QED
  BY <1>1, <1>2, <1>3, <1>4, <1>5, <1>6, <1>7, <1>8, <1>9, <1>10, <1>11, <1>12, <1>13,
     <1>14, <1>15 DEF Next

LEMMA InitPair == Init => PairInv
<1> SUFFICES ASSUME Init PROVE PairInv
  OBVIOUS
<1>1. ~Asked
  BY DEF Init, Asked
<1> QED
  BY <1>1 DEF Init, PairInv, Paired

(* Spool and tag that are pending together belong together, once the       *)
(* lookups are answered: whatever comes late, the last answer is that of   *)
(* the last scan, and a tag that has no spool takes the earlier one away.  *)
THEOREM PairCorrect == Spec => []Paired
<1>1. Init => TypeOK /\ PairInv
  BY InitType, InitPair
<1>2. TypeOK /\ PairInv /\ [Next]_vars => (TypeOK /\ PairInv)'
  BY TypeStep, PairStep
<1>3. PairInv => Paired
  BY DEF PairInv
<1> QED
  BY <1>1, <1>2, <1>3, PTL DEF Spec

-----------------------------------------------------------------------------
(* The readers.                                                            *)

LEMMA ReadersKept ==
  ASSUME ReadersInv, UNCHANGED <<enabled, job, op, active, lookup, woken, stranded>>
  PROVE  ReadersInv'
  BY DEF ReadersInv, ReadersFollow, Found

LEMMA ReadersReleased ==
  ASSUME TypeOK, ReadersInv, Release, UNCHANGED <<enabled, job, op>>
  PROVE  ReadersInv'
<1>1. CASE lookup
  BY <1>1 DEF TypeOK, Release, ReadersInv, ReadersFollow, Found
<1>2. CASE ~lookup
  BY <1>2, ReadersKept DEF Release
<1> QED
  BY <1>1, <1>2

LEMMA ReadersStep == TypeOK /\ ReadersInv /\ [Next]_vars => ReadersInv'
<1> SUFFICES ASSUME TypeOK, ReadersInv, [Next]_vars PROVE ReadersInv'
  OBVIOUS
<1> USE DEF machine, readers
<1>0. /\ op.kind \in {"none", "move", "preload", "scan"} /\ Free.kind = "none"
      /\ woken \in BOOLEAN /\ stranded \in BOOLEAN /\ lookup \in BOOLEAN
  BY OpFacts DEF TypeOK
<1>1. ASSUME NEW r \in Readers, Present(r) \/ PollNothing(r) PROVE ReadersInv'
  BY <1>1, ReadersKept DEF Present, PollNothing
<1>2. ASSUME NEW r \in Readers, Poll(r) PROVE ReadersInv'
  <2>1. UNCHANGED <<enabled, job, op>> /\ op = Free /\ enabled
    BY <1>2 DEF Poll, Polled, Idle
  <2>2. CASE mode = "off" \/ lookup
    <3>1. UNCHANGED <<active, lookup, woken, stranded>>
      BY <1>2, <2>2 DEF Poll, Guard
    <3> QED
      BY <2>1, <3>1, ReadersKept
  <2>3. CASE mode # "off" /\ ~lookup
    <3>1. lookup' /\ active' = All(FALSE) /\ woken' = FALSE
      BY <1>2, <2>3 DEF Poll, Guard
    <3> QED
      BY <1>0, <2>1, <3>1 DEF ReadersInv, ReadersFollow, Found
  <2> QED
    BY <2>2, <2>3
<1>3. CASE LookupTimesOut
  <2>1. UNCHANGED <<enabled, job, op>>
        /\ (Release \/ UNCHANGED <<active, lookup, woken, stranded>>)
    BY <1>3 DEF LookupTimesOut
  <2> QED
    BY <2>1, ReadersReleased, ReadersKept
<1>4. CASE PendingTimesOut \/ AnswerGate \/ NoAnswer
  BY <1>4, ReadersKept DEF PendingTimesOut, AnswerGate, NoAnswer
<1>5. CASE AnswerSpool \/ AnswerUnknown \/ AnswerFailed \/ ManualNext
  BY <1>5, ReadersReleased DEF AnswerSpool, AnswerUnknown, AnswerFailed, ManualNext
<1>6. ASSUME NEW g \in Gates, Preload(g) PROVE ReadersInv'
  <2>1. op'.kind = "preload" /\ op = Free /\ enabled
        /\ UNCHANGED <<enabled, job, active, lookup, woken, stranded>>
    BY <1>6 DEF Preload, Grab, Idle
  <2> QED
    BY <1>0, <2>1 DEF ReadersInv, ReadersFollow, Found
<1>7. ASSUME NEW g \in Gates, Insert(g) PROVE ReadersInv'
  BY <1>7, ReadersKept DEF Insert
<1>8. ASSUME NEW g \in Gates, Scan(g) PROVE ReadersInv'
  <2>1. /\ op'.kind = "scan" /\ op'.active = active /\ op = Free /\ enabled /\ job = "off"
        /\ active' = All(FALSE) /\ UNCHANGED <<enabled, job, lookup, woken, stranded>>
    BY <1>8 DEF Scan, Idle
  <2> QED
    BY <1>0, <2>1 DEF ReadersInv, ReadersFollow, Found
<1>9. CASE PreloadEnds \/ MoveEnds
  <2>1. /\ op.kind # "scan" /\ op' = Free
        /\ UNCHANGED <<enabled, job, active, lookup, woken, stranded>>
    BY <1>9 DEF PreloadEnds, MoveEnds
  <2> QED
    BY <1>0, <2>1 DEF ReadersInv, ReadersFollow, Found
<1>10. CASE Move
  <2>1. /\ op'.kind = "move" /\ op = Free /\ enabled
        /\ UNCHANGED <<enabled, job, active, lookup, woken, stranded>>
    BY <1>10 DEF Move, Idle
  <2> QED
    BY <1>0, <2>1 DEF ReadersInv, ReadersFollow, Found
<1>11. CASE ScanEnds
  <2>1. /\ op.kind = "scan" /\ op' = Free /\ active' = op.active
        /\ stranded' = (stranded \/ (~lookup /\ op.active # All(TRUE)))
        /\ UNCHANGED <<enabled, job, lookup, woken>>
    BY <1>11 DEF ScanEnds
  <2>2. job # "printing" /\ Found = op.active
    BY <2>1 DEF ReadersInv, Found
  <2> QED
    BY <1>0, <2>1, <2>2 DEF ReadersInv, ReadersFollow, Found
<1>12. CASE PreStart
  BY <1>0, <1>12 DEF PreStart, ReadersInv, ReadersFollow, Found
<1>13. CASE PrintStarts
  BY <1>0, <1>13 DEF PrintStarts, Idle, ReadersInv, ReadersFollow, Found
<1>14. CASE Stop
  BY <1>0, <1>14 DEF Stop, Wake, ReadersInv, ReadersFollow, Found
<1>15. CASE Disable
  BY <1>0, <1>15 DEF Disable, Idle, Wake, ReadersInv, ReadersFollow, Found
<1>16. CASE Enable
  BY <1>0, <1>16 DEF Enable, ReadersInv, ReadersFollow, Found
<1>17. CASE UNCHANGED vars
  BY <1>17, ReadersKept DEF vars
<1> QED
  BY <1>1, <1>2, <1>3, <1>4, <1>5, <1>6, <1>7, <1>8, <1>9, <1>10, <1>11, <1>12, <1>13,
     <1>14, <1>15, <1>16, <1>17 DEF Next

LEMMA InitReaders == Init => ReadersInv
  BY DEF Init, ReadersInv, ReadersFollow, Found, Free

(* The readers of every unit are inactive in a print and while a lookup is *)
(* under way, and active otherwise, but for what is noted as exceptions.   *)
THEOREM ReadersCorrect == Spec => []ReadersFollow
<1>1. Init => TypeOK /\ ReadersInv
  BY InitType, InitReaders
<1>2. TypeOK /\ ReadersInv /\ [Next]_vars => (TypeOK /\ ReadersInv)'
  BY TypeStep, ReadersStep
<1>3. ReadersInv => ReadersFollow
  BY DEF ReadersInv
<1> QED
  BY <1>1, <1>2, <1>3, PTL DEF Spec

-----------------------------------------------------------------------------
(* Tags whose spool was just loaded.                                       *)

LEMMA LoadedKept ==
  ASSUME LoadedInv, UNCHANGED <<at, held, loaded>>, tag' \in {tag, None}
  PROVE  LoadedInv'
  BY DEF LoadedInv, JustLoadedIgnored, Seen

LEMMA LoadedForgotten ==
  ASSUME LoadedInv, UNCHANGED at, AllowReread
  PROVE  LoadedInv'
  BY DEF LoadedInv, JustLoadedIgnored, AllowReread

LEMMA LoadedConsumed ==
  ASSUME LoadedInv, NEW t, Consumed(t), UNCHANGED <<at, held>>, Clear
  PROVE  LoadedInv'
  BY DEF LoadedInv, JustLoadedIgnored, Consumed, Seen, Clear

LEMMA LoadedStep == TypeOK /\ LoadedInv /\ [Next]_vars => LoadedInv'
<1> SUFFICES ASSUME TypeOK, LoadedInv, [Next]_vars PROVE LoadedInv'
  OBVIOUS
<1> USE DEF machine, readers, pending
<1>1. ASSUME NEW r \in Readers, Present(r) PROVE LoadedInv'
  <2> PICK t \in Tags \cup {None} :
          /\ \A q \in Readers : t # None => at[q] # t
          /\ at' = [at EXCEPT ![r] = t]
    BY <1>1 DEF Present
  <2>1. loaded' = loaded \ {at[r]} /\ UNCHANGED <<tag, held>>
    BY <1>1 DEF Present
  <2>2. \A u \in loaded' : Seen(u)'
    BY <2>1 DEF LoadedInv, Seen, TypeOK
  <2>3. (\A q, p \in Readers : at[q] # None /\ at[q] = at[p] => q = p)'
    BY DEF LoadedInv, TypeOK
  <2> QED
    BY <2>1, <2>2, <2>3 DEF LoadedInv, JustLoadedIgnored
<1>2. ASSUME NEW r \in Readers, Poll(r) PROVE LoadedInv'
  <2>1. /\ at[r] \notin {None, held[r]} /\ held' = [held EXCEPT ![r] = at[r]] /\ tag' = at[r]
        /\ UNCHANGED <<at, loaded>>
    BY <1>2 DEF Poll
  <2>2. at[r] \notin loaded
    BY <2>1 DEF LoadedInv, Seen
  <2>3. \A u \in loaded' : Seen(u)'
    BY <2>1 DEF LoadedInv, Seen, TypeOK
  <2> QED
    BY <2>1, <2>2, <2>3 DEF LoadedInv, JustLoadedIgnored
<1>3. ASSUME NEW r \in Readers, PollNothing(r) PROVE LoadedInv'
  <2>1. /\ held' = [held EXCEPT ![r] = None] /\ loaded' = loaded \ {at[r]}
        /\ UNCHANGED <<at, tag>>
    BY <1>3 DEF PollNothing
  <2>2. \A u \in loaded' : Seen(u)'
    BY <2>1 DEF LoadedInv, Seen, TypeOK
  <2> QED
    BY <2>1, <2>2 DEF LoadedInv, JustLoadedIgnored
<1>4. CASE LookupTimesOut
  BY <1>4, LoadedKept DEF LookupTimesOut
<1>5. CASE PendingTimesOut
  BY <1>5, LoadedForgotten DEF PendingTimesOut
<1>6. CASE AnswerSpool \/ AnswerUnknown \/ AnswerGate \/ NoAnswer \/ ManualNext
  BY <1>6, LoadedKept DEF AnswerSpool, AnswerUnknown, AnswerGate, NoAnswer, ManualNext, Cancel
<1>7. CASE AnswerFailed
  BY <1>7, LoadedKept, LoadedForgotten DEF AnswerFailed, Cancel
<1>8. ASSUME NEW g \in Gates, Preload(g) \/ Scan(g) PROVE LoadedInv'
  BY <1>8, LoadedKept DEF Preload, Grab, Scan, Clear
<1>9. ASSUME NEW g \in Gates, Insert(g) PROVE LoadedInv'
  BY <1>9, LoadedConsumed DEF Insert
<1>10. CASE PreloadEnds
  BY <1>10, LoadedKept, LoadedConsumed DEF PreloadEnds
<1>11. CASE Move \/ MoveEnds \/ ScanEnds
  BY <1>11, LoadedKept DEF Move, MoveEnds, ScanEnds, Clear
<1>12. CASE PreStart \/ PrintStarts \/ Stop \/ Disable
  BY <1>12, LoadedKept DEF PreStart, PrintStarts, Stop, Disable, Clear
<1>13. CASE Enable
  BY <1>13, LoadedForgotten DEF Enable
<1>14. CASE UNCHANGED vars
  BY <1>14, LoadedKept DEF vars
<1> QED
  BY <1>1, <1>2, <1>3, <1>4, <1>5, <1>6, <1>7, <1>8, <1>9, <1>10, <1>11, <1>12, <1>13,
     <1>14 DEF Next

LEMMA InitLoaded == Init => LoadedInv
  BY DEF Init, LoadedInv, JustLoadedIgnored, All

(* The tag of a spool just loaded is not staged again while it stays in    *)
(* the field: the reader has it down as reported.                          *)
THEOREM LoadedCorrect == Spec => []JustLoadedIgnored
<1>1. Init => TypeOK /\ LoadedInv
  BY InitType, InitLoaded
<1>2. TypeOK /\ LoadedInv /\ [Next]_vars => (TypeOK /\ LoadedInv)'
  BY TypeStep, LoadedStep
<1>3. LoadedInv => JustLoadedIgnored
  BY DEF LoadedInv
<1> QED
  BY <1>1, <1>2, <1>3, PTL DEF Spec

-----------------------------------------------------------------------------
(* Timers.                                                                 *)

LEMMA TimedKept ==
    ASSUME Timed, UNCHANGED <<spool, tag, timer, lookup, guard>>
    PROVE  Timed'
BY DEF Timed

LEMMA TimedCleared ==
    ASSUME Timed, Clear, UNCHANGED <<lookup, guard>>
    PROVE  Timed'
BY DEF Timed, Clear

LEMMA TimedStep == TypeOK /\ Timed /\ [Next]_vars => Timed'
<1> SUFFICES ASSUME TypeOK, Timed, [Next]_vars PROVE Timed'
  OBVIOUS
<1> USE DEF machine, readers, pending
<1>1. ASSUME NEW r \in Readers, Present(r) PROVE Timed'
  BY <1>1, TimedKept DEF Present
<1>2. ASSUME NEW r \in Readers, Poll(r) PROVE Timed'
  BY <1>2 DEF Poll, Guard, Timed
<1>3. ASSUME NEW r \in Readers, PollNothing(r) PROVE Timed'
  BY <1>3, TimedKept DEF PollNothing
<1>4. CASE LookupTimesOut \/ PendingTimesOut
  BY <1>4 DEF LookupTimesOut, PendingTimesOut, Release, Clear, Timed
<1>5. CASE AnswerSpool \/ AnswerUnknown \/ AnswerFailed
  BY <1>5 DEF AnswerSpool, AnswerUnknown, AnswerFailed, Cancel, Release, Timed
<1>6. CASE AnswerGate \/ NoAnswer \/ ManualNext
  BY <1>6 DEF AnswerGate, NoAnswer, ManualNext, Cancel, Release, Timed
<1>7. ASSUME NEW g \in Gates, Preload(g) PROVE Timed'
  BY <1>7, TimedCleared DEF Preload, Grab
<1>8. ASSUME NEW g \in Gates, Insert(g) PROVE Timed'
  BY <1>8, TimedCleared DEF Insert
<1>9. ASSUME NEW g \in Gates, Scan(g) PROVE Timed'
  BY <1>9, TimedCleared DEF Scan
<1>10. CASE PreloadEnds
  BY <1>10, TimedCleared, TimedKept DEF PreloadEnds
<1>11. CASE Move
  BY <1>11, TimedCleared DEF Move
<1>12. CASE MoveEnds \/ ScanEnds
  BY <1>12, TimedKept DEF MoveEnds, ScanEnds
<1>13. CASE PreStart
  BY <1>13, TimedKept DEF PreStart
<1>14. CASE PrintStarts
  BY <1>14, TimedCleared DEF PrintStarts
<1>15. CASE Stop
  BY <1>15, TimedKept DEF Stop
<1>16. CASE Disable
  BY <1>16, TimedCleared DEF Disable
<1>17. CASE Enable
  BY <1>17 DEF Enable, Timed
<1>18. CASE UNCHANGED vars
  BY <1>18, TimedKept DEF vars
<1> QED
  BY <1>1, <1>2, <1>3, <1>4, <1>5, <1>6, <1>7, <1>8, <1>9, <1>10, <1>11, <1>12, <1>13,
     <1>14, <1>15, <1>16, <1>17, <1>18 DEF Next

(* Whatever is pending has its timer running, and so has the guard: the    *)
(* safety half of NothingHangs.                                            *)
THEOREM TimersCorrect == Spec => []Timed
<1>1. Init => TypeOK /\ Timed
  BY InitType DEF Init, Timed
<1>2. TypeOK /\ Timed /\ [Next]_vars => (TypeOK /\ Timed)'
  BY TypeStep, TimedStep
<1> QED
  BY <1>1, <1>2, PTL DEF Spec
===============================================================================

-------------------------- MODULE SpoolDrying_proofs --------------------------
(***************************************************************************)
(* Theorems about SpoolDrying, checked by TLAPS: what the state is, that   *)
(* motors turn as recorded and for a reason, that print assist belongs to  *)
(* one gate, and that heaters follow the cycle within their limit.         *)
(*                                                                         *)
(* The eSpooler's handlers call one another from the inside, so there is a *)
(* lemma for each operator, in the order they are built: what it leaves    *)
(* alone (Frame), and that motors stay accounted for (Good).               *)
(***************************************************************************)
EXTENDS SpoolDrying, TLAPS, FiniteSetTheorems, WellFoundedInduction

USE ESpoolerAssumption, SpoolDryingAssumption

(* The motors of s are as recorded, and each has a reason or is one of X,  *)
(* the gates whose motor is excused.                                       *)
Sound(s) ==
    \A g \in Gates : s.motor[g] # Off =>
        /\ s.op[g] = s.motor[g]
        /\ s.motor[g] \in Turns \X (Duties \ {0})

Reason(s, X) ==
    \A g \in Gates : s.motor[g] # Off => g \in s.timed \cup s.hand \cup s.orphaned \cup X

With(X, g) == X \cup {g}

Good(s, X) == s \in EState /\ Sound(s) /\ Reason(s, X)

\* The part of the state that says which gate is assisted, and how.
Mode(s, t) ==
    /\ t.trigger = s.trigger /\ t.assist = s.assist /\ t.armed = s.armed
    /\ t.pressed = s.pressed /\ t.count = s.count /\ t.watching = s.watching

(* What bursts leave alone: a gate not in use may start to turn, and that  *)
(* is all.                                                                 *)
Frame(s, t) ==
    /\ Mode(s, t)
    /\ t.orphaned \subseteq s.orphaned
    /\ \A g \in Gates : t.op[g] = s.op[g] \/ Running(t.op[g])

LEMMA GatesFacts == Gates \subseteq Int /\ None \notin Gates
BY DEF Gates, None

LEMMA DutyFacts == 0 \in Duties /\ BurstDuty \in Duties \ {0}
BY DEF Duties, BurstDuty

LEMMA ForgetFacts ==
    ASSUME NEW s \in EState, NEW g \in Gates
    PROVE  LET r == Forget(s, g)
           IN  /\ r \in EState /\ Mode(s, r)
               /\ r.op = s.op /\ r.motor = s.motor /\ r.timed = s.timed /\ r.spools = s.spools
               /\ r.hand = s.hand \ {g} /\ r.orphaned = s.orphaned \ {g}
BY DEF EState, Forget, Mode

LEMMA OpFacts ==
    ASSUME NEW s \in EState, NEW g \in Gates, NEW x \in Ops \X Duties
    PROVE  LET r == [s EXCEPT !.op[g] = x]
           IN  /\ r \in EState /\ Mode(s, r)
               /\ r.op[g] = x /\ \A h \in Gates \ {g} : r.op[h] = s.op[h]
               /\ r.motor = s.motor /\ r.timed = s.timed /\ r.spools = s.spools
               /\ r.hand = s.hand /\ r.orphaned = s.orphaned
BY DEF EState, Mode

LEMMA FrameTransitive ==
    ASSUME NEW s, NEW t, NEW u, Frame(s, t), Frame(t, u)
    PROVE  Frame(s, u)
BY DEF Frame, Mode

-----------------------------------------------------------------------------
(* Motors. *)

LEMMA UpdateFacts ==
    ASSUME NEW s \in EState, Sound(s), NEW g \in Gates, NEW o \in Ops, NEW v \in Duties
    PROVE  LET u == UpdatePwm(s, g, o, v)
           IN  /\ u \in EState
               /\ u = [s EXCEPT !.motor = u.motor]
               /\ \A h \in Gates \ {g} : u.motor[h] = s.motor[h]
               /\ v = 0 => u.motor[g] = Off
               /\ u.motor[g] \in {Off, <<o, v>>}
<1> DEFINE u == UpdatePwm(s, g, o, v)
<1>1. CASE s.op[g] = <<o, v>>
  <2>1. u = s
    BY <1>1 DEF UpdatePwm
  <2>2. s.motor[g] # Off => s.motor[g] = <<o, v>> /\ v # 0
    BY <1>1 DEF Sound
  <2>3. s = [s EXCEPT !.motor = s.motor]
    BY DEF EState
  <2> QED
    BY <2>1, <2>2, <2>3
<1>2. CASE s.op[g] # <<o, v>>
  <2>1. u = [s EXCEPT !.motor[g] = IF v = 0 THEN Off ELSE <<o, v>>]
    BY <1>2 DEF UpdatePwm
  <2> DEFINE m == IF v = 0 THEN Off ELSE <<o, v>>
  <2>2. m \in Ops \X Duties
    BY DutyFacts DEF Off, Ops
  <2>3. u = [s EXCEPT !.motor = [s.motor EXCEPT ![g] = m]]
    BY <2>1
  <2> HIDE DEF m, u
  <2>4. u.motor = [s.motor EXCEPT ![g] = m] /\ u = [s EXCEPT !.motor = u.motor]
    BY <2>3 DEF EState
  <2>5. u.motor \in [Gates -> Ops \X Duties] /\ u.motor[g] = m
    BY <2>2, <2>4 DEF EState
  <2>6. u \in EState
    BY <2>4, <2>5 DEF EState
  <2> QED
    BY <2>4, <2>5, <2>6 DEF m, u
<1> QED
  BY <1>1, <1>2

LEMMA StartFacts ==
    ASSUME NEW X, NEW s, Good(s, X), NEW g \in Gates, NEW o \in Turns, NEW v \in Duties
    PROVE  LET r == StartMotor(s, g, o, v)
           IN  /\ Good(r, With(X, g)) /\ Frame(s, r)
               /\ r.timed = s.timed /\ r.spools = s.spools
               /\ g \notin r.orphaned /\ r.hand \subseteq s.hand
<1> DEFINE stopped == IF Running(s.op[g]) THEN UpdatePwm(s, g, o, 0) ELSE s
           w == UpdatePwm(stopped, g, o, v)
           r == StartMotor(s, g, o, v)
<1>0. s \in EState /\ Sound(s) /\ Reason(s, X)
  BY DEF Good
<1>1. /\ stopped \in EState
      /\ stopped = [s EXCEPT !.motor = stopped.motor]
      /\ stopped.motor[g] = Off
      /\ \A h \in Gates \ {g} : stopped.motor[h] = s.motor[h]
  <2>1. CASE Running(s.op[g])
    <3>1. o \in Ops
      BY DEF Ops
    <3> QED
      BY <1>0, <2>1, <3>1, DutyFacts, UpdateFacts
  <2>2. CASE ~ Running(s.op[g])
    <3>1. s.motor[g] = Off
      BY <1>0, <2>2 DEF Sound, Running
    <3> QED
      BY <1>0, <2>2, <3>1 DEF EState
  <2> QED
    BY <2>1, <2>2
<1>2. Sound(stopped)
  BY <1>0, <1>1 DEF Sound, EState
<1>3. /\ w \in EState
      /\ w = [stopped EXCEPT !.motor = w.motor]
      /\ \A h \in Gates \ {g} : w.motor[h] = s.motor[h]
      /\ v = 0 => w.motor[g] = Off
      /\ w.motor[g] \in {Off, <<o, v>>}
  <2>1. o \in Ops
    BY DEF Ops
  <2> HIDE DEF stopped
  <2> QED
    BY <1>1, <1>2, <2>1, UpdateFacts
<1>4. CASE Turn(g)[o]
  <2>1. r = Forget([w EXCEPT !.op[g] = <<o, v>>], g)
    BY <1>4 DEF StartMotor
  <2>3. o \in Ops
    BY DEF Ops
  <2> HIDE DEF w, r, stopped
  <2> DEFINE z == [w EXCEPT !.op[g] = <<o, v>>]
  <2>4. r = Forget(z, g)
    BY <2>1 DEF r, z
  <2>5. /\ z \in EState /\ Mode(w, z)
        /\ z.op[g] = <<o, v>> /\ \A h \in Gates \ {g} : z.op[h] = w.op[h]
        /\ z.motor = w.motor /\ z.timed = w.timed /\ z.spools = w.spools
        /\ z.hand = w.hand /\ z.orphaned = w.orphaned
    <3>1. <<o, v>> \in Ops \X Duties
      BY <2>3
    <3> HIDE DEF z
    <3> QED
      BY <1>3, <3>1, OpFacts DEF z
  <2>6. /\ Mode(s, w) /\ w.op = s.op /\ w.timed = s.timed /\ w.spools = s.spools
        /\ w.hand = s.hand /\ w.orphaned = s.orphaned
    BY <1>0, <1>1, <1>3 DEF EState, Mode
  <2> HIDE DEF z
  <2>7. /\ r \in EState /\ Mode(z, r)
        /\ r.op = z.op /\ r.motor = z.motor /\ r.timed = z.timed /\ r.spools = z.spools
        /\ r.hand = z.hand \ {g} /\ r.orphaned = z.orphaned \ {g}
    BY <2>4, <2>5, ForgetFacts
  <2>8. Sound(r)
    BY <1>0, <1>3, <2>5, <2>6, <2>7 DEF Sound
  <2>9. Reason(r, With(X, g))
    BY <1>0, <1>3, <2>5, <2>6, <2>7 DEF Reason, With
  <2>10. Frame(s, r)
    BY <2>5, <2>6, <2>7 DEF Frame, Mode, Running
  <2> QED
    BY <2>5, <2>6, <2>7, <2>8, <2>9, <2>10 DEF Good, r
<1>5. CASE ~ Turn(g)[o]
  <2>1. r = Forget(stopped, g)
    BY <1>5 DEF StartMotor
  <2> HIDE DEF stopped, r
  <2>2. /\ r \in EState /\ Mode(stopped, r)
        /\ r.op = stopped.op /\ r.motor = stopped.motor
        /\ r.timed = stopped.timed /\ r.spools = stopped.spools
        /\ r.hand = stopped.hand \ {g} /\ r.orphaned = stopped.orphaned \ {g}
    BY <1>1, <2>1, ForgetFacts
  <2>6. /\ Mode(s, stopped) /\ stopped.op = s.op /\ stopped.timed = s.timed
        /\ stopped.spools = s.spools
        /\ stopped.hand = s.hand /\ stopped.orphaned = s.orphaned
    BY <1>0, <1>1 DEF EState, Mode
  <2>3. Sound(r)
    BY <1>0, <1>1, <2>2, <2>6 DEF Sound
  <2>4. Reason(r, With(X, g))
    BY <1>0, <1>1, <2>2, <2>6 DEF Reason, With
  <2>5. Frame(s, r)
    BY <2>2, <2>6 DEF Frame, Mode
  <2> QED
    BY <2>2, <2>3, <2>4, <2>5, <2>6 DEF Good, r
<1> QED
  BY <1>4, <1>5

-----------------------------------------------------------------------------
(* Bursts. *)

LEMMA FirstIn ==
    ASSUME NEW S, S \subseteq Gates, S # {}
    PROVE  First(S) \in S
<1>1. S \subseteq Nat
  BY DEF Gates
<1>2. IsFiniteSet(Gates)
  BY FS_Interval DEF Gates
<1> DEFINE Below(x) == 0 .. x - 1
           T == {Below(x) : x \in S}
<1>3. T \subseteq SUBSET Gates /\ T # {}
  <2>1. ASSUME NEW x \in S PROVE Below(x) \subseteq Gates
    BY <1>1 DEF Gates
  <2> QED
    BY <2>1
<1>4. PICK m \in T : \A t \in T : ~ (<<t, m>> \in StrictSubsetOrdering(Gates))
  <2>1. IsWellFoundedOn(StrictSubsetOrdering(Gates), SUBSET Gates)
    BY <1>2, FS_StrictSubsetOrderingWellFounded, FS_FiniteSubsetsOfFinite
  <2> HIDE DEF T
  <2> QED
    BY <1>3, <2>1, WFMin, Zenon
<1>5. PICK x \in S : m = Below(x)
  BY <1>4
<1>6. ASSUME NEW y \in S, y < x PROVE FALSE
  <2>1. Below(y) \subseteq Below(x) /\ y \in Below(x) /\ y \notin Below(y)
    BY <1>1, <1>6
  <2>2. <<Below(y), Below(x)>> \in StrictSubsetOrdering(Gates)
    BY <1>3, <2>1 DEF StrictSubsetOrdering
  <2> QED
    BY <1>4, <1>5, <2>2
<1>7. \A y \in S : x <= y
  BY <1>1, <1>6
<1> QED
  BY <1>7 DEF First

(* A burst that is refused changes nothing; one that starts has its timer. *)
LEMMA BurstFacts ==
    ASSUME NEW X, NEW s, Good(s, X), NEW g \in Gates, NEW o \in Turns
    PROVE  LET r == Burst(s, g, o)
           IN  /\ Good(r, X) /\ Frame(s, r)
               /\ r.spools = s.spools /\ r.timed \subseteq s.timed \cup {g}
<1> DEFINE t == StartMotor(s, g, o, BurstDuty)
           r == Burst(s, g, o)
<1>1. CASE g \in s.timed \/ (Running(s.op[g]) /\ g # s.assist)
  <2>1. r = s
    BY <1>1 DEF Burst
  <2> QED
    BY <2>1 DEF Frame, Mode
<1>2. CASE ~ (g \in s.timed \/ (Running(s.op[g]) /\ g # s.assist))
  <2>1. r = [t EXCEPT !.timed = @ \cup {g}]
    BY <1>2 DEF Burst
  <2>2. /\ Good(t, With(X, g)) /\ Frame(s, t)
        /\ t.timed = s.timed /\ t.spools = s.spools
    <3>1. BurstDuty \in Duties
      BY DutyFacts
    <3> QED
      BY <3>1, StartFacts
  <2> HIDE DEF t, r
  <2>3. /\ r \in EState /\ Mode(t, r) /\ r.op = t.op /\ r.motor = t.motor
        /\ r.timed = t.timed \cup {g} /\ r.spools = t.spools
        /\ r.hand = t.hand /\ r.orphaned = t.orphaned
    BY <2>1, <2>2 DEF Good, EState, Mode
  <2>4. Good(r, X)
    BY <2>2, <2>3 DEF Good, Sound, Reason, With
  <2>5. Frame(s, r)
    BY <2>2, <2>3 DEF Frame, Mode
  <2> QED
    BY <2>2, <2>3, <2>4, <2>5 DEF r
<1> QED
  BY <1>1, <1>2

LEMMA AdvanceFacts ==
    ASSUME NEW X, NEW s, Good(s, X), NEW g \in Gates \cup {None}
    PROVE  LET r == Advance(s, g)
           IN  /\ Good(r, X) /\ Frame(s, r)
               /\ r.spools = s.spools /\ r.timed \subseteq s.timed \cup {g}
<1>1. CASE g = None
  BY <1>1 DEF Advance, Frame, Mode
<1>2. CASE g # None
  BY <1>2, BurstFacts DEF Advance, Turns
<1> QED
  BY <1>1, <1>2

LEMMA RotateFacts ==
    ASSUME NEW X, NEW s, Good(s, X), NEW S, S \subseteq Gates, S # {}
    PROVE  LET r == Rotate(s, S)
           IN  /\ Good(r, X) /\ Frame(s, r) /\ r.timed \subseteq s.timed \cup S
<1> DEFINE t == [s EXCEPT !.spools = S]
<1>1. /\ Good(t, X) /\ Frame(s, t) /\ t.timed = s.timed
  BY DEF Good, Sound, Reason, Frame, Mode, EState
<1>2. First(S) \in Gates /\ First(S) \in S
  BY FirstIn
<1> HIDE DEF t
<1>3. LET r == Burst(t, First(S), "rewind")
      IN  Good(r, X) /\ Frame(t, r) /\ r.timed \subseteq t.timed \cup {First(S)}
  BY <1>1, <1>2, BurstFacts DEF Turns
<1>4. Rotate(s, S) = Burst(t, First(S), "rewind")
  BY DEF Rotate, t
<1> QED
  BY <1>1, <1>2, <1>3, <1>4, FrameTransitive

(* The next spool is another one than the one done.                        *)
LEMMA DoneFacts ==
    ASSUME NEW X, NEW s, Good(s, X), NEW g \in Gates, g \notin s.timed
    PROVE  LET r == BurstDone(s, g)
           IN  Good(r, X) /\ Frame(s, r) /\ g \notin r.timed
<1> DEFINE left == s.spools \ {g}
<1>1. CASE g \notin s.spools
  BY <1>1 DEF BurstDone, Frame, Mode
<1>2. CASE g \in s.spools /\ left = {}
  <2>1. BurstDone(s, g) = [s EXCEPT !.spools = {}]
    BY <1>2 DEF BurstDone
  <2> QED
    BY <2>1 DEF Good, Sound, Reason, Frame, Mode, EState
<1>3. CASE g \in s.spools /\ left # {}
  <2>1. BurstDone(s, g) = Rotate(s, left)
    BY <1>3 DEF BurstDone
  <2>2. left \subseteq Gates
    BY DEF Good, EState
  <2> QED
    BY <1>3, <2>1, <2>2, RotateFacts
<1> QED
  BY <1>1, <1>2, <1>3

LEMMA DequeueFacts ==
    ASSUME NEW X, NEW s, Good(s, X), NEW g \in Gates
    PROVE  LET r == Dequeue(s, g)
           IN  /\ Good(r, With(X, g)) /\ Frame(s, r) /\ g \notin r.timed
               /\ s.motor[g] = Off \/ g \in s.orphaned \/ g \notin s.timed => Good(r, X)
<1> DEFINE t == [s EXCEPT !.timed = @ \ {g}]
<1>1. CASE g \notin s.timed
  <2>1. Dequeue(s, g) = s
    BY <1>1 DEF Dequeue
  <2> QED
    BY <1>1, <2>1 DEF Good, Reason, With, Frame, Mode
<1>2. CASE g \in s.timed
  <2>1. Dequeue(s, g) = BurstDone(t, g)
    BY <1>2 DEF Dequeue
  <2>2. /\ t \in EState /\ Mode(s, t) /\ t.op = s.op /\ t.motor = s.motor
        /\ t.timed = s.timed \ {g} /\ t.hand = s.hand /\ t.orphaned = s.orphaned
    BY DEF Good, EState, Mode
  <2> HIDE DEF t
  <2>3. Good(t, With(X, g)) /\ Frame(s, t)
    BY <2>2 DEF Good, Sound, Reason, With, Frame, Mode
  <2>4. s.motor[g] = Off \/ g \in s.orphaned => Good(t, X)
    BY <2>2 DEF Good, Sound, Reason, With
  <2> QED
    BY <1>2, <2>1, <2>2, <2>3, <2>4, DoneFacts, FrameTransitive
<1> QED
  BY <1>1, <1>2

-----------------------------------------------------------------------------
(* The operations. *)

(* Print assist belongs to one gate; see AssistAlone.                      *)
ModeOK(s) ==
    /\ s.armed = IF s.trigger THEN {s.assist} \ {None} ELSE {}
    /\ s.watching <=> ~ s.trigger /\ s.assist # None
    /\ \A g \in Gates : /\ s.op[g][1] = "print" => g = s.assist
                        /\ s.op[g][1] = "off" => g # s.assist
                        /\ s.trigger /\ s.count[g] # 0 => g = s.assist /\ g \in s.pressed
    /\ s.orphaned \subseteq {s.assist}

LEMMA FrameMode ==
    ASSUME NEW s, NEW t, ModeOK(s), Frame(s, t)
    PROVE  ModeOK(t)
BY DEF ModeOK, Frame, Mode, Running, Turns

LEMMA WithTwice == ASSUME NEW X, NEW g PROVE With(With(X, g), g) = With(X, g)
BY DEF With

LEMMA GoodWith == ASSUME NEW X, NEW g, NEW s, Good(s, X) PROVE Good(s, With(X, g))
BY DEF With, Good, Reason

LEMMA GoodOff ==
    ASSUME NEW X, NEW g, NEW s, Good(s, With(X, g)),
           s.motor[g] = Off \/ g \in s.orphaned \/ g \in s.hand \/ g \in X
    PROVE  Good(s, X)
BY DEF With, Good, Reason

LEMMA RunFacts ==
    ASSUME NEW X, NEW s, Good(s, X), NEW g \in Gates, NEW o \in Turns, NEW v \in Duties
    PROVE  LET r == Run(s, g, o, v) IN Good(r, With(X, g)) /\ Frame(s, r)
<1> DEFINE t == StartMotor(s, g, o, v)
<1>1. Good(t, With(X, g)) /\ Frame(s, t)
  BY StartFacts
<1> HIDE DEF t
<1>2. Good(Dequeue(t, g), With(With(X, g), g)) /\ Frame(t, Dequeue(t, g))
  BY <1>1, DequeueFacts
<1>3. Run(s, g, o, v) = Dequeue(t, g)
  BY DEF Run, t
<1> QED
  BY <1>1, <1>2, <1>3, WithTwice, FrameTransitive

(* A motor that is stopped, its operation x on record.                     *)
LEMMA StopFacts ==
    ASSUME NEW X, NEW s, NEW g \in Gates, Good(s, With(X, g)),
           NEW o \in {"off", "print"}, NEW x \in {Off, Print0}
    PROVE  LET r == Stop(s, g, o, x)
           IN  /\ Good(r, X) /\ Mode(s, r)
               /\ r.op[g] = x /\ \A h \in Gates \ {g} : r.op[h] = s.op[h]
               /\ r.motor[g] = Off
               /\ r.timed = s.timed /\ r.spools = s.spools
               /\ r.orphaned = s.orphaned \ {g}
<1> DEFINE u == UpdatePwm(s, g, o, 0)
           f == Forget(u, g)
           r == [f EXCEPT !.op[g] = x]
<1>0. s \in EState /\ Sound(s) /\ Reason(s, With(X, g))
  BY DEF Good
<1>1. /\ u \in EState
      /\ u = [s EXCEPT !.motor = u.motor]
      /\ \A h \in Gates \ {g} : u.motor[h] = s.motor[h]
      /\ u.motor[g] = Off
  <2>1. o \in Ops
    BY DEF Ops
  <2> QED
    BY <1>0, <2>1, DutyFacts, UpdateFacts
<1> HIDE DEF u
<1>2. /\ Mode(s, u) /\ u.op = s.op /\ u.timed = s.timed /\ u.spools = s.spools
      /\ u.hand = s.hand /\ u.orphaned = s.orphaned
  BY <1>0, <1>1 DEF EState, Mode
<1>3. /\ f \in EState /\ Mode(u, f)
      /\ f.op = u.op /\ f.motor = u.motor /\ f.timed = u.timed /\ f.spools = u.spools
      /\ f.hand = u.hand \ {g} /\ f.orphaned = u.orphaned \ {g}
  BY <1>1, ForgetFacts
<1> HIDE DEF f
<1>4. /\ r \in EState /\ Mode(f, r)
      /\ r.op[g] = x /\ \A h \in Gates \ {g} : r.op[h] = f.op[h]
      /\ r.motor = f.motor /\ r.timed = f.timed /\ r.spools = f.spools
      /\ r.hand = f.hand /\ r.orphaned = f.orphaned
  <2>1. x \in Ops \X Duties
    BY DutyFacts DEF Off, Print0, Ops
  <2> QED
    BY <1>3, <2>1, OpFacts
<1> HIDE DEF r
<1>5. Sound(r)
  BY <1>0, <1>1, <1>2, <1>3, <1>4 DEF Sound
<1>6. Reason(r, X)
  BY <1>0, <1>1, <1>2, <1>3, <1>4 DEF Reason, With
<1>7. Mode(s, r)
  BY <1>2, <1>3, <1>4 DEF Mode
<1> QED
  BY <1>1, <1>2, <1>3, <1>4, <1>5, <1>6, <1>7 DEF Good, Stop, r, f, u

LEMMA SetOffFacts ==
    ASSUME NEW X, NEW s, NEW g \in Gates, Good(s, With(X, g))
    PROVE  LET r == SetOff(s, g)
           IN  /\ Good(r, X) /\ Mode(s, r)
               /\ r.orphaned \subseteq s.orphaned \ {g} /\ g \notin r.timed
               /\ \A h \in Gates : \/ r.op[h] = IF h # g THEN s.op[h]
                                               ELSE IF g = s.assist THEN Print0 ELSE Off
                                   \/ Running(r.op[h])
<1> DEFINE x == IF g = s.assist THEN Print0 ELSE Off
           t == Stop(s, g, "off", x)
           r == Dequeue(t, g)
<1>1. /\ Good(t, X) /\ Mode(s, t)
      /\ t.op[g] = x /\ \A h \in Gates \ {g} : t.op[h] = s.op[h]
      /\ t.motor[g] = Off /\ t.orphaned = s.orphaned \ {g}
  <2>1. x \in {Off, Print0}
    OBVIOUS
  <2> HIDE DEF x
  <2> QED
    BY <2>1, StopFacts
<1>2. SetOff(s, g) = r
  BY DEF SetOff
<1> HIDE DEF t
<1>3. Good(r, X) /\ Frame(t, r) /\ g \notin r.timed
  BY <1>1, DequeueFacts
<1> QED
  BY <1>1, <1>2, <1>3 DEF Frame, Mode

LEMMA SetOffMode ==
    ASSUME NEW X, NEW s, NEW g \in Gates, Good(s, With(X, g)), ModeOK(s)
    PROVE  ModeOK(SetOff(s, g))
<1> DEFINE r == SetOff(s, g)
<1>1. /\ Mode(s, r) /\ r.orphaned \subseteq s.orphaned \ {g}
      /\ \A h \in Gates : \/ r.op[h] = IF h # g THEN s.op[h]
                                      ELSE IF g = s.assist THEN Print0 ELSE Off
                          \/ Running(r.op[h])
  BY SetOffFacts
<1> HIDE DEF r
<1>2. \A h \in Gates : /\ r.op[h][1] = "print" => h = s.assist
                       /\ r.op[h][1] = "off" => h # s.assist
  BY <1>1 DEF ModeOK, Off, Print0, Running, Turns
<1> QED
  BY <1>1, <1>2 DEF ModeOK, Mode, r

LEMMA DisarmFacts ==
    ASSUME NEW X, NEW s, NEW g \in Gates, Good(s, X), g # s.assist, g \in s.armed
    PROVE  LET r == Disarm(s, g)
           IN  /\ Good(r, X) /\ g \notin r.timed
               /\ r.trigger = s.trigger /\ r.assist = s.assist /\ r.watching = s.watching
               /\ r.armed = s.armed \ {g} /\ r.pressed = s.pressed
               /\ r.count = [s.count EXCEPT ![g] = 0]
               /\ r.orphaned \subseteq s.orphaned \ {g}
               /\ \A h \in Gates : \/ r.op[h] = IF h # g THEN s.op[h] ELSE Off
                                   \/ Running(r.op[h])
<1> DEFINE d == [s EXCEPT !.armed = @ \ {g}, !.count[g] = 0]
           r == SetOff(d, g)
<1>1. /\ Good(d, X)
      /\ d.trigger = s.trigger /\ d.assist = s.assist /\ d.watching = s.watching
      /\ d.armed = s.armed \ {g} /\ d.pressed = s.pressed
      /\ d.count = [s.count EXCEPT ![g] = 0]
      /\ d.orphaned = s.orphaned /\ d.op = s.op
  <2>1. /\ d.trigger = s.trigger /\ d.assist = s.assist /\ d.watching = s.watching
        /\ d.armed = s.armed \ {g} /\ d.pressed = s.pressed
        /\ d.count = [s.count EXCEPT ![g] = 0]
        /\ d.orphaned = s.orphaned /\ d.op = s.op /\ d.motor = s.motor
        /\ d.timed = s.timed /\ d.hand = s.hand
    BY DEF Good, EState
  <2>2. d \in EState
    <3>1. 0 \in 0 .. MaxBursts
      OBVIOUS
    <3> QED
      BY <3>1 DEF Good, EState
  <2> HIDE DEF d
  <2>3. Good(d, X)
    BY <2>1, <2>2 DEF Good, Sound, Reason
  <2> QED
    BY <2>1, <2>3
<1>2. Disarm(s, g) = r
  BY DEF Disarm
<1> HIDE DEF d
<1>3. /\ Good(r, X) /\ Mode(d, r)
      /\ r.orphaned \subseteq d.orphaned \ {g} /\ g \notin r.timed
      /\ \A h \in Gates : \/ r.op[h] = IF h # g THEN d.op[h]
                                      ELSE IF g = d.assist THEN Print0 ELSE Off
                          \/ Running(r.op[h])
  BY <1>1, GoodWith, SetOffFacts
<1> QED
  BY <1>1, <1>2, <1>3 DEF Mode

LEMMA NoMode ==
    ASSUME NEW s, ~ s.watching, s.assist = None, s.armed = {}, s.orphaned = {},
           \A h \in Gates : s.trigger => s.count[h] = 0,
           \A h \in Gates : s.op[h][1] # "print"
    PROVE  ModeOK(s)
BY GatesFacts DEF ModeOK

LEMMA ResetFacts ==
    ASSUME NEW X, NEW s, Good(s, X), ModeOK(s)
    PROVE  LET r == ResetAssist(s)
           IN  /\ Good(r, X) /\ ModeOK(r)
               /\ r.trigger = s.trigger /\ r.pressed = s.pressed /\ r.assist = None
<1> DEFINE g     == s.assist
           left  == [s EXCEPT !.assist = None]
           off   == Stop(left, g, "off", Off)
           plain == IF s.trigger THEN Disarm(off, g) ELSE off
           w     == [plain EXCEPT !.watching = FALSE]
           r     == Dequeue(w, g)
<1>1. CASE s.assist = None
  BY <1>1 DEF ResetAssist
<1>2. CASE s.assist # None
  <2>1. g \in Gates
    BY <1>2 DEF Good, EState
  <2>2. ResetAssist(s) = r
    BY <1>2 DEF ResetAssist
  <2>3. /\ Good(left, X) /\ left.assist = None /\ left.trigger = s.trigger
        /\ left.pressed = s.pressed /\ left.armed = s.armed /\ left.count = s.count
        /\ left.watching = s.watching /\ left.op = s.op /\ left.orphaned = s.orphaned
    BY GatesFacts DEF Good, Sound, Reason, EState
  <2> HIDE DEF left
  <2>4. /\ Good(off, X) /\ Mode(left, off)
        /\ off.op[g] = Off /\ \A h \in Gates \ {g} : off.op[h] = left.op[h]
        /\ off.motor[g] = Off /\ off.orphaned = left.orphaned \ {g}
    BY <2>1, <2>3, GoodWith, StopFacts
  <2> HIDE DEF off
  <2>5. /\ Good(plain, X)
        /\ plain.motor[g] = Off \/ g \notin plain.timed
        /\ plain.trigger = s.trigger /\ plain.pressed = s.pressed
        /\ plain.assist = None /\ plain.armed = {} /\ plain.orphaned = {}
        /\ \A h \in Gates : s.trigger => plain.count[h] = 0
        /\ \A h \in Gates : \/ plain.op[h] = IF h # g THEN s.op[h] ELSE Off
                            \/ Running(plain.op[h])
    <3>1. off.orphaned = {}
      BY <2>3, <2>4 DEF ModeOK
    <3>2. CASE s.trigger
      <4>1. plain = Disarm(off, g)
        BY <3>2
      <4>2. g # off.assist /\ g \in off.armed /\ off.armed = {g}
        BY <1>2, <2>3, <2>4, <3>2 DEF ModeOK, Mode
      <4>4. /\ Good(plain, X) /\ g \notin plain.timed
            /\ plain.trigger = off.trigger /\ plain.assist = off.assist
            /\ plain.armed = off.armed \ {g} /\ plain.pressed = off.pressed
            /\ plain.count = [off.count EXCEPT ![g] = 0]
            /\ plain.orphaned \subseteq off.orphaned \ {g}
            /\ \A h \in Gates : \/ plain.op[h] = IF h # g THEN off.op[h] ELSE Off
                                \/ Running(plain.op[h])
        BY <2>1, <2>4, <4>1, <4>2, DisarmFacts
      <4>5. off.count \in [Gates -> 0 .. MaxBursts]
        BY <2>4 DEF Good, EState
      <4>6. \A h \in Gates : plain.count[h] = 0
        BY <2>3, <2>4, <3>2, <4>4, <4>5 DEF ModeOK, Mode
      <4> QED
        BY <2>3, <2>4, <3>1, <4>2, <4>4, <4>6 DEF Mode
    <3>3. CASE ~ s.trigger
      BY <2>3, <2>4, <3>1, <3>3 DEF ModeOK, Mode
    <3> QED
      BY <3>2, <3>3
  <2> HIDE DEF plain
  <2>6. /\ Good(w, X) /\ ModeOK(w) /\ w.assist = None
        /\ w.trigger = s.trigger /\ w.pressed = s.pressed
        /\ w.motor[g] = Off \/ g \notin w.timed
    <3>1. /\ w \in EState /\ w.op = plain.op /\ w.motor = plain.motor
          /\ w.timed = plain.timed /\ w.hand = plain.hand /\ w.orphaned = plain.orphaned
          /\ w.trigger = plain.trigger /\ w.pressed = plain.pressed
          /\ w.assist = plain.assist /\ w.armed = plain.armed /\ w.count = plain.count
          /\ ~ w.watching
      BY <2>5 DEF Good, EState
    <3> HIDE DEF w
    <3>2. Good(w, X)
      BY <2>5, <3>1 DEF Good, Sound, Reason
    <3>3. \A h \in Gates : w.op[h][1] # "print"
      BY <2>5, <3>1 DEF ModeOK, Off, Running, Turns
    <3>4. \A h \in Gates : w.trigger => w.count[h] = 0
      BY <2>5, <3>1
    <3>5. ModeOK(w)
      BY <2>5, <3>1, <3>3, <3>4, NoMode
    <3> QED
      BY <2>5, <3>1, <3>2, <3>5
  <2> HIDE DEF w
  <2>7. Good(r, X) /\ Frame(w, r)
    BY <2>1, <2>6, DequeueFacts
  <2> QED
    BY <2>2, <2>6, <2>7, FrameMode DEF Frame, Mode
<1> QED
  BY <1>1, <1>2

LEMMA ModeOnly ==
    ASSUME NEW s, NEW t, ModeOK(s), Mode(s, t), t.op = s.op, t.orphaned \subseteq {s.assist}
    PROVE  ModeOK(t) /\ t.assist = s.assist /\ t.trigger = s.trigger /\ t.pressed = s.pressed
BY DEF ModeOK, Mode

LEMMA SoleMode ==
    ASSUME NEW s, NEW g \in Gates, s.assist = g,
           s.trigger => s.armed = {g} /\ ~ s.watching,
           ~ s.trigger => s.armed = {} /\ s.watching,
           s.orphaned \subseteq {g},
           \A h \in Gates : s.trigger /\ s.count[h] # 0 => h = g /\ h \in s.pressed,
           \A h \in Gates : /\ s.op[h][1] = "print" => h = g
                            /\ s.op[h][1] = "off" => h # g
    PROVE  ModeOK(s)
<1>1. g # None
  BY GatesFacts
<1>2. s.armed = IF s.trigger THEN {s.assist} \ {None} ELSE {}
  BY <1>1
<1>3. s.watching <=> ~ s.trigger /\ s.assist # None
  BY <1>1
<1>4. \A h \in Gates : /\ s.op[h][1] = "print" => h = s.assist
                       /\ s.op[h][1] = "off" => h # s.assist
                       /\ s.trigger /\ s.count[h] # 0 => h = s.assist /\ h \in s.pressed
  OBVIOUS
<1>5. s.orphaned \subseteq {s.assist}
  OBVIOUS
<1> QED
  BY ONLY <1>2, <1>3, <1>4, <1>5, Zenon DEF ModeOK

LEMMA AssistFacts ==
    ASSUME NEW X, NEW s, Good(s, X), ModeOK(s), NEW g \in Gates
    PROVE  LET r == AssistMode(s, g)
           IN  /\ Good(r, X) /\ ModeOK(r) /\ r.assist = g
               /\ r.trigger = s.trigger /\ r.pressed = s.pressed
<1> DEFINE other  == IF g # s.assist THEN ResetAssist(s) ELSE s
           st     == Stop(other, g, "print", Print0)
           mode   == [st EXCEPT !.assist = g]
           armed  == [mode EXCEPT !.armed = @ \cup {g}]
           primed == IF s.trigger THEN Arm(mode, g) ELSE [mode EXCEPT !.watching = TRUE]
           begun  == primed.op[g] # Print0
           z == [primed EXCEPT !.orphaned = IF begun THEN @ \cup {g} ELSE @]
           r == Dequeue(z, g)
<1>1. /\ Good(other, X) /\ ModeOK(other) /\ other.assist \in {None, g}
      /\ other.trigger = s.trigger /\ other.pressed = s.pressed
  BY ResetFacts
<1> HIDE DEF other
<1>2. /\ Good(st, X) /\ Mode(other, st)
      /\ st.op[g] = Print0 /\ \A h \in Gates \ {g} : st.op[h] = other.op[h]
      /\ st.motor[g] = Off /\ st.orphaned = {}
  <2>1. other.orphaned \subseteq {g}
    BY <1>1 DEF ModeOK, Good, EState, Gates, None
  <2> QED
    BY <1>1, <2>1, GoodWith, StopFacts
<1> HIDE DEF st
<1>3. /\ mode \in EState /\ mode.assist = g /\ mode.orphaned = {}
      /\ mode.trigger = s.trigger /\ mode.pressed = s.pressed
      /\ mode.armed = other.armed /\ mode.watching = other.watching
      /\ mode.count = other.count /\ mode.op = st.op /\ mode.motor = st.motor
      /\ mode.timed = st.timed /\ mode.hand = st.hand
  BY <1>1, <1>2 DEF Good, EState, Mode
<1> HIDE DEF mode
<1>4. Good(mode, X)
  BY <1>2, <1>3 DEF Good, Sound, Reason
<1>5. /\ \A h \in Gates : s.trigger /\ mode.count[h] # 0 => h = g /\ h \in mode.pressed
      /\ \A h \in Gates : /\ mode.op[h][1] = "print" => h = g
                          /\ mode.op[h][1] = "off" => h # g
  <2> HIDE DEF primed, z, r
  <2>1. ASSUME NEW h \in Gates, s.trigger, mode.count[h] # 0
        PROVE  h = g /\ h \in mode.pressed
    <3>1. h = other.assist /\ h \in other.pressed
      BY <1>1, <1>3, <2>1 DEF ModeOK
    <3> QED
      BY <1>1, <1>3, <3>1, GatesFacts
  <2>2. mode.op[g][1] = "print"
    BY <1>2, <1>3 DEF Print0
  <2>3. ASSUME NEW h \in Gates \ {g}, mode.op[h][1] = "print" PROVE FALSE
    <3>1. other.op[h][1] = "print"
      BY <1>2, <1>3, <2>3
    <3> QED
      BY <1>1, <3>1, GatesFacts DEF ModeOK
  <2> QED
    BY <2>1, <2>2, <2>3
<1>6. /\ Good(primed, X) /\ ModeOK(primed) /\ primed.assist = g
      /\ primed.trigger = s.trigger /\ primed.pressed = s.pressed
  <2>1. CASE s.trigger /\ g \in mode.armed
    <3>1. primed = mode
      BY <2>1 DEF Arm
    <3>2. mode.armed = {g} /\ ~ mode.watching
      BY <1>1, <1>3, <2>1 DEF ModeOK
    <3> QED
      BY <1>3, <1>4, <1>5, <2>1, <3>1, <3>2, SoleMode
  <2>2. CASE s.trigger /\ g \notin mode.armed
    <3>1. other.assist = None /\ mode.armed = {} /\ ~ mode.watching
      <4> HIDE DEF armed, primed, z, r
      <4>1. other.armed = {other.assist} \ {None} /\ ~ other.watching
        BY <1>1, <2>2 DEF ModeOK
      <4>2. other.assist # g
        BY <1>3, <2>2, <4>1, GatesFacts
      <4> QED
        BY <1>1, <1>3, <4>1, <4>2
    <3>2. /\ armed \in EState /\ armed.armed = {g} /\ armed.assist = g /\ armed.orphaned = {}
          /\ armed.trigger = s.trigger /\ armed.pressed = s.pressed
          /\ ~ armed.watching /\ armed.count = mode.count
          /\ armed.op = mode.op /\ armed.motor = mode.motor
          /\ armed.timed = mode.timed /\ armed.hand = mode.hand
      BY <1>3, <3>1 DEF EState
    <3>3. primed = IF g \in mode.pressed THEN Advance(armed, g) ELSE armed
      BY <2>2 DEF Arm
    <3> HIDE DEF armed, primed
    <3>4. Good(armed, X)
      BY <1>3, <1>4, <3>2 DEF Good, Sound, Reason
    <3>5. ModeOK(armed)
      <4>1. \A h \in Gates : armed.trigger /\ armed.count[h] # 0 => h = g /\ h \in armed.pressed
        BY <1>3, <1>5, <3>2
      <4>2. \A h \in Gates : /\ armed.op[h][1] = "print" => h = g
                             /\ armed.op[h][1] = "off" => h # g
        BY <1>5, <3>2
      <4>3. armed.trigger /\ armed.assist = g /\ armed.orphaned \subseteq {g}
        BY <2>2, <3>2
      <4>4. armed.armed = {g} /\ ~ armed.watching
        BY <3>2
      <4> QED
        BY <4>1, <4>2, <4>3, <4>4, SoleMode
    <3>6. Good(Advance(armed, g), X) /\ Frame(armed, Advance(armed, g))
      BY <3>4, AdvanceFacts
    <3>7. Good(primed, X) /\ Frame(armed, primed)
      BY <3>3, <3>4, <3>6 DEF Frame, Mode
    <3> QED
      BY <3>2, <3>5, <3>7, FrameMode DEF Frame, Mode
  <2>3. CASE ~ s.trigger
    <3>1. /\ primed \in EState /\ primed.assist = g /\ primed.orphaned = {}
          /\ primed.trigger = s.trigger /\ primed.pressed = s.pressed
          /\ primed.armed = mode.armed /\ primed.watching
          /\ primed.count = mode.count /\ primed.op = mode.op
          /\ primed.motor = mode.motor /\ primed.timed = mode.timed
          /\ primed.hand = mode.hand
      BY <1>3, <2>3 DEF EState
    <3> HIDE DEF primed
    <3>2. mode.armed = {}
      BY <1>1, <1>3, <2>3 DEF ModeOK
    <3>3. Good(primed, X)
      BY <1>3, <1>4, <3>1 DEF Good, Sound, Reason
    <3> QED
      BY <1>5, <2>3, <3>1, <3>2, <3>3, SoleMode
  <2> QED
    BY <2>1, <2>2, <2>3
<1> HIDE DEF primed
<1>7. /\ z \in EState /\ Mode(primed, z) /\ z.op = primed.op /\ z.motor = primed.motor
      /\ z.timed = primed.timed /\ z.hand = primed.hand
      /\ z.orphaned = IF begun THEN primed.orphaned \cup {g} ELSE primed.orphaned
  BY <1>6 DEF Good, EState, Mode
<1>8. AssistMode(s, g) = r
  BY DEF AssistMode, r, z, primed, mode, st, other
<1> HIDE DEF z
<1>9. Good(z, X)
  BY <1>6, <1>7 DEF Good, Sound, Reason
<1>10. z.motor[g] = Off \/ g \in z.orphaned
  BY <1>6, <1>7 DEF Good, Sound, Print0, Turns
<1>11. ModeOK(z) /\ z.assist = g /\ z.trigger = s.trigger /\ z.pressed = s.pressed
  <2>1. z.orphaned \subseteq {g}
    BY <1>6, <1>7 DEF ModeOK
  <2> QED
    BY <1>6, <1>7, <2>1, ModeOnly
<1>12. Good(r, X) /\ Frame(z, r)
  BY <1>9, <1>10, DequeueFacts
<1> QED
  BY <1>8, <1>11, <1>12, FrameMode DEF Frame, Mode

LEMMA SetPrintFacts ==
    ASSUME NEW X, NEW s, Good(s, X), ModeOK(s), NEW g \in Gates, NEW v \in Duties
    PROVE  LET r == SetPrint(s, g, v) IN Good(r, X) /\ ModeOK(r)
BY AssistFacts, ResetFacts DEF SetPrint

-----------------------------------------------------------------------------
(* Handlers of timers and switches. *)

LEMMA CountFacts ==
    ASSUME NEW X, NEW s, Good(s, X), NEW g \in Gates, NEW n \in 0 .. MaxBursts
    PROVE  LET r == [s EXCEPT !.count[g] = n]
           IN  /\ Good(r, X) /\ r.op = s.op /\ r.orphaned = s.orphaned
               /\ r.trigger = s.trigger /\ r.assist = s.assist /\ r.armed = s.armed
               /\ r.pressed = s.pressed /\ r.watching = s.watching
               /\ r.count = [s.count EXCEPT ![g] = n]
<1> DEFINE r == [s EXCEPT !.count[g] = n]
<1>1. /\ r.op = s.op /\ r.orphaned = s.orphaned
      /\ r.trigger = s.trigger /\ r.assist = s.assist /\ r.armed = s.armed
      /\ r.pressed = s.pressed /\ r.watching = s.watching
      /\ r.count = [s.count EXCEPT ![g] = n]
      /\ r.motor = s.motor /\ r.timed = s.timed /\ r.hand = s.hand
  BY DEF Good, EState
<1>2. r \in EState
  BY DEF Good, EState
<1> HIDE DEF r
<1>3. Good(r, X)
  BY <1>1, <1>2 DEF Good, Sound, Reason
<1> QED
  BY <1>1, <1>3 DEF r

LEMMA CountMode ==
    ASSUME NEW X, NEW s, Good(s, X), ModeOK(s), NEW g \in Gates, NEW n \in 0 .. MaxBursts,
           s.trigger /\ n # 0 => g = s.assist /\ g \in s.pressed
    PROVE  ModeOK([s EXCEPT !.count[g] = n])
<1> DEFINE r == [s EXCEPT !.count[g] = n]
<1>1. /\ r.op = s.op /\ r.orphaned = s.orphaned
      /\ r.trigger = s.trigger /\ r.assist = s.assist /\ r.armed = s.armed
      /\ r.pressed = s.pressed /\ r.watching = s.watching
      /\ r.count = [s.count EXCEPT ![g] = n]
  BY CountFacts
<1>2. s.count \in [Gates -> 0 .. MaxBursts]
  BY DEF Good, EState
<1> HIDE DEF r
<1>3. \A h \in Gates : r.trigger /\ r.count[h] # 0 => h = r.assist /\ h \in r.pressed
  BY <1>1, <1>2 DEF ModeOK
<1> QED
  BY <1>1, <1>3 DEF ModeOK, r

LEMMA StopBurstFacts ==
    ASSUME NEW X, NEW s, Good(s, X), ModeOK(s), NEW g \in Gates
    PROVE  LET r == StopBurst(s, g) IN Good(r, X) /\ ModeOK(r)
<1> DEFINE idle == AssistMode(s, g)
           more == [idle EXCEPT !.count[g] = @ + 1]
           r == StopBurst(s, g)
<1>1. CASE g # s.assist
  BY <1>1, GoodWith, SetOffFacts, SetOffMode DEF StopBurst
<1>2. CASE g = s.assist
  <2>1. r = IF g \notin s.pressed THEN [idle EXCEPT !.count[g] = 0]
            ELSE IF idle.count[g] < MaxBursts THEN Advance(more, g) ELSE idle
    BY <1>2 DEF StopBurst
  <2>2. Good(idle, X) /\ ModeOK(idle) /\ idle.assist = g /\ idle.pressed = s.pressed
    BY AssistFacts
  <2> HIDE DEF idle, r
  <2>3. CASE g \notin s.pressed
    <3>1. r = [idle EXCEPT !.count[g] = 0]
      BY <2>1, <2>3
    <3> QED
      BY <2>2, <3>1, CountFacts, CountMode DEF r
  <2>4. CASE g \in s.pressed /\ idle.count[g] < MaxBursts
    <3>1. idle.count[g] + 1 \in 0 .. MaxBursts
      BY <2>2, <2>4 DEF Good, EState
    <3>2. Good(more, X) /\ ModeOK(more)
      BY <2>2, <2>4, <3>1, CountFacts, CountMode
    <3> HIDE DEF more
    <3>3. Good(Advance(more, g), X) /\ Frame(more, Advance(more, g))
      BY <3>2, AdvanceFacts
    <3>4. r = Advance(more, g)
      BY <2>1, <2>4
    <3> QED
      BY <3>2, <3>3, <3>4, FrameMode DEF r
  <2>5. CASE g \in s.pressed /\ ~ (idle.count[g] < MaxBursts)
    BY <2>1, <2>2, <2>5 DEF r
  <2> QED
    BY <2>3, <2>4, <2>5
<1> QED
  BY <1>1, <1>2

LEMMA ButtonFacts ==
    ASSUME NEW X, NEW s, Good(s, X), ModeOK(s), NEW g \in Gates
    PROVE  LET r == ButtonAdvance(s, g, g \notin s.pressed) IN Good(r, X) /\ ModeOK(r)
<1> DEFINE down == g \notin s.pressed
           seen == [s EXCEPT !.pressed = IF down THEN @ \cup {g} ELSE @ \ {g}]
           zero == [seen EXCEPT !.count[g] = 0]
           more == [seen EXCEPT !.count[g] = @ + 1]
           r    == ButtonAdvance(s, g, down)
<1>1. /\ seen \in EState /\ seen.op = s.op /\ seen.orphaned = s.orphaned
      /\ seen.trigger = s.trigger /\ seen.assist = s.assist /\ seen.armed = s.armed
      /\ seen.pressed = IF down THEN s.pressed \cup {g} ELSE s.pressed \ {g}
      /\ seen.count = s.count /\ seen.watching = s.watching
      /\ seen.motor = s.motor /\ seen.timed = s.timed /\ seen.hand = s.hand
  BY DEF Good, EState
<1>2. r = IF ~ s.trigger \/ g \notin s.armed THEN seen
          ELSE IF down THEN Advance(more, g) ELSE zero
  BY DEF ButtonAdvance
<1> HIDE DEF seen, r
<1>3. Good(seen, X)
  BY <1>1 DEF Good, Sound, Reason
<1>4. \A h \in Gates : s.trigger /\ s.count[h] # 0 =>
         h = s.assist /\ (h # g => h \in seen.pressed) /\ (h = g => ~ down)
  BY <1>1 DEF ModeOK
<1>5. CASE ~ s.trigger \/ g \notin s.armed
  <2>1. s.trigger => g # s.assist
    BY <1>5, GatesFacts DEF ModeOK
  <2>2. \A h \in Gates : seen.trigger /\ seen.count[h] # 0 => h = seen.assist /\ h \in seen.pressed
    BY <1>1, <1>4, <2>1
  <2>3. ModeOK(seen)
    BY <1>1, <2>2 DEF ModeOK
  <2> QED
    BY <1>2, <1>3, <1>5, <2>3 DEF r
<1>6. CASE s.trigger /\ g \in s.armed /\ ~ down
  <2>1. r = zero
    BY <1>2, <1>6
  <2>2. /\ Good(zero, X) /\ zero.op = seen.op /\ zero.orphaned = seen.orphaned
        /\ zero.trigger = seen.trigger /\ zero.assist = seen.assist /\ zero.armed = seen.armed
        /\ zero.pressed = seen.pressed /\ zero.watching = seen.watching
        /\ zero.count = [seen.count EXCEPT ![g] = 0]
    BY <1>3, CountFacts
  <2> HIDE DEF zero
  <2>3. \A h \in Gates : zero.trigger /\ zero.count[h] # 0 => h = zero.assist /\ h \in zero.pressed
    BY <1>1, <1>4, <2>2 DEF EState
  <2>4. ModeOK(zero)
    BY <1>1, <2>2, <2>3 DEF ModeOK
  <2> QED
    BY <2>1, <2>2, <2>4 DEF r
<1>7. CASE s.trigger /\ g \in s.armed /\ down
  <2>1. r = Advance(more, g)
    BY <1>2, <1>7
  <2>2. g = s.assist /\ s.count[g] = 0 /\ seen.count[g] + 1 = 1 /\ 1 \in 0 .. MaxBursts
    BY <1>1, <1>7 DEF ModeOK
  <2>3. /\ Good(more, X) /\ more.op = seen.op /\ more.orphaned = seen.orphaned
        /\ more.trigger = seen.trigger /\ more.assist = seen.assist /\ more.armed = seen.armed
        /\ more.pressed = seen.pressed /\ more.watching = seen.watching
        /\ more.count = [seen.count EXCEPT ![g] = 1]
    BY <1>3, <2>2, CountFacts
  <2> HIDE DEF more
  <2>4. \A h \in Gates : more.trigger /\ more.count[h] # 0 => h = more.assist /\ h \in more.pressed
    BY <1>1, <1>4, <1>7, <2>2, <2>3 DEF EState
  <2>5. ModeOK(more)
    BY <1>1, <2>3, <2>4 DEF ModeOK
  <2>6. Good(Advance(more, g), X) /\ Frame(more, Advance(more, g))
    BY <2>3, AdvanceFacts
  <2> QED
    BY <2>1, <2>5, <2>6, FrameMode DEF r
<1> QED
  BY <1>5, <1>6, <1>7

-----------------------------------------------------------------------------
(* The eSpooler in every step. *)

SpoolerInv == Good(e, {moving}) /\ ModeOK(e)

LEMMA GoodOnly ==
    ASSUME NEW X, NEW Y, NEW s, Good(s, X), X \cap Gates \subseteq Y
    PROVE  Good(s, Y)
BY DEF Good, Reason

LEMMA RunStep ==
    ASSUME NEW X, NEW s, Good(s, X), ModeOK(s), NEW g \in Gates, NEW o \in Turns, NEW v \in Duties
    PROVE  Good(Run(s, g, o, v), With(X, g)) /\ ModeOK(Run(s, g, o, v))
BY RunFacts, FrameMode

LEMMA BurstStep ==
    ASSUME NEW X, NEW s, Good(s, X), ModeOK(s), NEW g \in Gates, NEW o \in Turns
    PROVE  Good(Burst(s, g, o), X) /\ ModeOK(Burst(s, g, o))
BY BurstFacts, FrameMode

LEMMA AdvanceStep ==
    ASSUME NEW X, NEW s, Good(s, X), ModeOK(s), NEW g \in Gates \cup {None}
    PROVE  Good(Advance(s, g), X) /\ ModeOK(Advance(s, g))
BY AdvanceFacts, FrameMode

LEMMA SpoolsFacts ==
    ASSUME NEW X, NEW s, Good(s, X), ModeOK(s), NEW S, S \subseteq Gates
    PROVE  Good([s EXCEPT !.spools = S], X) /\ ModeOK([s EXCEPT !.spools = S])
<1> DEFINE t == [s EXCEPT !.spools = S]
<1>1. /\ t \in EState /\ Mode(s, t) /\ t.op = s.op /\ t.motor = s.motor
      /\ t.timed = s.timed /\ t.hand = s.hand /\ t.orphaned = s.orphaned
  BY DEF Good, EState, Mode
<1> HIDE DEF t
<1>2. Good(t, X)
  BY <1>1 DEF Good, Sound, Reason
<1>3. ModeOK(t)
  BY <1>1, ModeOnly DEF ModeOK
<1> QED
  BY <1>2, <1>3 DEF t

LEMMA HandRunFacts ==
    ASSUME NEW X, NEW s, Good(s, X), ModeOK(s), NEW g \in Gates, NEW o \in Turns, NEW v \in Duties
    PROVE  LET run == Run(s, g, o, v)
               r == [run EXCEPT !.hand = IF run.motor[g] = Off THEN @ ELSE @ \cup {g}]
           IN  Good(r, X) /\ ModeOK(r)
<1> DEFINE run == Run(s, g, o, v)
           r == [run EXCEPT !.hand = IF run.motor[g] = Off THEN @ ELSE @ \cup {g}]
<1>1. Good(run, With(X, g)) /\ ModeOK(run)
  BY RunStep
<1> HIDE DEF run
<1>2. /\ r \in EState /\ Mode(run, r) /\ r.op = run.op /\ r.motor = run.motor
      /\ r.timed = run.timed /\ r.orphaned = run.orphaned
      /\ r.hand = IF run.motor[g] = Off THEN run.hand ELSE run.hand \cup {g}
  BY <1>1 DEF Good, EState, Mode
<1> HIDE DEF r
<1>3. Good(r, With(X, g))
  BY <1>1, <1>2 DEF Good, Sound, Reason
<1>4. Good(r, X)
  BY <1>2, <1>3, GoodOff
<1>5. ModeOK(r)
  BY <1>1, <1>2, ModeOnly DEF ModeOK
<1> QED
  BY <1>4, <1>5 DEF r, run

LEMMA SpoolerStep ==
    ASSUME TypeOK, SpoolerInv, [Next]_vars
    PROVE  SpoolerInv'
<1> DEFINE X == {moving}
<1>0. /\ Good(e, X) /\ ModeOK(e) /\ e \in EState /\ moving \in Gates \cup {None}
      /\ e.assist \in Gates \cup {None}
  BY DEF SpoolerInv, Good, TypeOK, EState
<1> HIDE DEF X
<1>1. SUFFICES \/ moving' = moving /\ Good(e', X) /\ ModeOK(e')
               \/ Good(e', {moving'}) /\ ModeOK(e')
  BY DEF SpoolerInv, X
<1>2. CASE Heater
  <2>1. ASSUME NEW G \in SUBSET Gates, NEW rot \in BOOLEAN, StartCycle(G, rot)
        PROVE  moving' = moving /\ Good(e', X) /\ ModeOK(e')
    BY <1>0, <2>1, SpoolsFacts DEF StartCycle
  <2>2. ASSUME NEW G \in SUBSET Gates, RotateSpools(G)
        PROVE  moving' = moving /\ Good(e', X) /\ ModeOK(e')
    <3>1. Good(Rotate(e, G), X) /\ Frame(e, Rotate(e, G))
      BY <1>0, <2>2, RotateFacts DEF RotateSpools
    <3> QED
      BY <1>0, <2>2, <3>1, FrameMode DEF RotateSpools
  <2>3. ASSUME NEW G \in SUBSET Gates,
               CancelGates(G) \/ HeatersOff(G) \/ HeatersOn(G) \/ Completes(G)
        PROVE  moving' = moving /\ e' = e
    BY <2>3 DEF CancelGates, HeatersOff, HeatersOn, Completes
  <2>4. CASE StopCycle
    BY <1>0, <2>4 DEF StopCycle
  <2> QED
    BY <1>0, <1>2, <2>1, <2>2, <2>3, <2>4 DEF Heater
<1>3. CASE Spooler
  <2>1. ASSUME NEW g \in Gates, BurstEnds(g)
        PROVE  moving' = moving /\ Good(e', X) /\ ModeOK(e')
    BY <1>0, <2>1, StopBurstFacts DEF BurstEnds
  <2>2. ASSUME NEW g \in Gates, Trigger(g)
        PROVE  moving' = moving /\ Good(e', X) /\ ModeOK(e')
    BY <1>0, <2>2, ButtonFacts DEF Trigger
  <2>3. ASSUME NEW g \in Gates, Loaded(g)
        PROVE  moving' = moving /\ Good(e', X) /\ ModeOK(e')
    BY <1>0, <2>3, SetPrintFacts, DutyFacts DEF Loaded
  <2>4. ASSUME NEW g \in Gates \cup {None}, HandTrigger(g)
        PROVE  moving' = moving /\ Good(e', X) /\ ModeOK(e')
    BY <1>0, <2>4, AdvanceStep DEF HandTrigger
  <2>5. ASSUME NEW g \in Gates, HandOff(g)
        PROVE  moving' = moving /\ Good(e', X) /\ ModeOK(e')
    BY <1>0, <2>5, GoodWith, SetOffFacts, SetOffMode DEF HandOff
  <2>6. ASSUME NEW g \in Gates, NEW v \in Duties, HandPrint(g, v)
        PROVE  moving' = moving /\ Good(e', X) /\ ModeOK(e')
    BY <1>0, <2>6, SetPrintFacts DEF HandPrint
  <2>7. ASSUME NEW g \in Gates, NEW o \in Turns, HandBurst(g, o)
        PROVE  moving' = moving /\ Good(e', X) /\ ModeOK(e')
    BY <1>0, <2>7, BurstStep DEF HandBurst
  <2>8. ASSUME NEW g \in Gates, NEW o \in Turns, NEW v \in Duties, HandRun(g, o, v)
        PROVE  moving' = moving /\ Good(e', X) /\ ModeOK(e')
    BY <1>0, <2>8, HandRunFacts DEF HandRun
  <2>9. ASSUME NEW g \in Gates, NEW o \in Turns, NEW v \in Duties \ {0}, MoveBegins(g, o, v)
        PROVE  Good(e', {moving'}) /\ ModeOK(e')
    <3>1. e' = Run(e, g, o, v) /\ moving' = g /\ moving = None
      BY <2>9 DEF MoveBegins, Command
    <3>2. Good(Run(e, g, o, v), With(X, g)) /\ ModeOK(Run(e, g, o, v))
      BY <1>0, RunStep
    <3>3. With(X, g) \cap Gates \subseteq {g}
      BY <3>1, GatesFacts DEF With, X
    <3>4. Good(e', {g})
      BY <3>1, <3>2, <3>3, GoodOnly
    <3> QED
      BY <3>1, <3>2, <3>4
  <2>10. CASE MoveEnds
    <3>1. e' = SetOff(e, moving) /\ moving' = None /\ moving \in Gates
      BY <1>0, <2>10 DEF MoveEnds
    <3>2. X \cap Gates \subseteq With({None}, moving)
      BY DEF With, X
    <3>3. Good(e, With({None}, moving))
      BY <1>0, <3>2, GoodOnly
    <3> QED
      BY <1>0, <3>1, <3>3, SetOffFacts, SetOffMode
  <2>11. CASE ExtruderMoves
    BY <1>0, <2>11, AdvanceStep DEF ExtruderMoves
  <2>12. CASE NotLoaded
    BY <1>0, <2>12, ResetFacts DEF NotLoaded
  <2> QED
    BY <1>0, <1>3, <2>1, <2>2, <2>3, <2>4, <2>5, <2>6, <2>7, <2>8, <2>9, <2>10, <2>11, <2>12
       DEF Spooler
<1>4. CASE Disable
  <2>1. Good(ResetAssist(e), X) /\ ModeOK(ResetAssist(e))
    BY <1>0, ResetFacts
  <2> QED
    BY <1>4, <2>1, SpoolsFacts DEF Disable
<1>5. CASE Enable
  BY <1>0, <1>5, SpoolsFacts DEF Enable
<1>6. CASE UNCHANGED vars
  BY <1>0, <1>6 DEF vars
<1> QED
  BY <1>2, <1>3, <1>4, <1>5, <1>6 DEF Next

LEMMA SpoolerInit == ASSUME Init PROVE SpoolerInv
<1>1. PICK t \in BOOLEAN :
        e = [ trigger |-> t, op |-> [g \in Gates |-> Off], motor |-> [g \in Gates |-> Off],
              timed |-> {}, assist |-> None, armed |-> {}, pressed |-> {},
              count |-> [g \in Gates |-> 0], watching |-> FALSE, spools |-> {},
              hand |-> {}, orphaned |-> {} ]
  BY DEF Init
<1>2. Off \in Ops \X Duties /\ 0 \in 0 .. MaxBursts
  BY DutyFacts DEF Off, Ops
<1>3. e \in EState
  BY <1>1, <1>2 DEF EState
<1>4. Good(e, {moving})
  BY <1>1, <1>3 DEF Good, Sound, Reason
<1>5. ModeOK(e)
  <2>1. \A h \in Gates : e.op[h][1] # "print"
    BY <1>1 DEF Off
  <2>2. \A h \in Gates : e.count[h] = 0
    BY <1>1
  <2>3. ~ e.watching /\ e.assist = None /\ e.armed = {} /\ e.orphaned = {}
    BY <1>1
  <2> QED
    BY <2>1, <2>2, <2>3, NoMode
<1> QED
  BY <1>4, <1>5 DEF SpoolerInv

-----------------------------------------------------------------------------
(* The drying cycle. *)

LEMMA GatesFinite == \A S \in SUBSET Gates : IsFiniteSet(S) /\ Cardinality(S) \in Nat
<1>1. IsFiniteSet(Gates)
  BY FS_Interval DEF Gates
<1>2. ASSUME NEW S \in SUBSET Gates PROVE IsFiniteSet(S)
  BY <1>1, FS_Subset
<1> QED
  BY <1>2, FS_CardinalityType

LEMMA BecomeFacts ==
    ASSUME NEW d \in [Gates -> States], NEW S \in SUBSET Gates, NEW x \in States
    PROVE  LET n == Become(d, S, x)
           IN  /\ n \in [Gates -> States]
               /\ \A g \in Gates : n[g] = IF g \in S THEN x ELSE d[g]
               /\ Active(n) = IF x = "active" THEN Active(d) \cup S ELSE Active(d) \ S
               /\ Queued(n) = IF x = "queued" THEN Queued(d) \cup S ELSE Queued(d) \ S
<1> DEFINE n == Become(d, S, x)
<1>1. n \in [Gates -> States] /\ \A g \in Gates : n[g] = IF g \in S THEN x ELSE d[g]
  BY DEF Become
<1> HIDE DEF n
<1>2. Active(n) = IF x = "active" THEN Active(d) \cup S ELSE Active(d) \ S
  BY <1>1 DEF Active
<1>3. Queued(n) = IF x = "queued" THEN Queued(d) \cup S ELSE Queued(d) \ S
  BY <1>1 DEF Queued
<1> QED
  BY <1>1, <1>2, <1>3 DEF n

LEMMA WaitingFacts ==
    ASSUME NEW G \in SUBSET Gates
    PROVE  LET n == Become(Nothing, G, "queued")
           IN  n \in [Gates -> States] /\ Active(n) = {} /\ Queued(n) = G
BY DEF Become, Nothing, States, Active, Queued

LEMMA NothingFacts ==
    Nothing \in [Gates -> States] /\ Active(Nothing) = {} /\ Queued(Nothing) = {}
BY DEF Nothing, States, Active, Queued

(* Heaters are shared out up to the limit, and no gate waits below it.     *)
LEMMA StartingFacts ==
    ASSUME NEW d \in [Gates -> States], Cardinality(Active(d)) <= MaxHeaters,
           NEW S \in Starting(d)
    PROVE  LET n == Become(d, S, "active")
           IN  /\ n \in [Gates -> States] /\ S \subseteq Queued(d) /\ S \subseteq Gates
               /\ Active(n) = Active(d) \cup S /\ Queued(n) = Queued(d) \ S
               /\ Cardinality(Active(n)) <= MaxHeaters
               /\ Queued(n) # {} => Cardinality(Active(n)) = MaxHeaters
<1> DEFINE n == Become(d, S, "active")
<1>1. S \subseteq Queued(d) /\ S \in SUBSET Gates /\ Active(d) \in SUBSET Gates
  BY DEF Starting, Queued, Active
<1>2. /\ n \in [Gates -> States]
      /\ Active(n) = Active(d) \cup S /\ Queued(n) = Queued(d) \ S
  BY <1>1, BecomeFacts DEF States
<1>3. Cardinality(Active(n)) = Cardinality(Active(d)) + Cardinality(S)
  <2>1. Active(d) \cap S = {}
    BY <1>1 DEF Active, Queued
  <2>2. IsFiniteSet(Active(d)) /\ IsFiniteSet(S) /\ Cardinality(Active(d)) \in Nat /\ Cardinality(S) \in Nat
    BY <1>1, GatesFinite
  <2> HIDE DEF n
  <2> QED
    BY <1>2, <2>1, <2>2, FS_Union, FS_EmptySet
<1>4. Cardinality(Active(d)) \in Nat /\ Cardinality(S) \in Nat /\ Cardinality({}) = 0
  BY <1>1, GatesFinite, FS_EmptySet
<1> HIDE DEF n
<1>5. \/ S = {} /\ (Queued(d) = {} \/ Cardinality(Active(d)) >= MaxHeaters)
      \/ S # {} /\ Cardinality(Active(d)) + Cardinality(S) <= MaxHeaters
                /\ (S = Queued(d) \/ Cardinality(Active(d)) + Cardinality(S) = MaxHeaters)
  BY DEF Starting
<1> QED
  BY <1>1, <1>2, <1>3, <1>4, <1>5 DEF n

(* HeatersAccounted, made inductive: a gate that waits or dries is one of  *)
(* the cycle, whose end sweeps the heaters of all its gates.               *)
HeatersInv ==
    /\ HeatersAccounted
    /\ perGate => Active(drying) \cup Queued(drying) \subseteq cycle
    /\ ~ enabled => Active(drying) = {}

HeaterTypes ==
    /\ drying \in [Gates -> States]
    /\ {cycle, hot, raw} \subseteq SUBSET Gates
    /\ {rotate, enabled, perGate} \subseteq BOOLEAN

LEMMA HeatersAsideStep ==
    ASSUME HeaterTypes, HeatersInv, UNCHANGED <<drying, cycle, hot, raw, enabled, perGate>>,
           rotate' \in BOOLEAN
    PROVE  HeaterTypes' /\ HeatersInv'
BY DEF HeaterTypes, HeatersInv, HeatersAccounted, Active, Queued

LEMMA StartCycleStep ==
    ASSUME HeaterTypes, HeatersInv, NEW G \in SUBSET Gates, NEW rot \in BOOLEAN, StartCycle(G, rot)
    PROVE  HeaterTypes' /\ HeatersInv'
<1> DEFINE waiting == Become(Nothing, G, "queued")
<1>1. /\ waiting \in [Gates -> States] /\ Active(waiting) = {} /\ Queued(waiting) = G
  BY WaitingFacts
<1>2. Active(drying) = {} /\ cycle' = G /\ rotate' = rot /\ perGate' = perGate /\ enabled' = enabled
      /\ enabled
  BY DEF StartCycle, IsDrying, Command
<1>3. PICK S \in IF perGate THEN Starting(waiting) ELSE {Gates} :
        drying' = Become(waiting, S, "active") /\ Heat({}, S)
  BY DEF StartCycle
<1>4. hot' = hot \cup S /\ raw' = raw
  BY <1>3 DEF Heat
<1> HIDE DEF waiting
<1>5. CASE perGate
  <2>1. Cardinality(Active(waiting)) <= MaxHeaters
    BY <1>1, FS_EmptySet
  <2>2. /\ drying' \in [Gates -> States] /\ S \subseteq G
        /\ Active(drying') = S /\ Queued(drying') = G \ S
        /\ Cardinality(Active(drying')) <= MaxHeaters
        /\ Queued(drying') # {} => Cardinality(Active(drying')) = MaxHeaters
    <3>1. S \in Starting(waiting) /\ drying' = Become(waiting, S, "active")
      BY <1>3, <1>5
    <3> DEFINE n == Become(waiting, S, "active")
    <3>2. /\ n \in [Gates -> States] /\ S \subseteq Queued(waiting)
          /\ Active(n) = Active(waiting) \cup S /\ Queued(n) = Queued(waiting) \ S
          /\ Cardinality(Active(n)) <= MaxHeaters
          /\ Queued(n) # {} => Cardinality(Active(n)) = MaxHeaters
      BY <1>1, <2>1, <3>1, StartingFacts
    <3> HIDE DEF n
    <3>3. Active(n) = S
      BY <1>1, <3>2
    <3> QED
      BY <1>1, <3>1, <3>2, <3>3 DEF n
  <2> QED
    BY <1>2, <1>4, <1>5, <2>2 DEF HeaterTypes, HeatersInv, HeatersAccounted
<1>6. CASE ~ perGate
  <2>1. S = Gates
    BY <1>3, <1>6
  <2>2. /\ drying' \in [Gates -> States] /\ Active(drying') = Gates /\ Queued(drying') = {}
    <3> DEFINE n == Become(waiting, Gates, "active")
    <3>1. /\ n \in [Gates -> States] /\ Active(n) = Active(waiting) \cup Gates
          /\ Queued(n) = Queued(waiting) \ Gates
      BY <1>1, BecomeFacts DEF States
    <3>2. drying' = n
      BY <1>3, <2>1
    <3> HIDE DEF n
    <3>3. Queued(n) = {}
      BY <1>1, <3>1
    <3>4. Active(n) = Gates
      BY <1>1, <3>1
    <3> QED
      BY <3>1, <3>2, <3>3, <3>4
  <2> QED
    BY <1>2, <1>4, <1>6, <2>1, <2>2 DEF HeaterTypes, HeatersInv, HeatersAccounted
<1> QED
  BY <1>5, <1>6

LEMMA NothingLeft ==
    ASSUME HeaterTypes, HeatersInv, drying' = Nothing, cycle' = {}, hot' \subseteq raw',
           hot' \subseteq Gates, raw' \subseteq raw, rotate' \in BOOLEAN, enabled' \in BOOLEAN,
           perGate' = perGate
    PROVE  HeaterTypes' /\ HeatersInv'
<1>1. Cardinality({}) = 0
  BY FS_EmptySet
<1> QED
  BY <1>1, NothingFacts DEF HeaterTypes, HeatersInv, HeatersAccounted

LEMMA CancelStep ==
    ASSUME HeaterTypes, HeatersInv, NEW G \in SUBSET Gates, CancelGates(G)
    PROVE  HeaterTypes' /\ HeatersInv'
<1> DEFINE C == G \cap (Active(drying) \cup Queued(drying))
           gone == Become(drying, C, "canceled")
<1>0. perGate /\ perGate' = perGate /\ enabled' = enabled /\ enabled
  BY DEF CancelGates, Command
<1>1. PICK S \in Starting(gone) :
        LET next == Become(gone, S, "active")
        IN  IF AllDone(next)
            THEN /\ drying' = Nothing /\ cycle' = {} /\ rotate' = FALSE
                 /\ Heat((G \cap Active(drying)) \cup cycle, {})
            ELSE /\ drying' = next
                 /\ Heat(G \cap Active(drying), S)
                 /\ UNCHANGED <<cycle, rotate>>
  BY DEF CancelGates
<1>2. /\ gone \in [Gates -> States] /\ Active(gone) = Active(drying) \ G
      /\ Queued(gone) = Queued(drying) \ G
  <2>1. /\ gone \in [Gates -> States] /\ Active(gone) = Active(drying) \ C
        /\ Queued(gone) = Queued(drying) \ C
    BY BecomeFacts DEF States, HeaterTypes
  <2> HIDE DEF gone
  <2> QED
    BY <2>1 DEF C
<1>3. Cardinality(Active(gone)) <= MaxHeaters
  <2>1. Active(drying) \in SUBSET Gates /\ Active(gone) \subseteq Active(drying)
    BY <1>2 DEF Active
  <2>2. Cardinality(Active(gone)) <= Cardinality(Active(drying))
    BY <2>1, GatesFinite, FS_Subset
  <2>3. Active(gone) \in SUBSET Gates
    BY <2>1
  <2> HIDE DEF gone
  <2> QED
    BY <1>0, <2>1, <2>2, <2>3, GatesFinite DEF HeatersInv, HeatersAccounted
<1> DEFINE next == Become(gone, S, "active")
<1>4. /\ next \in [Gates -> States] /\ S \subseteq Queued(gone) /\ S \subseteq Gates
      /\ Active(next) = Active(gone) \cup S /\ Queued(next) = Queued(gone) \ S
      /\ Cardinality(Active(next)) <= MaxHeaters
      /\ Queued(next) # {} => Cardinality(Active(next)) = MaxHeaters
  <2> HIDE DEF gone
  <2> QED
    BY <1>1, <1>2, <1>3, StartingFacts
<1>5. CASE AllDone(next)
  <2>1. /\ drying' = Nothing /\ cycle' = {} /\ rotate' = FALSE
        /\ hot' = hot \ ((G \cap Active(drying)) \cup cycle)
        /\ raw' = raw \ ((G \cap Active(drying)) \cup cycle)
    BY <1>1, <1>5 DEF Heat
  <2>2. Active(drying) \ G \subseteq Active(next) /\ Active(drying) \subseteq cycle
    BY <1>0, <1>2, <1>4 DEF HeatersInv
  <2> HIDE DEF next, gone
  <2>3. hot' \subseteq raw'
    BY <2>1, <2>2 DEF HeatersInv, HeatersAccounted
  <2>4. hot' \subseteq Gates /\ raw' \subseteq raw
    BY <2>1 DEF HeaterTypes
  <2> QED
    BY <1>0, <2>1, <2>3, <2>4, NothingLeft DEF HeaterTypes
<1>6. CASE ~ AllDone(next)
  <2>1. /\ drying' = next /\ cycle' = cycle /\ rotate' = rotate
        /\ hot' = (hot \ (G \cap Active(drying))) \cup S
        /\ raw' = raw \ (G \cap Active(drying))
    BY <1>1, <1>6 DEF Heat
  <2> HIDE DEF next, gone
  <2>2. Active(drying') = (Active(drying) \ G) \cup S /\ Queued(drying') \subseteq Queued(drying)
        /\ S \subseteq Queued(drying)
    BY <1>2, <1>4, <2>1
  <2>3. Active(drying') \subseteq hot' /\ hot' \subseteq Active(drying') \cup raw'
    BY <2>1, <2>2 DEF HeatersInv, HeatersAccounted
  <2>4. Active(drying') \cup Queued(drying') \subseteq cycle'
    BY <1>0, <2>1, <2>2 DEF HeatersInv
  <2>5. HeaterTypes'
    BY <1>0, <1>4, <2>1 DEF HeaterTypes
  <2> QED
    BY <1>0, <1>4, <2>1, <2>3, <2>4, <2>5 DEF HeatersInv, HeatersAccounted
<1> QED
  BY <1>5, <1>6

LEMMA CompletesStep ==
    ASSUME HeaterTypes, HeatersInv, NEW S \in SUBSET Gates, Completes(S)
    PROVE  HeaterTypes' /\ HeatersInv'
<1> DEFINE over == Become(drying, S, "complete")
           end  == IF perGate THEN AllDone(drying') ELSE TRUE
<1>0. /\ S # {} /\ S \subseteq Active(drying) /\ (~ perGate => S = Active(drying))
      /\ perGate' = perGate /\ enabled' = enabled /\ cycle' = cycle
      /\ rotate' = (rotate /\ ~ end)
  BY DEF Completes
<1>1. PICK P \in IF perGate THEN Starting(over) ELSE {{}} :
        /\ drying' = Become(over, P, "active")
        /\ Heat(IF ~ perGate THEN Gates ELSE IF end THEN S \cup cycle ELSE S, P)
  BY DEF Completes
<1>2. /\ over \in [Gates -> States] /\ Active(over) = Active(drying) \ S
      /\ Queued(over) = Queued(drying) \ S
  BY BecomeFacts DEF States, HeaterTypes
<1> HIDE DEF over
<1>3. enabled
  BY <1>0 DEF HeatersInv
<1>4. rotate' \in BOOLEAN
  BY <1>0
<1>5. CASE perGate
  <2>1. Cardinality(Active(over)) <= MaxHeaters
    <3>1. Active(drying) \in SUBSET Gates /\ Active(over) \subseteq Active(drying)
      BY <1>2 DEF Active
    <3>2. Cardinality(Active(over)) <= Cardinality(Active(drying))
      BY <3>1, GatesFinite, FS_Subset
    <3>3. Active(over) \in SUBSET Gates
      BY <3>1
    <3> QED
      BY <1>5, <3>1, <3>2, <3>3, GatesFinite DEF HeatersInv, HeatersAccounted
  <2>2. /\ drying' \in [Gates -> States] /\ P \subseteq Queued(over) /\ P \subseteq Gates
        /\ Active(drying') = Active(over) \cup P /\ Queued(drying') = Queued(over) \ P
        /\ Cardinality(Active(drying')) <= MaxHeaters
        /\ Queued(drying') # {} => Cardinality(Active(drying')) = MaxHeaters
    <3>1. P \in Starting(over) /\ drying' = Become(over, P, "active")
      BY <1>1, <1>5
    <3> QED
      BY <1>2, <2>1, <3>1, StartingFacts
  <2>3. Active(drying') = (Active(drying) \ S) \cup P /\ Queued(drying') \subseteq Queued(drying)
        /\ P \subseteq Queued(drying)
    BY <1>2, <2>2
  <2>4. Active(drying) \subseteq cycle /\ Active(drying') \cup Queued(drying') \subseteq cycle
    BY <1>5, <2>3 DEF HeatersInv
  <2>5. Active(drying') \subseteq hot' /\ hot' \subseteq Active(drying') \cup raw'
        /\ hot' \subseteq Gates /\ raw' \subseteq Gates
    <3>1. CASE AllDone(drying')
      <4>1. hot' = (hot \ (S \cup cycle)) \cup P /\ raw' = raw \ (S \cup cycle)
        BY <1>1, <1>5, <3>1 DEF Heat
      <4>2. Active(drying') = {}
        BY <2>4, <3>1 DEF AllDone, Active, Done
      <4>3. P = {}
        BY <2>3, <4>2
      <4> QED
        BY <2>4, <4>1, <4>2, <4>3 DEF HeatersInv, HeatersAccounted, HeaterTypes
    <3>2. CASE ~ AllDone(drying')
      <4>1. hot' = (hot \ S) \cup P /\ raw' = raw \ S
        BY <1>1, <1>5, <3>2 DEF Heat
      <4> QED
        BY <1>0, <2>2, <2>3, <4>1 DEF HeatersInv, HeatersAccounted, HeaterTypes
    <3> QED
      BY <3>1, <3>2
  <2>6. HeaterTypes'
    BY <1>0, <1>4, <2>2, <2>5 DEF HeaterTypes
  <2> QED
    BY <1>0, <1>3, <1>5, <2>2, <2>4, <2>5, <2>6 DEF HeatersInv, HeatersAccounted
<1>6. CASE ~ perGate
  <2>1. P = {} /\ drying' = Become(over, {}, "active")
    BY <1>1, <1>6
  <2>2. hot' = {} /\ raw' = {}
    BY <1>1, <1>6, <2>1 DEF Heat, HeaterTypes
  <2>3. /\ drying' \in [Gates -> States] /\ Active(drying') = Active(over) \cup {}
        /\ Queued(drying') = Queued(over) \ {}
    BY <1>2, <2>1, BecomeFacts DEF States
  <2>4. Queued(drying) = {}
    BY <1>6 DEF HeatersInv, HeatersAccounted
  <2>5. Active(drying') = {} /\ Queued(drying') = {}
    BY <1>0, <1>2, <1>6, <2>3, <2>4
  <2> QED
    BY <1>0, <1>4, <1>6, <2>2, <2>3, <2>5 DEF HeaterTypes, HeatersInv, HeatersAccounted
<1> QED
  BY <1>5, <1>6

LEMMA HeaterStep ==
    ASSUME HeaterTypes, HeatersInv, [Next]_vars
    PROVE  HeaterTypes' /\ HeatersInv'
<1>1. CASE Heater
  <2>1. CASE StopCycle
    <3>1. /\ drying' = Nothing /\ cycle' = {} /\ rotate' = FALSE /\ hot' = {} /\ raw' = {}
          /\ enabled' = enabled /\ perGate' = perGate
      BY <2>1 DEF StopCycle, Heat, HeaterTypes
    <3> QED
      BY <3>1, NothingLeft DEF HeaterTypes
  <2>2. ASSUME NEW G \in SUBSET Gates, HeatersOff(G)
        PROVE  HeaterTypes' /\ HeatersInv'
    <3>1. Active(drying) = {} /\ Queued(drying) = {}
      BY <2>2 DEF HeatersOff, IsDrying
    <3>2. PICK O \in SUBSET Gates : hot' = hot \ O /\ raw' = raw \ O
      BY <2>2 DEF HeatersOff, Heat
    <3>3. UNCHANGED <<drying, cycle, rotate, enabled, perGate>>
      BY <2>2 DEF HeatersOff
    <3> QED
      BY <3>1, <3>2, <3>3 DEF HeaterTypes, HeatersInv, HeatersAccounted
  <2>3. ASSUME NEW G \in SUBSET Gates, HeatersOn(G)
        PROVE  HeaterTypes' /\ HeatersInv'
    <3>1. PICK O \in SUBSET Gates : hot' = hot \cup O /\ raw' = raw \cup O
      BY <2>3 DEF HeatersOn
    <3>2. UNCHANGED <<drying, cycle, rotate, enabled, perGate>>
      BY <2>3 DEF HeatersOn
    <3> QED
      BY <3>1, <3>2 DEF HeaterTypes, HeatersInv, HeatersAccounted
  <2>4. ASSUME NEW G \in SUBSET Gates, RotateSpools(G)
        PROVE  HeaterTypes' /\ HeatersInv'
    BY <2>4, HeatersAsideStep DEF RotateSpools, HeaterTypes
  <2> QED
    BY <1>1, <2>1, <2>2, <2>3, <2>4, StartCycleStep, CancelStep, CompletesStep DEF Heater
<1>2. CASE Spooler
  <2>1. HeatersAside
    BY <1>2 DEF Spooler, BurstEnds, Trigger, Loaded, HandTrigger, HandOff, HandPrint, HandBurst,
                HandRun, MoveBegins, ExtruderMoves, NotLoaded, MoveEnds
  <2> QED
    BY <2>1, HeatersAsideStep DEF HeatersAside, HeaterTypes
<1>3. CASE Disable
  <2>1. /\ drying' = Nothing /\ cycle' = {} /\ rotate' = FALSE /\ hot' = {} /\ raw' = {}
        /\ enabled' = FALSE /\ perGate' = perGate
    BY <1>3 DEF Disable, Heat, HeaterTypes
  <2> QED
    BY <2>1, NothingLeft
<1>4. CASE Enable
  <2>1. /\ drying' = Nothing /\ cycle' = {} /\ rotate' = FALSE /\ hot' = hot /\ raw' = raw
        /\ enabled' = TRUE /\ perGate' = perGate /\ ~ enabled
    BY <1>4 DEF Enable
  <2>2. hot' \subseteq raw' /\ hot' \subseteq Gates
    BY <2>1 DEF HeatersInv, HeatersAccounted, HeaterTypes
  <2> QED
    BY <2>1, <2>2, NothingLeft
<1>5. CASE UNCHANGED vars
  BY <1>5, HeatersAsideStep DEF vars, HeaterTypes
<1> QED
  BY <1>1, <1>2, <1>3, <1>4, <1>5 DEF Next

-----------------------------------------------------------------------------
(* The theorems. *)

LEMMA StepsStep ==
    ASSUME moving \in Gates \cup {None}, steps \in 0 .. MaxSteps, [Next]_vars
    PROVE  moving' \in Gates \cup {None} /\ steps' \in 0 .. MaxSteps
<1>1. steps < MaxSteps => steps + 1 \in 0 .. MaxSteps
  OBVIOUS
<1>2. CASE Heater
  BY <1>1, <1>2 DEF Heater, StartCycle, StopCycle, CancelGates, HeatersOff, HeatersOn, Completes,
                    RotateSpools, Command, Step
<1>3. CASE Spooler
  BY <1>1, <1>3 DEF Spooler, BurstEnds, Trigger, Loaded, HandTrigger, HandOff, HandPrint, HandBurst,
                    HandRun, MoveBegins, ExtruderMoves, NotLoaded, MoveEnds, Command, Step
<1>4. CASE Disable \/ Enable
  BY <1>1, <1>4 DEF Disable, Enable, Command, Step
<1>5. CASE UNCHANGED vars
  BY <1>5 DEF vars
<1> QED
  BY <1>2, <1>3, <1>4, <1>5 DEF Next

IInv == TypeOK /\ SpoolerInv /\ HeatersInv

LEMMA InitInv == ASSUME Init PROVE IInv
<1>1. SpoolerInv /\ e \in EState
  BY SpoolerInit DEF SpoolerInv, Good
<1>2. TypeOK
  <2>1. {cycle, hot, raw} \subseteq SUBSET Gates /\ drying \in [Gates -> States]
    BY NothingFacts DEF Init
  <2>2. {rotate, enabled, perGate} \subseteq BOOLEAN
    BY DEF Init
  <2>3. moving \in Gates \cup {None} /\ steps \in 0 .. MaxSteps
    BY DEF Init
  <2> QED
    BY <1>1, <2>1, <2>2, <2>3 DEF TypeOK
<1>3. Active(drying) = {} /\ Queued(drying) = {} /\ Cardinality({}) = 0
  BY NothingFacts, FS_EmptySet DEF Init
<1>4. HeatersInv
  BY <1>3 DEF Init, HeatersInv, HeatersAccounted
<1> QED
  BY <1>1, <1>2, <1>4 DEF IInv

LEMMA StepInv == ASSUME IInv, [Next]_vars PROVE IInv'
<1>1. SpoolerInv'
  BY SpoolerStep DEF IInv
<1>2. HeaterTypes' /\ HeatersInv'
  BY HeaterStep DEF IInv, TypeOK, HeaterTypes
<1>3. moving' \in Gates \cup {None} /\ steps' \in 0 .. MaxSteps
  BY StepsStep DEF IInv, TypeOK
<1>4. e' \in EState
  BY <1>1 DEF SpoolerInv, Good
<1> QED
  BY <1>1, <1>2, <1>3, <1>4 DEF IInv, TypeOK, HeaterTypes

THEOREM Invariance == Spec => []IInv
<1>1. Init => IInv
  BY InitInv
<1>2. IInv /\ [Next]_vars => IInv'
  BY StepInv
<1> QED
  BY <1>1, <1>2, PTL DEF Spec

(* The state of the eSpooler and of the drying cycle stays well formed.    *)
THEOREM TypeCorrect == Spec => []TypeOK
<1>1. IInv => TypeOK
  BY DEF IInv
<1> QED
  BY <1>1, Invariance, PTL

(* Every motor turns as recorded, and for a reason that ends.              *)
THEOREM MotorsCorrect == Spec => []MotorsAccounted
<1>1. IInv => MotorsAccounted
  BY DEF IInv, SpoolerInv, Good, Sound, Reason, ModeOK, MotorsAccounted
<1> QED
  BY <1>1, Invariance, PTL

(* One gate is in print assist mode, and its trigger alone is enabled.     *)
THEOREM AssistCorrect == Spec => []AssistAlone
<1>1. IInv => AssistAlone
  BY DEF IInv, SpoolerInv, ModeOK, AssistAlone
<1> QED
  BY <1>1, Invariance, PTL

(* Heaters follow the drying cycle, within their limit.                    *)
THEOREM HeatersCorrect == Spec => []HeatersAccounted
<1>1. IInv => HeatersAccounted
  BY DEF IInv, HeatersInv
<1> QED
  BY <1>1, Invariance, PTL

=============================================================================

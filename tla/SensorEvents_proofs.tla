------------------------- MODULE SensorEvents_proofs -------------------------
(***************************************************************************)
(* Proofs about SensorEvents, for any gates, units and sensors: which      *)
(* sensors and which FlowGuard are armed as monitoring, gates and units    *)
(* change (one invariant of the record `mgr'), that a preload raises no    *)
(* insertion at its own gate, and that a runout handled was monitored.     *)
(***************************************************************************)
EXTENDS SensorEvents, TLAPS

Selections == Gates \cup {Unknown, Bypass}

(* Only what monitoring and the selected unit allow is armed, and a machine  *)
(* without a unit has no gate.                                               *)
Scoped(a) ==
    /\ a.unit = NoUnit => a.gate = Unknown
    /\ a.unit # NoUnit =>
         /\ a.armed # {} => a.monitoring
         /\ \A s \in a.armed : IsGateSensor(s) \/ s \in UnitLevel(a.unit)
         /\ a.flowguard \subseteq (IF a.monitoring THEN {a.unit} ELSE {})
         /\ a.gate \in Gates => a.unit = UnitOf[a.gate]
         /\ a.gate = Bypass => a.unit = BypassUnit

Sound(a) == a \in Managers /\ Scoped(a)

-----------------------------------------------------------------------------
(* The unit of a selection is a unit, and does not depend on the one it was  *)
(* made from when the selection is consistent.                               *)
LEMMA UnitForType ==
    ASSUME NEW g \in Selections, NEW u \in Units \cup {NoUnit}
    PROVE  UnitFor(g, u) \in Units /\ UnitFor(g, u) # NoUnit
BY SensorAssumption DEF Selections, UnitFor, NoUnit, Unknown, Bypass

LEMMA SameUnit ==
    ASSUME NEW a, Sound(a), a.unit # NoUnit
    PROVE  UnitFor(a.gate, a.unit) = a.unit
<1>1. a.gate \in Selections
  BY ZenonT(30) DEF Sound, Managers, Selections
<1> QED BY <1>1, SensorAssumption DEF Sound, Scoped, UnitFor, Selections, Unknown, Bypass

-----------------------------------------------------------------------------
(* The fields of a manager record have their types.                          *)
LEMMA ManagerFields ==
    ASSUME NEW a \in Managers
    PROVE  /\ a.monitoring \in BOOLEAN /\ a.gate \in Selections
           /\ a.unit \in Units \cup {NoUnit} /\ a.armed \in SUBSET Fitted
           /\ a.active \in SUBSET Fitted /\ a.flowguard \in SUBSET Units
           /\ a.booting \in BOOLEAN
BY ZenonT(30) DEF Managers, Selections

(* The sensors that follow monitoring are fitted; of the selected unit they  *)
(* are its own and the gate sensors.                                         *)
LEMMA RunoutSensorsFitted ==
    ASSUME NEW u
    PROVE  /\ RunoutSensors(u) \subseteq Fitted
           /\ u # NoUnit => \A s \in RunoutSensors(u) : IsGateSensor(s) \/ s \in UnitLevel(u)
           /\ u # NoUnit => \A s \in Fitted :
                IsGateSensor(s) \/ s \in UnitLevel(u) => s \in RunoutSensors(u)
<1>1. \A v : UnitLevel(v) \subseteq Fitted
  BY Zenon DEF UnitLevel
<1>2. GateSensors \subseteq Fitted /\ \A s \in Fitted : IsGateSensor(s) <=> s \in GateSensors
  BY Zenon DEF GateSensors
<1> QED BY <1>1, <1>2, Zenon DEF RunoutSensors

(* Arming touches the runout sensors of the unit, and without monitoring or  *)
(* a gate it leaves none of them armed.                                      *)
LEMMA ArmedFacts ==
    ASSUME NEW a \in Managers, NEW enable \in BOOLEAN
    PROVE  /\ Armed(a, enable) \in SUBSET Fitted
           /\ \A s \in Armed(a, enable) : s \in a.armed \/ s \in RunoutSensors(a.unit)
           /\ ~enable => \A s \in Armed(a, enable) : s \in a.armed /\ s \notin RunoutSensors(a.unit)
<1>1. a.armed \in SUBSET Fitted
  BY ManagerFields, Zenon
<1>2. RunoutSensors(a.unit) \subseteq Fitted
  BY RunoutSensorsFitted, Zenon
<1> QED BY <1>1, <1>2, Zenon DEF Armed

(* Suspending monitoring disarms everything the invariant lets be armed.      *)
LEMMA DisableSound ==
    ASSUME NEW a, Sound(a)
    PROVE  Sound(DisableMonitoring(a))
<1> DEFINE b == DisableMonitoring(a)
<1>0. a \in Managers /\ Scoped(a)
  BY DEF Sound
<1>1. Armed(a, FALSE) \in SUBSET Fitted
  BY <1>0, ArmedFacts, Zenon
<1>2. b \in Managers
  BY <1>0, <1>1, ZenonT(30) DEF DisableMonitoring, Managers
<1>3. /\ b.unit = a.unit /\ b.gate = a.gate /\ b.monitoring = FALSE
      /\ b.armed = Armed(a, FALSE) /\ b.flowguard = {}
  BY <1>0, ZenonT(30) DEF DisableMonitoring, Managers
<1>4. a.unit # NoUnit => b.armed = {}
  <2> SUFFICES ASSUME a.unit # NoUnit, NEW s \in b.armed PROVE FALSE
    OBVIOUS
  <2>1. s \in a.armed /\ s \notin RunoutSensors(a.unit)
    BY <1>0, <1>3, ArmedFacts, Zenon
  <2>2. s \in Fitted
    BY <1>0, <2>1, ManagerFields, Zenon
  <2>3. IsGateSensor(s) \/ s \in UnitLevel(a.unit)
    BY <1>0, <2>1, Zenon DEF Scoped
  <2> QED BY <2>1, <2>2, <2>3, RunoutSensorsFitted, Zenon
<1> HIDE DEF b
<1>5. Scoped(b)
  BY <1>0, <1>3, <1>4 DEF Scoped
<1> QED BY <1>2, <1>5 DEF Sound, b

(* Turning monitoring on arms the selected unit and the gate sensors only.    *)
LEMMA EnableSound ==
    ASSUME NEW a, Sound(a)
    PROVE  Sound(EnableMonitoring(a))
<1> DEFINE b == EnableMonitoring(a)
<1>0. a \in Managers /\ Scoped(a)
  BY DEF Sound
<1>f. a.gate \in Selections /\ a.unit \in Units \cup {NoUnit}
  BY <1>0, ManagerFields, Zenon
<1>1. Armed(a, TRUE) \in SUBSET Fitted
  BY <1>0, ArmedFacts, Zenon
<1>u. UnitFor(a.gate, a.unit) \in Units
  BY <1>f, UnitForType, Zenon
<1>2. b \in Managers
  BY <1>0, <1>1, <1>u, ZenonT(30) DEF EnableMonitoring, Managers
<1>3. /\ b.unit = a.unit /\ b.gate = a.gate /\ b.monitoring = TRUE
      /\ b.armed = Armed(a, TRUE) /\ b.flowguard = {UnitFor(a.gate, a.unit)}
  BY <1>0, ZenonT(30) DEF EnableMonitoring, Managers
<1>4. a.unit # NoUnit => \A s \in b.armed : IsGateSensor(s) \/ s \in UnitLevel(a.unit)
  <2> SUFFICES ASSUME a.unit # NoUnit, NEW s \in b.armed
               PROVE  IsGateSensor(s) \/ s \in UnitLevel(a.unit)
    OBVIOUS
  <2>1. s \in a.armed \/ s \in RunoutSensors(a.unit)
    BY <1>0, <1>3, ArmedFacts, Zenon
  <2> QED BY <1>0, <2>1, RunoutSensorsFitted, Zenon DEF Scoped
<1>5. a.unit # NoUnit => b.flowguard = {a.unit}
  BY <1>3, SameUnit
<1> HIDE DEF b
<1>6. Scoped(b)
  BY <1>0, <1>3, <1>4, <1>5 DEF Scoped
<1> QED BY <1>2, <1>6 DEF Sound, b

-----------------------------------------------------------------------------
(* The sensors seen from a selection are fitted.                             *)
LEMMA ActiveMapFitted ==
    ASSUME NEW g, NEW u
    PROVE  ActiveMap(g, u) \in SUBSET Fitted
BY Zenon DEF ActiveMap, GateMap, BypassMap, UnitMap, UnitLevel, GateSensors

(* Selecting a unit: whatever was armed before, only the gate sensors and the *)
(* unit's own are armed after, and none unless monitoring is on.             *)
LEMMA UnitSelectedScoped ==
    ASSUME NEW a \in Managers, a.unit # NoUnit, a.unit = UnitFor(a.gate, a.unit)
    PROVE  LET b == UnitSelected(a)
           IN  /\ b \in Managers
               /\ b.unit = a.unit /\ b.gate = a.gate /\ b.monitoring = a.monitoring
               /\ b.armed # {} => b.monitoring
               /\ \A s \in b.armed : IsGateSensor(s) \/ s \in UnitLevel(b.unit)
               /\ b.flowguard \subseteq (IF b.monitoring THEN {b.unit} ELSE {})
<1> DEFINE foreign == {s \in Fitted \ UnitLevel(a.unit) : ~IsGateSensor(s)}
           c == [a EXCEPT !.armed = @ \ foreign]
           b == UnitSelected(a)
<1>f. /\ a.armed \in SUBSET Fitted /\ a.unit \in Units \cup {NoUnit}
      /\ a.monitoring \in BOOLEAN
  BY ManagerFields, Zenon
<1>1. c \in Managers /\ c.unit = a.unit /\ c.gate = a.gate /\ c.armed = a.armed \ foreign
  <2>1. a.armed \ foreign \in SUBSET Fitted
    BY <1>f
  <2> HIDE DEF foreign
  <2> QED BY <2>1, ZenonT(30) DEF Managers
<1>2. Armed(c, a.monitoring) \in SUBSET Fitted
  BY <1>1, <1>f, ArmedFacts, Zenon
<1>3. Scope(a) \in SUBSET Units /\ Scope(a) \subseteq (IF a.monitoring THEN {a.unit} ELSE {})
  BY <1>f DEF Scope
<1>4. b \in Managers
  <2> HIDE DEF c, foreign
  <2>1. [a EXCEPT !.armed = Armed(c, a.monitoring), !.flowguard = Scope(a)] \in Managers
    BY <1>2, <1>3, ZenonT(30) DEF Managers
  <2> QED BY <2>1, Zenon DEF UnitSelected, c, foreign
<1>5. /\ b.unit = a.unit /\ b.gate = a.gate /\ b.monitoring = a.monitoring
      /\ b.armed = Armed(c, a.monitoring) /\ b.flowguard = Scope(a)
  <2> DEFINE d == [a EXCEPT !.armed = Armed(c, a.monitoring), !.flowguard = Scope(a)]
  <2>1. b = d
    BY Zenon DEF UnitSelected
  <2> HIDE DEF c, foreign, b
  <2>2. /\ d.unit = a.unit /\ d.gate = a.gate /\ d.monitoring = a.monitoring
        /\ d.armed = Armed(c, a.monitoring) /\ d.flowguard = Scope(a)
    BY ZenonT(30) DEF Managers
  <2> QED BY <2>1, <2>2, Zenon
<1>6. \A s \in b.armed : s \in Fitted /\ (IsGateSensor(s) \/ s \in UnitLevel(a.unit))
  <2> SUFFICES ASSUME NEW s \in b.armed
               PROVE  s \in Fitted /\ (IsGateSensor(s) \/ s \in UnitLevel(a.unit))
    OBVIOUS
  <2>1. s \in a.armed \ foreign \/ s \in RunoutSensors(a.unit)
    <3> HIDE DEF c, foreign
    <3> QED BY <1>1, <1>5, <1>f, ArmedFacts, Zenon
  <2>2. s \in Fitted
    BY <1>2, <1>5
  <2> QED BY <2>1, <2>2, RunoutSensorsFitted, Zenon
<1>7. b.armed # {} => a.monitoring
  <2> SUFFICES ASSUME ~a.monitoring, NEW s \in b.armed PROVE FALSE
    BY <1>f
  <2>1. s \notin RunoutSensors(a.unit)
    <3> HIDE DEF c, foreign
    <3> QED BY <1>1, <1>5, <1>f, ArmedFacts, Zenon
  <2> QED BY <1>6, <2>1, RunoutSensorsFitted, Zenon
<1> QED BY <1>3, <1>4, <1>5, <1>6, <1>7, Zenon

(* Selecting a gate keeps the invariant, whichever unit it leaves.            *)
LEMMA SelectSound ==
    ASSUME NEW a, Sound(a), NEW g \in Selections
    PROVE  Sound(SetGateSelected(a, g))
<1>0. a \in Managers /\ Scoped(a)
  BY DEF Sound
<1>f. a.gate \in Selections /\ a.unit \in Units \cup {NoUnit}
  BY <1>0, ManagerFields, Zenon
<1>1. CASE g = a.gate
  BY <1>1 DEF SetGateSelected
<1>2. CASE g # a.gate
  <2> DEFINE u == UnitFor(g, a.unit)
             moved == [a EXCEPT !.gate = g, !.unit = u]
             inUnit == IF moved.unit = a.unit THEN moved ELSE UnitSelected(moved)
             b == [inUnit EXCEPT !.active = ActiveMap(g, moved.unit)]
  <2>u. u \in Units /\ u # NoUnit
    BY <1>f, UnitForType, Zenon
  <2>1. moved \in Managers /\ moved.gate = g /\ moved.unit = u /\ moved.armed = a.armed
          /\ moved.monitoring = a.monitoring /\ moved.flowguard = a.flowguard
    <3> HIDE DEF u
    <3> QED BY <1>0, <2>u, ZenonT(30) DEF Managers, Selections
  <2>2. u = UnitFor(g, u) /\ (g \in Gates => u = UnitOf[g]) /\ (g = Bypass => u = BypassUnit)
    BY <1>f, <2>u, SensorAssumption DEF UnitFor, Selections, NoUnit, Unknown, Bypass
  <2> HIDE DEF u, moved
  <2>3. /\ inUnit \in Managers /\ inUnit.unit = u /\ inUnit.gate = g
        /\ inUnit.armed # {} => inUnit.monitoring
        /\ \A s \in inUnit.armed : IsGateSensor(s) \/ s \in UnitLevel(u)
        /\ inUnit.flowguard \subseteq (IF inUnit.monitoring THEN {u} ELSE {})
    <3>1. CASE moved.unit = a.unit
      <4>1. a.unit = u /\ inUnit = moved
        BY <2>1, <3>1
      <4> QED BY <1>0, <2>1, <2>u, <4>1, Zenon DEF Scoped
    <3>2. CASE moved.unit # a.unit
      <4>1. inUnit = UnitSelected(moved)
        BY <3>2, Zenon
      <4>2. moved.unit # NoUnit /\ moved.unit = UnitFor(moved.gate, moved.unit)
        BY <2>1, <2>2, <2>u, Zenon
      <4> HIDE DEF inUnit
      <4> QED BY <2>1, <4>1, <4>2, UnitSelectedScoped, Zenon
    <3> QED BY <3>1, <3>2
  <2> HIDE DEF inUnit
  <2>4. ActiveMap(g, moved.unit) \in SUBSET Fitted
    BY ActiveMapFitted, Zenon
  <2>5. /\ b \in Managers /\ b.unit = inUnit.unit /\ b.gate = inUnit.gate
        /\ b.armed = inUnit.armed /\ b.monitoring = inUnit.monitoring
        /\ b.flowguard = inUnit.flowguard
    BY <2>3, <2>4, ZenonT(30) DEF Managers
  <2>6. SetGateSelected(a, g) = b
    BY <1>2, Zenon DEF SetGateSelected, inUnit, moved, u
  <2> HIDE DEF b
  <2>7. Scoped(b)
    BY <2>2, <2>3, <2>5, <2>u DEF Scoped
  <2> QED BY <2>5, <2>6, <2>7 DEF Sound
<1> QED BY <1>1, <1>2

-----------------------------------------------------------------------------
(* The invariant holds initially, and every action changes `mgr' only by the *)
(* operators above, by a FlowGuard trip, or by MMU_RESET.                    *)
MgrInv == Sound(mgr)

LEMMA InitSound == Init => MgrInv
<1> SUFFICES ASSUME Init PROVE Sound(mgr)
  BY DEF MgrInv
<1> PICK g \in Gates \cup {Unknown} :
      mgr = [monitoring |-> FALSE, gate |-> g, unit |-> UnitFor(g, 0), armed |-> {},
             active |-> ActiveMap(g, UnitFor(g, 0)), flowguard |-> {}, booting |-> FALSE]
  BY DEF Init
<1>1. UnitFor(g, 0) \in Units /\ UnitFor(g, 0) # NoUnit
  <2>1. g \in Selections /\ 0 \in Units \cup {NoUnit}
    BY SensorAssumption DEF Selections
  <2> QED BY <2>1, UnitForType, Zenon
<1>2. ActiveMap(g, UnitFor(g, 0)) \in SUBSET Fitted
  BY ActiveMapFitted, Zenon
<1>3. mgr \in Managers
  BY <1>1, <1>2, ZenonT(30) DEF Managers
<1>4. /\ mgr.unit = UnitFor(g, 0) /\ mgr.gate = g /\ mgr.armed = {} /\ mgr.flowguard = {}
      /\ mgr.monitoring = FALSE
  BY Zenon
<1>5. (g \in Gates => UnitFor(g, 0) = UnitOf[g]) /\ g # Bypass
  BY SensorAssumption DEF UnitFor, Unknown, Bypass
<1>6. Scoped(mgr)
  BY <1>1, <1>4, <1>5 DEF Scoped
<1> QED BY <1>3, <1>6 DEF Sound

(* The steps that leave `mgr' alone need no argument; the others:            *)
LEMMA FlowGuardTripSound ==
    ASSUME MgrInv, NEW u \in Units, FlowGuardTrips(u) PROVE MgrInv'
<1> DEFINE b == [mgr EXCEPT !.flowguard = @ \ {u}]
<1>1. mgr' = b
  BY DEF FlowGuardTrips
<1>2. mgr \in Managers /\ Scoped(mgr)
  BY DEF MgrInv, Sound
<1>3. mgr.flowguard \ {u} \in SUBSET Units
  BY <1>2, ManagerFields, Zenon
<1>4. /\ b \in Managers /\ b.unit = mgr.unit /\ b.gate = mgr.gate /\ b.armed = mgr.armed
      /\ b.monitoring = mgr.monitoring /\ b.flowguard = mgr.flowguard \ {u}
  BY <1>2, <1>3, ZenonT(30) DEF Managers
<1> HIDE DEF b
<1>5. Scoped(b)
  BY <1>2, <1>4 DEF Scoped
<1> QED BY <1>1, <1>4, <1>5 DEF MgrInv, Sound

LEMMA ResetSound == ASSUME MgrInv, Reset PROVE MgrInv'
<1> DEFINE b == [mgr EXCEPT !.monitoring = FALSE, !.gate = Unknown, !.unit = NoUnit,
                            !.booting = TRUE]
<1>1. mgr' = b
  BY DEF Reset
<1>2. mgr \in Managers
  BY DEF MgrInv, Sound
<1>3. b \in Managers /\ b.unit = NoUnit /\ b.gate = Unknown
  BY <1>2, ZenonT(30) DEF Managers
<1> HIDE DEF b
<1> QED BY <1>1, <1>3 DEF MgrInv, Sound, Scoped

LEMMA BootupSound == ASSUME MgrInv, Bootup PROVE MgrInv'
<1>1. mgr \in Managers
  BY DEF MgrInv, Sound
<1>2. PICK g \in Gates \cup {mgr.gate} :
        mgr' = [DisableMonitoring(SetGateSelected(mgr, g)) EXCEPT !.booting = FALSE]
  BY DEF Bootup
<1>3. g \in Selections
  BY <1>1, <1>2, ManagerFields, Zenon DEF Selections
<1> DEFINE c == DisableMonitoring(SetGateSelected(mgr, g))
           b == [c EXCEPT !.booting = FALSE]
<1>4. Sound(c)
  BY <1>3, SelectSound, DisableSound, Zenon DEF MgrInv
<1> HIDE DEF c
<1>5. /\ b \in Managers /\ b.unit = c.unit /\ b.gate = c.gate /\ b.armed = c.armed
      /\ b.monitoring = c.monitoring /\ b.flowguard = c.flowguard
  BY <1>4, ZenonT(30) DEF Managers, Sound
<1> HIDE DEF b
<1>6. Scoped(b)
  BY <1>4, <1>5 DEF Scoped, Sound
<1> QED BY <1>2, <1>5, <1>6 DEF MgrInv, Sound, b, c

(* A command that may turn monitoring back on, then pause the print.          *)
LEMMA FailsSound ==
    ASSUME MgrInv, OperationFails PROVE MgrInv'
<1> DEFINE left == IF Top.monitored THEN EnableMonitoring(mgr) ELSE mgr
<1>1. mgr' = IF job.psm THEN DisableMonitoring(left) ELSE left
  BY DEF OperationFails
<1>2. Sound(left)
  BY EnableSound, Zenon DEF MgrInv
<1> HIDE DEF left
<1> QED BY <1>1, <1>2, DisableSound, Zenon DEF MgrInv

-----------------------------------------------------------------------------
(* The helpers on frames, events and windows are well typed.                  *)
LEMMA FrameType ==
    ASSUME NEW kind \in EventTypes \cup {"preload", "change"},
           NEW s \in Fitted \cup {NoSensor}, NEW g \in Selections
    PROVE  Frame(kind, s, g) \in Frames
BY ZenonT(30) DEF Frame, Frames, Selections

LEMMA TopType ==
    ASSUME stack \in Seq(Frames), stack # <<>>
    PROVE  Top \in Frames /\ Pop \in Seq(Frames)
<1>1. Len(stack) \in DOMAIN stack
  OBVIOUS
<1>2. Top \in Frames
  BY <1>1 DEF Top
<1>3. Pop \in Seq(Frames)
  BY DEF Pop
<1> QED BY <1>2, <1>3

LEMMA FrameFields ==
    ASSUME NEW f \in Frames
    PROVE  /\ f.kind \in EventTypes \cup {"preload", "change"}
           /\ f.sensor \in Fitted \cup {NoSensor} /\ f.gate \in Selections
           /\ f.monitored \in BOOLEAN
BY ZenonT(30) DEF Frames, Selections

LEMMA TopToType ==
    ASSUME stack \in Seq(Frames), stack # <<>>,
           NEW stage \in {"begin", "selected", "moving", "end"}, NEW monitored \in BOOLEAN,
           TopTo(stage, monitored)
    PROVE  stack' \in Seq(Frames)
<1>1. [Top EXCEPT !.stage = stage, !.monitored = monitored] \in Frames
  BY TopType, ZenonT(30) DEF Frames
<1> QED BY <1>1, TopType DEF TopTo

LEMMA AgedType ==
    ASSUME NEW events \in Seq(QueuedEvents), NEW change \in [QueuedEvents -> QueuedEvents]
    PROVE  Aged(events, change) \in Seq(QueuedEvents)
BY DEF Aged

LEMMA AgingType ==
    /\ BeforeDisable \in [QueuedEvents -> QueuedEvents]
    /\ AllHandled \in [QueuedEvents -> QueuedEvents]
<1>1. \A e \in QueuedEvents : [e EXCEPT !.age = "before"] \in QueuedEvents
  BY ZenonT(30) DEF QueuedEvents
<1>2. \A e \in QueuedEvents : [e EXCEPT !.age = "before", !.handled = TRUE] \in QueuedEvents
  BY ZenonT(30) DEF QueuedEvents
<1> QED BY <1>1, <1>2, Zenon DEF BeforeDisable, AllHandled

LEMMA AgedByDisableType ==
    ASSUME NEW events \in Seq(QueuedEvents)
    PROVE  AgedByDisable(events) \in Seq(QueuedEvents)
<1> USE AgingType, AgedType
<1> QED BY Zenon DEF AgedByDisable

LEMMA RaiseType ==
    ASSUME TypeOK, NEW type \in EventTypes, NEW s \in Fitted, Raise(type, s)
    PROVE  /\ queue' \in Seq(QueuedEvents)
           /\ window' \in [Fitted -> {"open", "delay", "never"}]
<1>1. mgr.monitoring \in BOOLEAN
  BY ManagerFields, Zenon DEF TypeOK
<1>2. NewEvent(type, s) \in QueuedEvents
  BY <1>1, ZenonT(30) DEF NewEvent, QueuedEvents
<1> QED BY <1>2 DEF Raise, TypeOK

LEMMA ReopenedType ==
    ASSUME TypeOK, NEW s
    PROVE  Reopened(s) \in [Fitted -> {"open", "delay", "never"}]
BY DEF Reopened, TypeOK

LEMMA JobType ==
    ASSUME TypeOK
    PROVE  /\ Stopped \in [stats : BOOLEAN, psm : BOOLEAN, paused : BOOLEAN]
           /\ Resumed(job) \in [stats : BOOLEAN, psm : BOOLEAN, paused : BOOLEAN]
BY ZenonT(30) DEF Stopped, Resumed, TypeOK

(* EventFor names an event of the sensor, or none.                           *)
LEMMA EventForType ==
    ASSUME NEW s, NEW detected \in BOOLEAN
    PROVE  EventFor(s, detected) \in EventTypes \cup {"none"}
BY DEF EventFor, EventTypes

-----------------------------------------------------------------------------
(* Every step keeps both.                                                     *)
Inv == TypeOK /\ MgrInv

LEMMA InitInv == Init => Inv
<1> SUFFICES ASSUME Init PROVE Inv
  OBVIOUS
<1>1. MgrInv
  BY InitSound
<1>2. mgr \in Managers
  BY <1>1 DEF MgrInv, Sound
<1>3. job \in [stats : BOOLEAN, psm : BOOLEAN, paused : BOOLEAN]
  BY Zenon DEF Init, Stopped
<1>4. queue \in Seq(QueuedEvents) /\ stack \in Seq(Frames)
  BY DEF Init
<1> QED BY <1>1, <1>2, <1>3, <1>4 DEF Init, Inv, TypeOK

LEMMA SensorStepInv ==
    ASSUME Inv, NEW s \in Fitted, SensorStep(s) PROVE Inv'
<1> USE DEF Inv
<1>1. CASE Edge(s)
  <2>1. present' \subseteq Fitted
    BY <1>1 DEF Edge, TypeOK
  <2> DEFINE type == EventFor(s, s \notin present)
  <2>2. type \in EventTypes \cup {"none"}
    BY EventForType, Zenon
  <2>3. (type # "none" /\ Raise(type, s)) \/ UNCHANGED <<queue, window>>
    BY <1>1, Zenon DEF Edge
  <2> HIDE DEF type
  <2>4. /\ queue' \in Seq(QueuedEvents)
        /\ window' \in [Fitted -> {"open", "delay", "never"}]
    <3>1. CASE type # "none" /\ Raise(type, s)
      BY <2>2, <3>1, RaiseType, Zenon
    <3>2. CASE UNCHANGED <<queue, window>>
      BY <3>2 DEF TypeOK
    <3> QED BY <2>3, <3>1, <3>2
  <2>5. UNCHANGED <<mgr, enabled, saved, job, stack>>
    BY <1>1 DEF Edge
  <2> QED BY <2>1, <2>4, <2>5 DEF TypeOK, MgrInv
<1>2. CASE DelayPasses(s)
  BY <1>2 DEF DelayPasses, TypeOK, MgrInv
<1>3. CASE SetSensorEnabled(s)
  BY <1>3 DEF SetSensorEnabled, TypeOK, MgrInv
<1> QED BY <1>1, <1>2, <1>3 DEF SensorStep

LEMMA FlowGuardTripInv ==
    ASSUME Inv, NEW u \in Units, FlowGuardTrips(u) PROVE Inv'
<1> USE DEF Inv
<1>1. MgrInv'
  BY FlowGuardTripSound
<1>2. /\ queue' \in Seq(QueuedEvents)
      /\ window' \in [Fitted -> {"open", "delay", "never"}]
  <2>1. CASE UNCHANGED <<queue, window>>
    BY <2>1 DEF TypeOK
  <2>2. CASE \E s \in mgr.active \cap enabled : Raise("clog", s)
    <3>1. PICK s \in enabled : Raise("clog", s)
      BY <2>2
    <3>2. s \in Fitted /\ "clog" \in EventTypes
      BY DEF TypeOK, EventTypes
    <3> QED BY <3>1, <3>2, RaiseType, Zenon
  <2> QED BY <2>1, <2>2, Zenon DEF FlowGuardTrips
<1>3. UNCHANGED <<present, enabled, saved, job, stack>>
  BY DEF FlowGuardTrips
<1> QED BY <1>1, <1>2, <1>3 DEF TypeOK, MgrInv, Sound

LEMMA CommandInv ==
    ASSUME Inv, Commands PROVE Inv'
<1> USE DEF Inv
<1>1. CASE JobStarts
  <2>1. job' \in [stats : BOOLEAN, psm : BOOLEAN, paused : BOOLEAN]
    BY <1>1, ZenonT(30) DEF JobStarts, TypeOK
  <2>2. MgrInv'
    BY <1>1, EnableSound, Zenon DEF JobStarts, MgrInv
  <2>3. UNCHANGED <<present, enabled, window, saved, queue, stack>>
    BY <1>1 DEF JobStarts
  <2> QED BY <2>1, <2>2, <2>3 DEF TypeOK, MgrInv, Sound
<1>2. CASE JobStops
  <2>1. job' \in [stats : BOOLEAN, psm : BOOLEAN, paused : BOOLEAN]
    BY <1>2, JobType, Zenon DEF JobStops
  <2>2. MgrInv'
    BY <1>2, DisableSound, Zenon DEF JobStops, MgrInv
  <2>3. queue' \in Seq(QueuedEvents)
    BY <1>2, AgedByDisableType, Zenon DEF JobStops, TypeOK
  <2>4. UNCHANGED <<present, enabled, window, saved, stack>>
    BY <1>2 DEF JobStops
  <2> QED BY <2>1, <2>2, <2>3, <2>4 DEF TypeOK, MgrInv, Sound
<1>3. CASE Reset
  <2>1. job' \in [stats : BOOLEAN, psm : BOOLEAN, paused : BOOLEAN]
    BY <1>3, ZenonT(30) DEF Reset, TypeOK
  <2>2. MgrInv'
    BY <1>3, ResetSound
  <2>3. queue' \in Seq(QueuedEvents)
    BY <1>3, AgedType, AgingType, Zenon DEF Reset, TypeOK
  <2>4. UNCHANGED <<present, enabled, window, saved, stack>>
    BY <1>3 DEF Reset
  <2> QED BY <2>1, <2>2, <2>3, <2>4 DEF TypeOK, MgrInv, Sound
<1>4. CASE Bootup
  <2>1. job' \in [stats : BOOLEAN, psm : BOOLEAN, paused : BOOLEAN]
    BY <1>4, ZenonT(30) DEF Bootup, TypeOK
  <2>2. MgrInv'
    BY <1>4, BootupSound
  <2>3. queue' \in Seq(QueuedEvents)
    BY <1>4, AgedByDisableType, Zenon DEF Bootup, TypeOK
  <2>4. UNCHANGED <<present, enabled, window, saved, stack>>
    BY <1>4 DEF Bootup
  <2> QED BY <2>1, <2>2, <2>3, <2>4 DEF TypeOK, MgrInv, Sound
<1>5. ASSUME NEW g \in Gates, Preload(g) \/ Change(g) PROVE Inv'
  <2>1. /\ Frame("preload", NoSensor, g) \in Frames
        /\ Frame("change", NoSensor, g) \in Frames
    BY FrameType, Zenon DEF Selections
  <2>2. stack' \in Seq(Frames)
    BY <1>5, <2>1 DEF Preload, Change, Push, TypeOK
  <2>3. UNCHANGED <<mgr, present, enabled, window, saved, job, queue>>
    BY <1>5 DEF Preload, Change
  <2> QED BY <2>2, <2>3 DEF TypeOK, MgrInv
<1>6. ASSUME NEW g \in Gates \cup {Unknown, Bypass}, SelectCommand(g) PROVE Inv'
  <2>1. MgrInv'
    BY <1>6, SelectSound, Zenon DEF SelectCommand, MgrInv, Selections
  <2>2. UNCHANGED <<present, enabled, window, saved, job, queue, stack>>
    BY <1>6 DEF SelectCommand
  <2> QED BY <2>1, <2>2 DEF TypeOK, MgrInv, Sound
<1> QED BY <1>1, <1>2, <1>3, <1>4, <1>5, <1>6 DEF Commands

LEMMA PreloadInv ==
    ASSUME Inv, PreloadSelects \/ PreloadSuspends \/ PreloadRestores \/ PreloadEnds
    PROVE  Inv'
<1> USE DEF Inv
<1>t. stack \in Seq(Frames) /\ mgr.monitoring \in BOOLEAN /\ mgr.gate \in Selections
  BY ManagerFields, Zenon DEF TypeOK
<1>s. stack # <<>> => /\ Top \in Frames /\ Pop \in Seq(Frames)
                      /\ Top.gate \in Selections /\ Top.monitored \in BOOLEAN
  BY <1>t, TopType, FrameFields, Zenon
<1>1. CASE PreloadSelects
  <2>1. MgrInv'
    BY <1>1, <1>s, SelectSound, Zenon DEF PreloadSelects, Running, MgrInv
  <2>2. [Top EXCEPT !.stage = "selected", !.gate = mgr.gate] \in Frames
    BY <1>1, <1>s, <1>t, ZenonT(30) DEF PreloadSelects, Running, Frames, Selections
  <2>3. stack' \in Seq(Frames)
    BY <1>1, <1>s, <2>2 DEF PreloadSelects, Running
  <2>4. UNCHANGED <<present, enabled, window, saved, job, queue>>
    BY <1>1 DEF PreloadSelects
  <2> QED BY <2>1, <2>3, <2>4 DEF TypeOK, MgrInv, Sound
<1>2. CASE PreloadSuspends
  <2>1. MgrInv'
    BY <1>2, DisableSound, Zenon DEF PreloadSuspends, MgrInv
  <2>2. stack' \in Seq(Frames)
    BY <1>2, <1>t, TopToType, Zenon DEF PreloadSuspends, Running
  <2>3. queue' \in Seq(QueuedEvents)
    BY <1>2, AgedByDisableType, Zenon DEF PreloadSuspends, TypeOK
  <2>4. /\ saved' \in [Fitted -> {"none", "open", "delay", "never"}]
        /\ window' \in [Fitted -> {"open", "delay", "never"}]
    BY <1>2 DEF PreloadSuspends, SuspendEvents, TypeOK
  <2>5. UNCHANGED <<present, enabled, job>>
    BY <1>2 DEF PreloadSuspends
  <2> QED BY <2>1, <2>2, <2>3, <2>4, <2>5 DEF TypeOK, MgrInv, Sound
<1>3. CASE PreloadRestores
  <2>1. MgrInv'
    BY <1>3, EnableSound, Zenon DEF PreloadRestores, MgrInv
  <2>2. stack' \in Seq(Frames)
    BY <1>3, <1>t, TopToType, Zenon DEF PreloadRestores, Running
  <2>3. /\ saved' \in [Fitted -> {"none", "open", "delay", "never"}]
        /\ window' \in [Fitted -> {"open", "delay", "never"}]
    BY <1>3 DEF PreloadRestores, RestoreEvents, TypeOK
  <2>4. UNCHANGED <<present, enabled, job, queue>>
    BY <1>3 DEF PreloadRestores
  <2> QED BY <2>1, <2>2, <2>3, <2>4 DEF TypeOK, MgrInv, Sound
<1>4. CASE PreloadEnds
  <2>1. MgrInv'
    BY <1>4, <1>s, <1>t, SelectSound, Zenon DEF PreloadEnds, Running, MgrInv
  <2>2. stack' \in Seq(Frames)
    BY <1>4, <1>s DEF PreloadEnds, Running
  <2>3. UNCHANGED <<present, enabled, window, saved, job, queue>>
    BY <1>4 DEF PreloadEnds
  <2> QED BY <2>1, <2>2, <2>3 DEF TypeOK, MgrInv, Sound
<1> QED BY <1>1, <1>2, <1>3, <1>4

LEMMA OperationInv ==
    ASSUME Inv,
           \/ OperationSuspends \/ OperationEnds \/ OperationFails
           \/ \E g \in Gates \cup {Unknown} : OperationSelects(g)
    PROVE  Inv'
<1> USE DEF Inv
<1>t. stack \in Seq(Frames) /\ mgr.monitoring \in BOOLEAN
  BY ManagerFields, Zenon DEF TypeOK
<1>s. stack # <<>> => Top \in Frames /\ Pop \in Seq(Frames)
  BY <1>t, TopType, Zenon
<1>w. Reopened(Top.sensor) \in [Fitted -> {"open", "delay", "never"}]
  BY ReopenedType, Zenon
<1>1. CASE OperationSuspends
  <2>1. MgrInv'
    BY <1>1, DisableSound, Zenon DEF OperationSuspends, MgrInv
  <2>2. stack' \in Seq(Frames)
    BY <1>1, <1>t, TopToType, Zenon DEF OperationSuspends, Running
  <2>3. queue' \in Seq(QueuedEvents)
    <3> DEFINE aged == AgedByDisable(queue)
    <3>1. aged \in Seq(QueuedEvents)
      BY AgedByDisableType, Zenon DEF TypeOK
    <3>2. \A e \in QueuedEvents : [e EXCEPT !.handled = TRUE] \in QueuedEvents
      BY ZenonT(30) DEF QueuedEvents
    <3>3. queue' = aged \/ queue' = [i \in DOMAIN aged |-> [aged[i] EXCEPT !.handled = TRUE]]
      BY <1>1, Zenon DEF OperationSuspends
    <3> HIDE DEF aged
    <3> DEFINE marked == [i \in DOMAIN aged |-> [aged[i] EXCEPT !.handled = TRUE]]
    <3>4. marked \in Seq(QueuedEvents)
      <4>1. \A i \in DOMAIN aged : aged[i] \in QueuedEvents
        BY <3>1
      <4>2. marked \in [DOMAIN aged -> QueuedEvents]
        BY <3>2, <4>1, Zenon
      <4>3. DOMAIN aged = 1..Len(aged) /\ Len(aged) \in Nat
        BY <3>1
      <4> HIDE DEF marked
      <4> QED BY <4>2, <4>3 DEF Seq
    <3> QED BY <3>1, <3>3, <3>4, Zenon
  <2>4. UNCHANGED <<present, enabled, window, saved, job>>
    BY <1>1 DEF OperationSuspends
  <2> QED BY <2>1, <2>2, <2>3, <2>4 DEF TypeOK, MgrInv, Sound
<1>2. CASE OperationEnds
  <2>1. MgrInv'
    BY <1>2, EnableSound, Zenon DEF OperationEnds, MgrInv
  <2>2. stack' \in Seq(Frames)
    BY <1>2, <1>s DEF OperationEnds, Running
  <2>3. window' \in [Fitted -> {"open", "delay", "never"}]
    BY <1>2, <1>w, Zenon DEF OperationEnds, TypeOK
  <2>4. job' \in [stats : BOOLEAN, psm : BOOLEAN, paused : BOOLEAN]
    BY <1>2, JobType, Zenon DEF OperationEnds, TypeOK
  <2>5. UNCHANGED <<present, enabled, saved, queue>>
    BY <1>2 DEF OperationEnds
  <2> QED BY <2>1, <2>2, <2>3, <2>4, <2>5 DEF TypeOK, MgrInv, Sound
<1>3. CASE OperationFails
  <2>1. MgrInv'
    BY <1>3, FailsSound
  <2>2. stack' \in Seq(Frames)
    BY <1>3, <1>s DEF OperationFails, Running, AtExtruder
  <2>3. window' \in [Fitted -> {"open", "delay", "never"}]
    BY <1>3, <1>w, Zenon DEF OperationFails, TypeOK
  <2>4. job' \in [stats : BOOLEAN, psm : BOOLEAN, paused : BOOLEAN]
    BY <1>3, JobType, Zenon DEF OperationFails, TypeOK
  <2>5. queue' \in Seq(QueuedEvents)
    BY <1>3, AgedType, AgingType, Zenon DEF OperationFails, TypeOK
  <2>6. UNCHANGED <<present, enabled, saved>>
    BY <1>3 DEF OperationFails
  <2> QED BY <2>1, <2>2, <2>3, <2>4, <2>5, <2>6 DEF TypeOK, MgrInv, Sound
<1>4. ASSUME NEW g \in Gates \cup {Unknown}, OperationSelects(g) PROVE Inv'
  <2>1. MgrInv'
    BY <1>4, SelectSound, Zenon DEF OperationSelects, MgrInv, Selections
  <2>2. UNCHANGED <<present, enabled, window, saved, job, queue, stack>>
    BY <1>4 DEF OperationSelects
  <2> QED BY <2>1, <2>2 DEF TypeOK, MgrInv, Sound
<1> QED BY <1>1, <1>2, <1>3, <1>4

LEMMA HandlerInv ==
    ASSUME Inv, SdPauses \/ StartHandler \/ InsertAutoloads \/ HandlerEnds
    PROVE  Inv'
<1> USE DEF Inv
<1>t. stack \in Seq(Frames) /\ mgr.gate \in Selections
  BY ManagerFields, Zenon DEF TypeOK
<1>s. stack # <<>> => Top \in Frames /\ Pop \in Seq(Frames)
  BY <1>t, TopType, Zenon
<1>1. CASE SdPauses
  <2>1. job' \in [stats : BOOLEAN, psm : BOOLEAN, paused : BOOLEAN]
    BY <1>1, ZenonT(30) DEF SdPauses, TypeOK
  <2> QED BY <1>1, <2>1 DEF SdPauses, TypeOK, MgrInv
<1>2. CASE StartHandler
  <2> DEFINE e == Head(queue)
  <2>1. e \in QueuedEvents /\ queue' \in Seq(QueuedEvents)
    BY <1>2 DEF StartHandler, TypeOK
  <2>2. e.type \in EventTypes /\ e.sensor \in Fitted
    <3> HIDE DEF e
    <3> QED BY <2>1, ZenonT(30) DEF QueuedEvents
  <2> DEFINE f == Frame(e.type, e.sensor, mgr.gate)
  <2>3. f \in Frames
    BY <2>2, <1>t, FrameType, Zenon
  <2>4. \E stage \in {"begin", "end"} : stack' = Append(stack, [f EXCEPT !.stage = stage])
    BY <1>2, Zenon DEF StartHandler, Push
  <2> HIDE DEF f
  <2>5. \A stage \in {"begin", "end"} : [f EXCEPT !.stage = stage] \in Frames
    BY <2>3, ZenonT(30) DEF Frames
  <2>6. stack' \in Seq(Frames)
    BY <1>t, <2>4, <2>5
  <2>7. UNCHANGED <<mgr, present, enabled, window, saved, job>>
    BY <1>2 DEF StartHandler
  <2> QED BY <2>1, <2>6, <2>7 DEF TypeOK, MgrInv
<1>3. CASE InsertAutoloads
  <2>0. stack # <<>> /\ Top.kind = "insert" /\ Top \in Frames
    BY <1>3, <1>s DEF InsertAutoloads, Running
  <2>1. [Top EXCEPT !.stage = "end"] \in Frames
    BY <2>0, ZenonT(30) DEF Frames
  <2>2. Top.sensor.kind = "entry" => Top.sensor.at \in Gates
    <3>1. Top.sensor \in Sensors \/ Top.sensor = NoSensor
      BY <2>0, FrameFields, SensorAssumption, Zenon
    <3>2. \A s \in Sensors : s.kind = "entry" => s.at \in Gates
      BY DEF Sensors
    <3>3. NoSensor.kind # "entry"
      BY DEF NoSensor
    <3> QED BY <3>1, <3>2, <3>3, Zenon
  <2>3. /\ Top.sensor.kind = "entry" => Frame("preload", NoSensor, Top.sensor.at) \in Frames
        /\ Frame("change", NoSensor, Bypass) \in Frames
    BY <2>2, FrameType, Zenon DEF Selections
  <2>4. stack' \in Seq(Frames)
    <3> DEFINE f == IF Top.sensor.kind = "entry" THEN Frame("preload", NoSensor, Top.sensor.at)
                    ELSE Frame("change", NoSensor, Bypass)
               h == [Top EXCEPT !.stage = "end"]
    <3>1. f \in Frames /\ h \in Frames
      BY <2>1, <2>3, Zenon
    <3>2. stack' = <<h, f>>
      BY <1>3, Zenon DEF InsertAutoloads
    <3> HIDE DEF f, h
    <3> QED BY <3>1, <3>2
  <2>5. UNCHANGED <<mgr, present, enabled, window, saved, job, queue>>
    BY <1>3 DEF InsertAutoloads
  <2> QED BY <2>4, <2>5 DEF TypeOK, MgrInv
<1>4. CASE HandlerEnds
  <2>1. stack' \in Seq(Frames)
    BY <1>4, <1>s DEF HandlerEnds, Running
  <2>2. window' \in [Fitted -> {"open", "delay", "never"}]
    BY <1>4, ReopenedType, Zenon DEF HandlerEnds
  <2>3. job' \in [stats : BOOLEAN, psm : BOOLEAN, paused : BOOLEAN]
    BY <1>4, JobType, Zenon DEF HandlerEnds, TypeOK
  <2>4. UNCHANGED <<mgr, present, enabled, saved, queue>>
    BY <1>4 DEF HandlerEnds
  <2> QED BY <2>1, <2>2, <2>3, <2>4 DEF TypeOK, MgrInv
<1> QED BY <1>1, <1>2, <1>3, <1>4

LEMMA NextInv == Inv /\ [Next]_vars => Inv'
<1> SUFFICES ASSUME Inv, [Next]_vars PROVE Inv'
  OBVIOUS
<1>1. CASE UNCHANGED vars
  BY <1>1 DEF vars, Inv, TypeOK, MgrInv
<1>2. CASE Next
  BY <1>2, SensorStepInv, FlowGuardTripInv, CommandInv, PreloadInv, OperationInv,
     HandlerInv, Zenon DEF Next, OperationSteps
<1> QED BY <1>1, <1>2

-----------------------------------------------------------------------------
(* The results. *)

THEOREM InvariantHolds == Spec => []Inv
<1> QED BY InitInv, NextInv, PTL DEF Spec

(* The state stays well formed, for any machine and any sensors.              *)
THEOREM TypeCorrect == Spec => []TypeOK
<1>1. Inv => TypeOK
  BY DEF Inv
<1> QED BY <1>1, InvariantHolds, PTL

(* Whatever gates and units are selected in whatever order, monitoring that   *)
(* is off leaves no sensor armed (the manager's _runout_sensors).             *)
THEOREM NothingArmedUnmonitored == Spec => []ArmedOnlyMonitored
<1>1. Inv => ArmedOnlyMonitored
  BY DEF Inv, MgrInv, Sound, Scoped, ArmedOnlyMonitored
<1> QED BY <1>1, InvariantHolds, PTL

(* A unit that is not selected never has an armed sensor of its own           *)
(* (_handle_unit_selected).                                                   *)
THEOREM OtherUnitsDisarmed == Spec => []ForeignDisarmed
<1>1. Inv => ForeignDisarmed
  BY DEF Inv, MgrInv, Sound, Scoped, ForeignDisarmed
<1> QED BY <1>1, InvariantHolds, PTL

(* FlowGuard is never active on another unit, or without monitoring           *)
(* (_apply_flowguard_scope).                                                  *)
THEOREM FlowGuardInScope == Spec => []FlowGuardScoped
<1>1. Inv => FlowGuardScoped
  BY DEF Inv, MgrInv, Sound, Scoped, FlowGuardScoped
<1> QED BY <1>1, InvariantHolds, PTL

(* Nothing pauses the print unmonitored, and nothing of a unit that is not    *)
(* selected does (_runout_sensors, _handle_unit_selected,                     *)
(* _apply_flowguard_scope).                                                   *)
THEOREM ArmedStayInScope == Spec => []ArmedInScope
<1>1. ArmedOnlyMonitored /\ ForeignDisarmed /\ FlowGuardScoped => ArmedInScope
  BY DEF ArmedInScope
<1> QED BY <1>1, NothingArmedUnmonitored, OtherUnitsDisarmed, FlowGuardInScope, PTL

-----------------------------------------------------------------------------
(* An insertion during a preload.  The sensors of the selected gate are the  *)
(* active ones, a preload runs only on top of the insert handler that        *)
(* started it, and while it moves no active sensor can raise an event.       *)

Mapped(a) == a.gate \in Gates => a.active = GateMap(a.gate)

OnlyInsertsNest == \A i \in 1..(Len(stack) - 1) : stack[i].kind = "insert"

PreloadSilent ==
    Running({"preload"}, "moving") => \A s \in mgr.active : window[s] = "never"

SilentInv == Mapped(mgr) /\ OnlyInsertsNest /\ PreloadSilent

(* What a selection changes besides the arming: the gate, its unit, and the  *)
(* sensors that are active.                                                  *)
LEMMA SelectFields ==
    ASSUME NEW a, Sound(a), NEW g \in Selections
    PROVE  LET b == SetGateSelected(a, g)
           IN  /\ b.gate = g
               /\ a.unit # NoUnit => b.unit # NoUnit
               /\ Mapped(a) => Mapped(b)
<1>0. a \in Managers
  BY DEF Sound
<1>f. a.gate \in Selections /\ a.unit \in Units \cup {NoUnit}
  BY <1>0, ManagerFields, Zenon
<1>1. CASE g = a.gate
  BY <1>1, Zenon DEF SetGateSelected
<1>2. CASE g # a.gate
  <2> DEFINE u == UnitFor(g, a.unit)
             moved == [a EXCEPT !.gate = g, !.unit = u]
             inUnit == IF moved.unit = a.unit THEN moved ELSE UnitSelected(moved)
             b == [inUnit EXCEPT !.active = ActiveMap(g, moved.unit)]
  <2>u. u \in Units /\ u # NoUnit
    BY <1>f, UnitForType, Zenon
  <2>1. moved \in Managers /\ moved.gate = g /\ moved.unit = u
    <3> HIDE DEF u
    <3> QED BY <1>0, <2>u, ZenonT(30) DEF Managers, Selections
  <2>2. u = UnitFor(g, u)
    BY <1>f, <2>u, SensorAssumption DEF UnitFor, Selections, NoUnit, Unknown, Bypass
  <2> HIDE DEF u, moved
  <2>3. inUnit \in Managers /\ inUnit.unit = u /\ inUnit.gate = g
    <3>1. CASE moved.unit = a.unit
      BY <2>1, <3>1, Zenon
    <3>2. CASE moved.unit # a.unit
      <4>1. inUnit = UnitSelected(moved)
        BY <3>2, Zenon
      <4>2. moved.unit # NoUnit /\ moved.unit = UnitFor(moved.gate, moved.unit)
        BY <2>1, <2>2, <2>u, Zenon
      <4> HIDE DEF inUnit
      <4> QED BY <2>1, <4>1, <4>2, UnitSelectedScoped, Zenon
    <3> QED BY <3>1, <3>2, Zenon
  <2> HIDE DEF inUnit
  <2>4. b.gate = g /\ b.unit = u /\ b.active = ActiveMap(g, u)
    BY <2>1, <2>3, ZenonT(30) DEF Managers
  <2>5. g \in Gates => ActiveMap(g, u) = GateMap(g)
    BY Zenon DEF ActiveMap
  <2>6. SetGateSelected(a, g) = b
    BY <1>2, Zenon DEF SetGateSelected, inUnit, moved, u
  <2> HIDE DEF b
  <2> QED BY <2>4, <2>5, <2>6, <2>u, Zenon DEF Mapped
<1> QED BY <1>1, <1>2, Zenon

(* Suspending and resuming monitoring leaves the selection alone.             *)
LEMMA MonitoringFields ==
    ASSUME NEW a \in Managers
    PROVE  /\ DisableMonitoring(a).gate = a.gate /\ DisableMonitoring(a).unit = a.unit
           /\ DisableMonitoring(a).active = a.active
           /\ EnableMonitoring(a).gate = a.gate /\ EnableMonitoring(a).unit = a.unit
           /\ EnableMonitoring(a).active = a.active
BY ZenonT(30) DEF DisableMonitoring, EnableMonitoring, Managers

LEMMA MonitoringMapped ==
    ASSUME NEW a \in Managers, Mapped(a)
    PROVE  Mapped(DisableMonitoring(a)) /\ Mapped(EnableMonitoring(a))
BY MonitoringFields, Zenon DEF Mapped

(* Whatever a step does, the sensors of the selected gate stay the active     *)
(* ones.                                                                      *)
LEMMA MappedKept ==
    ASSUME Inv, Mapped(mgr), [Next]_vars PROVE Mapped(mgr')
<1>m. mgr \in Managers /\ Sound(mgr) /\ mgr.gate \in Selections
  BY ManagerFields, Zenon DEF Inv, TypeOK, MgrInv
<1>u. CASE UNCHANGED mgr
  BY <1>u DEF Mapped
<1>1. ASSUME NEW u \in Units, FlowGuardTrips(u) PROVE Mapped(mgr')
  <2>1. mgr' = [mgr EXCEPT !.flowguard = @ \ {u}]
    BY <1>1, Zenon DEF FlowGuardTrips
  <2>2. mgr'.gate = mgr.gate /\ mgr'.active = mgr.active
    BY <1>m, <2>1, ZenonT(30) DEF Managers
  <2> QED BY <2>2, Zenon DEF Mapped
<1>2. CASE JobStarts
  BY <1>2, <1>m, MonitoringMapped, Zenon DEF JobStarts
<1>3. CASE JobStops
  BY <1>3, <1>m, MonitoringMapped, Zenon DEF JobStops
<1>4. CASE Reset
  <2>1. mgr' = [mgr EXCEPT !.monitoring = FALSE, !.gate = Unknown, !.unit = NoUnit,
                           !.booting = TRUE]
    BY <1>4, Zenon DEF Reset
  <2>2. mgr'.gate = Unknown
    BY <1>m, <2>1, ZenonT(30) DEF Managers
  <2> QED BY <2>2, SensorAssumption DEF Mapped, Unknown
<1>5. CASE Bootup
  <2>1. PICK g \in Gates \cup {mgr.gate} :
          mgr' = [DisableMonitoring(SetGateSelected(mgr, g)) EXCEPT !.booting = FALSE]
    BY <1>5, Zenon DEF Bootup
  <2>2. g \in Selections
    BY <1>m, Zenon DEF Selections
  <2> DEFINE c == SetGateSelected(mgr, g)
             d == DisableMonitoring(c)
  <2>3. Sound(c) /\ Mapped(c)
    BY <1>m, <2>2, SelectSound, SelectFields, Zenon
  <2>4. d \in Managers /\ Mapped(d)
    <3> HIDE DEF c
    <3> QED BY <2>3, DisableSound, MonitoringMapped, Zenon DEF Sound
  <2> HIDE DEF d
  <2>5. mgr'.gate = d.gate /\ mgr'.active = d.active
    BY <2>1, <2>4, ZenonT(30) DEF Managers, d
  <2> QED BY <2>4, <2>5, Zenon DEF Mapped
<1>6. ASSUME NEW g \in Selections, mgr' = SetGateSelected(mgr, g) PROVE Mapped(mgr')
  BY <1>6, <1>m, SelectFields, Zenon
<1>7. CASE OperationFails
  <2> DEFINE left == IF Top.monitored THEN EnableMonitoring(mgr) ELSE mgr
  <2>1. mgr' = IF job.psm THEN DisableMonitoring(left) ELSE left
    BY <1>7, Zenon DEF OperationFails
  <2>2. left \in Managers /\ Mapped(left)
    BY <1>m, EnableSound, MonitoringMapped, Zenon DEF Sound
  <2> HIDE DEF left
  <2> QED BY <2>1, <2>2, MonitoringMapped, Zenon
<1>8. CASE PreloadSuspends \/ OperationSuspends
  BY <1>8, <1>m, MonitoringMapped, Zenon DEF PreloadSuspends, OperationSuspends
<1>9. CASE PreloadRestores \/ OperationEnds
  BY <1>9, <1>m, MonitoringMapped, Zenon DEF PreloadRestores, OperationEnds
<1>t. stack # <<>> => Top.gate \in Selections
  <2>1. stack \in Seq(Frames)
    BY DEF Inv, TypeOK
  <2> QED BY <2>1, TopType, FrameFields, Zenon
<1>10. CASE PreloadSelects \/ PreloadEnds
  <2>1. \E g \in Selections : mgr' = SetGateSelected(mgr, g)
    BY <1>10, <1>m, <1>t, Zenon DEF PreloadSelects, PreloadEnds, Running
  <2> QED BY <1>6, <2>1, Zenon
<1>11. ASSUME NEW g \in Selections, SelectCommand(g) \/ OperationSelects(g) PROVE Mapped(mgr')
  BY <1>6, <1>11, Zenon DEF SelectCommand, OperationSelects
<1>12. CASE \/ \E s \in Fitted : SensorStep(s)
            \/ SdPauses \/ StartHandler \/ InsertAutoloads \/ HandlerEnds
            \/ \E g \in Gates : Preload(g) \/ Change(g)
            \/ UNCHANGED vars
  <2>1. UNCHANGED mgr
    BY <1>12, Zenon DEF SensorStep, Edge, DelayPasses, SetSensorEnabled, SdPauses,
       StartHandler, InsertAutoloads, HandlerEnds, Preload, Change, vars
  <2> QED BY <1>u, <2>1
<1>g. Gates \cup {Unknown} \subseteq Selections /\ Gates \cup {Unknown, Bypass} \subseteq Selections
  BY Zenon DEF Selections
<1>13. CASE Commands
  BY <1>13, <1>2, <1>3, <1>4, <1>5, <1>11, <1>12, <1>g, Zenon DEF Commands
<1>14. CASE OperationSteps
  BY <1>14, <1>7, <1>8, <1>9, <1>10, <1>11, <1>g, Zenon DEF OperationSteps
<1> QED BY <1>1, <1>12, <1>13, <1>14, Zenon DEF Next

(* A pushed command begins, with nothing moving yet.                          *)
LEMMA PushedTop ==
    ASSUME stack = <<>>, NEW f, Push(f)
    PROVE  Len(stack') = 1 /\ stack' # <<>> /\ Top' = f
<1>1. stack' = <<f>>
  BY DEF Push
<1>2. Len(stack') = 1 /\ stack'[1] = f /\ stack' # <<>>
  BY <1>1
<1>3. Top' = stack'[1]
  BY <1>2, Zenon DEF Top
<1> QED BY <1>2, <1>3, Zenon

(* The stack without its top.                                                 *)
LEMMA PopParts ==
    ASSUME stack \in Seq(Frames), stack # <<>>
    PROVE  Len(Pop) = Len(stack) - 1 /\ \A i \in 1..(Len(stack) - 1) : Pop[i] = stack[i]
<1> DEFINE n == Len(stack) - 1
<1>1. n \in Nat /\ n < Len(stack)
  OBVIOUS
<1> HIDE DEF n
<1>2. Len(SubSeq(stack, 1, n)) = n /\ \A i \in 1..n : SubSeq(stack, 1, n)[i] = stack[i]
  BY <1>1
<1> QED BY <1>2, Zenon DEF Pop, n

(* Replacing the command on top keeps those below it.                         *)
LEMMA ReplacedTop ==
    ASSUME stack \in Seq(Frames), stack # <<>>, NEW f, stack' = Append(Pop, f)
    PROVE  /\ Len(stack') = Len(stack) /\ stack' # <<>> /\ Top' = f
           /\ \A i \in 1..(Len(stack) - 1) : stack'[i] = stack[i]
<1>1. Len(stack) \in Nat \ {0}
  OBVIOUS
<1>2. Len(Pop) = Len(stack) - 1 /\ \A i \in 1..(Len(stack) - 1) : Pop[i] = stack[i]
  BY PopParts, Zenon
<1>3. Pop \in Seq(Frames)
  BY TopType, Zenon
<1> HIDE DEF Pop
<1>4. /\ Len(stack') = Len(stack) /\ stack'[Len(stack)] = f
      /\ \A i \in 1..(Len(stack) - 1) : stack'[i] = stack[i]
  BY <1>1, <1>2, <1>3
<1>5. stack' # <<>>
  BY <1>1, <1>4
<1>6. Top' = f
  BY <1>4, Zenon DEF Top
<1> QED BY <1>4, <1>5, <1>6, Zenon

(* A command that ends leaves the one it ran inside, never a preload.         *)
LEMMA PoppedTop ==
    ASSUME stack \in Seq(Frames), stack # <<>>, OnlyInsertsNest, stack' = Pop
    PROVE  OnlyInsertsNest' /\ ~Running({"preload"}, "moving")'
<1>1. Len(stack) \in Nat \ {0}
  OBVIOUS
<1>2. Len(stack') = Len(stack) - 1 /\ \A i \in 1..(Len(stack) - 1) : stack'[i] = stack[i]
  BY PopParts, Zenon
<1>3. OnlyInsertsNest'
  BY <1>1, <1>2 DEF OnlyInsertsNest
<1>4. ASSUME stack' # <<>> PROVE Top'.kind # "preload"
  <2>1. stack' \in Seq(Frames)
    BY TopType, Zenon
  <2>2. Len(stack') \in 1..(Len(stack) - 1)
    BY <1>1, <1>2, <1>4, <2>1
  <2>3. Top' = stack[Len(stack')]
    BY <1>2, <2>2, Zenon DEF Top
  <2> QED BY <2>2, <2>3, Zenon DEF OnlyInsertsNest
<1> QED BY <1>3, <1>4, Zenon DEF Running

LEMMA ReplacedNest ==
    ASSUME stack \in Seq(Frames), stack # <<>>, OnlyInsertsNest,
           NEW f, stack' = Append(Pop, f)
    PROVE  OnlyInsertsNest'
BY ReplacedTop, Zenon DEF OnlyInsertsNest

LEMMA PushedNest ==
    ASSUME stack = <<>>, NEW f, Push(f)
    PROVE  OnlyInsertsNest'
<1>1. Len(stack') = 1
  BY PushedTop, Zenon
<1> QED BY <1>1 DEF OnlyInsertsNest

(* No command is under way: nothing of the stack needs an argument.           *)
LEMMA SilentWhenIdle ==
    ASSUME stack = <<>>, UNCHANGED stack
    PROVE  OnlyInsertsNest' /\ PreloadSilent'
BY DEF OnlyInsertsNest, PreloadSilent, Running

LEMMA SensorSilent ==
    ASSUME Inv, SilentInv,
           \/ \E s \in Fitted : SensorStep(s)
           \/ \E u \in Units : FlowGuardTrips(u)
           \/ SdPauses
           \/ UNCHANGED vars
    PROVE  OnlyInsertsNest' /\ PreloadSilent'
<1>1. UNCHANGED stack
  BY Zenon DEF SensorStep, Edge, DelayPasses, SetSensorEnabled, FlowGuardTrips, SdPauses, vars
<1>2. OnlyInsertsNest'
  BY <1>1 DEF SilentInv, OnlyInsertsNest
<1>w. window \in [Fitted -> {"open", "delay", "never"}] /\ mgr \in Managers
      /\ mgr.active \in SUBSET Fitted
  BY ManagerFields, Zenon DEF Inv, TypeOK
<1>3. mgr'.active = mgr.active
  <2>1. CASE UNCHANGED mgr
    BY <2>1
  <2>2. ASSUME NEW u \in Units, FlowGuardTrips(u) PROVE mgr'.active = mgr.active
    <3>1. mgr' = [mgr EXCEPT !.flowguard = @ \ {u}]
      BY <2>2, Zenon DEF FlowGuardTrips
    <3> QED BY <1>w, <3>1, ZenonT(30) DEF Managers
  <2>3. UNCHANGED mgr \/ \E u \in Units : FlowGuardTrips(u)
    BY Zenon DEF SensorStep, Edge, DelayPasses, SetSensorEnabled, SdPauses, vars
  <2> QED BY <2>1, <2>2, <2>3, Zenon
<1>4. \A s \in Fitted : window[s] = "never" => window'[s] = "never"
  <2>1. ASSUME NEW s \in Fitted, NEW type, Raise(type, s)
        PROVE  \A r \in Fitted : window[r] = "never" => window'[r] = "never"
    BY <1>w, <2>1 DEF Raise
  <2>2. ASSUME NEW s \in Fitted, DelayPasses(s)
        PROVE  \A r \in Fitted : window[r] = "never" => window'[r] = "never"
    BY <1>w, <2>2 DEF DelayPasses
  <2>3. CASE UNCHANGED window
    BY <2>3
  <2>4. ASSUME NEW s \in Fitted, Edge(s)
        PROVE  (\E type : Raise(type, s)) \/ UNCHANGED window
    BY <2>4, Zenon DEF Edge
  <2>5. ASSUME NEW u \in Units, FlowGuardTrips(u)
        PROVE  (\E s \in Fitted : Raise("clog", s)) \/ UNCHANGED window
    BY <1>w, <2>5, Zenon DEF FlowGuardTrips
  <2>6. \/ \E s \in Fitted : \E type : Raise(type, s)
        \/ \E s \in Fitted : DelayPasses(s)
        \/ UNCHANGED window
    BY <2>4, <2>5, Zenon DEF SensorStep, SetSensorEnabled, SdPauses, vars
  <2> QED BY <2>1, <2>2, <2>3, <2>6, Zenon
<1>5. Running({"preload"}, "moving")' => Running({"preload"}, "moving")
  BY <1>1, Zenon DEF Running, Top
<1>6. PreloadSilent'
  BY <1>3, <1>4, <1>5, <1>w, Zenon DEF SilentInv, PreloadSilent
<1> QED BY <1>2, <1>6

LEMMA CommandSilent ==
    ASSUME Inv, SilentInv, Commands PROVE OnlyInsertsNest' /\ PreloadSilent'
<1>1. CASE JobStarts \/ JobStops \/ Reset \/ Bootup
  BY <1>1, SilentWhenIdle, Zenon DEF JobStarts, JobStops, Reset, Bootup
<1>2. ASSUME NEW g, SelectCommand(g) PROVE OnlyInsertsNest' /\ PreloadSilent'
  BY <1>2, SilentWhenIdle, Zenon DEF SelectCommand
<1>3. ASSUME NEW g, Preload(g) \/ Change(g) PROVE OnlyInsertsNest' /\ PreloadSilent'
  <2>1. PICK kind : stack = <<>> /\ Push(Frame(kind, NoSensor, g))
    BY <1>3, Zenon DEF Preload, Change
  <2>2. OnlyInsertsNest'
    BY <2>1, PushedNest, Zenon
  <2> DEFINE f == Frame(kind, NoSensor, g)
  <2>3. f.stage = "begin"
    BY Zenon DEF Frame
  <2> HIDE DEF f
  <2>4. Top' = f
    BY <2>1, PushedTop, Zenon DEF f
  <2> QED BY <2>2, <2>3, <2>4, Zenon DEF PreloadSilent, Running
<1> QED BY <1>1, <1>2, <1>3, Zenon DEF Commands

LEMMA OperationSilent ==
    ASSUME Inv, SilentInv, OperationSteps PROVE OnlyInsertsNest' /\ PreloadSilent'
<1>t. /\ stack \in Seq(Frames) /\ mgr \in Managers /\ OnlyInsertsNest
      /\ mgr.monitoring \in BOOLEAN /\ mgr.gate \in Selections
      /\ mgr.active \in SUBSET Fitted
  BY ManagerFields, Zenon DEF Inv, TypeOK, SilentInv
<1>s. stack # <<>> => Top \in Frames
  BY <1>t, TopType, Zenon
<1>1. CASE PreloadSelects
  <2> DEFINE f == [Top EXCEPT !.stage = "selected", !.gate = mgr.gate]
  <2>1. stack # <<>> /\ stack' = Append(Pop, f)
    BY <1>1, Zenon DEF PreloadSelects, Running
  <2>2. f.stage = "selected"
    BY <1>s, <2>1, ZenonT(30) DEF Frames
  <2> HIDE DEF f
  <2>3. OnlyInsertsNest' /\ Top' = f
    BY <1>t, <2>1, ReplacedNest, ReplacedTop, Zenon
  <2> QED BY <2>2, <2>3, Zenon DEF PreloadSilent, Running
<1>2. CASE PreloadSuspends
  <2> DEFINE f == [Top EXCEPT !.stage = "moving", !.monitored = mgr.monitoring]
  <2>1. stack # <<>> /\ stack' = Append(Pop, f) /\ mgr' = DisableMonitoring(mgr)
    BY <1>2, Zenon DEF PreloadSuspends, Running, TopTo
  <2> HIDE DEF f
  <2>2. OnlyInsertsNest'
    BY <1>t, <2>1, ReplacedNest, Zenon
  <2>3. mgr'.active = mgr.active
    BY <1>t, <2>1, MonitoringFields, Zenon
  <2>4. window' = [s \in Fitted |-> IF s \in mgr.active THEN "never" ELSE window[s]]
    BY <1>2, Zenon DEF PreloadSuspends, SuspendEvents
  <2> QED BY <1>t, <2>2, <2>3, <2>4, Zenon DEF PreloadSilent
<1>3. CASE PreloadRestores
  <2> DEFINE f == [Top EXCEPT !.stage = "end", !.monitored = FALSE]
  <2>1. stack # <<>> /\ stack' = Append(Pop, f)
    BY <1>3, Zenon DEF PreloadRestores, Running, TopTo
  <2>2. f.stage = "end"
    BY <1>s, <2>1, ZenonT(30) DEF Frames
  <2> HIDE DEF f
  <2>3. OnlyInsertsNest' /\ Top' = f
    BY <1>t, <2>1, ReplacedNest, ReplacedTop, Zenon
  <2> QED BY <2>2, <2>3, Zenon DEF PreloadSilent, Running
<1>4. CASE OperationSuspends
  <2> DEFINE f == [Top EXCEPT !.stage = "moving", !.monitored = mgr.monitoring]
  <2>1. stack # <<>> /\ stack' = Append(Pop, f) /\ Top.kind # "preload"
    BY <1>4, Zenon DEF OperationSuspends, Running, TopTo
  <2>2. f.kind = Top.kind
    BY <1>s, <2>1, ZenonT(30) DEF Frames
  <2> HIDE DEF f
  <2>3. OnlyInsertsNest' /\ Top' = f
    BY <1>t, <2>1, ReplacedNest, ReplacedTop, Zenon
  <2> QED BY <2>1, <2>2, <2>3, Zenon DEF PreloadSilent, Running
<1>5. CASE PreloadEnds \/ OperationEnds \/ OperationFails
  <2>1. stack # <<>> /\ stack' = Pop
    BY <1>5, Zenon DEF PreloadEnds, OperationEnds, OperationFails, Running, AtExtruder
  <2> QED BY <1>t, <2>1, PoppedTop, Zenon DEF PreloadSilent
<1>6. ASSUME NEW g, OperationSelects(g) PROVE OnlyInsertsNest' /\ PreloadSilent'
  <2>1. UNCHANGED stack /\ Top.kind # "preload"
    BY <1>6, Zenon DEF OperationSelects, Running
  <2>2. OnlyInsertsNest'
    BY <1>t, <2>1 DEF OnlyInsertsNest
  <2>3. Top' = Top
    BY <2>1, Zenon DEF Top
  <2> QED BY <2>1, <2>2, <2>3, Zenon DEF PreloadSilent, Running
<1> QED BY <1>1, <1>2, <1>3, <1>4, <1>5, <1>6, Zenon DEF OperationSteps

LEMMA HandlerSilent ==
    ASSUME Inv, SilentInv, StartHandler \/ InsertAutoloads \/ HandlerEnds
    PROVE  OnlyInsertsNest' /\ PreloadSilent'
<1>t. stack \in Seq(Frames) /\ OnlyInsertsNest
  BY DEF Inv, TypeOK, SilentInv
<1>1. CASE StartHandler
  <2> DEFINE f == Frame(Head(queue).type, Head(queue).sensor, mgr.gate)
  <2>1. PICK stage \in {"begin", "end"} : stack = <<>> /\ Push([f EXCEPT !.stage = stage])
    BY <1>1, Zenon DEF StartHandler
  <2>2. [f EXCEPT !.stage = stage].stage = stage
    BY Zenon DEF Frame
  <2> HIDE DEF f
  <2>3. OnlyInsertsNest' /\ Top' = [f EXCEPT !.stage = stage]
    BY <2>1, PushedNest, PushedTop, Zenon
  <2>4. Top'.stage # "moving"
    BY <2>1, <2>2, <2>3
  <2> QED BY <2>3, <2>4, Zenon DEF PreloadSilent, Running
<1>2. CASE InsertAutoloads
  <2>0. stack # <<>> /\ Top.kind = "insert" /\ Top \in Frames
    BY <1>2, <1>t, TopType, Zenon DEF InsertAutoloads, Running
  <2> DEFINE h == [Top EXCEPT !.stage = "end"]
             f == IF Top.sensor.kind = "entry" THEN Frame("preload", NoSensor, Top.sensor.at)
                  ELSE Frame("change", NoSensor, Bypass)
  <2>1. h.kind = "insert" /\ f.stage = "begin"
    <3>1. h.kind = Top.kind
      BY <2>0, ZenonT(30) DEF Frames
    <3>2. /\ Frame("preload", NoSensor, Top.sensor.at).stage = "begin"
          /\ Frame("change", NoSensor, Bypass).stage = "begin"
      BY Zenon DEF Frame
    <3> QED BY <2>0, <3>1, <3>2, Zenon
  <2>2. stack' = <<h, f>>
    BY <1>2, Zenon DEF InsertAutoloads
  <2> HIDE DEF h, f
  <2>3. Len(stack') = 2 /\ stack'[1] = h /\ stack'[2] = f
    BY <2>2
  <2>4. OnlyInsertsNest'
    BY <2>1, <2>3 DEF OnlyInsertsNest
  <2>5. Top'.stage = "begin"
    BY <2>1, <2>3, Zenon DEF Top
  <2> QED BY <2>4, <2>5, Zenon DEF PreloadSilent, Running
<1>3. CASE HandlerEnds
  <2>1. stack # <<>> /\ stack' = Pop
    BY <1>3, Zenon DEF HandlerEnds, Running
  <2> QED BY <1>t, <2>1, PoppedTop, Zenon DEF PreloadSilent
<1> QED BY <1>1, <1>2, <1>3

LEMMA SilentInvHolds == Spec => []SilentInv
<1>1. Init => SilentInv
  <2> SUFFICES ASSUME Init PROVE SilentInv
    OBVIOUS
  <2>1. PICK g \in Gates \cup {Unknown} :
          mgr = [monitoring |-> FALSE, gate |-> g, unit |-> UnitFor(g, 0), armed |-> {},
                 active |-> ActiveMap(g, UnitFor(g, 0)), flowguard |-> {}, booting |-> FALSE]
    BY Zenon DEF Init
  <2>2. mgr.gate = g /\ mgr.active = ActiveMap(g, UnitFor(g, 0))
    BY <2>1, Zenon
  <2>3. Mapped(mgr)
    BY <2>2, Zenon DEF Mapped, ActiveMap
  <2>4. stack = <<>>
    BY DEF Init
  <2> QED BY <2>3, <2>4 DEF SilentInv, OnlyInsertsNest, PreloadSilent, Running
<1>2. Inv /\ SilentInv /\ [Next]_vars => SilentInv'
  <2> SUFFICES ASSUME Inv, SilentInv, [Next]_vars PROVE SilentInv'
    OBVIOUS
  <2>1. Mapped(mgr')
    BY MappedKept, Zenon DEF SilentInv
  <2>2. OnlyInsertsNest' /\ PreloadSilent'
    BY SensorSilent, CommandSilent, OperationSilent, HandlerSilent, Zenon DEF Next
  <2> QED BY <2>1, <2>2, Zenon DEF SilentInv
<1> QED BY <1>1, <1>2, InvariantHolds, PTL DEF Spec

(* Only an edge of the entry sensor queues an insertion, and only while its   *)
(* window is open.                                                            *)
LEMMA InsertNeedsOpen ==
    ASSUME Inv, SilentInv, [Next]_vars, NEW g \in Gates, Preloading(g) PROVE ~Inserted(g)
<1> SUFFICES ASSUME Inserted(g) PROVE FALSE
  OBVIOUS
<1> DEFINE entry == [kind |-> "entry", at |-> g]
           last == queue'[Len(queue')]
<1>0. /\ queue \in Seq(QueuedEvents) /\ mgr \in Managers /\ stack \in Seq(Frames)
      /\ stack # <<>> /\ Top.kind = "preload" /\ Top.stage = "moving" /\ mgr.gate = g
      /\ Len(queue') > Len(queue) /\ last.type = "insert" /\ last.sensor = entry
  BY Zenon DEF Inv, TypeOK, Preloading, Running, Inserted
<1>n. ~UNCHANGED queue
  BY <1>0
<1>1. ASSUME NEW type, NEW s, Raise(type, s) PROVE type = "insert" /\ s = entry
  <2> DEFINE e == NewEvent(type, s)
  <2>1. queue' = Append(queue, e)
    BY <1>1, Zenon DEF Raise
  <2>2. e.type = type /\ e.sensor = s
    BY Zenon DEF NewEvent
  <2> HIDE DEF e
  <2>3. last = e
    BY <1>0, <2>1
  <2> QED BY <1>0, <2>2, <2>3, Zenon
<1>2. ASSUME NEW s \in Fitted, Edge(s) PROVE FALSE
  <2>1. PICK type : Raise(type, s) /\ window[s] = "open"
    BY <1>2, <1>n, Zenon DEF Edge
  <2>2. s = entry
    BY <1>1, <2>1, Zenon
  <2>3. s \in GateMap(g)
    <3>1. IsGateSensor(s) /\ s.at = g
      BY <2>2, Zenon DEF IsGateSensor
    <3> QED BY <3>1, Zenon DEF GateMap, GateSensors
  <2>4. window[s] = "never"
    BY <1>0, <2>3, Zenon DEF SilentInv, Mapped, PreloadSilent, Running
  <2> QED BY <2>1, <2>4
<1>3. ASSUME NEW u \in Units, FlowGuardTrips(u) PROVE FALSE
  <2>1. PICK s : Raise("clog", s)
    BY <1>3, <1>n, Zenon DEF FlowGuardTrips
  <2> QED BY <1>1, <2>1
<1>4. CASE \/ \E s \in Fitted : DelayPasses(s) \/ SetSensorEnabled(s)
           \/ SdPauses \/ PreloadRestores \/ UNCHANGED vars
  BY <1>4, <1>n, Zenon DEF DelayPasses, SetSensorEnabled, SdPauses, PreloadRestores, vars
<1>5. CASE Commands
  BY <1>0, <1>5, Zenon DEF Commands, JobStarts, JobStops, Reset, Bootup, Preload, Change,
     SelectCommand
<1>6. CASE OperationSteps /\ ~PreloadRestores
  <2>1. ~Running({"preload"}, "begin") /\ ~Running({"preload"}, "selected")
        /\ ~Running({"preload"}, "end")
    BY <1>0 DEF Running
  <2>2. /\ ~Running({"change", "runout", "clog"}, "begin")
        /\ ~Running({"change", "runout", "clog"}, "moving")
        /\ ~Running({"change", "runout"}, "moving") /\ ~Running({"runout"}, "begin")
    BY <1>0 DEF Running
  <2> QED BY <1>6, <2>1, <2>2, Zenon DEF OperationSteps, PreloadSelects, PreloadSuspends,
             PreloadEnds, OperationSuspends, OperationEnds, OperationFails, OperationSelects,
             AtExtruder
<1>7. CASE StartHandler \/ InsertAutoloads \/ HandlerEnds
  <2>1. ~Running({"insert"}, "begin") /\ ~Running(EventTypes, "end")
    BY <1>0 DEF Running
  <2> QED BY <1>0, <1>7, <2>1, Zenon DEF StartHandler, InsertAutoloads, HandlerEnds
<1> QED BY <1>2, <1>3, <1>4, <1>5, <1>6, <1>7, Zenon DEF Next, SensorStep

(* A preload never raises an insertion at the gate it moves, so it never      *)
(* starts a second preload there (wrap_suspend_insert_events).                *)
THEOREM PreloadNeverReinserts == Spec => NoInsertWhilePreloading
<1>1. Inv /\ SilentInv /\ [Next]_vars
        => [\A g \in Gates : Preloading(g) => ~Inserted(g)]_vars
  BY InsertNeedsOpen
<1> QED BY <1>1, InvariantHolds, SilentInvHolds, PTL DEF Spec, NoInsertWhilePreloading

-----------------------------------------------------------------------------
(* Runouts that wait.  Without MMU_RESET a unit is always selected, so a     *)
(* sensor that is armed is monitored, and no step changes what an event that *)
(* waits is or when it was raised.                                           *)

RunoutsMonitored(events) ==
    \A i \in DOMAIN events : events[i].type = "runout" => events[i].monitored

WaitingInv == mgr.unit # NoUnit /\ RunoutsMonitored(queue)

(* Marking the times of the events that wait keeps what they are.             *)
LEMMA AgedRunouts ==
    ASSUME NEW events \in Seq(QueuedEvents), RunoutsMonitored(events)
    PROVE  /\ RunoutsMonitored(Aged(events, BeforeDisable))
           /\ RunoutsMonitored(Aged(events, AllHandled))
           /\ RunoutsMonitored(AgedByDisable(events))
           /\ RunoutsMonitored([i \in DOMAIN events |-> [events[i] EXCEPT !.handled = TRUE]])
<1>1. \A i \in DOMAIN events : events[i] \in QueuedEvents
  OBVIOUS
<1>2. \A e \in QueuedEvents :
        /\ BeforeDisable[e].type = e.type /\ BeforeDisable[e].monitored = e.monitored
        /\ AllHandled[e].type = e.type /\ AllHandled[e].monitored = e.monitored
        /\ [e EXCEPT !.handled = TRUE].type = e.type
        /\ [e EXCEPT !.handled = TRUE].monitored = e.monitored
  <2> SUFFICES ASSUME NEW e \in QueuedEvents
      PROVE  /\ BeforeDisable[e].type = e.type /\ BeforeDisable[e].monitored = e.monitored
             /\ AllHandled[e].type = e.type /\ AllHandled[e].monitored = e.monitored
             /\ [e EXCEPT !.handled = TRUE].type = e.type
             /\ [e EXCEPT !.handled = TRUE].monitored = e.monitored
    OBVIOUS
  <2>1. /\ BeforeDisable[e] = [e EXCEPT !.age = "before"]
        /\ AllHandled[e] = [e EXCEPT !.age = "before", !.handled = TRUE]
    BY Zenon DEF BeforeDisable, AllHandled
  <2>2. /\ [e EXCEPT !.age = "before"].type = e.type
        /\ [e EXCEPT !.age = "before"].monitored = e.monitored
    BY ZenonT(30) DEF QueuedEvents
  <2>3. /\ [e EXCEPT !.age = "before", !.handled = TRUE].type = e.type
        /\ [e EXCEPT !.age = "before", !.handled = TRUE].monitored = e.monitored
    BY ZenonT(30) DEF QueuedEvents
  <2>4. /\ [e EXCEPT !.handled = TRUE].type = e.type
        /\ [e EXCEPT !.handled = TRUE].monitored = e.monitored
    BY ZenonT(30) DEF QueuedEvents
  <2> QED BY <2>1, <2>2, <2>3, <2>4
<1>3. /\ RunoutsMonitored(Aged(events, BeforeDisable))
      /\ RunoutsMonitored(Aged(events, AllHandled))
  <2>1. ASSUME NEW change \in {BeforeDisable, AllHandled}
        PROVE  RunoutsMonitored(Aged(events, change))
    <3>1. \A i \in DOMAIN events :
            change[events[i]].type = events[i].type
              /\ change[events[i]].monitored = events[i].monitored
      BY <1>1, <1>2, <2>1, Zenon
    <3> QED BY <3>1, Zenon DEF RunoutsMonitored, Aged
  <2> QED BY <2>1, Zenon
<1>4. RunoutsMonitored(AgedByDisable(events))
  BY <1>3, Zenon DEF AgedByDisable
<1>5. RunoutsMonitored([i \in DOMAIN events |-> [events[i] EXCEPT !.handled = TRUE]])
  <2> DEFINE marked == [i \in DOMAIN events |-> [events[i] EXCEPT !.handled = TRUE]]
  <2>1. DOMAIN marked = DOMAIN events /\ \A i \in DOMAIN events :
          marked[i].type = events[i].type /\ marked[i].monitored = events[i].monitored
    BY <1>1, <1>2
  <2> HIDE DEF marked
  <2>2. RunoutsMonitored(marked)
    BY <2>1, Zenon DEF RunoutsMonitored
  <2> QED BY <2>2 DEF marked
<1> QED BY <1>3, <1>4, <1>5, Zenon

(* An event is raised as a runout only by a sensor that is armed, which on a  *)
(* selected unit means monitored (note_filament_present).                     *)
LEMMA RaisedMonitored ==
    ASSUME Inv, WaitingInv,
           (\E s \in Fitted : Edge(s)) \/ (\E u \in Units : FlowGuardTrips(u))
    PROVE  RunoutsMonitored(queue')
<1>0. /\ queue \in Seq(QueuedEvents) /\ RunoutsMonitored(queue) /\ mgr.unit # NoUnit
      /\ Scoped(mgr)
  BY DEF Inv, TypeOK, WaitingInv, MgrInv, Sound
<1>1. ASSUME NEW type, NEW s, Raise(type, s), type = "runout" => mgr.monitoring
      PROVE  RunoutsMonitored(queue')
  <2> DEFINE e == NewEvent(type, s)
  <2>1. queue' = Append(queue, e)
    BY <1>1, Zenon DEF Raise
  <2>2. e.type = type /\ e.monitored = mgr.monitoring
    BY Zenon DEF NewEvent
  <2> HIDE DEF e
  <2>3. \A i \in DOMAIN queue' : queue'[i] = e \/ (i \in DOMAIN queue /\ queue'[i] = queue[i])
    BY <1>0, <2>1
  <2> QED BY <1>0, <1>1, <2>2, <2>3, Zenon DEF RunoutsMonitored
<1>2. ASSUME NEW s \in Fitted, Edge(s) PROVE RunoutsMonitored(queue')
  <2>1. CASE UNCHANGED queue
    BY <1>0, <2>1
  <2>2. CASE ~UNCHANGED queue
    <3> DEFINE type == EventFor(s, s \notin present)
    <3>1. Raise(type, s)
      BY <1>2, <2>2, Zenon DEF Edge
    <3>2. type = "runout" => s \in mgr.armed
      BY DEF EventFor
    <3>3. s \in mgr.armed => mgr.monitoring
      BY <1>0, Zenon DEF Scoped
    <3> HIDE DEF type
    <3> QED BY <1>1, <3>1, <3>2, <3>3, Zenon
  <2> QED BY <2>1, <2>2
<1>3. ASSUME NEW u \in Units, FlowGuardTrips(u) PROVE RunoutsMonitored(queue')
  <2>1. UNCHANGED queue \/ \E s : Raise("clog", s)
    BY <1>3, Zenon DEF FlowGuardTrips
  <2>2. CASE UNCHANGED queue
    BY <1>0, <2>2
  <2>3. ASSUME NEW s, Raise("clog", s) PROVE RunoutsMonitored(queue')
    <3>1. "clog" # "runout"
      OBVIOUS
    <3> QED BY <1>1, <2>3, <3>1, Zenon
  <2> QED BY <2>1, <2>2, <2>3, Zenon
<1> QED BY <1>2, <1>3, Zenon

(* A unit stays selected.                                                     *)
LEMMA UnitKept ==
    ASSUME ~AllowReset, Inv, mgr.unit # NoUnit, [Next]_vars PROVE mgr'.unit # NoUnit
<1>m. mgr \in Managers /\ Sound(mgr) /\ mgr.gate \in Selections
  BY ManagerFields, Zenon DEF Inv, TypeOK, MgrInv
<1>u. CASE UNCHANGED mgr
  BY <1>u
<1>1. ASSUME NEW u \in Units, FlowGuardTrips(u) PROVE mgr'.unit # NoUnit
  <2>1. mgr' = [mgr EXCEPT !.flowguard = @ \ {u}]
    BY <1>1, Zenon DEF FlowGuardTrips
  <2>2. mgr'.unit = mgr.unit
    BY <1>m, <2>1, ZenonT(30) DEF Managers
  <2> QED BY <2>2
<1>2. CASE JobStarts \/ JobStops \/ PreloadSuspends \/ OperationSuspends
             \/ PreloadRestores \/ OperationEnds
  BY <1>2, <1>m, MonitoringFields, Zenon DEF JobStarts, JobStops, PreloadSuspends,
     OperationSuspends, PreloadRestores, OperationEnds
<1>3. ASSUME NEW g \in Selections, mgr' = SetGateSelected(mgr, g) PROVE mgr'.unit # NoUnit
  BY <1>3, <1>m, SelectFields, Zenon
<1>4. CASE Bootup
  <2>1. PICK g \in Gates \cup {mgr.gate} :
          mgr' = [DisableMonitoring(SetGateSelected(mgr, g)) EXCEPT !.booting = FALSE]
    BY <1>4, Zenon DEF Bootup
  <2>2. g \in Selections
    BY <1>m, Zenon DEF Selections
  <2> DEFINE c == SetGateSelected(mgr, g)
             d == DisableMonitoring(c)
  <2>3. Sound(c) /\ c.unit # NoUnit
    BY <1>m, <2>2, SelectSound, SelectFields, Zenon
  <2>4. d \in Managers /\ d.unit # NoUnit
    <3> HIDE DEF c
    <3> QED BY <2>3, DisableSound, MonitoringFields, Zenon DEF Sound
  <2> HIDE DEF d
  <2>5. mgr'.unit = d.unit
    BY <2>1, <2>4, ZenonT(30) DEF Managers, d
  <2> QED BY <2>4, <2>5
<1>5. CASE OperationFails
  <2> DEFINE left == IF Top.monitored THEN EnableMonitoring(mgr) ELSE mgr
  <2>1. mgr' = IF job.psm THEN DisableMonitoring(left) ELSE left
    BY <1>5, Zenon DEF OperationFails
  <2>2. left \in Managers /\ left.unit # NoUnit
    BY <1>m, EnableSound, MonitoringFields, Zenon DEF Sound
  <2> HIDE DEF left
  <2> QED BY <2>1, <2>2, MonitoringFields, Zenon
<1>t. stack # <<>> => Top.gate \in Selections
  <2>1. stack \in Seq(Frames)
    BY DEF Inv, TypeOK
  <2> QED BY <2>1, TopType, FrameFields, Zenon
<1>6. CASE PreloadSelects \/ PreloadEnds
  <2>1. \E g \in Selections : mgr' = SetGateSelected(mgr, g)
    BY <1>6, <1>m, <1>t, Zenon DEF PreloadSelects, PreloadEnds, Running
  <2> QED BY <1>3, <2>1, Zenon
<1>7. ASSUME NEW g \in Selections, SelectCommand(g) \/ OperationSelects(g)
      PROVE  mgr'.unit # NoUnit
  BY <1>3, <1>7, Zenon DEF SelectCommand, OperationSelects
<1>8. CASE \/ \E s \in Fitted : SensorStep(s)
           \/ SdPauses \/ StartHandler \/ InsertAutoloads \/ HandlerEnds
           \/ \E g \in Gates : Preload(g) \/ Change(g)
           \/ UNCHANGED vars
  <2>1. UNCHANGED mgr
    BY <1>8, Zenon DEF SensorStep, Edge, DelayPasses, SetSensorEnabled, SdPauses,
       StartHandler, InsertAutoloads, HandlerEnds, Preload, Change, vars
  <2> QED BY <1>u, <2>1
<1>g. Gates \cup {Unknown} \subseteq Selections /\ Gates \cup {Unknown, Bypass} \subseteq Selections
  BY Zenon DEF Selections
<1>9. ~Reset
  BY Zenon DEF Reset
<1>10. CASE Commands
  BY <1>10, <1>2, <1>4, <1>7, <1>8, <1>9, <1>g, Zenon DEF Commands
<1>11. CASE OperationSteps
  BY <1>11, <1>2, <1>5, <1>6, <1>7, <1>g, Zenon DEF OperationSteps
<1> QED BY <1>1, <1>8, <1>10, <1>11, Zenon DEF Next

(* The events that wait are only added to, marked, or taken from the front.   *)
LEMMA QueueKept ==
    ASSUME ~AllowReset, Inv, WaitingInv, [Next]_vars PROVE RunoutsMonitored(queue')
<1>0. queue \in Seq(QueuedEvents) /\ RunoutsMonitored(queue)
  BY DEF Inv, TypeOK, WaitingInv
<1>u. CASE UNCHANGED queue
  BY <1>0, <1>u
<1>1. CASE (\E s \in Fitted : Edge(s)) \/ (\E u \in Units : FlowGuardTrips(u))
  BY <1>1, RaisedMonitored, Zenon
<1>2. CASE JobStops \/ Bootup \/ PreloadSuspends
  BY <1>0, <1>2, AgedRunouts, Zenon DEF JobStops, Bootup, PreloadSuspends
<1>3. CASE OperationSuspends
  <2> DEFINE aged == AgedByDisable(queue)
  <2>1. queue' = aged \/ queue' = [i \in DOMAIN aged |-> [aged[i] EXCEPT !.handled = TRUE]]
    BY <1>3, Zenon DEF OperationSuspends
  <2>2. aged \in Seq(QueuedEvents) /\ RunoutsMonitored(aged)
    BY <1>0, AgedByDisableType, AgedRunouts, Zenon
  <2> HIDE DEF aged
  <2>3. RunoutsMonitored([i \in DOMAIN aged |-> [aged[i] EXCEPT !.handled = TRUE]])
    BY <2>2, AgedRunouts, Zenon
  <2> QED BY <2>1, <2>2, <2>3, Zenon
<1>4. CASE OperationFails
  <2>1. queue' = Aged(queue, BeforeDisable) \/ queue' = queue
    BY <1>4, Zenon DEF OperationFails
  <2> QED BY <1>0, <2>1, AgedRunouts, Zenon
<1>5. CASE StartHandler
  <2>1. queue # <<>> /\ queue' = Tail(queue)
    BY <1>5, Zenon DEF StartHandler
  <2>2. \A i \in DOMAIN queue' : i + 1 \in DOMAIN queue /\ queue'[i] = queue[i + 1]
    BY <1>0, <2>1
  <2> QED BY <1>0, <2>2, Zenon DEF RunoutsMonitored
<1>6. CASE \/ \E s \in Fitted : DelayPasses(s) \/ SetSensorEnabled(s)
           \/ SdPauses \/ JobStarts \/ UNCHANGED vars
           \/ \E g \in Gates : Preload(g) \/ Change(g)
           \/ \E g \in Gates \cup {Unknown, Bypass} : SelectCommand(g)
           \/ PreloadSelects \/ PreloadRestores \/ PreloadEnds \/ OperationEnds
           \/ \E g \in Gates \cup {Unknown} : OperationSelects(g)
           \/ InsertAutoloads \/ HandlerEnds
  <2>1. UNCHANGED queue
    BY <1>6, Zenon DEF DelayPasses, SetSensorEnabled, SdPauses, JobStarts, vars, Preload,
       Change, SelectCommand, PreloadSelects, PreloadRestores, PreloadEnds, OperationEnds,
       OperationSelects, InsertAutoloads, HandlerEnds
  <2> QED BY <1>u, <2>1
<1>7. ~Reset
  BY Zenon DEF Reset
<1> QED BY <1>1, <1>2, <1>3, <1>4, <1>5, <1>6, <1>7, Zenon DEF Next, SensorStep, Commands,
           OperationSteps

(* However late its handler runs, a runout that is handled as real was raised *)
(* while filament monitoring was on (note_filament_present).  MMU_RESET is    *)
(* the exception: it leaves the sensors armed that were armed before it.      *)
THEOREM RunoutsAlwaysMonitored == ASSUME ~AllowReset PROVE Spec => RunoutWhileMonitored
<1>1. Init => WaitingInv
  <2> SUFFICES ASSUME Init PROVE WaitingInv
    OBVIOUS
  <2>1. PICK g \in Gates \cup {Unknown} :
          mgr = [monitoring |-> FALSE, gate |-> g, unit |-> UnitFor(g, 0), armed |-> {},
                 active |-> ActiveMap(g, UnitFor(g, 0)), flowguard |-> {}, booting |-> FALSE]
    BY Zenon DEF Init
  <2>2. mgr.unit = UnitFor(g, 0)
    BY <2>1, Zenon
  <2>3. g \in Selections /\ 0 \in Units \cup {NoUnit}
    BY SensorAssumption DEF Selections
  <2>4. mgr.unit # NoUnit
    BY <2>2, <2>3, UnitForType, Zenon
  <2>5. queue = <<>>
    BY DEF Init
  <2> QED BY <2>4, <2>5 DEF WaitingInv, RunoutsMonitored
<1>2. Inv /\ WaitingInv /\ [Next]_vars => WaitingInv'
  <2> SUFFICES ASSUME Inv, WaitingInv, [Next]_vars PROVE WaitingInv'
    OBVIOUS
  <2> QED BY UnitKept, QueueKept, Zenon DEF WaitingInv
<1>3. Inv /\ WaitingInv /\ [Next]_vars => [HandledAsRunout => Head(queue).monitored]_vars
  <2> SUFFICES ASSUME Inv, WaitingInv, Next, HandledAsRunout PROVE Head(queue).monitored
    BY DEF HandledAsRunout, vars
  <2>0. /\ stack = <<>> /\ queue # <<>> /\ stack' # <<>> /\ stack'[1].kind = "runout"
        /\ queue \in Seq(QueuedEvents) /\ RunoutsMonitored(queue)
    BY DEF HandledAsRunout, WaitingInv, Inv, TypeOK
  <2>1. ~(\E g : Preload(g) \/ Change(g))
    <3> SUFFICES ASSUME NEW g, NEW kind \in {"preload", "change"},
                        Push(Frame(kind, NoSensor, g)) PROVE FALSE
      BY Zenon DEF Preload, Change
    <3> DEFINE f == Frame(kind, NoSensor, g)
    <3>1. f.kind = kind
      BY Zenon DEF Frame
    <3> HIDE DEF f
    <3>2. stack' = <<f>>
      BY <2>0 DEF Push, f
    <3>3. stack'[1] = f
      BY <3>2
    <3> QED BY <2>0, <3>1, <3>3
  <2>2. StartHandler
    <3>1. \A kinds, stage : ~Running(kinds, stage)
      BY <2>0, Zenon DEF Running
    <3>2. ~UNCHANGED stack
      BY <2>0, Zenon
    <3>3. ~SdPauses /\ ~InsertAutoloads /\ ~HandlerEnds /\ ~OperationSteps
      BY <3>1, <3>2, Zenon DEF SdPauses, InsertAutoloads, HandlerEnds, OperationSteps,
         PreloadSelects, PreloadSuspends, PreloadRestores, PreloadEnds, OperationSuspends,
         OperationEnds, OperationFails, OperationSelects, AtExtruder
    <3>4. ~Commands
      BY <2>1, <3>2, Zenon DEF Commands, JobStarts, JobStops, Reset, Bootup, SelectCommand
    <3>5. ~(\E s \in Fitted : SensorStep(s)) /\ ~(\E u \in Units : FlowGuardTrips(u))
      BY <3>2, Zenon DEF SensorStep, Edge, DelayPasses, SetSensorEnabled, FlowGuardTrips
    <3> QED BY <3>3, <3>4, <3>5, Zenon DEF Next
  <2> DEFINE e == Head(queue)
             f == Frame(e.type, e.sensor, mgr.gate)
  <2>3. PICK stage : Push([f EXCEPT !.stage = stage])
    BY <2>2, Zenon DEF StartHandler
  <2>4. [f EXCEPT !.stage = stage].kind = e.type
    BY Zenon DEF Frame
  <2> HIDE DEF f
  <2>5. stack' = << [f EXCEPT !.stage = stage] >>
    BY <2>0, <2>3 DEF Push
  <2>6. stack'[1] = [f EXCEPT !.stage = stage]
    BY <2>5
  <2>7. e.type = "runout"
    BY <2>0, <2>4, <2>6, Zenon
  <2>8. 1 \in DOMAIN queue /\ e = queue[1]
    BY <2>0
  <2> QED BY <2>0, <2>7, <2>8, Zenon DEF RunoutsMonitored
<1> QED BY <1>1, <1>2, <1>3, InvariantHolds, PTL DEF Spec, RunoutWhileMonitored

=============================================================================

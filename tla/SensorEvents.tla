----------------------------- MODULE SensorEvents -----------------------------
(***************************************************************************)
(* Filament sensors: which edge of a switch becomes a queued gcode event   *)
(* (MmuRunoutHelper in mmu_sensor_utils.py), which sensors the sensor      *)
(* manager arms, scopes and suspends as gates and units are selected       *)
(* (mmu_sensor_manager.py, and filament monitoring in mmu_controller.py),  *)
(* and how a queued event is judged when the gcode mutex lets it run       *)
(* (commands/mmu_sensor_insert.py, _remove.py, _runout.py).                *)
(*                                                                         *)
(* The reactor delivers edges at any moment.  A command holds the mutex:   *)
(* `stack' is the command running, with the command it runs inside itself  *)
(* on top, and `queue' the event handlers waiting.  A command whose moves  *)
(* yield to the reactor is several steps.  Times are kept as what the      *)
(* comparisons of the code tell apart: min_event_systime is open, a delay, *)
(* or NEVER; the time of an event is before, during or after the last      *)
(* window in which monitoring was suspended.                               *)
(***************************************************************************)
EXTENDS Integers, Sequences, FiniteSets

CONSTANTS
    Gates,        \* the gates, numbered from 0
    Units,        \* the MMU units, numbered from 0
    UnitOf,       \* the unit of each gate
    BypassUnit,   \* the unit that has the bypass
    Fitted,       \* the sensors fitted, a set of records (see Sensors)
    Autoload,     \* the parameters gate_autoload and bypass_autoload
    AllowReset,   \* TRUE when MMU_RESET is included
    MaxEvents     \* bound: edges arrive only while fewer handlers wait

Unknown == -1     \* TOOL_GATE_UNKNOWN
Bypass  == -2     \* TOOL_GATE_BYPASS
NoUnit  == -1     \* unit_selected is None

(* Gate sensors are at a gate, unit sensors at a unit, and the extruder     *)
(* sensor of the one toolhead is shared by every unit.                      *)
Sensors == [kind : {"entry", "exit"}, at : Gates]
             \cup [kind : {"shared_exit", "buffer"}, at : Units]
             \cup {[kind |-> "extruder", at |-> 0]}

ASSUME SensorAssumption ==
    /\ Gates \subseteq Nat
    /\ Units \subseteq Nat /\ 0 \in Units
    /\ UnitOf \in [Gates -> Units]
    /\ BypassUnit \in Units
    /\ Fitted \subseteq Sensors
    /\ {Autoload, AllowReset} \subseteq BOOLEAN
    /\ MaxEvents \in Nat

VARIABLES
    mgr,      \* monitoring, selection, arming: a record, see Managers
    present,  \* the sensors whose switch sees filament
    enabled,  \* the sensors with sensor_enabled
    window,   \* min_event_systime of each sensor: open, delay or never
    saved,    \* _events_suspended_from of each sensor, none when not suspended
    job,      \* [stats, psm, paused]: is print_stats, is the MMU, printing; an event paused it
    queue,    \* the event handlers waiting for the mutex
    stack     \* the command holding the mutex, its nested command on top

vars == <<mgr, present, enabled, window, saved, job, queue, stack>>

-----------------------------------------------------------------------------
(* Sensor maps. *)

IsGateSensor(s) == s.kind \in {"entry", "exit"}
UnitLevel(u)    == {s \in Fitted : \/ (s.kind \in {"shared_exit", "buffer"} /\ s.at = u)
                                   \/ s.kind = "extruder"}
GateSensors     == {s \in Fitted : IsGateSensor(s)}
UnitMap(u)      == UnitLevel(u) \cup {s \in GateSensors : UnitOf[s.at] = u}
GateMap(g)      == UnitLevel(UnitOf[g]) \cup {s \in GateSensors : s.at = g}
LastUnit        == CHOOSE u \in Units : \A v \in Units : v <= u
BypassMap       == {s \in Fitted : \/ s.kind = "extruder"
                                   \/ (s.kind = "shared_exit" /\ s.at = LastUnit)}

(* mmu_unit(): the gate's unit, else the last known one, else the first. *)
UnitFor(g, lastUnit) ==
    IF g \in Gates THEN UnitOf[g]
    ELSE IF g = Bypass THEN BypassUnit
    ELSE IF lastUnit = NoUnit THEN 0 ELSE lastUnit

ActiveMap(g, unit) ==
    IF g \in Gates THEN GateMap(g) ELSE IF g = Bypass THEN BypassMap ELSE UnitMap(unit)

-----------------------------------------------------------------------------
(* Arming: filament monitoring, gate and unit selection.                    *)

Managers ==
    [ monitoring : BOOLEAN,              \* mmu.filament_monitoring_enabled
      gate       : Gates \cup {Unknown, Bypass},
      unit       : Units \cup {NoUnit},
      armed      : SUBSET Fitted,        \* sensors without runout_suspended
      active     : SUBSET Fitted,        \* active_sensors_map
      flowguard  : SUBSET Units,         \* units with FlowGuard active
      booting    : BOOLEAN ]             \* a bootup task is scheduled

RunoutSensors(unit) ==
    GateSensors \cup (IF unit = NoUnit THEN UNION {UnitLevel(u) : u \in Units}
                      ELSE UnitLevel(unit))

Armed(a, enable) ==
    IF enable /\ a.gate >= 0 THEN a.armed \cup RunoutSensors(a.unit)
    ELSE a.armed \ RunoutSensors(a.unit)

(* _apply_flowguard_scope *)
Scope(a) == IF a.monitoring THEN {UnitFor(a.gate, a.unit)} ELSE {}

\* Faulty variant: sensors stay armed while monitoring is suspended.
DisableMonitoring_StaysArmed(a) == [a EXCEPT !.monitoring = FALSE, !.flowguard = {}]

DisableMonitoring(a) ==
    [a EXCEPT !.monitoring = FALSE, !.armed = Armed(a, FALSE), !.flowguard = {}]

EnableMonitoring(a) ==
    [a EXCEPT !.monitoring = TRUE, !.armed = Armed(a, TRUE),
              !.flowguard = {UnitFor(a.gate, a.unit)}]

SetMonitoring(a, on) == IF on THEN EnableMonitoring(a) ELSE DisableMonitoring(a)

\* Faulty variants: the unit left stays armed, or keeps FlowGuard.
UnitSelected_LeftArmed(a) ==
    [a EXCEPT !.armed = Armed(a, a.monitoring), !.flowguard = Scope(a)]

UnitSelected_FlowGuardLeft(a) ==
    LET foreign == {s \in Fitted \ UnitLevel(a.unit) : ~IsGateSensor(s)}
    IN  [a EXCEPT !.armed = Armed([a EXCEPT !.armed = @ \ foreign], a.monitoring)]

(* The mmu:unit_selected handlers of the sensor manager and the controller. *)
UnitSelected(a) ==
    LET foreign == {s \in Fitted \ UnitLevel(a.unit) : ~IsGateSensor(s)}
    IN  [a EXCEPT !.armed = Armed([a EXCEPT !.armed = @ \ foreign], a.monitoring),
                  !.flowguard = Scope(a)]

\* Faulty variant: the sensors of the gate left stay active.
SetGateSelected_MapKept(a, g) ==
    IF g = a.gate THEN a
    ELSE LET moved == [a EXCEPT !.gate = g, !.unit = UnitFor(g, a.unit)]
         IN  IF moved.unit = a.unit THEN moved ELSE UnitSelected(moved)

SetGateSelected(a, g) ==
    IF g = a.gate THEN a
    ELSE LET moved == [a EXCEPT !.gate = g, !.unit = UnitFor(g, a.unit)]
             inUnit == IF moved.unit = a.unit THEN moved ELSE UnitSelected(moved)
         IN  [inUnit EXCEPT !.active = ActiveMap(g, moved.unit)]

-----------------------------------------------------------------------------
(* Raising events. *)

EventTypes == {"insert", "remove", "runout", "clog"}
EventsOf(s) ==
    CASE s.kind = "entry"                    -> {"insert", "remove", "runout"}
      [] s.kind \in {"exit", "shared_exit"}  -> {"runout"}
      [] s.kind = "extruder"                 -> {"insert", "runout"}
      [] s.kind = "buffer"                   -> {"clog"}

InPrintToo(s) == s.kind = "entry"          \* insert_remove_in_print

(* "none": there is nothing to do for this edge.                            *)
EventFor(s, detected) ==
    LET has == EventsOf(s)
    IN  IF detected /\ "insert" \in has
        THEN IF ~job.stats \/ InPrintToo(s) THEN "insert" ELSE "none"
        ELSE IF job.stats /\ s \in mgr.armed /\ "runout" \in has THEN "runout"
        ELSE IF "remove" \in has /\ (~job.stats \/ InPrintToo(s)) THEN "remove"
        ELSE "none"

(* age: of the event's time against runout_last_disable_time and            *)
(* runout_last_enable_time; handled: it is before runout_last_handled_time; *)
(* monitored: monitoring was on when it was raised.                         *)
QueuedEvents == [type : EventTypes, sensor : Fitted, handled : BOOLEAN,
                 age : {"before", "during", "after"}, monitored : BOOLEAN]

NewEvent(type, s) ==
    [type |-> type, sensor |-> s, handled |-> FALSE, monitored |-> mgr.monitoring,
     age |-> IF mgr.monitoring THEN "after" ELSE "during"]

Raise(type, s) ==
    /\ queue' = Append(queue, NewEvent(type, s))
    /\ window' = [window EXCEPT ![s] = "never"]

(* note_filament_present *)
Edge(s) ==
    /\ Len(queue) < MaxEvents
    /\ s.kind # "buffer"
    /\ present' = IF s \in present THEN present \ {s} ELSE present \cup {s}
    /\ LET type == EventFor(s, s \notin present)
       IN  IF window[s] = "open" /\ s \in enabled /\ type # "none"
           THEN Raise(type, s) ELSE UNCHANGED <<queue, window>>
    /\ UNCHANGED <<mgr, enabled, saved, job, stack>>

(* FlowGuard trips on the unit's buffer sensor: note_clog_tangle.            *)
FlowGuardTrips(u) ==
    /\ Len(queue) < MaxEvents
    /\ u \in mgr.flowguard
    /\ mgr' = [mgr EXCEPT !.flowguard = @ \ {u}]
    /\ LET sensors == {s \in mgr.active \cap enabled : s.kind = "buffer"}
       IN  IF sensors = {} THEN UNCHANGED <<queue, window>>
           ELSE \E s \in sensors : Raise("clog", s)
    /\ UNCHANGED <<present, enabled, saved, job, stack>>

(* event_delay has passed since the last handler of the sensor ended.       *)
DelayPasses(s) ==
    /\ window[s] = "delay"
    /\ window' = [window EXCEPT ![s] = "open"]
    /\ UNCHANGED <<mgr, present, enabled, saved, job, queue, stack>>

(* MMU_SENSORS ENABLE= and SET_FILAMENT_SENSOR *)
SetSensorEnabled(s) ==
    /\ stack = <<>>
    /\ enabled' = IF s \in enabled THEN enabled \ {s} ELSE enabled \cup {s}
    /\ UNCHANGED <<mgr, present, window, saved, job, queue, stack>>

-----------------------------------------------------------------------------
(* Suspending the events of the selected gate's sensors. *)

SuspendEvents(sensors) ==
    /\ saved'  = [s \in Fitted |->
                    IF s \in sensors /\ saved[s] = "none" THEN window[s] ELSE saved[s]]
    /\ window' = [s \in Fitted |-> IF s \in sensors THEN "never" ELSE window[s]]

RestoreEvents ==
    /\ saved'  = [s \in Fitted |-> "none"]
    /\ window' = [s \in Fitted |->
                    IF saved[s] = "none" THEN window[s]
                    ELSE IF saved[s] = "never" THEN "open" ELSE saved[s]]

-----------------------------------------------------------------------------
(* How the times of waiting events change with monitoring. *)

Aged(events, change) ==
    [i \in DOMAIN events |-> change[events[i]]]

BeforeDisable == [e \in QueuedEvents |-> [e EXCEPT !.age = "before"]]
AllHandled    == [e \in QueuedEvents |-> [e EXCEPT !.age = "before", !.handled = TRUE]]

(* Only the outermost suspension opens the window.                          *)
AgedByDisable(events) == IF mgr.monitoring THEN Aged(events, BeforeDisable) ELSE events

-----------------------------------------------------------------------------
(* The job, as the print state machine reports it: on_print_start,          *)
(* on_print_end or a pause, user pauses.                                    *)

Stopped == [stats |-> FALSE, psm |-> FALSE, paused |-> FALSE]

JobStarts ==
    /\ stack = <<>> /\ ~job.psm
    /\ job' = [job EXCEPT !.stats = TRUE, !.psm = TRUE]
    /\ mgr' = EnableMonitoring(mgr)
    /\ UNCHANGED <<present, enabled, window, saved, queue, stack>>

JobStops ==
    /\ stack = <<>> /\ job.psm
    /\ job' = Stopped
    /\ mgr' = DisableMonitoring(mgr)
    /\ queue' = AgedByDisable(queue)
    /\ UNCHANGED <<present, enabled, window, saved, stack>>

(* send_pause_command, issued by a runout or clog callback, stops the SD    *)
(* print; the handler resumes it when it has nothing to do.                 *)
SdPauses ==
    /\ job.stats
    /\ \E i \in DOMAIN queue : queue[i].type \in {"runout", "clog"}
    /\ job' = [job EXCEPT !.stats = FALSE, !.paused = TRUE]
    /\ UNCHANGED <<mgr, present, enabled, window, saved, queue, stack>>

Resumed(j) == [j EXCEPT !.stats = j.stats \/ j.paused, !.paused = FALSE]

-----------------------------------------------------------------------------
(* Commands.  One may start while handlers wait: it was waiting before them. *)

NoSensor == [kind |-> "none", at |-> 0]

Frames == [kind : EventTypes \cup {"preload", "change"},
           sensor : Fitted \cup {NoSensor}, gate : Gates \cup {Unknown, Bypass},
           stage : {"begin", "selected", "moving", "end"}, monitored : BOOLEAN]

Frame(kind, s, g) ==
    [kind |-> kind, sensor |-> s, gate |-> g, stage |-> "begin", monitored |-> FALSE]

Top == stack[Len(stack)]
Push(f) == stack' = Append(stack, f)
Pop     == SubSeq(stack, 1, Len(stack) - 1)
TopTo(stage, monitored) ==
    stack' = Append(Pop, [Top EXCEPT !.stage = stage, !.monitored = monitored])

Running(kinds, stage) == stack # <<>> /\ Top.kind \in kinds /\ Top.stage = stage

(* A runout of the extruder sensor is an error at once.                      *)
AtExtruder == Running({"runout"}, "begin") /\ Top.sensor.kind = "extruder"

(* MMU_SELECT, MMU_RECOVER and the other commands that select a gate        *)
(* without suspending monitoring; a failed selection ends on no gate.       *)
SelectCommand(g) ==
    /\ stack = <<>>
    /\ mgr' = SetGateSelected(mgr, g)
    /\ UNCHANGED <<present, enabled, window, saved, job, queue, stack>>

Reset ==
    /\ AllowReset /\ stack = <<>> /\ ~mgr.booting
    /\ mgr' = [mgr EXCEPT !.monitoring = FALSE, !.gate = Unknown, !.unit = NoUnit,
                          !.booting = TRUE]
    /\ job' = [job EXCEPT !.psm = FALSE]
    /\ queue' = Aged(queue, AllHandled)
    /\ UNCHANGED <<present, enabled, window, saved, stack>>

(* __MMU_BOOTUP: a gate may be found or homed to, then monitoring is off.    *)
Bootup ==
    /\ mgr.booting /\ stack = <<>>
    /\ \E g \in Gates \cup {mgr.gate} :
         mgr' = [DisableMonitoring(SetGateSelected(mgr, g)) EXCEPT !.booting = FALSE]
    /\ queue' = AgedByDisable(queue)
    /\ job' = [job EXCEPT !.psm = FALSE]
    /\ UNCHANGED <<present, enabled, window, saved, stack>>

(* MMU_PRELOAD: the gate is selected, monitoring and the events of its      *)
(* sensors are suspended for the moves, and the gate left may be reselected.*)
Preload(g) ==
    /\ ~job.psm
    /\ stack = <<>>
    /\ Push(Frame("preload", NoSensor, g))
    /\ UNCHANGED <<mgr, present, enabled, window, saved, job, queue>>

PreloadSelects ==
    /\ Running({"preload"}, "begin")
    /\ mgr' = SetGateSelected(mgr, Top.gate)
    /\ stack' = Append(Pop, [Top EXCEPT !.stage = "selected", !.gate = mgr.gate])
    /\ UNCHANGED <<present, enabled, window, saved, job, queue>>

PreloadSuspends ==
    /\ Running({"preload"}, "selected")
    /\ TopTo("moving", mgr.monitoring)
    /\ mgr' = DisableMonitoring(mgr)
    /\ queue' = AgedByDisable(queue)
    /\ SuspendEvents(mgr.active)
    /\ UNCHANGED <<present, enabled, job>>

PreloadRestores ==
    /\ Running({"preload"}, "moving")
    /\ TopTo("end", FALSE)
    /\ mgr' = IF Top.monitored THEN EnableMonitoring(mgr) ELSE mgr
    /\ RestoreEvents
    /\ UNCHANGED <<present, enabled, job, queue>>

PreloadEnds ==
    /\ Running({"preload"}, "end")
    /\ stack' = Pop
    /\ \E g \in {mgr.gate, Top.gate} : mgr' = SetGateSelected(mgr, g)
    /\ UNCHANGED <<present, enabled, window, saved, job, queue>>

(* MMU_CHANGE_TOOL, MMU_LOAD, MMU_UNLOAD, MMU_EJECT, MMU_CHECK_GATE          *)
Change(g) ==
    /\ stack = <<>>
    /\ Push(Frame("change", NoSensor, g))
    /\ UNCHANGED <<mgr, present, enabled, window, saved, job, queue>>

(* wrap_suspend_filament_monitoring.  _runout marks every event raised so    *)
(* far as part of the runout being handled.                                  *)
OperationSuspends ==
    /\ Running({"change", "runout", "clog"}, "begin") /\ ~AtExtruder
    /\ TopTo("moving", mgr.monitoring)
    /\ mgr' = DisableMonitoring(mgr)
    /\ queue' = LET aged == AgedByDisable(queue)
                IN  IF Top.kind = "change" THEN aged
                    ELSE [i \in DOMAIN aged |-> [aged[i] EXCEPT !.handled = TRUE]]
    /\ UNCHANGED <<present, enabled, window, saved, job>>

OperationSelects(g) ==
    /\ Running({"change", "runout"}, "moving")
    /\ g # mgr.gate /\ (Top.kind = "change" => g \in {Top.gate, Unknown} /\ Top.gate # Bypass)
    /\ mgr' = SetGateSelected(mgr, g)
    /\ UNCHANGED <<present, enabled, window, saved, job, queue, stack>>

Reopened(s) == [window EXCEPT ![s] = "delay"]      \* the end of _exec_gcode

OperationEnds ==
    /\ Running({"change", "runout"}, "moving")
    /\ stack' = Pop
    /\ mgr' = IF Top.monitored THEN EnableMonitoring(mgr) ELSE mgr
    /\ job' = IF Top.kind = "runout" THEN Resumed(job) ELSE job
    /\ window' = IF Top.kind = "runout" THEN Reopened(Top.sensor) ELSE window
    /\ UNCHANGED <<present, enabled, saved, queue>>

(* The exception leaves the wrapper, then handle_mmu_error pauses a print.  *)
OperationFails ==
    /\ Running({"change", "runout", "clog"}, "moving") \/ AtExtruder
    /\ stack' = Pop
    /\ LET left == IF Top.monitored THEN EnableMonitoring(mgr) ELSE mgr
       IN  /\ mgr' = IF job.psm THEN DisableMonitoring(left) ELSE left
           /\ queue' = IF job.psm /\ left.monitoring THEN Aged(queue, BeforeDisable) ELSE queue
    /\ job' = IF job.psm THEN Stopped ELSE job
    /\ window' = IF Top.kind = "change" THEN window ELSE Reopened(Top.sensor)
    /\ UNCHANGED <<present, enabled, saved>>

-----------------------------------------------------------------------------
(* Event handlers. *)

(* check_event_sensor, "none" when the sensor is disabled.                   *)
Reads(s) == IF s \notin enabled THEN "none" ELSE IF s \in present THEN "yes" ELSE "no"

Duplicate(e) == e.handled
Suspended(e) == e.age = "during" /\ mgr.monitoring

RealRunout(e) ==
    /\ Reads(e.sensor) = "no" /\ ~Duplicate(e) /\ ~Suspended(e)
    /\ IsGateSensor(e.sensor) => e.sensor.at = mgr.gate

(* The autoload parameters, tested when the handler runs: no      *)
(* operation is under way then, the handler holds the mutex.                *)
Autoloads(s) ==
    /\ Autoload /\ ~job.psm
    /\ s.kind = "entry" \/ (s.kind = "extruder" /\ mgr.gate = Bypass)

(* A handler that has nothing to do is at its end.                           *)
StartHandler ==
    /\ stack = <<>> /\ queue # <<>>
    /\ LET e == Head(queue)
           taken == \/ e.type = "clog"
                    \/ (e.type = "runout" /\ RealRunout(e))
                    \/ (e.type = "insert" /\ Reads(e.sensor) = "yes" /\ Autoloads(e.sensor))
       IN  Push([Frame(e.type, e.sensor, mgr.gate) EXCEPT
                   !.stage = IF taken THEN "begin" ELSE "end"])
    /\ queue' = Tail(queue)
    /\ UNCHANGED <<mgr, present, enabled, window, saved, job>>

(* The insert handler preloads its gate, or loads the bypass.                *)
InsertAutoloads ==
    /\ Running({"insert"}, "begin")
    /\ stack' = << [Top EXCEPT !.stage = "end"],
                   IF Top.sensor.kind = "entry" THEN Frame("preload", NoSensor, Top.sensor.at)
                   ELSE Frame("change", NoSensor, Bypass) >>
    /\ UNCHANGED <<mgr, present, enabled, window, saved, job, queue>>

\* Faulty variant: a runout that is ignored returns before the sensor reopens.
HandlerEnds_IgnoredStuck ==
    /\ Running(EventTypes, "end")
    /\ stack' = Pop
    /\ window' = IF Top.kind = "runout" THEN window ELSE Reopened(Top.sensor)
    /\ job' = IF Top.kind = "runout" THEN Resumed(job) ELSE job
    /\ UNCHANGED <<mgr, present, enabled, saved, queue>>

HandlerEnds ==
    /\ Running(EventTypes, "end")
    /\ stack' = Pop
    /\ window' = Reopened(Top.sensor)
    /\ job' = IF Top.kind = "runout" THEN Resumed(job) ELSE job
    /\ UNCHANGED <<mgr, present, enabled, saved, queue>>

-----------------------------------------------------------------------------
(* After the bootup task: the last gate is selected, or none; monitoring is  *)
(* off, and nothing is armed.                                                *)
Init ==
    /\ \E g \in Gates \cup {Unknown} :
         mgr = [monitoring |-> FALSE, gate |-> g, unit |-> UnitFor(g, 0), armed |-> {},
                active |-> ActiveMap(g, UnitFor(g, 0)), flowguard |-> {}, booting |-> FALSE]
    /\ present = {} /\ enabled = Fitted
    /\ window = [s \in Fitted |-> "open"] /\ saved = [s \in Fitted |-> "none"]
    /\ job = Stopped
    /\ queue = <<>> /\ stack = <<>>

SensorStep(s) == Edge(s) \/ DelayPasses(s) \/ SetSensorEnabled(s)

Commands ==
    \/ JobStarts \/ JobStops \/ Reset \/ Bootup
    \/ \E g \in Gates : Preload(g) \/ Change(g)
    \/ \E g \in Gates \cup {Unknown, Bypass} : SelectCommand(g)

OperationSteps ==
    \/ PreloadSelects \/ PreloadSuspends \/ PreloadRestores \/ PreloadEnds
    \/ OperationSuspends \/ OperationEnds \/ OperationFails
    \/ \E g \in Gates \cup {Unknown} : OperationSelects(g)

Next ==
    \/ \E s \in Fitted : SensorStep(s)
    \/ \E u \in Units : FlowGuardTrips(u)
    \/ SdPauses
    \/ Commands \/ OperationSteps
    \/ StartHandler \/ InsertAutoloads \/ HandlerEnds

(* Klipper's mutex is FIFO, so a handler waiting for it is not overtaken    *)
(* forever; an operation's moves end.                                       *)
Fairness ==
    /\ SF_vars(StartHandler)
    /\ WF_vars(InsertAutoloads) /\ WF_vars(HandlerEnds)
    /\ WF_vars(PreloadSelects) /\ WF_vars(PreloadSuspends)
    /\ WF_vars(PreloadRestores) /\ WF_vars(PreloadEnds)
    /\ WF_vars(OperationSuspends) /\ WF_vars(OperationEnds \/ OperationFails)

Spec == Init /\ [][Next]_vars
FairSpec == Spec /\ Fairness

-----------------------------------------------------------------------------
(* Properties. *)

(* The state stays well formed.                                             *)
TypeOK ==
    /\ mgr \in Managers
    /\ present \subseteq Fitted /\ enabled \subseteq Fitted
    /\ window \in [Fitted -> {"open", "delay", "never"}]
    /\ saved \in [Fitted -> {"none", "open", "delay", "never"}]
    /\ job \in [stats : BOOLEAN, psm : BOOLEAN, paused : BOOLEAN]
    /\ queue \in Seq(QueuedEvents)
    /\ stack \in Seq(Frames)

(* A sensor is armed for runout only while filament monitoring is on, on    *)
(* whatever gate or unit it was armed: none is stranded by a selection      *)
(* (_runout_sensors).  MMU_RESET is the exception until a unit is selected. *)
ArmedOnlyMonitored == mgr.armed # {} => mgr.monitoring \/ mgr.unit = NoUnit

(* No sensor of a unit that is not selected is armed, so its filament moving *)
(* cannot stop the print of another unit (_handle_unit_selected).            *)
ForeignDisarmed ==
    mgr.unit # NoUnit =>
        \A s \in mgr.armed : IsGateSensor(s) \/ s \in UnitLevel(mgr.unit)

(* FlowGuard is active at most on the selected unit, and only while          *)
(* monitoring (_apply_flowguard_scope).                                      *)
FlowGuardScoped ==
    mgr.unit # NoUnit =>
        mgr.flowguard \subseteq (IF mgr.monitoring THEN {mgr.unit} ELSE {})

(* What can pause a print is armed only while monitoring is on, and neither  *)
(* the sensors nor the FlowGuard of a unit that is not selected can: however *)
(* monitoring, gate and unit change, each by commands of its own.            *)
ArmedInScope == ArmedOnlyMonitored /\ ForeignDisarmed /\ FlowGuardScoped

(* While a preload moves the filament of a gate, an insertion there raises   *)
(* no event: it would start a second preload (wrap_suspend_insert_events).   *)
Preloading(g) == Running({"preload"}, "moving") /\ mgr.gate = g
Inserted(g) ==
    /\ Len(queue') > Len(queue)
    /\ queue'[Len(queue')].type = "insert"
    /\ queue'[Len(queue')].sensor = [kind |-> "entry", at |-> g]
NoInsertWhilePreloading == [][\A g \in Gates : Preloading(g) => ~Inserted(g)]_vars

(* A runout is handled as real only if it was raised while filament          *)
(* monitoring was on, however late its handler runs.                         *)
HandledAsRunout == stack = <<>> /\ queue # <<>> /\ stack' # <<>>
                     /\ stack'[1].kind = "runout" /\ stack'[1].stage = "begin"
RunoutWhileMonitored == [][HandledAsRunout => Head(queue).monitored]_vars

(* While monitoring is on and a gate is selected, every sensor that follows  *)
(* monitoring is armed (_runout_sensors).                                    *)
ArmedWhenMonitored ==
    mgr.monitoring /\ mgr.gate >= 0 => RunoutSensors(mgr.unit) \subseteq mgr.armed

(* The sensors seen on the bypass are those of the unit that has the bypass.  *)
BypassSeesItsUnit ==
    mgr.gate = Bypass => mgr.active \subseteq UnitLevel(BypassUnit)

(* No sensor is silenced for good.                                           *)
SensorsReopen == \A s \in Fitted : window[s] = "never" ~> window[s] # "never"

=============================================================================

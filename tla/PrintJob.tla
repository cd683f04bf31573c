------------------------------ MODULE PrintJob ------------------------------
(***************************************************************************)
(* The print/MMU lifecycle of Happy Hare: the job state machine            *)
(* (mmu_print_state_machine.py), the error, pause, unlock, resume and      *)
(* cancel paths of the controller (mmu_controller.py), and the commands    *)
(* and reactor callbacks that drive them, against the Klipper objects they *)
(* share (print_stats, virtual_sdcard, pause_resume, idle_timeout).        *)
(*                                                                         *)
(* A gcode command runs under Klipper's FIFO gcode mutex, so a command is  *)
(* one step, except a load, unload, tool change or runout, whose moves     *)
(* yield to the reactor: it is a Begin step, any number of callbacks       *)
(* (timer, idle_timeout events, sensor callbacks, macros it runs), and an  *)
(* End step.  Every handler is a function from a driver state to a driver  *)
(* state, named after the Python method; an action applies it to `m'.      *)
(***************************************************************************)
EXTENDS Naturals, Sequences, FiniteSets

CONSTANTS
    MaxPending,    \* bound: callbacks waiting for the gcode mutex
    MaxRunouts,    \* bound: runout/clog events outstanding at once
    MacroPauses,   \* TRUE when macros inside an operation may call MMU_PAUSE
    ParkingMoves,  \* TRUE when parking moves the toolhead (enable_park_* in mmu_macro_vars)
    AllowForce,    \* TRUE when MMU_PAUSE may be given FORCE_IN_PRINT=1
    AllowBoot      \* TRUE when the bootup task, MMU_RESET and MMU ENABLE are included

ASSUME PrintJobAssumption ==
    /\ MaxPending \in Nat \ {0}
    /\ MaxRunouts \in Nat
    /\ {MacroPauses, ParkingMoves, AllowForce, AllowBoot} \subseteq BOOLEAN

VARIABLES
    m,         \* the driver's and Klipper's job state, a record (see State)
    op         \* the filament operation holding the mutex, or Idle

vars == <<m, op>>

-----------------------------------------------------------------------------
(* The state. *)

PrintStates == {"initialized", "ready", "started", "printing", "complete",
                "cancelled", "error", "pause_locked", "paused", "standby", "idle"}
EndStates   == {"complete", "cancelled", "error", "ready", "standby", "initialized"}
JobStates   == {"standby", "printing", "paused", "complete", "error", "cancelled"}
Temps       == {"off", "print"}
Operations  == {"change", "runout", "clog"}     \* "change": MMU_LOAD, MMU_UNLOAD, MMU_CHANGE_TOOL
Positions   == {"settled", "between"}   \* "settled": fully loaded or fully unloaded
Runouts     == {"runout", "runout_dup", "clog"}
Callbacks   == Runouts \cup {"print_start", "end_complete", "end_error", "standby", "bootup"}

Idle == [kind |-> "none", monitored |-> FALSE]

State ==
    [ print_state : PrintStates,              \* psm.print_state
      resume_to   : {"ready", "printing"},    \* psm.resume_to_state
      paused_temp : Temps \cup {"none"},      \* psm.paused_extruder_temp
      last_stats  : JobStates \cup {"none"},  \* psm.last_print_stats['state']
      new_job     : BOOLEAN,                  \* last_print_stats is of an earlier job
      enabled     : BOOLEAN,                  \* mmu.is_enabled
      monitoring  : BOOLEAN,                  \* mmu.filament_monitoring_enabled
      saved_op    : {"", "pause", "cancel", "complete", "change", "runout"},
      off_timer   : BOOLEAN,                  \* mmu.hotend_off_timer is armed
      filament    : Positions,                \* mmu.filament_pos
      timeout     : {"default", "pause"},     \* idle_timeout in force
      target      : Temps,                    \* extruder target temperature
      stats       : JobStates,                \* print_stats.state
      stopping    : BOOLEAN,                  \* virtual_sdcard must_pause_work
      is_paused   : BOOLEAN,                  \* pause_resume.is_paused
      pause_sent  : BOOLEAN,                  \* pause_resume.pause_command_sent
      idle        : {"Idle", "Ready", "Printing"}, \* idle_timeout.state
      pending     : Seq(Callbacks) ]          \* commands waiting for the gcode mutex

Ops == [kind : Operations \cup {"none"}, monitored : BOOLEAN]

IsPrinting(s)  == s.print_state \in {"started", "printing"}
IsMmuPaused(s) == s.print_state \in {"pause_locked", "paused"}
IsInPrint(s)   == s.print_state = "printing" \/ IsMmuPaused(s)
IsPaused(s)    == s.is_paused \/ IsMmuPaused(s)

-----------------------------------------------------------------------------
(* Klipper, as the driver uses it. *)

(* pause_resume.send_pause_command: the SD print stops at the end of the   *)
(* gcode line it is running, see SdStops.                                  *)
SendPause(s) ==
    IF s.pause_sent THEN s
    ELSE [s EXCEPT !.pause_sent = TRUE, !.stopping = (s.stats = "printing")]

SendResume(s) ==
    [s EXCEPT !.pause_sent = FALSE,
              !.stats = IF @ = "paused" THEN "printing" ELSE @]

BasePause(s)  == IF s.is_paused THEN s ELSE [SendPause(s) EXCEPT !.is_paused = TRUE]
BaseResume(s) == IF s.is_paused THEN [SendResume(s) EXCEPT !.is_paused = FALSE] ELSE s
BaseClear(s)  == [s EXCEPT !.is_paused = FALSE, !.pause_sent = FALSE]
BaseCancel(s) ==
    BaseClear([s EXCEPT !.stopping = FALSE,
                        !.stats = IF @ \in {"printing", "paused"} THEN "cancelled" ELSE @])

-----------------------------------------------------------------------------
(* The job state machine and the controller's helpers. *)

\* Faulty variant: a timer armed by an earlier pause is left armed.
OnPrintStart_TimerLeft(s, preStartOnly) ==
    LET started ==
          IF IsPrinting(s) THEN s
          ELSE [s EXCEPT !.saved_op = "", !.paused_temp = "none",
                         !.monitoring = TRUE, !.print_state = "started"]
    IN  IF preStartOnly THEN started ELSE [started EXCEPT !.print_state = "printing"]

OnPrintStart(s, preStartOnly) ==
    LET started ==
          IF IsPrinting(s) THEN s
          ELSE [s EXCEPT !.saved_op = "", !.paused_temp = "none",
                         !.off_timer = FALSE, !.monitoring = TRUE,
                         !.print_state = "started"]
    IN  IF preStartOnly THEN started ELSE [started EXCEPT !.print_state = "printing"]

PrintStartCommand(s) == IF IsInPrint(s) THEN s ELSE OnPrintStart(s, FALSE)

FixStartedState(s) == IF s.stats = "printing" THEN PrintStartCommand(s) ELSE s

-----------------------------------------------------------------------------
(* idle_timeout events: Klipper sends them from the reactor or from within *)
(* the command that moves the toolhead, never under the gcode mutex.       *)

PreviousStats(s) == IF s.last_stats = "none" THEN "initialized" ELSE s.last_stats
StatsChanged(s)  == s.enabled /\ s.stats # PreviousStats(s)

(* A job start, as opposed to the resume of the job last seen paused.      *)
StartDetected(s, event) ==
    /\ StatsChanged(s) /\ s.stats = "printing" /\ event = "printing"
    /\ s.last_stats # "paused" \/ s.new_job
    /\ ~IsPrinting(s)

EndDetected(s, event) ==
    StatsChanged(s) /\ s.stats \in {"complete", "error"} /\ event = "ready"

\* Faulty variant: print_stats is remembered only when it means something.
HandleIdleTimeoutEvent_Forgets(s, event) ==
    IF StartDetected(s, event)
    THEN [OnPrintStart([s EXCEPT !.last_stats = s.stats, !.new_job = FALSE], TRUE)
            EXCEPT !.pending = Append(@, "print_start")]
    ELSE IF EndDetected(s, event)
    THEN [s EXCEPT !.last_stats = s.stats, !.pending = Append(@, "end_" \o s.stats)]
    ELSE s

HandleIdleTimeoutEvent(s, event) ==
    LET commands ==
          (IF StartDetected(s, event) THEN <<"print_start">> ELSE <<>>)
          \o (IF EndDetected(s, event)
              THEN << IF s.stats = "error" THEN "end_error" ELSE "end_complete" >> ELSE <<>>)
          \o (IF s.enabled /\ event = "idle" /\ s.print_state # "standby"
              THEN <<"standby">> ELSE <<>>)
        seen == IF StatsChanged(s)
                THEN [s EXCEPT !.last_stats = s.stats, !.new_job = FALSE] ELSE s
        started == IF StartDetected(s, event) THEN OnPrintStart(seen, TRUE) ELSE seen
    IN  [started EXCEPT !.pending = @ \o commands]

ToolheadMove(s) ==
    IF s.idle = "Printing" THEN s
    ELSE HandleIdleTimeoutEvent([s EXCEPT !.idle = "Printing"], "printing")

-----------------------------------------------------------------------------
(* Parking, print end, errors, unlock, resume.                             *)

\* Faulty variants: monitoring, or the heaters, are left on.
OnPrintEnd_MonitoringLeft(s, end) ==
    IF s.print_state \in EndStates THEN s
    ELSE [s EXCEPT !.saved_op = "", !.resume_to = "ready", !.paused_temp = "none",
                   !.target = IF IsMmuPaused(s) /\ end # "standby" THEN "off" ELSE @,
                   !.off_timer = FALSE, !.timeout = "default", !.print_state = end]

OnPrintEnd_HeatersLeft(s, end) ==
    IF s.print_state \in EndStates THEN s
    ELSE [s EXCEPT !.saved_op = "", !.resume_to = "ready", !.paused_temp = "none",
                   !.off_timer = FALSE, !.monitoring = FALSE,
                   !.timeout = "default", !.print_state = end]

OnPrintEnd(s, end) ==
    LET ended ==
          IF s.print_state \in EndStates THEN s
          ELSE [s EXCEPT !.saved_op = "", !.resume_to = "ready", !.paused_temp = "none",
                         !.target = IF IsMmuPaused(s) /\ end # "standby" THEN "off" ELSE @,
                         !.off_timer = FALSE, !.monitoring = FALSE,
                         !.timeout = "default", !.print_state = end]
    IN  IF end = "standby" THEN [ended EXCEPT !.print_state = "standby"] ELSE ended

Wakeup(s) == IF s.print_state = "standby" THEN [s EXCEPT !.print_state = "idle"] ELSE s

(* Parking is skipped only when the toolhead is not homed and the operation *)
(* is one that does not home it ("complete", "cancel").                     *)
SaveAndPark(s, operation, homed) ==
    IF ~homed /\ operation \in {"complete", "cancel"} THEN s
    ELSE LET saved == [s EXCEPT !.saved_op = operation]
         IN  IF ParkingMoves THEN ToolheadMove(saved) ELSE saved

RestorePosition(s, operation) ==
    IF s.saved_op # "" /\ IsPaused(s) /\ operation # "resume" THEN s
    ELSE [s EXCEPT !.saved_op = ""]

PrintEndCommand(s, end, idleTimeout, homed) ==
    IF s.print_state \in EndStates \/ IsMmuPaused(s) THEN s
    ELSE OnPrintEnd(IF end = "complete" /\ ~idleTimeout
                    THEN SaveAndPark(s, "complete", homed) ELSE s, end)

(* _ensure_safe_extruder_temperature: "pause" restores the temperature the *)
(* pause saved (0 sends no M104); "auto" always leaves the extruder hot.   *)
EnsurePauseTemperature(s) ==
    IF s.paused_temp = "off" THEN s ELSE [s EXCEPT !.target = "print"]
EnsureTemperature(s) == [s EXCEPT !.target = "print"]

PauseCommand(s) ==
    IF s.enabled THEN BasePause(SaveAndPark(FixStartedState(s), "pause", TRUE))
    ELSE BasePause(s)

(* handle_mmu_error; `found' is the position recover_filament_pos infers.  *)
EnterPause(s, found) ==
    LET saved  == [s EXCEPT !.monitoring = FALSE,
                            !.resume_to = IF IsInPrint(s) THEN "printing" ELSE "ready",
                            !.paused_temp = s.target,
                            !.off_timer = TRUE, !.timeout = "pause"]
        locked == [SaveAndPark(saved, "pause", TRUE) EXCEPT !.print_state = "pause_locked"]
        paused == IF s.is_paused THEN locked ELSE SendPause(PauseCommand(locked))
    IN  [paused EXCEPT !.filament = found]

\* Faulty variant: an error in a pause saves its context again.
HandleMmuError_SavesAgain(s, force, found) ==
    LET f == FixStartedState(s)
    IN  IF IsInPrint(f) \/ force THEN EnterPause(f, found)
        ELSE IF f.saved_op = "" THEN f ELSE RestorePosition(f, f.saved_op)

HandleMmuError(s, force, found) ==
    LET f == FixStartedState(s)
    IN  IF IsMmuPaused(f) THEN [f EXCEPT !.filament = found]
        ELSE IF IsInPrint(f) \/ force THEN EnterPause(f, found)
        ELSE IF f.saved_op = "" THEN f
        ELSE RestorePosition(f, f.saved_op)

\* Faulty variants: the saved temperature is dropped; the timer is left armed.
MmuUnlock_DropsTemp(s) ==
    [EnsurePauseTemperature(s) EXCEPT !.timeout = "default", !.off_timer = FALSE,
                                      !.paused_temp = "none", !.print_state = "paused"]

MmuUnlock_TimerLeft(s) ==
    [EnsurePauseTemperature(s) EXCEPT !.timeout = "default", !.print_state = "paused"]

MmuUnlock(s) ==
    [EnsurePauseTemperature(s) EXCEPT !.timeout = "default", !.off_timer = FALSE,
                                      !.print_state = "paused"]

ContinueAfter(s, operation) ==
    IF ~IsMmuPaused(s) THEN RestorePosition(s, operation)
    ELSE IF operation # "resume" THEN s
    ELSE RestorePosition(
           [EnsurePauseTemperature(s) EXCEPT !.paused_temp = "none", !.monitoring = TRUE,
                                             !.print_state = s.resume_to,
                                             !.resume_to = "ready"], "resume")

(* reinit, by MMU_RESET and MMU ENABLE=1: the off timer, the idle timeout  *)
(* and everything that is Klipper's are not touched.                       *)
Reinit(s) ==
    [s EXCEPT !.enabled = TRUE, !.monitoring = FALSE, !.saved_op = "",
              !.filament = "between", !.last_stats = "none", !.new_job = FALSE,
              !.paused_temp = "none", !.print_state = "ready", !.resume_to = "ready"]

DisableMmu(s) ==
    [s EXCEPT !.monitoring = FALSE, !.off_timer = FALSE, !.timeout = "default",
              !.enabled = FALSE, !.print_state = "standby"]

(* __MMU_BOOTUP: forces "initialized" and monitoring off in any job state. *)
Bootup(s, found) ==
    [s EXCEPT !.filament = found, !.monitoring = FALSE, !.print_state = "initialized"]

-----------------------------------------------------------------------------
(* Klipper's own steps. *)

MutexFree == op = Idle

(* A step that would overfill the mutex's queue is beyond the bound.       *)
Becomes(s) == Len(s.pending) <= MaxPending /\ m' = s

(* SDCARD_PRINT_FILE *)
UserPrints ==
    /\ MutexFree /\ m.stats \notin {"printing", "paused"}
    /\ m' = [m EXCEPT !.stats = "printing", !.new_job = TRUE]
    /\ UNCHANGED op

(* The SD print reaches the end of the line it was running when it was     *)
(* told to stop.  That line was queued on the mutex first, so no command   *)
(* queued after the pause runs before this.                                *)
SdStops ==
    /\ MutexFree /\ m.stopping
    /\ m' = [m EXCEPT !.stopping = FALSE,
                      !.stats = IF @ = "printing" THEN "paused" ELSE @]
    /\ UNCHANGED op

(* The file ends, or one of its lines raises an error. *)
JobEnds ==
    /\ MutexFree /\ m.stats = "printing"
    /\ \E outcome \in {"complete", "error"} :
           /\ m.stopping => outcome = "error"
           /\ m' = [m EXCEPT !.stats = outcome, !.stopping = FALSE]
    /\ UNCHANGED op

(* The toolhead moves: idle_timeout:printing, also during an operation.    *)
ToolheadMoves ==
    /\ m.idle # "Printing"
    /\ Becomes(ToolheadMove(m))
    /\ UNCHANGED op

(* The move queue drains with the gcode mutex free: idle_timeout:ready.    *)
ToolheadDrains ==
    /\ MutexFree /\ m.pending = <<>> /\ m.idle = "Printing"
    /\ Becomes(HandleIdleTimeoutEvent([m EXCEPT !.idle = "Ready"], "ready"))
    /\ UNCHANGED op

(* Klipper's idle timeout: its gcode turns the heaters off, then the event.*)
IdleTimesOut ==
    /\ MutexFree /\ m.pending = <<>> /\ m.idle = "Ready"
    /\ Becomes(HandleIdleTimeoutEvent([m EXCEPT !.idle = "Idle", !.target = "off"], "idle"))
    /\ UNCHANGED op

(* M104, M109 or TURN_OFF_HEATERS by the slicer or the user. *)
SetTemperature ==
    /\ MutexFree
    /\ \E t \in Temps : m' = [m EXCEPT !.target = t]
    /\ UNCHANGED op

-----------------------------------------------------------------------------
(* Commands: one step each, under the gcode mutex.                         *)

Command(after) ==
    /\ MutexFree
    /\ Becomes(after)
    /\ UNCHANGED op

(* The slicer's MMU_PRINT_START and MMU_PRINT_END (the start and end macros *)
(* call them only when the MMU is enabled).                                *)
SlicerPrintStart == m.enabled /\ m.stats = "printing" /\ Command(PrintStartCommand(m))

SlicerPrintEnd ==
    /\ m.enabled /\ m.stats = "printing"
    /\ \E homed \in BOOLEAN : Command(PrintEndCommand(m, "complete", FALSE, homed))

PausePrint == Command(PauseCommand(m))

(* RESUME ("SD busy" while the print is still stopping): the toolhead      *)
(* sensor, where there is one, may first correct the filament position.    *)
ResumePrint ==
    /\ ~m.stopping
    /\ IF ~m.enabled THEN Command(BaseResume(m))
       ELSE IF ~IsPaused(m) THEN Command(m)
       ELSE \E toolheadSensor \in BOOLEAN, found \in Positions :
           LET unlocked == IF m.print_state = "pause_locked" THEN MmuUnlock(m) ELSE m
               sensed == IF toolheadSensor
                         THEN [unlocked EXCEPT !.filament = "settled"] ELSE unlocked
           IN  Command(IF sensed.filament = "between"
                       THEN HandleMmuError(sensed, FALSE, found)
                       ELSE ContinueAfter(BaseResume(sensed), "resume"))

CancelPrint ==
    IF ~m.enabled THEN Command(BaseCancel(m))
    ELSE \E homed \in BOOLEAN :
           Command(OnPrintEnd(BaseCancel(SaveAndPark(FixStartedState(m), "cancel", homed)),
                              "cancelled"))

ClearPause ==
    Command(BaseClear(IF m.enabled /\ m.saved_op = "pause"
                      THEN [m EXCEPT !.saved_op = ""] ELSE m))

(* MMU_PAUSE *)
MmuPause ==
    /\ m.enabled
    /\ \E force \in {FALSE, AllowForce}, found \in Positions :
           Command(HandleMmuError(Wakeup(m), force, found))

(* MMU_UNLOCK *)
MmuUnlockCommand ==
    /\ m.enabled
    /\ Command(IF m.print_state = "pause_locked" THEN MmuUnlock(m) ELSE Wakeup(m))

(* MMU_RECOVER: the user states, or the sensors tell, where the filament is. *)
MmuRecover ==
    /\ m.enabled
    /\ \E found \in Positions : Command([Wakeup(m) EXCEPT !.filament = found])

(* Everything raised so far is older than the runout now handled.          *)
MarkHandled(events) ==
    [i \in DOMAIN events |-> IF events[i] = "runout" THEN "runout_dup" ELSE events[i]]

(* MMU_RESET CONFIRM=1 and MMU ENABLE=1 *)
ReinitMmu ==
    /\ AllowBoot /\ MutexFree
    /\ Becomes([Reinit(Wakeup(m)) EXCEPT !.pending = Append(MarkHandled(@), "bootup")])
    /\ UNCHANGED op

(* MMU ENABLE=0 *)
MmuDisable == AllowBoot /\ m.enabled /\ Command(DisableMmu(m))

-----------------------------------------------------------------------------
(* Filament operations: they suspend monitoring for as long as they run.   *)

BeginOperation ==
    /\ MutexFree /\ m.enabled
    /\ LET f == FixStartedState(Wakeup(m))
       IN  /\ op' = [kind |-> "change", monitored |-> f.monitoring]
           /\ Becomes(SaveAndPark([f EXCEPT !.monitoring = FALSE], "change", TRUE))

(* MMU_LOAD, MMU_UNLOAD and MMU_CHANGE_TOOL return early when the filament *)
(* is already where they would take it.                                    *)
NothingToDo == m.enabled /\ Command(FixStartedState(Wakeup(m)))

OperationHeats ==
    /\ op.kind # "none"
    /\ m' = EnsureTemperature(m)
    /\ UNCHANGED op

(* A macro the operation runs calls MMU_PAUSE and returns.                 *)
MacroCallsPause ==
    /\ MacroPauses /\ op.kind # "none"
    /\ \E found \in Positions : Becomes(HandleMmuError(m, FALSE, found))
    /\ UNCHANGED op

(* wrap_suspend_filament_monitoring's finally *)
ResumeMonitoring(s) == [s EXCEPT !.monitoring = op.monitored \/ @]

\* Faulty variant: a reload that succeeds does not send the resume.
OperationSucceeds_NoResume ==
    /\ op.kind \in {"change", "runout"}
    /\ m' = ResumeMonitoring(ContinueAfter([m EXCEPT !.filament = "settled"], op.kind))
    /\ op' = Idle

\* Faulty variant: every operation undoes the pause, not only a runout.
OperationSucceeds_AlwaysResumes ==
    /\ op.kind \in {"change", "runout"}
    /\ m' = ResumeMonitoring(SendResume(ContinueAfter([m EXCEPT !.filament = "settled"],
                                                     op.kind)))
    /\ op' = Idle

(* A clog is always left to the user. *)
OperationSucceeds ==
    /\ op.kind \in {"change", "runout"}
    /\ LET moved == [m EXCEPT !.filament = "settled"]
           continued == ContinueAfter(moved, op.kind)
       IN  m' = ResumeMonitoring(IF op.kind = "runout" THEN SendResume(continued)
                                 ELSE continued)
    /\ op' = Idle

OperationFails ==
    /\ op.kind # "none"
    /\ \E found \in Positions :
           Becomes(HandleMmuError(ResumeMonitoring(m), FALSE, found))
    /\ op' = Idle

HotendOffTimer ==
    /\ m.off_timer
    /\ m' = [m EXCEPT !.off_timer = FALSE,
                      !.target = IF IsPrinting(m) THEN @ ELSE "off"]
    /\ UNCHANGED op

-----------------------------------------------------------------------------
(* Runout and clog events.                                                 *)

Outstanding == Cardinality({i \in DOMAIN m.pending : m.pending[i] \in Runouts})

(* An event is raised and its handler has not ended.                       *)
Unserved ==
    op.kind \in {"runout", "clog"} \/ \E i \in DOMAIN m.pending : m.pending[i] \in Runouts

(* A sensor, or FlowGuard for a clog, while monitoring is on.  Its reactor *)
(* callback (_runout_event_handler) pauses the SD print at once and then   *)
(* waits for the gcode mutex.                                              *)
RaiseRunout(kind) ==
    /\ m.monitoring /\ Outstanding < MaxRunouts
    /\ kind = "runout" => m.stats = "printing"
    /\ Becomes([SendPause(m) EXCEPT !.pending = Append(@, kind)])
    /\ UNCHANGED op

Deliver(command) ==
    /\ MutexFree /\ ~m.stopping
    /\ m.pending # <<>> /\ Head(m.pending) = command

(* The driver once the command at the head of the queue has the mutex.     *)
Dequeued == [m EXCEPT !.pending = Tail(@)]

(* MMU_SENSOR_RUNOUT, MMU_SENSOR_CLOG: an event for a disabled MMU, one    *)
(* older than the runout last handled, or one the sensor no longer         *)
(* confirms, only undoes the pause the callback sent.                      *)
IgnoreRunout(kind) ==
    /\ Deliver(kind)
    /\ m.enabled => kind # "clog"
    /\ m' = SendResume(IF m.enabled THEN FixStartedState(Dequeued) ELSE Dequeued)
    /\ UNCHANGED op

\* Faulty variant: an event is put back while the MMU is paused, to be handled
\* once the print resumes.
HandleRunout_PutBack(kind) ==
    /\ Deliver(kind) /\ m.enabled /\ kind # "runout_dup" /\ ~IsMmuPaused(m)
    /\ LET f == FixStartedState([Dequeued EXCEPT !.pending = MarkHandled(@)])
       IN  /\ op' = [kind |-> kind, monitored |-> f.monitoring]
           /\ Becomes(SaveAndPark([f EXCEPT !.monitoring = FALSE], "runout", TRUE))

(* _runout: from here on it is a filament operation.                       *)
HandleRunout(kind) ==
    /\ Deliver(kind) /\ m.enabled /\ kind # "runout_dup"
    /\ LET f == FixStartedState([Dequeued EXCEPT !.pending = MarkHandled(@)])
       IN  /\ op' = [kind |-> kind, monitored |-> f.monitoring]
           /\ Becomes(SaveAndPark([f EXCEPT !.monitoring = FALSE], "runout", TRUE))

(* A runout at the extruder entry cannot be reloaded. *)
RunoutAtExtruder ==
    /\ Deliver("runout") /\ m.enabled
    /\ \E found \in Positions : Becomes(HandleMmuError(FixStartedState(Dequeued), FALSE, found))
    /\ UNCHANGED op

(* The commands queued by idle_timeout events and by the bootup timer.     *)
RunCallback ==
    /\ \/ Deliver("print_start") /\ m' = PrintStartCommand(Dequeued)
       \/ \E homed \in BOOLEAN :
             \/ /\ Deliver("end_complete")
                /\ Becomes(PrintEndCommand(Dequeued, "complete", FALSE, homed))
             \/ /\ Deliver("end_error")
                /\ m' = PrintEndCommand(Dequeued, "error", FALSE, homed)
       \/ Deliver("standby") /\ m' = PrintEndCommand(Dequeued, "standby", TRUE, TRUE)
       \/ \E found \in Positions : Deliver("bootup") /\ m' = Bootup(Dequeued, found)
    /\ UNCHANGED op

(* The command at the head of the gcode mutex's queue gets its turn.       *)
RunQueued ==
    \/ \E kind \in Runouts : IgnoreRunout(kind) \/ HandleRunout(kind)
    \/ RunoutAtExtruder \/ RunCallback

-----------------------------------------------------------------------------
(* After Klipper's "ready" event and the first bootup task.                *)
Init ==
    /\ m = [ print_state |-> "initialized",
             resume_to |-> "ready", paused_temp |-> "none", last_stats |-> "none",
             new_job |-> FALSE, enabled |-> TRUE, monitoring |-> FALSE, saved_op |-> "", off_timer |-> FALSE,
             filament |-> "between", timeout |-> "default", target |-> "off",
             stats |-> "standby", stopping |-> FALSE, is_paused |-> FALSE,
             pause_sent |-> FALSE, idle |-> "Idle",
             pending |-> <<>> ]
    /\ op = Idle

Next ==
    \/ UserPrints \/ SdStops \/ JobEnds
    \/ ToolheadMoves \/ ToolheadDrains \/ IdleTimesOut \/ SetTemperature
    \/ SlicerPrintStart \/ SlicerPrintEnd
    \/ PausePrint \/ ResumePrint \/ CancelPrint \/ ClearPause
    \/ MmuPause \/ MmuUnlockCommand \/ MmuRecover \/ ReinitMmu \/ MmuDisable
    \/ BeginOperation \/ NothingToDo \/ OperationHeats \/ MacroCallsPause
    \/ OperationSucceeds \/ OperationFails \/ HotendOffTimer
    \/ \E kind \in {"runout", "clog"} : RaiseRunout(kind)
    \/ RunQueued

Spec == Init /\ [][Next]_vars

(* An operation ends one way or the other, and the gcode mutex is FIFO: the *)
(* SD print's line and every queued command get their turn however often   *)
(* other commands are run (strong fairness).                               *)
Fairness ==
    /\ SF_vars(SdStops)
    /\ WF_vars(OperationSucceeds \/ OperationFails)
    /\ SF_vars(RunQueued)

FairSpec == Spec /\ Fairness

-----------------------------------------------------------------------------
(* Types. *)

TypeOK ==
    /\ m \in State
    /\ op \in Ops

-----------------------------------------------------------------------------
(* Safety. *)

(* While the MMU is paused the extruder temperature to resume with is      *)
(* known: "Pause temp should not be None" (mmu_controller.py:2755).        *)
PausedTempKnown == IsMmuPaused(m) => m.paused_temp # "none"

(* The hotend-off timer never runs in an active print, and never after the *)
(* user unlocked the MMU to work on it with a hot extruder.                *)
TimerNeverInPrint == m.off_timer => ~IsPrinting(m) /\ m.print_state # "paused"

(* Both: whatever cools the extruder, a pause can be resumed from, and no  *)
(* print or unlocked MMU is cooled by the timer of an earlier pause.       *)
HotendGuarded == PausedTempKnown /\ TimerNeverInPrint

(* The long pause idle timeout is in force while the MMU is locked, and the*)
(* hotend-off timer is armed at no other time.                             *)
PauseTimers ==
    /\ m.print_state = "pause_locked" => m.timeout = "pause"
    /\ m.off_timer => m.print_state = "pause_locked"

(* Runout detection is armed only in an active print: "Disable filament    *)
(* monitoring while in paused state" (mmu_controller.py:2259).             *)
MonitoringOnlyInPrint == m.monitoring => IsPrinting(m)

(* What guards a pause is in force only in the pause, and what guards a    *)
(* print only in the print (_handle_mmu_error, unlock, resume, print end). *)
GuardsInPlace == PauseTimers /\ MonitoringOnlyInPrint

(* With nothing left to handle, an SD print stopped by a sensor callback   *)
(* is one that RESUME accepts, as it refuses one that is neither MMU nor   *)
(* printer paused: not so when MMU_PRINT_END comes before the handler.     *)
Quiescent == MutexFree /\ ~m.stopping /\ m.pending = <<>>
StoppedPrint == Quiescent /\ m.pause_sent /\ m.stats = "paused"
NoOrphanedPause == StoppedPrint => IsPaused(m)

-----------------------------------------------------------------------------
(* Action properties. *)

(* A job that ends out of its MMU pause leaves the heaters off: the        *)
(* slicer's own end gcode was bypassed (mmu_print_state_machine.py:203).   *)
PausedJobEndsCold ==
    [][IsMmuPaused(m) /\ ~m.new_job /\ m'.print_state \in {"complete", "cancelled", "error"}
         => m'.target = "off"]_vars

(* RESUME returns to the print at the temperature it was paused at, with   *)
(* monitoring on, whatever the timers did to the heater in between: a      *)
(* second error in a pause (after the timer cooled the extruder, say)      *)
(* keeps what the first one saved.                                         *)
ResumeRestores ==
    [][IsMmuPaused(m) =>
         /\ m'.print_state = "printing" =>
                /\ m.paused_temp = "print" => m'.target = "print"
                /\ m'.monitoring /\ m'.resume_to = "ready"
         /\ IsMmuPaused(m') =>
                m'.paused_temp = m.paused_temp /\ m'.resume_to = m.resume_to]_vars

(* "If paused we can only continue on resume" (mmu_controller.py:2355):    *)
(* no step restarts the SD print and leaves the MMU paused.                *)
OnlyResumeContinues ==
    [][m.stats = "paused" /\ IsMmuPaused(m') => m'.stats # "printing"]_vars

(* The same but for runout handlers, which end by taking back the pause     *)
(* their callback sent (mmu_sensor_runout.py:158, mmu_controller.py:3912).  *)
OnlyResumeOrRunoutContinues ==
    [][m.stats = "paused" /\ IsMmuPaused(m') /\ m'.stats = "printing"
         => op.kind = "runout" \/ \E kind \in Runouts : IgnoreRunout(kind)]_vars

(* A job that is being stopped for an MMU pause stays paused unless it is  *)
(* cancelled: no callback that runs before the SD print has stopped, such  *)
(* as the job start the first toolhead move reports, undoes the pause.     *)
PauseHolds ==
    [][m.stopping /\ IsMmuPaused(m) => IsMmuPaused(m') \/ m'.stats = "cancelled"]_vars

(* A runout handler "will send_resume_command() or fail and pause"         *)
(* (mmu_sensor_runout.py:154): the step that serves the last event, of a   *)
(* job in print or running, takes back the pause the sensor sent, or leaves*)
(* a paused job that RESUME accepts.                                       *)
HandlersResumeOrPause ==
    [][Unserved /\ (IsInPrint(m) \/ m.stats = "printing") /\ ~Unserved'
         => ~m'.pause_sent \/ IsPaused(m')]_vars

(* A paused job that MMU_PRINT_END has not ended is, once it is resumed,   *)
(* again a print to the MMU, with its filament monitored: "Enable filament *)
(* monitoring while printing" (mmu_print_state_machine.py:171).            *)
ResumedJobInPrint ==
    [][m.enabled /\ m.stats = "paused" /\ m'.stats = "printing"
         => IsInPrint(m') \/ m.print_state \in {"complete", "cancelled", "error"}]_vars

-----------------------------------------------------------------------------
(* Liveness. *)

(* Every runout or clog event that paused the SD print is served: its      *)
(* handler gets the mutex and finishes, whatever else runs meanwhile.      *)
RunoutServed ==
    Outstanding > 0 ~> (Outstanding = 0 /\ op.kind \notin {"runout", "clog"})

=============================================================================

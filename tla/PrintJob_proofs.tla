--------------------------- MODULE PrintJob_proofs ---------------------------
(***************************************************************************)
(* Proofs about PrintJob.  Every handler of the driver maps a Safe state   *)
(* to a Safe state; an action applies handlers to m, so Safe(m) is         *)
(* inductive (IInv).  Two relations between the states before and after a  *)
(* step carry the rest: PausedOutcome, the ways a step can leave an MMU    *)
(* pause, and Tracked, what every step keeps of the guards of the pause    *)
(* and of the job as the driver has seen it; from the latter follow the    *)
(* invariants JobInv (for every constant), TimersInv, WatchInv and HoldInv *)
(* (under the assumptions their theorems state).                           *)
(***************************************************************************)
EXTENDS PrintJob, TLAPS

(* The three invariants, as properties of a driver state.                  *)
TempKnown(s) == IsMmuPaused(s) => s.paused_temp # "none"
TimerOff(s)  == s.off_timer => ~IsPrinting(s) /\ s.print_state # "paused"
Safe(s) == s \in State /\ TempKnown(s) /\ TimerOff(s)

(* What leaves the three fields alone that they speak of keeps them.       *)
LEMMA SafeKept ==
  ASSUME NEW s, Safe(s), NEW u \in State, u.print_state = s.print_state,
         u.paused_temp = s.paused_temp, u.off_timer = s.off_timer
  PROVE  Safe(u)
  BY DEF Safe, TempKnown, TimerOff, IsMmuPaused, IsPrinting

-----------------------------------------------------------------------------
(* Klipper's operations. *)

(* A queue of callbacks may be put in any safe state. *)
LEMMA PendingSafe ==
  ASSUME NEW s, Safe(s), NEW q \in Seq(Callbacks)
  PROVE  Safe([s EXCEPT !.pending = q])
  BY ZenonT(30) DEF Safe, State, TempKnown, TimerOff, IsMmuPaused, IsPrinting

LEMMA SendPauseSafe == ASSUME NEW s, Safe(s) PROVE Safe(SendPause(s))
  <1> DEFINE t == [s EXCEPT !.pause_sent = TRUE, !.stopping = (s.stats = "printing")]
  <1>1. Safe(t)
    BY ZenonT(30) DEF Safe, State, TempKnown, TimerOff, IsMmuPaused, IsPrinting
  <1> QED BY <1>1 DEF SendPause

LEMMA SendResumeSafe == ASSUME NEW s, Safe(s) PROVE Safe(SendResume(s))
  <1>1. ASSUME NEW j \in JobStates
        PROVE  Safe([s EXCEPT !.pause_sent = FALSE, !.stats = j])
    BY ZenonT(30) DEF Safe, State, TempKnown, TimerOff, IsMmuPaused, IsPrinting
  <1>2. (IF s.stats = "paused" THEN "printing" ELSE s.stats) \in JobStates
    BY ZenonT(30) DEF Safe, State, JobStates
  <1> QED BY <1>1, <1>2 DEF SendResume

LEMMA BasePauseSafe == ASSUME NEW s, Safe(s) PROVE Safe(BasePause(s))
  <1>1. ASSUME NEW t, Safe(t) PROVE Safe([t EXCEPT !.is_paused = TRUE])
    <2> DEFINE u == [t EXCEPT !.is_paused = TRUE]
    <2>1. t \in State BY <1>1 DEF Safe
    <2>2. u \in State BY <2>1, ZenonT(30) DEF State
    <2>3. /\ u.print_state = t.print_state /\ u.paused_temp = t.paused_temp
          /\ u.off_timer = t.off_timer
      BY <2>1, ZenonT(30) DEF State
    <2> HIDE DEF u
    <2>4. Safe(u) BY <1>1, <2>2, <2>3, SafeKept
    <2> QED BY <2>4 DEF u
  <1> QED BY <1>1, SendPauseSafe DEF BasePause

LEMMA BaseResumeSafe == ASSUME NEW s, Safe(s) PROVE Safe(BaseResume(s))
  <1>1. ASSUME NEW t, Safe(t) PROVE Safe([t EXCEPT !.is_paused = FALSE])
    <2> DEFINE u == [t EXCEPT !.is_paused = FALSE]
    <2>1. t \in State BY <1>1 DEF Safe
    <2>2. u \in State BY <2>1, ZenonT(30) DEF State
    <2>3. /\ u.print_state = t.print_state /\ u.paused_temp = t.paused_temp
          /\ u.off_timer = t.off_timer
      BY <2>1, ZenonT(30) DEF State
    <2> HIDE DEF u
    <2>4. Safe(u) BY <1>1, <2>2, <2>3, SafeKept
    <2> QED BY <2>4 DEF u
  <1> QED BY <1>1, SendResumeSafe DEF BaseResume

LEMMA BaseClearSafe == ASSUME NEW s, Safe(s) PROVE Safe(BaseClear(s))
  <1>1. Safe([s EXCEPT !.is_paused = FALSE, !.pause_sent = FALSE])
    BY ZenonT(30) DEF Safe, State, TempKnown, TimerOff, IsMmuPaused, IsPrinting
  <1> QED BY <1>1 DEF BaseClear

LEMMA BaseCancelSafe == ASSUME NEW s, Safe(s) PROVE Safe(BaseCancel(s))
  <1>1. ASSUME NEW j \in JobStates
        PROVE  Safe([s EXCEPT !.stopping = FALSE, !.stats = j])
    BY ZenonT(30) DEF Safe, State, TempKnown, TimerOff, IsMmuPaused, IsPrinting
  <1>2. (IF s.stats \in {"printing", "paused"} THEN "cancelled" ELSE s.stats) \in JobStates
    BY ZenonT(30) DEF Safe, State, JobStates
  <1> QED BY <1>1, <1>2, BaseClearSafe DEF BaseCancel

-----------------------------------------------------------------------------
(* The job state machine. *)

LEMMA OnPrintStartSafe ==
  ASSUME NEW s, Safe(s), NEW b \in BOOLEAN PROVE Safe(OnPrintStart(s, b))
  <1> DEFINE started == [s EXCEPT !.saved_op = "", !.paused_temp = "none",
                                  !.off_timer = FALSE, !.monitoring = TRUE,
                                  !.print_state = "started"]
  <1>1. started \in State BY ZenonT(30) DEF Safe, State, PrintStates
  <1>2. ~started.off_timer /\ started.print_state = "started"
    BY ZenonT(30) DEF Safe, State
  <1>3. IsPrinting(s) => ~s.off_timer BY DEF Safe, TimerOff
  <1>4. ASSUME NEW t, Safe(t), ~t.off_timer
        PROVE  Safe([t EXCEPT !.print_state = "printing"])
    <2> DEFINE u == [t EXCEPT !.print_state = "printing"]
    <2>0. t \in State BY <1>4 DEF Safe
    <2>1. u \in State BY <2>0, ZenonT(30) DEF State, PrintStates
    <2>2. u.print_state = "printing" /\ u.off_timer = t.off_timer
      BY <2>0, ZenonT(30) DEF State
    <2> QED BY <1>4, <2>1, <2>2 DEF Safe, TempKnown, TimerOff, IsMmuPaused
  <1> HIDE DEF started
  <1>5. Safe(started)
    BY <1>1, <1>2 DEF Safe, TempKnown, TimerOff, IsMmuPaused
  <1> QED BY <1>2, <1>3, <1>4, <1>5 DEF OnPrintStart, started

LEMMA PrintStartCommandSafe == ASSUME NEW s, Safe(s) PROVE Safe(PrintStartCommand(s))
  BY OnPrintStartSafe DEF PrintStartCommand

LEMMA FixStartedStateSafe == ASSUME NEW s, Safe(s) PROVE Safe(FixStartedState(s))
  BY PrintStartCommandSafe DEF FixStartedState

(* A queue of at most one callback. *)
LEMMA OneCallback ==
  /\ <<>> \in Seq(Callbacks)
  /\ \A c \in Callbacks : <<c>> \in Seq(Callbacks)
  OBVIOUS

Events == {"printing", "ready", "idle"}

LEMMA IdleTimeoutEventSafe ==
  ASSUME NEW s, Safe(s), NEW event \in Events
  PROVE  Safe(HandleIdleTimeoutEvent(s, event))
  <1> DEFINE c1 == IF StartDetected(s, event) THEN <<"print_start">> ELSE <<>>
             c2 == IF EndDetected(s, event)
                   THEN << IF s.stats = "error" THEN "end_error" ELSE "end_complete" >>
                   ELSE <<>>
             c3 == IF s.enabled /\ event = "idle" /\ s.print_state # "standby"
                   THEN <<"standby">> ELSE <<>>
             commands == c1 \o c2 \o c3
             seen == IF StatsChanged(s)
                     THEN [s EXCEPT !.last_stats = s.stats, !.new_job = FALSE] ELSE s
             started == IF StartDetected(s, event) THEN OnPrintStart(seen, TRUE) ELSE seen
  <1>0. {"print_start", "end_complete", "end_error", "standby"} \subseteq Callbacks
    BY DEF Callbacks
  <1>1. c1 \in Seq(Callbacks) BY <1>0, OneCallback, Zenon
  <1>2. c2 \in Seq(Callbacks) BY <1>0, OneCallback, Zenon
  <1>3. c3 \in Seq(Callbacks) BY <1>0, OneCallback, Zenon
  <1>4. commands \in Seq(Callbacks) BY <1>1, <1>2, <1>3
  <1>5. Safe([s EXCEPT !.last_stats = s.stats, !.new_job = FALSE])
    BY ZenonT(30) DEF Safe, State, TempKnown, TimerOff, IsMmuPaused, IsPrinting
  <1>6. Safe(started) BY <1>5, OnPrintStartSafe
  <1>7. started.pending \in Seq(Callbacks) BY <1>6, ZenonT(30) DEF Safe, State
  <1> HIDE DEF commands, started
  <1>8. started.pending \o commands \in Seq(Callbacks) BY <1>4, <1>7
  <1>9. Safe([started EXCEPT !.pending = started.pending \o commands])
    BY <1>6, <1>8, PendingSafe
  <1> QED BY <1>9 DEF commands, started, HandleIdleTimeoutEvent

LEMMA ToolheadMoveSafe == ASSUME NEW s, Safe(s) PROVE Safe(ToolheadMove(s))
  <1>1. Safe([s EXCEPT !.idle = "Printing"])
    BY ZenonT(30) DEF Safe, State, TempKnown, TimerOff, IsMmuPaused, IsPrinting
  <1> QED BY <1>1, IdleTimeoutEventSafe DEF ToolheadMove, Events

-----------------------------------------------------------------------------
(* Parking, print end, errors, unlock, resume. *)

EndsUsed == {"complete", "cancelled", "error", "standby"}

LEMMA OnPrintEndSafe ==
  ASSUME NEW s, Safe(s), NEW end \in EndsUsed PROVE Safe(OnPrintEnd(s, end))
  <1>1. ASSUME NEW t \in Temps
        PROVE  Safe([s EXCEPT !.saved_op = "", !.resume_to = "ready", !.paused_temp = "none",
                              !.target = t, !.off_timer = FALSE, !.monitoring = FALSE,
                              !.timeout = "default", !.print_state = end])
    <2> DEFINE u == [s EXCEPT !.saved_op = "", !.resume_to = "ready", !.paused_temp = "none",
                              !.target = t, !.off_timer = FALSE, !.monitoring = FALSE,
                              !.timeout = "default", !.print_state = end]
    <2> DEFINE v == [s EXCEPT !.saved_op = "", !.resume_to = "ready",
                              !.paused_temp = "none", !.target = t]
    <2>a. v \in State BY <1>1, ZenonT(30) DEF Safe, State
    <2>b. u = [v EXCEPT !.off_timer = FALSE, !.monitoring = FALSE,
                        !.timeout = "default", !.print_state = end]
      BY ZenonT(30) DEF Safe, State
    <2> HIDE DEF u, v
    <2>1. u \in State BY <2>a, <2>b, ZenonT(30) DEF State, PrintStates, EndsUsed
    <2>2. u.print_state = end /\ u.off_timer = FALSE
      BY <2>a, <2>b, ZenonT(30) DEF State
    <2>3. Safe(u)
      BY <2>1, <2>2, ZenonT(30) DEF Safe, TempKnown, TimerOff, IsMmuPaused, EndsUsed
    <2> QED BY <2>3 DEF u
  <1>2. (IF IsMmuPaused(s) /\ end # "standby" THEN "off" ELSE s.target) \in Temps
    BY ZenonT(30) DEF Safe, State, Temps
  <1>3. ASSUME NEW t, Safe(t) PROVE Safe([t EXCEPT !.print_state = "standby"])
    <2> DEFINE u == [t EXCEPT !.print_state = "standby"]
    <2>1. t \in State BY <1>3 DEF Safe
    <2>2. u \in State /\ u.print_state = "standby"
      BY <2>1, ZenonT(30) DEF State, PrintStates
    <2> QED BY <2>2 DEF Safe, TempKnown, TimerOff, IsMmuPaused, IsPrinting
  <1> QED BY <1>1, <1>2, <1>3 DEF OnPrintEnd

LEMMA WakeupSafe == ASSUME NEW s, Safe(s) PROVE Safe(Wakeup(s))
  <1>1. Safe([s EXCEPT !.print_state = "idle"])
    BY ZenonT(30) DEF Safe, State, PrintStates, TempKnown, TimerOff, IsMmuPaused, IsPrinting
  <1> QED BY <1>1 DEF Wakeup

SavedOps == {"", "pause", "cancel", "complete", "change", "runout"}

LEMMA SaveAndParkSafe ==
  ASSUME NEW s, Safe(s), NEW o \in SavedOps, NEW homed \in BOOLEAN
  PROVE  Safe(SaveAndPark(s, o, homed))
  <1>1. Safe([s EXCEPT !.saved_op = o])
    BY ZenonT(30) DEF Safe, State, TempKnown, TimerOff, IsMmuPaused, IsPrinting, SavedOps
  <1> QED BY <1>1, ToolheadMoveSafe DEF SaveAndPark

LEMMA RestorePositionSafe ==
  ASSUME NEW s, Safe(s), NEW o PROVE Safe(RestorePosition(s, o))
  <1>1. Safe([s EXCEPT !.saved_op = ""])
    BY ZenonT(30) DEF Safe, State, TempKnown, TimerOff, IsMmuPaused, IsPrinting
  <1> QED BY <1>1 DEF RestorePosition

LEMMA PrintEndCommandSafe ==
  ASSUME NEW s, Safe(s), NEW end \in EndsUsed, NEW idle \in BOOLEAN, NEW homed \in BOOLEAN
  PROVE  Safe(PrintEndCommand(s, end, idle, homed))
  <1>1. Safe(SaveAndPark(s, "complete", homed)) BY SaveAndParkSafe DEF SavedOps
  <1> QED BY <1>1, OnPrintEndSafe DEF PrintEndCommand

LEMMA EnsureTemperatureSafe == ASSUME NEW s, Safe(s) PROVE Safe(EnsureTemperature(s))
  <1>1. Safe([s EXCEPT !.target = "print"])
    BY ZenonT(30) DEF Safe, State, Temps, TempKnown, TimerOff, IsMmuPaused, IsPrinting
  <1> QED BY <1>1 DEF EnsureTemperature

LEMMA EnsurePauseTemperatureSafe ==
  ASSUME NEW s, Safe(s)
  PROVE  /\ Safe(EnsurePauseTemperature(s))
         /\ EnsurePauseTemperature(s).paused_temp = s.paused_temp
         /\ EnsurePauseTemperature(s).off_timer = s.off_timer
  <1> DEFINE t == [s EXCEPT !.target = "print"]
  <1>1. Safe(t)
    BY ZenonT(30) DEF Safe, State, Temps, TempKnown, TimerOff, IsMmuPaused, IsPrinting
  <1>2. t.paused_temp = s.paused_temp /\ t.off_timer = s.off_timer
    BY ZenonT(30) DEF Safe, State
  <1> QED BY <1>1, <1>2 DEF EnsurePauseTemperature

LEMMA PauseCommandSafe == ASSUME NEW s, Safe(s) PROVE Safe(PauseCommand(s))
  <1>1. Safe(SaveAndPark(FixStartedState(s), "pause", TRUE))
    BY FixStartedStateSafe, SaveAndParkSafe DEF SavedOps
  <1> QED BY <1>1, BasePauseSafe DEF PauseCommand

(* What fix_started_state is for: a running job is in print.               *)
LEMMA FixStartedStateInPrint ==
  ASSUME NEW s, Safe(s), FixStartedState(s).stats = "printing"
  PROVE  IsInPrint(FixStartedState(s))
  <1>1. ASSUME NEW t, t \in State
        PROVE  [t EXCEPT !.print_state = "printing"].print_state = "printing"
    BY <1>1, ZenonT(30) DEF State
  <1>2. (IF IsPrinting(s) THEN s
         ELSE [s EXCEPT !.saved_op = "", !.paused_temp = "none",
                        !.off_timer = FALSE, !.monitoring = TRUE,
                        !.print_state = "started"]) = OnPrintStart(s, TRUE)
    BY DEF OnPrintStart
  <1>3. OnPrintStart(s, TRUE) \in State BY OnPrintStartSafe DEF Safe
  <1>4. OnPrintStart(s, FALSE) = [OnPrintStart(s, TRUE) EXCEPT !.print_state = "printing"]
    BY <1>2 DEF OnPrintStart
  <1>5. OnPrintStart(s, FALSE).print_state = "printing" BY <1>1, <1>3, <1>4
  <1> QED BY <1>5 DEF FixStartedState, PrintStartCommand, IsInPrint

(* Parking reports no job start when the running job is already known: it  *)
(* leaves the state and the pause context as they are.                     *)
LEMMA ParkKeepsContext ==
  ASSUME NEW s \in State, s.stats = "printing" => IsPrinting(s)
  PROVE  LET t == SaveAndPark(s, "pause", TRUE)
         IN  t \in State /\ t.print_state = s.print_state /\ t.paused_temp = s.paused_temp
  <1> DEFINE saved == [s EXCEPT !.saved_op = "pause"]
             moved == [saved EXCEPT !.idle = "Printing"]
             seen  == [moved EXCEPT !.last_stats = moved.stats, !.new_job = FALSE]
             Kept(t) == t \in State /\ t.print_state = s.print_state
                          /\ t.paused_temp = s.paused_temp
  <1>1. Kept(saved) /\ saved.stats = s.stats BY ZenonT(30) DEF State
  <1>2. Kept(moved) /\ moved.stats = s.stats BY <1>1, ZenonT(30) DEF State
  <1>3. Kept(seen)
    <2> HIDE DEF moved
    <2> QED BY <1>2, ZenonT(30) DEF State
  <1>4. ~StartDetected(moved, "printing")
    BY <1>2 DEF StartDetected, IsPrinting
  <1>5. ~EndDetected(moved, "printing") BY DEF EndDetected
  <1>6. ASSUME NEW t, Kept(t) PROVE Kept([t EXCEPT !.pending = t.pending \o <<>>])
    <2>1. t.pending \in Seq(Callbacks) BY <1>6, ZenonT(30) DEF State
    <2>2. t.pending \o <<>> \in Seq(Callbacks) BY <2>1
    <2>3. ASSUME NEW q \in Seq(Callbacks) PROVE Kept([t EXCEPT !.pending = q])
      BY <1>6, ZenonT(30) DEF State
    <2> QED BY <2>2, <2>3
  <1>7. HandleIdleTimeoutEvent(moved, "printing")
          = LET u == IF StatsChanged(moved) THEN seen ELSE moved
            IN  [u EXCEPT !.pending = u.pending \o (<<>> \o <<>> \o <<>>)]
    BY <1>4, <1>5 DEF HandleIdleTimeoutEvent
  <1>8. <<>> \o <<>> \o <<>> = <<>> OBVIOUS
  <1>9. Kept(HandleIdleTimeoutEvent(moved, "printing"))
    <2> DEFINE u == IF StatsChanged(moved) THEN seen ELSE moved
    <2>1. Kept(u) BY <1>2, <1>3, Zenon
    <2> HIDE DEF u, Kept
    <2>2. Kept([u EXCEPT !.pending = u.pending \o <<>>]) BY <2>1, <1>6
    <2> QED BY <2>2, <1>7, <1>8 DEF u
  <1> QED BY <1>1, <1>9 DEF SaveAndPark, ToolheadMove

(* An error pauses the print with the temperature and the timer of the     *)
(* pause set, whatever parking reports on the way.                         *)
LEMMA EnterPauseSafe ==
  ASSUME NEW s, Safe(s), s.stats = "printing" => IsPrinting(s), NEW found \in Positions
  PROVE  Safe(EnterPause(s, found))
  <1> DEFINE resume == IF IsInPrint(s) THEN "printing" ELSE "ready"
             saved  == [s EXCEPT !.monitoring = FALSE, !.resume_to = resume,
                                 !.paused_temp = s.target, !.off_timer = TRUE,
                                 !.timeout = "pause"]
             parked == SaveAndPark(saved, "pause", TRUE)
             locked == [parked EXCEPT !.print_state = "pause_locked"]
             paused == IF s.is_paused THEN locked ELSE SendPause(PauseCommand(locked))
  <1>1. /\ saved \in State /\ saved.paused_temp = s.target
        /\ saved.stats = s.stats /\ saved.print_state = s.print_state
    BY ZenonT(30) DEF Safe, State
  <1>2. saved.stats = "printing" => IsPrinting(saved) BY <1>1 DEF IsPrinting
  <1>3. parked \in State /\ parked.paused_temp = s.target
    <2> HIDE DEF saved
    <2> QED BY <1>1, <1>2, ParkKeepsContext
  <1>4. s.target # "none"
    <2>1. s.target \in Temps BY ZenonT(30) DEF Safe, State
    <2> QED BY <2>1 DEF Temps
  <1>5. Safe(locked)
    <2> HIDE DEF parked
    <2>1. locked \in State BY <1>3, ZenonT(30) DEF State, PrintStates
    <2>2. locked.print_state = "pause_locked" /\ locked.paused_temp = s.target
      BY <1>3, ZenonT(30) DEF State
    <2> QED BY <1>4, <2>1, <2>2, ZenonT(30) DEF Safe, TempKnown, TimerOff, IsPrinting
  <1>6. Safe(paused) BY <1>5, PauseCommandSafe, SendPauseSafe
  <1>7. ASSUME NEW t, Safe(t) PROVE Safe([t EXCEPT !.filament = found])
    BY <1>7, ZenonT(30) DEF Safe, State, TempKnown, TimerOff, IsMmuPaused, IsPrinting
  <1> QED BY <1>6, <1>7 DEF EnterPause

LEMMA HandleMmuErrorSafe ==
  ASSUME NEW s, Safe(s), NEW force \in BOOLEAN, NEW found \in Positions
  PROVE  Safe(HandleMmuError(s, force, found))
  <1> DEFINE f == FixStartedState(s)
  <1>1. Safe(f) BY FixStartedStateSafe
  <1>2. f.stats = "printing" => IsInPrint(f) BY FixStartedStateInPrint
  <1>3. CASE IsMmuPaused(f)
    <2>1. ASSUME NEW t, Safe(t) PROVE Safe([t EXCEPT !.filament = found])
      BY <2>1, ZenonT(30) DEF Safe, State, TempKnown, TimerOff, IsMmuPaused, IsPrinting
    <2> QED BY <1>1, <1>3, <2>1 DEF HandleMmuError
  <1>4. CASE ~IsMmuPaused(f)
    <2> HIDE DEF f
    <2>1. f.stats = "printing" => IsPrinting(f)
      BY <1>2, <1>4 DEF IsInPrint, IsPrinting
    <2>2. Safe(EnterPause(f, found)) BY <1>1, <2>1, EnterPauseSafe
    <2>3. Safe(IF f.saved_op = "" THEN f ELSE RestorePosition(f, f.saved_op))
      BY <1>1, RestorePositionSafe
    <2> QED BY <1>4, <2>2, <2>3 DEF f, HandleMmuError
  <1> QED BY <1>3, <1>4

LEMMA MmuUnlockSafe ==
  ASSUME NEW s, Safe(s), IsMmuPaused(s)
  PROVE  Safe(MmuUnlock(s)) /\ MmuUnlock(s).print_state = "paused"
  <1> DEFINE t == EnsurePauseTemperature(s)
             u == [t EXCEPT !.timeout = "default", !.off_timer = FALSE, !.print_state = "paused"]
  <1>1. t \in State /\ t.paused_temp # "none"
    BY EnsurePauseTemperatureSafe DEF Safe, TempKnown
  <1> HIDE DEF t
  <1>2. u \in State BY <1>1, ZenonT(30) DEF State, PrintStates
  <1>3. u.print_state = "paused" /\ u.paused_temp = t.paused_temp /\ ~u.off_timer
    BY <1>1, ZenonT(30) DEF State
  <1> QED BY <1>1, <1>2, <1>3 DEF t, MmuUnlock, Safe, TempKnown, TimerOff

(* On "resume" the timer must be off already: RESUME unlocks first.        *)
LEMMA ContinueAfterSafe ==
  ASSUME NEW s, Safe(s), NEW o, o = "resume" => s.print_state # "pause_locked"
  PROVE  Safe(ContinueAfter(s, o))
  <1> DEFINE t == EnsurePauseTemperature(s)
             u == [t EXCEPT !.paused_temp = "none", !.monitoring = TRUE,
                            !.print_state = s.resume_to, !.resume_to = "ready"]
  <1>1. CASE IsMmuPaused(s) /\ o = "resume"
    <2>1. ~s.off_timer BY <1>1 DEF Safe, TimerOff, IsMmuPaused
    <2>2. t \in State /\ ~t.off_timer BY <2>1, EnsurePauseTemperatureSafe DEF Safe
    <2>3. s.resume_to \in {"ready", "printing"} BY ZenonT(30) DEF Safe, State
    <2> HIDE DEF t
    <2>4. u \in State BY <2>2, <2>3, ZenonT(30) DEF State, PrintStates
    <2>5. u.print_state = s.resume_to /\ ~u.off_timer BY <2>2, ZenonT(30) DEF State
    <2>6. Safe(u)
      BY <2>3, <2>4, <2>5, ZenonT(30) DEF Safe, TempKnown, TimerOff, IsMmuPaused
    <2> QED BY <1>1, <2>6, RestorePositionSafe DEF t, ContinueAfter
  <1>2. CASE ~(IsMmuPaused(s) /\ o = "resume")
    BY <1>2, RestorePositionSafe DEF ContinueAfter
  <1> QED BY <1>1, <1>2

LEMMA ReinitSafe == ASSUME NEW s, Safe(s) PROVE Safe(Reinit(s))
  <1> DEFINE t == [s EXCEPT !.enabled = TRUE, !.monitoring = FALSE, !.saved_op = "",
                            !.filament = "between", !.last_stats = "none"]
  <1>a. t \in State BY ZenonT(30) DEF Safe, State, Positions
  <1>b. Reinit(s) = [t EXCEPT !.new_job = FALSE, !.paused_temp = "none",
                              !.print_state = "ready", !.resume_to = "ready"]
    BY ZenonT(30) DEF Safe, State, Reinit
  <1> HIDE DEF t
  <1>1. Reinit(s) \in State BY <1>a, <1>b, ZenonT(30) DEF State, PrintStates
  <1>2. Reinit(s).print_state = "ready" BY ZenonT(30) DEF Safe, State, Reinit
  <1> QED BY <1>1, <1>2, ZenonT(30) DEF Safe, TempKnown, TimerOff, IsMmuPaused, IsPrinting

LEMMA DisableMmuSafe == ASSUME NEW s, Safe(s) PROVE Safe(DisableMmu(s))
  <1>1. DisableMmu(s) \in State BY ZenonT(30) DEF Safe, State, PrintStates, DisableMmu
  <1>2. DisableMmu(s).print_state = "standby" BY ZenonT(30) DEF Safe, State, DisableMmu
  <1> QED BY <1>1, <1>2, ZenonT(30) DEF Safe, TempKnown, TimerOff, IsMmuPaused, IsPrinting

LEMMA BootupSafe ==
  ASSUME NEW s, Safe(s), NEW found \in Positions PROVE Safe(Bootup(s, found))
  <1>1. Bootup(s, found) \in State BY ZenonT(30) DEF Safe, State, PrintStates, Bootup
  <1>2. Bootup(s, found).print_state = "initialized" BY ZenonT(30) DEF Safe, State, Bootup
  <1> QED BY <1>1, <1>2, ZenonT(30) DEF Safe, TempKnown, TimerOff, IsMmuPaused, IsPrinting

-----------------------------------------------------------------------------
(* The actions. *)

IInv == Safe(m) /\ op \in Ops

LEMMA InitIInv == Init => IInv
  <1> SUFFICES ASSUME Init PROVE IInv
    OBVIOUS
  <1>1. <<>> \in Seq(Callbacks) OBVIOUS
  <1>2. m \in State
    BY <1>1, ZenonT(60) DEF Init, State, PrintStates, Temps, JobStates, Positions
  <1>3. m.print_state = "initialized" /\ m.off_timer = FALSE
    BY ZenonT(60) DEF Init
  <1>4. op \in Ops BY DEF Init, Idle, Ops
  <1> QED
    BY <1>2, <1>3, <1>4 DEF IInv, Safe, TempKnown, TimerOff, IsMmuPaused

(* Klipper's own steps. *)
LEMMA KlipperStep ==
  ASSUME IInv,
         \/ UserPrints \/ SdStops \/ JobEnds
         \/ ToolheadMoves \/ ToolheadDrains \/ IdleTimesOut \/ SetTemperature
  PROVE  IInv'
  <1> USE DEF IInv
  <1>1. CASE UserPrints
    <2>1. Safe([m EXCEPT !.stats = "printing", !.new_job = TRUE])
      BY ZenonT(30) DEF Safe, State, JobStates, TempKnown, TimerOff, IsMmuPaused, IsPrinting
    <2> QED BY <1>1, <2>1 DEF UserPrints
  <1>2. CASE SdStops
    <2>1. ASSUME NEW j \in JobStates PROVE Safe([m EXCEPT !.stopping = FALSE, !.stats = j])
      BY ZenonT(30) DEF Safe, State, TempKnown, TimerOff, IsMmuPaused, IsPrinting
    <2>2. (IF m.stats = "printing" THEN "paused" ELSE m.stats) \in JobStates
      BY ZenonT(30) DEF Safe, State, JobStates
    <2> QED BY <1>2, <2>1, <2>2 DEF SdStops
  <1>3. CASE JobEnds
    <2>1. ASSUME NEW j \in JobStates PROVE Safe([m EXCEPT !.stats = j, !.stopping = FALSE])
      BY ZenonT(30) DEF Safe, State, TempKnown, TimerOff, IsMmuPaused, IsPrinting
    <2> QED BY <1>3, <2>1 DEF JobEnds, JobStates
  <1>4. CASE ToolheadMoves
    BY <1>4, ToolheadMoveSafe DEF ToolheadMoves, Becomes
  <1>5. CASE ToolheadDrains
    <2>1. Safe([m EXCEPT !.idle = "Ready"])
      BY ZenonT(30) DEF Safe, State, TempKnown, TimerOff, IsMmuPaused, IsPrinting
    <2> QED BY <1>5, <2>1, IdleTimeoutEventSafe DEF ToolheadDrains, Becomes, Events
  <1>6. CASE IdleTimesOut
    <2>1. Safe([m EXCEPT !.idle = "Idle", !.target = "off"])
      BY ZenonT(30) DEF Safe, State, Temps, TempKnown, TimerOff, IsMmuPaused, IsPrinting
    <2> QED BY <1>6, <2>1, IdleTimeoutEventSafe DEF IdleTimesOut, Becomes, Events
  <1>7. CASE SetTemperature
    <2>1. ASSUME NEW t \in Temps PROVE Safe([m EXCEPT !.target = t])
      BY ZenonT(30) DEF Safe, State, TempKnown, TimerOff, IsMmuPaused, IsPrinting
    <2> QED BY <1>7, <2>1 DEF SetTemperature
  <1> QED BY <1>1, <1>2, <1>3, <1>4, <1>5, <1>6, <1>7

(* RESUME unlocks a locked MMU before it continues.                        *)
LEMMA ResumeStep == ASSUME IInv, ResumePrint PROVE IInv'
  <1> USE DEF IInv
  <1> DEFINE unlocked == IF m.print_state = "pause_locked" THEN MmuUnlock(m) ELSE m
  <1>1. Safe(unlocked) /\ unlocked.print_state # "pause_locked"
    BY MmuUnlockSafe DEF IsMmuPaused
  <1>2. ASSUME NEW t, Safe(t)
        PROVE  /\ Safe([t EXCEPT !.filament = "settled"])
               /\ [t EXCEPT !.filament = "settled"].print_state = t.print_state
    <2> DEFINE u == [t EXCEPT !.filament = "settled"]
    <2>0. t \in State BY <1>2 DEF Safe
    <2>1. u \in State BY <2>0, ZenonT(30) DEF State, Positions
    <2>2. /\ u.print_state = t.print_state /\ u.paused_temp = t.paused_temp
          /\ u.off_timer = t.off_timer
      BY <2>0, ZenonT(30) DEF State
    <2> HIDE DEF u
    <2>3. Safe(u) BY <1>2, <2>1, <2>2, SafeKept
    <2> QED BY <2>2, <2>3 DEF u
  <1>3. ASSUME NEW t, Safe(t) PROVE BaseResume(t).print_state = t.print_state
    <2> DEFINE j == IF t.stats = "paused" THEN "printing" ELSE t.stats
               u == [t EXCEPT !.pause_sent = FALSE, !.stats = j]
    <2>1. j \in JobStates BY <1>3, ZenonT(30) DEF Safe, State, JobStates
    <2> HIDE DEF j
    <2>2. u \in State /\ u.print_state = t.print_state
      BY <1>3, <2>1, ZenonT(30) DEF Safe, State
    <2> HIDE DEF u
    <2>3. [u EXCEPT !.is_paused = FALSE].print_state = u.print_state
      BY <2>2, ZenonT(30) DEF State
    <2> QED BY <2>2, <2>3 DEF u, j, BaseResume, SendResume
  <1> HIDE DEF unlocked
  <1>4. ASSUME NEW toolheadSensor \in BOOLEAN, NEW found \in Positions
        PROVE  LET sensed == IF toolheadSensor
                             THEN [unlocked EXCEPT !.filament = "settled"] ELSE unlocked
               IN  /\ Safe(HandleMmuError(sensed, FALSE, found))
                   /\ Safe(ContinueAfter(BaseResume(sensed), "resume"))
    <2> DEFINE sensed == IF toolheadSensor
                         THEN [unlocked EXCEPT !.filament = "settled"] ELSE unlocked
    <2>1. Safe(sensed) /\ sensed.print_state # "pause_locked" BY <1>1, <1>2
    <2> HIDE DEF sensed
    <2>2. Safe(BaseResume(sensed)) /\ BaseResume(sensed).print_state # "pause_locked"
      BY <2>1, <1>3, BaseResumeSafe
    <2>3. Safe(ContinueAfter(BaseResume(sensed), "resume")) BY <2>2, ContinueAfterSafe
    <2>4. Safe(HandleMmuError(sensed, FALSE, found)) BY <2>1, HandleMmuErrorSafe
    <2> QED BY <2>3, <2>4 DEF sensed
  <1>5. Safe(BaseResume(m)) BY BaseResumeSafe
  <1> QED BY <1>4, <1>5 DEF unlocked, ResumePrint, Command, Becomes

(* The user's and the slicer's other job commands.                         *)
LEMMA CommandStep ==
  ASSUME IInv,
         SlicerPrintStart \/ SlicerPrintEnd \/ PausePrint \/ CancelPrint \/ ClearPause
  PROVE  IInv'
  <1> USE DEF IInv, Command, Becomes
  <1>1. CASE SlicerPrintStart BY <1>1, PrintStartCommandSafe DEF SlicerPrintStart
  <1>2. CASE SlicerPrintEnd BY <1>2, PrintEndCommandSafe DEF SlicerPrintEnd, EndsUsed
  <1>3. CASE PausePrint BY <1>3, PauseCommandSafe DEF PausePrint
  <1>4. CASE CancelPrint
    <2>1. ASSUME NEW homed \in BOOLEAN
          PROVE  Safe(OnPrintEnd(BaseCancel(SaveAndPark(FixStartedState(m), "cancel", homed)),
                                 "cancelled"))
      BY FixStartedStateSafe, SaveAndParkSafe, BaseCancelSafe, OnPrintEndSafe
      DEF SavedOps, EndsUsed
    <2> QED BY <1>4, <2>1, BaseCancelSafe DEF CancelPrint
  <1>5. CASE ClearPause
    <2>1. Safe([m EXCEPT !.saved_op = ""])
      BY ZenonT(30) DEF Safe, State, TempKnown, TimerOff, IsMmuPaused, IsPrinting
    <2> QED BY <1>5, <2>1, BaseClearSafe DEF ClearPause
  <1> QED BY <1>1, <1>2, <1>3, <1>4, <1>5

(* What a handled runout makes of the events still queued.                 *)
LEMMA MarkHandledType ==
  ASSUME NEW q \in Seq(Callbacks) PROVE MarkHandled(q) \in Seq(Callbacks)
  <1>1. \A i \in DOMAIN q : q[i] \in Callbacks OBVIOUS
  <1>2. \A i \in DOMAIN q :
          (IF q[i] = "runout" THEN "runout_dup" ELSE q[i]) \in Callbacks
    BY <1>1, Zenon DEF Callbacks, Runouts
  <1>3. DOMAIN q = 1..Len(q) /\ Len(q) \in Nat OBVIOUS
  <1> QED BY <1>2, <1>3, SMT DEF MarkHandled

(* The MMU's own commands.                                                 *)
LEMMA MmuStep ==
  ASSUME IInv,
         MmuPause \/ MmuUnlockCommand \/ MmuRecover \/ ReinitMmu \/ MmuDisable
  PROVE  IInv'
  <1> USE DEF IInv, Command, Becomes
  <1>1. CASE MmuPause
    <2>1. AllowForce \in BOOLEAN BY PrintJobAssumption
    <2>2. ASSUME NEW force \in {FALSE, AllowForce}, NEW found \in Positions
          PROVE  Safe(HandleMmuError(Wakeup(m), force, found))
      BY <2>1, WakeupSafe, HandleMmuErrorSafe
    <2> QED BY <1>1, <2>2 DEF MmuPause
  <1>2. CASE MmuUnlockCommand
    BY <1>2, MmuUnlockSafe, WakeupSafe DEF MmuUnlockCommand, IsMmuPaused
  <1>3. CASE MmuRecover
    <2>1. ASSUME NEW t, Safe(t), NEW found \in Positions
          PROVE  Safe([t EXCEPT !.filament = found])
      BY <2>1, ZenonT(30) DEF Safe, State, TempKnown, TimerOff, IsMmuPaused, IsPrinting
    <2> QED BY <1>3, <2>1, WakeupSafe DEF MmuRecover
  <1>4. CASE ReinitMmu
    <2> DEFINE t == Reinit(Wakeup(m))
    <2>1. Safe(t) BY WakeupSafe, ReinitSafe
    <2> HIDE DEF t
    <2>2. t.pending \in Seq(Callbacks) BY <2>1, ZenonT(30) DEF Safe, State
    <2>3. "bootup" \in Callbacks BY DEF Callbacks
    <2>4. Append(MarkHandled(t.pending), "bootup") \in Seq(Callbacks)
      BY <2>2, <2>3, MarkHandledType
    <2>5. Safe([t EXCEPT !.pending = Append(MarkHandled(t.pending), "bootup")])
      BY <2>1, <2>4, PendingSafe
    <2> QED BY <1>4, <2>5 DEF t, ReinitMmu
  <1>5. CASE MmuDisable BY <1>5, DisableMmuSafe DEF MmuDisable
  <1> QED BY <1>1, <1>2, <1>3, <1>4, <1>5

(* Monitoring is no part of the safe state.                                *)
LEMMA MonitoringSafe ==
  ASSUME NEW s, Safe(s), NEW b \in BOOLEAN PROVE Safe([s EXCEPT !.monitoring = b])
  BY ZenonT(30) DEF Safe, State, TempKnown, TimerOff, IsMmuPaused, IsPrinting

LEMMA ResumeMonitoringSafe ==
  ASSUME NEW s, Safe(s), op \in Ops PROVE Safe(ResumeMonitoring(s))
  <1>1. op.monitored \in BOOLEAN /\ s.monitoring \in BOOLEAN
    BY ZenonT(30) DEF Ops, Safe, State
  <1>2. (op.monitored \/ s.monitoring) \in BOOLEAN BY <1>1
  <1> QED BY <1>2, MonitoringSafe DEF ResumeMonitoring

(* Filament operations, and the timer that may fire in them.               *)
LEMMA OperationStep ==
  ASSUME IInv,
         \/ BeginOperation \/ NothingToDo \/ OperationHeats \/ MacroCallsPause
         \/ OperationSucceeds \/ OperationFails \/ HotendOffTimer
  PROVE  IInv'
  <1> USE DEF IInv, Command, Becomes
  <1>1. Idle \in Ops BY DEF Idle, Ops
  <1>2. CASE BeginOperation
    <2> DEFINE f == FixStartedState(Wakeup(m))
    <2>1. Safe(f) BY WakeupSafe, FixStartedStateSafe
    <2> HIDE DEF f
    <2>2. f.monitoring \in BOOLEAN BY <2>1, ZenonT(30) DEF Safe, State
    <2>3. [kind |-> "change", monitored |-> f.monitoring] \in Ops
      BY <2>2 DEF Ops, Operations
    <2>4. Safe(SaveAndPark([f EXCEPT !.monitoring = FALSE], "change", TRUE))
      BY <2>1, MonitoringSafe, SaveAndParkSafe DEF SavedOps
    <2> QED BY <1>2, <2>3, <2>4 DEF f, BeginOperation
  <1>3. CASE NothingToDo BY <1>3, WakeupSafe, FixStartedStateSafe DEF NothingToDo
  <1>4. CASE OperationHeats BY <1>4, EnsureTemperatureSafe DEF OperationHeats
  <1>5. CASE MacroCallsPause BY <1>5, HandleMmuErrorSafe DEF MacroCallsPause
  <1>6. CASE OperationSucceeds
    <2> DEFINE moved == [m EXCEPT !.filament = "settled"]
               continued == ContinueAfter(moved, op.kind)
    <2>1. Safe(moved)
      BY ZenonT(30) DEF Safe, State, Positions, TempKnown, TimerOff, IsMmuPaused, IsPrinting
    <2>2. op.kind # "resume" BY <1>6 DEF OperationSucceeds
    <2>3. Safe(continued) BY <2>1, <2>2, ContinueAfterSafe
    <2>4. Safe(SendResume(continued)) BY <2>3, SendResumeSafe
    <2> HIDE DEF continued
    <2> QED BY <1>1, <1>6, <2>3, <2>4, ResumeMonitoringSafe DEF continued, OperationSucceeds
  <1>7. CASE OperationFails
    BY <1>1, <1>7, ResumeMonitoringSafe, HandleMmuErrorSafe DEF OperationFails
  <1>8. CASE HotendOffTimer
    <2>1. ASSUME NEW t \in Temps PROVE Safe([m EXCEPT !.off_timer = FALSE, !.target = t])
      BY ZenonT(30) DEF Safe, State, TempKnown, TimerOff, IsMmuPaused, IsPrinting
    <2>2. (IF IsPrinting(m) THEN m.target ELSE "off") \in Temps
      BY ZenonT(30) DEF Safe, State, Temps
    <2> QED BY <1>8, <2>1, <2>2 DEF HotendOffTimer
  <1> QED BY <1>2, <1>3, <1>4, <1>5, <1>6, <1>7, <1>8

LEMMA DequeuedSafe == ASSUME IInv, m.pending # <<>> PROVE Safe(Dequeued)
  <1>1. m.pending \in Seq(Callbacks) BY ZenonT(30) DEF IInv, Safe, State
  <1>2. Tail(m.pending) \in Seq(Callbacks) BY <1>1
  <1> QED BY <1>2, PendingSafe DEF IInv, Dequeued

(* Sensor callbacks, and the commands that leave the mutex's queue.        *)
LEMMA QueueStep ==
  ASSUME IInv, (\E kind \in {"runout", "clog"} : RaiseRunout(kind)) \/ RunQueued
  PROVE  IInv'
  <1> USE DEF IInv, Becomes
  <1>1. CASE \E kind \in {"runout", "clog"} : RaiseRunout(kind)
    <2>1. PICK kind \in {"runout", "clog"} : RaiseRunout(kind) BY <1>1
    <2> DEFINE t == SendPause(m)
    <2>2. Safe(t) BY SendPauseSafe
    <2> HIDE DEF t
    <2>3. t.pending \in Seq(Callbacks) BY <2>2, ZenonT(30) DEF Safe, State
    <2>4. kind \in Callbacks BY DEF Callbacks, Runouts
    <2>5. Append(t.pending, kind) \in Seq(Callbacks) BY <2>3, <2>4
    <2>6. Safe([t EXCEPT !.pending = Append(t.pending, kind)])
      BY <2>2, <2>5, PendingSafe
    <2> QED BY <2>1, <2>6 DEF t, RaiseRunout
  <1>2. CASE \E kind \in Runouts : IgnoreRunout(kind)
    BY <1>2, DequeuedSafe, FixStartedStateSafe, SendResumeSafe DEF IgnoreRunout, Deliver
  <1>3. CASE \E kind \in Runouts : HandleRunout(kind)
    <2>1. PICK kind \in Runouts : HandleRunout(kind) BY <1>3
    <2> DEFINE marked == [Dequeued EXCEPT !.pending = MarkHandled(Dequeued.pending)]
               f == FixStartedState(marked)
    <2>2. Safe(Dequeued) BY <2>1, DequeuedSafe DEF HandleRunout, Deliver
    <2>3. Dequeued.pending \in Seq(Callbacks) BY <2>2, ZenonT(30) DEF Safe, State
    <2>4. Safe(f) BY <2>2, <2>3, MarkHandledType, PendingSafe, FixStartedStateSafe
    <2> HIDE DEF f
    <2>5. f.monitoring \in BOOLEAN BY <2>4, ZenonT(30) DEF Safe, State
    <2>6. kind \in Operations BY <2>1 DEF HandleRunout, Runouts, Operations
    <2>7. [kind |-> kind, monitored |-> f.monitoring] \in Ops BY <2>5, <2>6 DEF Ops
    <2>8. Safe(SaveAndPark([f EXCEPT !.monitoring = FALSE], "runout", TRUE))
      BY <2>4, MonitoringSafe, SaveAndParkSafe DEF SavedOps
    <2> QED BY <2>1, <2>7, <2>8 DEF f, HandleRunout
  <1>4. CASE RunoutAtExtruder
    BY <1>4, DequeuedSafe, FixStartedStateSafe, HandleMmuErrorSafe
    DEF RunoutAtExtruder, Deliver
  <1>5. CASE RunCallback
    <2>1. Safe(Dequeued) BY <1>5, DequeuedSafe DEF RunCallback, Deliver
    <2>2. \A homed \in BOOLEAN :
             /\ Safe(PrintEndCommand(Dequeued, "complete", FALSE, homed))
             /\ Safe(PrintEndCommand(Dequeued, "error", FALSE, homed))
      BY <2>1, PrintEndCommandSafe DEF EndsUsed
    <2>3. Safe(PrintEndCommand(Dequeued, "standby", TRUE, TRUE))
      BY <2>1, PrintEndCommandSafe DEF EndsUsed
    <2>4. Safe(PrintStartCommand(Dequeued)) BY <2>1, PrintStartCommandSafe
    <2>5. \A found \in Positions : Safe(Bootup(Dequeued, found)) BY <2>1, BootupSafe
    <2> QED BY <1>5, <2>2, <2>3, <2>4, <2>5 DEF RunCallback
  <1> QED BY <1>1, <1>2, <1>3, <1>4, <1>5 DEF RunQueued

(* The invariant is inductive.                                             *)
LEMMA NextIInv == ASSUME IInv, [Next]_vars PROVE IInv'
  <1>1. CASE Next
    BY <1>1, KlipperStep, ResumeStep, CommandStep, MmuStep, OperationStep, QueueStep DEF Next
  <1>2. CASE UNCHANGED vars
    BY <1>2 DEF vars, IInv
  <1> QED BY <1>1, <1>2

LEMMA IInvInvariant == Spec => []IInv
  BY InitIInv, NextIInv, PTL DEF Spec

-----------------------------------------------------------------------------
(* What each handler changes: the facts the action properties rest on. *)

(* A queue of commands with a runout or clog event in it, or with the      *)
(* bootup task.                                                            *)
HasRunout(q) == \E i \in DOMAIN q : q[i] \in Runouts
HasBootup(q) == \E i \in DOMAIN q : q[i] = "bootup"

(* What a handler that maps s to t leaves as it is: the events it may not  *)
(* lose, the MMU job, the Klipper job, and the job as the driver last saw  *)
(* it.                                                                     *)
KeepsQueue(s, t) ==
    /\ HasRunout(s.pending) => HasRunout(t.pending)
    /\ HasBootup(t.pending) => HasBootup(s.pending)
KeepsJob(s, t) ==
    /\ t.print_state = s.print_state /\ t.resume_to = s.resume_to
    /\ t.paused_temp = s.paused_temp /\ t.monitoring = s.monitoring
    /\ t.off_timer = s.off_timer /\ t.timeout = s.timeout /\ t.enabled = s.enabled
    /\ t.target = s.target
KeepsKlipper(s, t) ==
    /\ t.stats = s.stats /\ t.stopping = s.stopping
    /\ t.is_paused = s.is_paused /\ t.pause_sent = s.pause_sent
KeepsSeen(s, t) ==
    /\ t.last_stats = s.last_stats /\ t.new_job = s.new_job /\ t.idle = s.idle

(* What each of the operations on pause_resume and the SD card changes.    *)
LEMMA SendPauseFacts == ASSUME NEW s \in State PROVE
  LET t == SendPause(s)
  IN  /\ KeepsJob(s, t) /\ KeepsSeen(s, t) /\ t.pending = s.pending
      /\ t.stats = s.stats /\ t.is_paused = s.is_paused
      /\ t.stopping => s.stopping \/ s.stats = "printing"
      /\ t.pause_sent
  BY ZenonT(30) DEF State, SendPause, KeepsJob, KeepsSeen

LEMMA BasePauseFacts == ASSUME NEW s \in State PROVE
  LET t == BasePause(s)
  IN  /\ KeepsJob(s, t) /\ KeepsSeen(s, t) /\ t.pending = s.pending
      /\ t.stats = s.stats /\ t.is_paused
      /\ t.stopping => s.stopping \/ s.stats = "printing"
  BY ZenonT(30) DEF State, SendPause, BasePause, KeepsJob, KeepsSeen

LEMMA SendResumeFacts == ASSUME NEW s \in State PROVE
  LET t == SendResume(s)
  IN  /\ KeepsJob(s, t) /\ KeepsSeen(s, t) /\ t.pending = s.pending
      /\ t.stats = (IF s.stats = "paused" THEN "printing" ELSE s.stats)
      /\ t.is_paused = s.is_paused /\ t.stopping = s.stopping /\ ~t.pause_sent
  BY ZenonT(30) DEF State, SendResume, KeepsJob, KeepsSeen

LEMMA BaseResumeFacts == ASSUME NEW s \in State PROVE
  LET t == BaseResume(s)
  IN  /\ KeepsJob(s, t) /\ KeepsSeen(s, t) /\ t.pending = s.pending
      /\ ~t.is_paused /\ t.stopping = s.stopping
      /\ t.stats = (IF s.is_paused /\ s.stats = "paused" THEN "printing" ELSE s.stats)
      /\ s.is_paused => ~t.pause_sent
  BY ZenonT(30) DEF State, SendResume, BaseResume, KeepsJob, KeepsSeen

LEMMA BaseClearFacts == ASSUME NEW s \in State PROVE
  LET t == BaseClear(s)
  IN  /\ KeepsJob(s, t) /\ KeepsSeen(s, t) /\ t.pending = s.pending
      /\ t.stats = s.stats /\ t.stopping = s.stopping
      /\ ~t.is_paused /\ ~t.pause_sent
  BY ZenonT(30) DEF State, BaseClear, KeepsJob, KeepsSeen

LEMMA BaseCancelFacts == ASSUME NEW s \in State PROVE
  LET t == BaseCancel(s)
  IN  /\ KeepsJob(s, t) /\ KeepsSeen(s, t) /\ t.pending = s.pending
      /\ t.stats = (IF s.stats \in {"printing", "paused"} THEN "cancelled" ELSE s.stats)
      /\ ~t.stopping /\ ~t.is_paused /\ ~t.pause_sent
  BY ZenonT(30) DEF State, BaseClear, BaseCancel, KeepsJob, KeepsSeen

(* on_print_start, and fix_started_state, which applies it to a running    *)
(* job that the driver takes for none.                                     *)
LEMMA OnPrintStartFacts == ASSUME NEW s \in State, NEW b \in BOOLEAN PROVE
  LET t == OnPrintStart(s, b)
  IN  /\ KeepsKlipper(s, t) /\ KeepsSeen(s, t) /\ t.pending = s.pending
      /\ t.resume_to = s.resume_to /\ t.timeout = s.timeout /\ t.enabled = s.enabled
      /\ t.target = s.target
      /\ IsPrinting(s) => t.monitoring = s.monitoring /\ t.off_timer = s.off_timer
      /\ ~IsPrinting(s) => t.monitoring /\ ~t.off_timer
      /\ b /\ ~IsPrinting(s) => t.print_state = "started"
      /\ ~b => t.print_state = "printing"
  BY ZenonT(30) DEF State, OnPrintStart, KeepsKlipper, KeepsSeen

LEMMA FixFacts == ASSUME NEW s \in State PROVE
  LET t == FixStartedState(s)
  IN  /\ KeepsKlipper(s, t) /\ KeepsSeen(s, t) /\ t.pending = s.pending
      /\ t.resume_to = s.resume_to /\ t.timeout = s.timeout /\ t.enabled = s.enabled
      /\ t.target = s.target
      /\ \/ t = s /\ (s.stats = "printing" => IsInPrint(s))
         \/ /\ t.print_state = "printing" /\ ~IsInPrint(s) /\ s.stats = "printing"
            /\ IsPrinting(s) => t.monitoring = s.monitoring /\ t.off_timer = s.off_timer
            /\ ~IsPrinting(s) => t.monitoring /\ ~t.off_timer
  BY OnPrintStartFacts, ZenonT(30) DEF FixStartedState, PrintStartCommand, KeepsKlipper, KeepsSeen

(* Queues: appending commands, marking the events handled, taking the      *)
(* head.                                                                   *)
LEMMA RunoutKept ==
  ASSUME NEW q \in Seq(Callbacks), NEW c \in Seq(Callbacks), HasRunout(q)
  PROVE  HasRunout(q \o c)
  <1>1. PICK i \in DOMAIN q : q[i] \in Runouts BY DEF HasRunout
  <1>2. i \in DOMAIN (q \o c) /\ (q \o c)[i] = q[i] BY <1>1, SMT
  <1> QED BY <1>1, <1>2 DEF HasRunout

LEMMA BootupKept ==
  ASSUME NEW q \in Seq(Callbacks), NEW c \in Seq(Callbacks), ~HasBootup(c), HasBootup(q \o c)
  PROVE  HasBootup(q)
  <1>1. PICK i \in DOMAIN (q \o c) : (q \o c)[i] = "bootup" BY DEF HasBootup
  <1>2. CASE i \in DOMAIN q
    <2>1. q[i] = "bootup" BY <1>1, <1>2, SMT
    <2> QED BY <1>2, <2>1 DEF HasBootup
  <1>3. CASE i \notin DOMAIN q
    <2>1. i - Len(q) \in DOMAIN c /\ c[i - Len(q)] = "bootup" BY <1>1, <1>3, SMT
    <2> QED BY <2>1 DEF HasBootup
  <1> QED BY <1>2, <1>3

LEMMA RunoutAppended ==
  ASSUME NEW q \in Seq(Callbacks), NEW c \in Callbacks
  PROVE  /\ HasRunout(q) => HasRunout(Append(q, c))
         /\ c \in Runouts => HasRunout(Append(q, c))
         /\ HasBootup(Append(q, c)) => HasBootup(q) \/ c = "bootup"
  <1>1. \A i \in DOMAIN q : i \in DOMAIN Append(q, c) /\ Append(q, c)[i] = q[i] BY SMT
  <1>2. Len(q) + 1 \in DOMAIN Append(q, c) /\ Append(q, c)[Len(q) + 1] = c BY SMT
  <1>3. HasBootup(Append(q, c)) => HasBootup(q) \/ c = "bootup"
    <2> SUFFICES ASSUME NEW i \in DOMAIN Append(q, c), Append(q, c)[i] = "bootup"
                 PROVE  HasBootup(q) \/ c = "bootup"
      BY DEF HasBootup
    <2>1. (i \in DOMAIN q /\ q[i] = "bootup") \/ c = "bootup" BY SMT
    <2> QED BY <2>1 DEF HasBootup
  <1> QED BY <1>1, <1>2, <1>3, Zenon DEF HasRunout

LEMMA RunoutsMarked ==
  ASSUME NEW q \in Seq(Callbacks)
  PROVE  /\ HasRunout(q) => HasRunout(MarkHandled(q))
         /\ HasBootup(MarkHandled(q)) => HasBootup(q)
  <1>1. DOMAIN MarkHandled(q) = DOMAIN q
        /\ \A i \in DOMAIN q : MarkHandled(q)[i] = IF q[i] = "runout" THEN "runout_dup" ELSE q[i]
    BY DEF MarkHandled
  <1>2. HasRunout(q) => HasRunout(MarkHandled(q)) BY <1>1, Zenon DEF HasRunout, Runouts
  <1>3. HasBootup(MarkHandled(q)) => HasBootup(q) BY <1>1, Zenon DEF HasBootup
  <1> QED BY <1>2, <1>3

LEMMA RunoutInTail ==
  ASSUME NEW q \in Seq(Callbacks), q # <<>>
  PROVE  /\ Head(q) \notin Runouts /\ HasRunout(q) => HasRunout(Tail(q))
         /\ HasBootup(Tail(q)) => HasBootup(q)
         /\ Head(q) = "bootup" => HasBootup(q)
  <1>1. ASSUME Head(q) \notin Runouts, HasRunout(q) PROVE HasRunout(Tail(q))
    <2>1. PICK i \in DOMAIN q : q[i] \in Runouts BY <1>1 DEF HasRunout
    <2>2. i # 1 BY <1>1, <2>1
    <2>3. i - 1 \in DOMAIN Tail(q) /\ Tail(q)[i - 1] = q[i] BY <2>1, <2>2, SMT
    <2> QED BY <2>1, <2>3 DEF HasRunout
  <1>2. ASSUME HasBootup(Tail(q)) PROVE HasBootup(q)
    <2>1. PICK i \in DOMAIN Tail(q) : Tail(q)[i] = "bootup" BY <1>2 DEF HasBootup
    <2>2. i + 1 \in DOMAIN q /\ q[i + 1] = "bootup" BY <2>1, SMT
    <2> QED BY <2>2 DEF HasBootup
  <1>3. ASSUME Head(q) = "bootup" PROVE HasBootup(q)
    <2>1. 1 \in DOMAIN q /\ q[1] = "bootup" BY <1>3, SMT
    <2> QED BY <2>1 DEF HasBootup
  <1> QED BY <1>1, <1>2, <1>3

(* An idle_timeout event touches the MMU job only where it detects a       *)
(* start.                                                                  *)
LEMMA EventFacts ==
  ASSUME NEW s \in State, NEW event \in Events
  PROVE
  LET t == HandleIdleTimeoutEvent(s, event)
  IN  /\ KeepsKlipper(s, t)
      /\ t.resume_to = s.resume_to /\ t.timeout = s.timeout /\ t.enabled = s.enabled
      /\ t.target = s.target /\ t.idle = s.idle
      /\ KeepsQueue(s, t)
      /\ StatsChanged(s) => t.last_stats = s.stats /\ ~t.new_job
      /\ ~StatsChanged(s) => t.last_stats = s.last_stats /\ t.new_job = s.new_job
      /\ \/ StartDetected(s, event) /\ t.print_state = "started" /\ t.monitoring /\ ~t.off_timer
         \/ ~StartDetected(s, event) /\ KeepsJob(s, t)
  <1> DEFINE c1 == IF StartDetected(s, event) THEN <<"print_start">> ELSE <<>>
             c2 == IF EndDetected(s, event)
                   THEN << IF s.stats = "error" THEN "end_error" ELSE "end_complete" >>
                   ELSE <<>>
             c3 == IF s.enabled /\ event = "idle" /\ s.print_state # "standby"
                   THEN <<"standby">> ELSE <<>>
             commands == c1 \o c2 \o c3
             seen == IF StatsChanged(s)
                     THEN [s EXCEPT !.last_stats = s.stats, !.new_job = FALSE] ELSE s
             started == IF StartDetected(s, event) THEN OnPrintStart(seen, TRUE) ELSE seen
             t == [started EXCEPT !.pending = started.pending \o commands]
  <1>0. {"print_start", "end_complete", "end_error", "standby"} \subseteq Callbacks
    BY DEF Callbacks
  <1>1. c1 \in Seq(Callbacks) BY <1>0, OneCallback, Zenon
  <1>2. c2 \in Seq(Callbacks) BY <1>0, OneCallback, Zenon
  <1>3. c3 \in Seq(Callbacks) BY <1>0, OneCallback, Zenon
  <1>4. commands \in Seq(Callbacks) BY <1>1, <1>2, <1>3
  <1>5. s.pending \in Seq(Callbacks) BY ZenonT(30) DEF State
  <1>6. t = HandleIdleTimeoutEvent(s, event) BY DEF HandleIdleTimeoutEvent
  <1>12. ~HasBootup(commands)
    <2>1. ~HasBootup(<<>>) BY DEF HasBootup
    <2>2. \A c \in Callbacks : c # "bootup" => ~HasBootup(<<c>>) BY DEF HasBootup
    <2>3. ~HasBootup(c1) /\ ~HasBootup(c2) /\ ~HasBootup(c3) BY <1>0, <2>1, <2>2, Zenon
    <2> HIDE DEF c1, c2, c3
    <2>4. ~HasBootup(c1 \o c2) BY <1>1, <1>2, <2>3, BootupKept
    <2>5. c1 \o c2 \in Seq(Callbacks) BY <1>1, <1>2
    <2> QED BY <1>3, <2>3, <2>4, <2>5, BootupKept DEF commands
  <1> HIDE DEF commands
  <1>7. t.pending = s.pending \o commands
    BY ZenonT(30) DEF State, OnPrintStart
  <1>8. KeepsQueue(s, t) BY <1>4, <1>5, <1>7, <1>12, RunoutKept, BootupKept DEF KeepsQueue
  <1>9. /\ KeepsKlipper(s, t)
        /\ t.resume_to = s.resume_to /\ t.timeout = s.timeout /\ t.enabled = s.enabled
        /\ t.target = s.target /\ t.idle = s.idle
        /\ StatsChanged(s) => t.last_stats = s.stats /\ ~t.new_job
        /\ ~StatsChanged(s) => t.last_stats = s.last_stats /\ t.new_job = s.new_job
    BY ZenonT(30) DEF State, OnPrintStart, KeepsKlipper
  <1>10. CASE StartDetected(s, event)
    <2>1. ~IsPrinting(seen) BY <1>10, ZenonT(30) DEF StartDetected, IsPrinting, State
    <2>2. t.print_state = "started" /\ t.monitoring /\ ~t.off_timer
      BY <1>10, <2>1, ZenonT(30) DEF State, OnPrintStart
    <2> HIDE DEF t
    <2> QED BY <1>6, <1>8, <1>9, <1>10, <2>2
  <1>11. CASE ~StartDetected(s, event)
    <2>1. KeepsJob(s, t) BY <1>11, ZenonT(30) DEF State, KeepsJob
    <2> HIDE DEF t
    <2> QED BY <1>6, <1>8, <1>9, <1>11, <2>1
  <1> QED BY <1>10, <1>11

(* The first move of the toolhead in s is taken for the start of a job.    *)
Starts(s) == s.idle # "Printing" /\ StartDetected(s, "printing")

(* What a move, so parking too, may do: report a job start, or leave the   *)
(* job.                                                                    *)
Moved(s, t) ==
    /\ KeepsKlipper(s, t)
    /\ t.resume_to = s.resume_to /\ t.timeout = s.timeout /\ t.enabled = s.enabled
    /\ t.target = s.target
    /\ KeepsQueue(s, t)
    /\ \/ KeepsSeen(s, t)
       \/ /\ s.idle # "Printing" /\ t.idle = "Printing"
          /\ StatsChanged(s) => t.last_stats = s.stats /\ ~t.new_job
          /\ ~StatsChanged(s) => t.last_stats = s.last_stats /\ t.new_job = s.new_job
    /\ \/ Starts(s) /\ t.print_state = "started" /\ t.monitoring /\ ~t.off_timer
       \/ KeepsJob(s, t)

LEMMA ToolheadMoveFacts ==
  ASSUME NEW s \in State
  PROVE  /\ Moved(s, ToolheadMove(s)) /\ ToolheadMove(s).idle = "Printing"
         /\ ~Starts(s) => KeepsJob(s, ToolheadMove(s))
  <1> DEFINE u == [s EXCEPT !.idle = "Printing"]
             t == HandleIdleTimeoutEvent(u, "printing")
  <1>1. u \in State /\ u.idle = "Printing" /\ u.pending = s.pending
    BY ZenonT(30) DEF State
  <1>2. /\ KeepsJob(s, u) /\ KeepsKlipper(s, u)
        /\ u.last_stats = s.last_stats /\ u.new_job = s.new_job
    BY ZenonT(30) DEF State, KeepsJob, KeepsKlipper
  <1> HIDE DEF u
  <1>3. StatsChanged(u) <=> StatsChanged(s)
    BY <1>2 DEF StatsChanged, PreviousStats, KeepsJob, KeepsKlipper
  <1>4. StartDetected(u, "printing") <=> StartDetected(s, "printing")
    BY <1>2, <1>3 DEF StartDetected, IsPrinting, KeepsJob, KeepsKlipper
  <1>5. CASE s.idle = "Printing"
    BY <1>5 DEF ToolheadMove, Moved, KeepsQueue, KeepsKlipper, KeepsSeen, KeepsJob
  <1>6. CASE s.idle # "Printing"
    <2>1. ToolheadMove(s) = t BY <1>6 DEF ToolheadMove, u
    <2>2. /\ KeepsKlipper(u, t)
          /\ t.resume_to = u.resume_to /\ t.timeout = u.timeout /\ t.enabled = u.enabled
          /\ t.target = u.target /\ t.idle = u.idle
          /\ KeepsQueue(u, t)
          /\ StatsChanged(u) => t.last_stats = u.stats /\ ~t.new_job
          /\ ~StatsChanged(u) => t.last_stats = u.last_stats /\ t.new_job = u.new_job
          /\ \/ StartDetected(u, "printing") /\ t.print_state = "started" /\ t.monitoring /\ ~t.off_timer
             \/ ~StartDetected(u, "printing") /\ KeepsJob(u, t)
      BY <1>1, EventFacts DEF Events
    <2> HIDE DEF t
    <2> QED BY <1>1, <1>2, <1>3, <1>4, <1>6, <2>1, <2>2
            DEF Moved, Starts, KeepsQueue, KeepsKlipper, KeepsJob, KeepsSeen
  <1> QED BY <1>5, <1>6

LEMMA SaveAndParkFacts ==
  ASSUME NEW s \in State, NEW o \in SavedOps, NEW homed \in BOOLEAN
  PROVE  LET t == SaveAndPark(s, o, homed)
         IN  /\ Moved(s, t)
             /\ ~Starts(s) \/ ~ParkingMoves => KeepsJob(s, t)
             /\ ParkingMoves /\ o = "pause" => t.idle = "Printing"
             /\ s.idle = "Printing" \/ ~ParkingMoves => KeepsSeen(s, t)
  <1> DEFINE u == [s EXCEPT !.saved_op = o]
  <1>1. u \in State /\ u.pending = s.pending
    BY ZenonT(30) DEF State, SavedOps
  <1>2. KeepsJob(s, u) /\ KeepsKlipper(s, u) /\ KeepsSeen(s, u)
    BY ZenonT(30) DEF State, KeepsJob, KeepsKlipper, KeepsSeen
  <1> HIDE DEF u
  <1>3. StatsChanged(u) <=> StatsChanged(s)
    BY <1>2 DEF StatsChanged, PreviousStats, KeepsJob, KeepsKlipper, KeepsSeen
  <1>4. Starts(u) <=> Starts(s)
    BY <1>2, <1>3 DEF Starts, StartDetected, IsPrinting, KeepsJob, KeepsKlipper, KeepsSeen
  <1>5. Moved(s, s) /\ Moved(s, u) /\ KeepsJob(s, s) /\ KeepsSeen(s, s)
    BY <1>1, <1>2 DEF Moved, KeepsQueue, KeepsJob, KeepsKlipper, KeepsSeen
  <1> DEFINE t == ToolheadMove(u)
  <1>6. Moved(u, t) /\ t.idle = "Printing" /\ (~Starts(u) => KeepsJob(u, t))
    BY <1>1, ToolheadMoveFacts
  <1>7. u.idle = "Printing" => t = u BY DEF ToolheadMove
  <1> HIDE DEF t
  <1>8. Moved(s, t) /\ (~Starts(s) => KeepsJob(s, t))
    BY <1>1, <1>2, <1>3, <1>4, <1>6 DEF Moved, KeepsQueue, KeepsJob, KeepsKlipper, KeepsSeen
  <1>9. s.idle = "Printing" => KeepsSeen(s, t) BY <1>2, <1>7 DEF KeepsSeen
  <1>10. SaveAndPark(s, o, homed)
          = IF ~homed /\ o \in {"complete", "cancel"} THEN s
            ELSE IF ParkingMoves THEN t ELSE u
    BY DEF SaveAndPark, t, u
  <1> QED BY <1>2, <1>5, <1>6, <1>8, <1>9, <1>10

LEMMA RestorePositionFacts ==
  ASSUME NEW s \in State, NEW o
  PROVE  LET t == RestorePosition(s, o)
         IN  KeepsJob(s, t) /\ KeepsKlipper(s, t) /\ KeepsSeen(s, t) /\ t.pending = s.pending
  BY ZenonT(30) DEF State, RestorePosition, KeepsJob, KeepsKlipper, KeepsSeen

(* The end of a print turns a paused MMU cold and takes monitoring off,    *)
(* unless the print has ended already.                                     *)
LEMMA OnPrintEndFacts ==
  ASSUME NEW s \in State, NEW end \in EndsUsed
  PROVE  LET t == OnPrintEnd(s, end)
         IN  /\ KeepsKlipper(s, t) /\ KeepsSeen(s, t) /\ t.pending = s.pending
             /\ t.enabled = s.enabled
             /\ \/ /\ s.print_state \notin EndStates
                   /\ t.print_state = end /\ ~t.monitoring /\ ~t.off_timer
                   /\ IsMmuPaused(s) /\ end # "standby" => t.target = "off"
                \/ /\ s.print_state \in EndStates
                   /\ t.print_state \in {s.print_state, "standby"}
                   /\ t.monitoring = s.monitoring /\ t.off_timer = s.off_timer
  <1> DEFINE t == OnPrintEnd(s, end)
  <1>1. /\ KeepsKlipper(s, t) /\ KeepsSeen(s, t) /\ t.pending = s.pending
        /\ t.enabled = s.enabled
    BY ZenonT(30) DEF State, OnPrintEnd, KeepsKlipper, KeepsSeen
  <1>2. CASE s.print_state \in EndStates
    <2>1. /\ t.print_state \in {s.print_state, "standby"}
          /\ t.monitoring = s.monitoring /\ t.off_timer = s.off_timer
      BY <1>2, ZenonT(30) DEF State, OnPrintEnd
    <2> QED BY <1>1, <1>2, <2>1
  <1>3. CASE s.print_state \notin EndStates
    <2>1. /\ t.print_state = end /\ ~t.monitoring /\ ~t.off_timer
          /\ IsMmuPaused(s) /\ end # "standby" => t.target = "off"
      BY <1>3, ZenonT(30) DEF State, OnPrintEnd
    <2> QED BY <1>1, <1>3, <2>1
  <1> QED BY <1>2, <1>3

(* The pause an error enters: what it keeps of the state before.           *)
(* A handler entered the pause from s.                                     *)
Locked(s, t, resume) ==
    /\ t.print_state = "pause_locked" /\ ~t.monitoring /\ t.timeout = "pause"
    /\ t.resume_to = resume /\ t.enabled = s.enabled /\ t.stats = s.stats
    /\ t.stopping => s.stopping \/ s.stats = "printing"
    /\ t.is_paused
    /\ ParkingMoves => t.idle = "Printing"
    /\ KeepsQueue(s, t)

LEMMA PauseCommandFacts ==
  ASSUME NEW s, Safe(s), IsMmuPaused(s), ~ParkingMoves \/ ~Starts(s)
  PROVE  LET t == PauseCommand(s)
         IN  /\ KeepsJob(s, t) /\ t.stats = s.stats /\ t.is_paused
             /\ t.stopping => s.stopping \/ s.stats = "printing"
             /\ s.idle = "Printing" => t.idle = "Printing"
             /\ KeepsQueue(s, t)
  <1> DEFINE u == IF s.enabled THEN SaveAndPark(s, "pause", TRUE) ELSE s
  <1>1. FixStartedState(s) = s
    BY DEF FixStartedState, PrintStartCommand, IsInPrint
  <1>2. PauseCommand(s) = BasePause(u) BY <1>1 DEF PauseCommand
  <1>3. /\ Safe(u) /\ KeepsJob(s, u) /\ KeepsKlipper(s, u)
        /\ s.idle = "Printing" => u.idle = "Printing"
        /\ KeepsQueue(s, u)
    <2>1. s \in State BY DEF Safe
    <2>2. CASE s.enabled
      BY <2>1, <2>2, SaveAndParkFacts, SaveAndParkSafe DEF SavedOps, Moved, KeepsSeen
    <2>3. CASE ~s.enabled BY <2>3 DEF KeepsQueue, KeepsJob, KeepsKlipper
    <2> QED BY <2>2, <2>3
  <1> HIDE DEF u
  <1> QED BY <1>2, <1>3, BasePauseFacts DEF KeepsQueue, Safe, KeepsJob, KeepsKlipper, KeepsSeen

LEMMA EnterPauseFacts ==
  ASSUME NEW s, Safe(s), s.stats = "printing" => IsPrinting(s), NEW found \in Positions
  PROVE  Locked(s, EnterPause(s, found), IF IsInPrint(s) THEN "printing" ELSE "ready")
  <1> DEFINE resume == IF IsInPrint(s) THEN "printing" ELSE "ready"
             saved  == [s EXCEPT !.monitoring = FALSE, !.resume_to = resume,
                                 !.paused_temp = s.target, !.off_timer = TRUE,
                                 !.timeout = "pause"]
             parked == SaveAndPark(saved, "pause", TRUE)
             locked == [parked EXCEPT !.print_state = "pause_locked"]
             paused == IF s.is_paused THEN locked ELSE SendPause(PauseCommand(locked))
  <1>1. /\ saved \in State /\ ~saved.monitoring /\ saved.timeout = "pause"
        /\ saved.resume_to = resume /\ saved.print_state = s.print_state
        /\ saved.enabled = s.enabled /\ saved.idle = s.idle
        /\ saved.paused_temp = s.target /\ saved.pending = s.pending
        /\ KeepsKlipper(s, saved)
    BY ZenonT(30) DEF Safe, State, KeepsKlipper
  <1> HIDE DEF resume, saved
  <1>2. saved.stats = "printing" => IsPrinting(saved)
    BY <1>1 DEF IsPrinting, KeepsKlipper
  <1>3. ~Starts(saved) BY <1>2 DEF Starts, StartDetected
  <1>4. /\ Moved(saved, parked) /\ KeepsJob(saved, parked)
        /\ ParkingMoves => parked.idle = "Printing"
    BY <1>1, <1>3, SaveAndParkFacts DEF SavedOps
  <1>5. parked \in State BY <1>1, <1>2, ParkKeepsContext
  <1> HIDE DEF parked
  <1>6. /\ locked \in State /\ locked.print_state = "pause_locked"
        /\ locked.monitoring = parked.monitoring /\ locked.timeout = parked.timeout
        /\ locked.resume_to = parked.resume_to /\ locked.enabled = parked.enabled
        /\ locked.paused_temp = parked.paused_temp
        /\ locked.idle = parked.idle /\ locked.pending = parked.pending
        /\ KeepsKlipper(parked, locked)
    BY <1>5, ZenonT(30) DEF State, PrintStates, KeepsKlipper
  <1>7. s.target # "none"
    <2>1. s.target \in Temps BY ZenonT(30) DEF Safe, State
    <2> QED BY <2>1 DEF Temps
  <1> HIDE DEF locked
  <1>8. IsMmuPaused(locked) /\ ~IsPrinting(locked)
    BY <1>6, Zenon DEF IsMmuPaused, IsPrinting
  <1>9. locked.paused_temp # "none" BY <1>1, <1>4, <1>6, <1>7 DEF KeepsJob
  <1>10. Safe(locked)
    BY <1>6, <1>8, <1>9 DEF Safe, TempKnown, TimerOff
  <1>11. ~ParkingMoves \/ ~Starts(locked) BY <1>4, <1>6 DEF Starts
  <1>12. Locked(s, locked, resume) \/ ~locked.is_paused
    BY <1>1, <1>4, <1>6 DEF KeepsQueue, Locked, KeepsJob, KeepsKlipper, Moved
  <1>13. /\ locked.print_state = "pause_locked" /\ ~locked.monitoring
         /\ locked.timeout = "pause" /\ locked.resume_to = resume
         /\ locked.enabled = s.enabled /\ KeepsKlipper(s, locked)
         /\ ParkingMoves => locked.idle = "Printing"
         /\ KeepsQueue(s, locked)
    BY <1>1, <1>4, <1>6 DEF KeepsQueue, KeepsJob, KeepsKlipper, Moved
  <1>14. Locked(s, paused, resume) /\ paused \in State
    <2>1. CASE s.is_paused
      BY <1>10, <1>13, <2>1 DEF Locked, KeepsKlipper, Safe
    <2>2. CASE ~s.is_paused
      <3> DEFINE t == PauseCommand(locked)
      <3>1. /\ KeepsJob(locked, t) /\ t.stats = locked.stats /\ t.is_paused
            /\ t.stopping => locked.stopping \/ locked.stats = "printing"
            /\ locked.idle = "Printing" => t.idle = "Printing"
            /\ KeepsQueue(locked, t)
        BY <1>8, <1>10, <1>11, PauseCommandFacts
      <3>2. Safe(t) BY <1>10, PauseCommandSafe
      <3> HIDE DEF t
      <3>3. /\ KeepsJob(t, SendPause(t)) /\ KeepsSeen(t, SendPause(t))
            /\ SendPause(t).pending = t.pending /\ SendPause(t).stats = t.stats
            /\ SendPause(t).is_paused = t.is_paused
            /\ SendPause(t).stopping => t.stopping \/ t.stats = "printing"
        BY <3>2, SendPauseFacts DEF Safe
      <3>4. SendPause(t) \in State BY <3>2, SendPauseSafe DEF Safe
      <3>5. Locked(s, SendPause(t), resume)
        BY <1>13, <3>1, <3>3 DEF KeepsQueue, Locked, KeepsJob, KeepsKlipper, KeepsSeen
      <3> QED BY <2>2, <3>4, <3>5 DEF t
    <2> QED BY <2>1, <2>2
  <1> HIDE DEF paused
  <1>15. Locked(s, [paused EXCEPT !.filament = found], resume)
    <2> DEFINE t == [paused EXCEPT !.filament = found]
    <2>1. /\ KeepsJob(paused, t) /\ KeepsKlipper(paused, t) /\ KeepsSeen(paused, t)
          /\ t.pending = paused.pending
      BY <1>14, ZenonT(30) DEF State, KeepsJob, KeepsKlipper, KeepsSeen
    <2> HIDE DEF t
    <2> QED BY <1>14, <2>1 DEF KeepsQueue, t, Locked, KeepsJob, KeepsKlipper, KeepsSeen
  <1> QED BY <1>15 DEF EnterPause, paused, locked, parked, saved, resume

(* An error in a pause only corrects the filament position; in a print, or *)
(* forced, it enters the pause; elsewhere it leaves the job as it is.      *)
(* handle_mmu_error enters a pause, or changes nothing of the job: in a    *)
(* pause, and out of a print.                                              *)
LEMMA ErrorFacts ==
  ASSUME NEW s, Safe(s), NEW force \in BOOLEAN, NEW found \in Positions
  PROVE  LET t == HandleMmuError(s, force, found)
         IN  \/ /\ IsMmuPaused(s) \/ (~IsInPrint(s) /\ s.stats # "printing")
                /\ KeepsJob(s, t) /\ KeepsKlipper(s, t) /\ KeepsSeen(s, t)
                /\ t.pending = s.pending
             \/ /\ ~IsMmuPaused(s)
                /\ \/ Locked(s, t, "printing")
                   \/ force /\ Locked(s, t, "ready")
  <1> DEFINE f == FixStartedState(s)
             t == HandleMmuError(s, force, found)
  <1>1. Safe(f) BY FixStartedStateSafe
  <1>2. /\ KeepsKlipper(s, f) /\ KeepsSeen(s, f) /\ f.pending = s.pending
        /\ f.resume_to = s.resume_to /\ f.timeout = s.timeout /\ f.enabled = s.enabled
        /\ f.target = s.target
        /\ \/ f = s /\ (s.stats = "printing" => IsInPrint(s))
           \/ f.print_state = "printing" /\ ~IsInPrint(s) /\ s.stats = "printing"
    BY FixFacts DEF Safe
  <1>3. t = IF IsMmuPaused(f) THEN [f EXCEPT !.filament = found]
            ELSE IF IsInPrint(f) \/ force THEN EnterPause(f, found)
            ELSE IF f.saved_op = "" THEN f ELSE RestorePosition(f, f.saved_op)
    BY DEF HandleMmuError
  <1> HIDE DEF f, t
  <1>4. CASE IsMmuPaused(f)
    <2>1. f = s BY <1>2, <1>4, Zenon DEF IsMmuPaused
    <2>2. t = [s EXCEPT !.filament = found] BY <1>3, <1>4, <2>1
    <2>3. /\ KeepsJob(s, t) /\ KeepsKlipper(s, t) /\ KeepsSeen(s, t)
          /\ t.pending = s.pending
      BY <2>2, ZenonT(30) DEF Safe, State, KeepsJob, KeepsKlipper, KeepsSeen
    <2> QED BY <1>4, <2>1, <2>3 DEF t
  <1>5. CASE ~IsMmuPaused(f) /\ (IsInPrint(f) \/ force)
    <2>1. f.stats = "printing" => IsPrinting(f)
      BY <1>2, <1>5, Zenon DEF IsInPrint, IsPrinting, KeepsKlipper
    <2>2. t = EnterPause(f, found) BY <1>3, <1>5
    <2>3. Locked(f, t, IF IsInPrint(f) THEN "printing" ELSE "ready")
      BY <1>1, <2>1, <2>2, EnterPauseFacts
    <2>4. ~IsMmuPaused(s) BY <1>2, <1>5 DEF IsInPrint
    <2>5. ASSUME NEW r, Locked(f, t, r) PROVE Locked(s, t, r)
      BY <1>2, <2>5 DEF KeepsQueue, Locked, KeepsKlipper
    <2> QED BY <1>5, <2>3, <2>4, <2>5 DEF t
  <1>6. CASE ~IsMmuPaused(f) /\ ~IsInPrint(f) /\ ~force
    <2>0. f.print_state # "printing" BY <1>6 DEF IsInPrint
    <2>1. f = s /\ s.stats # "printing" BY <1>2, <1>6, <2>0
    <2>2. t = s \/ t = RestorePosition(s, s.saved_op) BY <1>3, <1>6, <2>1
    <2>3. /\ KeepsJob(s, t) /\ KeepsKlipper(s, t) /\ KeepsSeen(s, t)
          /\ t.pending = s.pending
      BY <2>2, RestorePositionFacts DEF Safe, KeepsJob, KeepsKlipper, KeepsSeen
    <2> QED BY <1>6, <2>1, <2>3 DEF t
  <1> QED BY <1>4, <1>5, <1>6

(* MMU_PRINT_END and the commands of the idle_timeout events.              *)
LEMMA PrintEndFacts ==
  ASSUME NEW s \in State, NEW end \in EndsUsed, NEW idleTimeout \in BOOLEAN,
         NEW homed \in BOOLEAN
  PROVE  LET t == PrintEndCommand(s, end, idleTimeout, homed)
             u == IF end = "complete" /\ ~idleTimeout
                  THEN SaveAndPark(s, "complete", homed) ELSE s
         IN  \/ t = s
             \/ ~IsMmuPaused(s) /\ s.print_state \notin EndStates
                  /\ Moved(s, u) /\ t = OnPrintEnd(u, end)
  <1>1. Moved(s, SaveAndPark(s, "complete", homed)) BY SaveAndParkFacts DEF SavedOps
  <1>2. Moved(s, s) BY DEF KeepsQueue, Moved, KeepsKlipper, KeepsSeen, KeepsJob
  <1> QED BY <1>1, <1>2 DEF PrintEndCommand

(* Heating, unlocking, resuming.                                           *)
LEMMA EnsureFacts ==
  ASSUME NEW s \in State
  PROVE  LET t == EnsurePauseTemperature(s)
         IN  /\ KeepsKlipper(s, t) /\ KeepsSeen(s, t) /\ t.pending = s.pending
             /\ t.print_state = s.print_state /\ t.resume_to = s.resume_to
             /\ t.paused_temp = s.paused_temp /\ t.monitoring = s.monitoring
             /\ t.off_timer = s.off_timer /\ t.timeout = s.timeout
             /\ t.enabled = s.enabled
             /\ s.paused_temp = "print" => t.target = "print"
  BY ZenonT(30) DEF State, EnsurePauseTemperature, KeepsKlipper, KeepsSeen

LEMMA UnlockFacts ==
  ASSUME NEW s \in State
  PROVE  LET t == MmuUnlock(s)
         IN  /\ KeepsKlipper(s, t) /\ KeepsSeen(s, t) /\ t.pending = s.pending
             /\ t.print_state = "paused" /\ t.resume_to = s.resume_to
             /\ t.paused_temp = s.paused_temp /\ t.monitoring = s.monitoring
             /\ ~t.off_timer /\ t.timeout = "default" /\ t.enabled = s.enabled
  BY ZenonT(30) DEF State, MmuUnlock, EnsurePauseTemperature, KeepsKlipper, KeepsSeen

(* What resuming leaves of the pause.                                      *)
Resumed(s, t) ==
    /\ t.print_state = s.resume_to /\ t.resume_to = "ready" /\ t.monitoring
    /\ t.off_timer = s.off_timer /\ t.timeout = s.timeout /\ t.enabled = s.enabled
    /\ s.paused_temp = "print" => t.target = "print"

LEMMA ContinueFacts ==
  ASSUME NEW s \in State, NEW o
  PROVE  LET t == ContinueAfter(s, o)
         IN  /\ KeepsKlipper(s, t) /\ KeepsSeen(s, t) /\ t.pending = s.pending
             /\ \/ KeepsJob(s, t) /\ (o = "resume" => ~IsMmuPaused(s))
                \/ IsMmuPaused(s) /\ o = "resume" /\ Resumed(s, t)
  <1> DEFINE t == EnsurePauseTemperature(s)
             u == [t EXCEPT !.paused_temp = "none", !.monitoring = TRUE,
                            !.print_state = s.resume_to, !.resume_to = "ready"]
  <1>1. CASE IsMmuPaused(s) /\ o = "resume"
    <2>1. s.resume_to \in {"ready", "printing"} BY ZenonT(30) DEF State
    <2>2. t \in State
      <3>1. [s EXCEPT !.target = "print"] \in State BY ZenonT(30) DEF State, Temps
      <3> QED BY <3>1 DEF EnsurePauseTemperature
    <2>3. /\ KeepsKlipper(s, t) /\ KeepsSeen(s, t) /\ t.pending = s.pending
          /\ t.off_timer = s.off_timer /\ t.timeout = s.timeout
          /\ t.enabled = s.enabled
          /\ s.paused_temp = "print" => t.target = "print"
      BY EnsureFacts
    <2> HIDE DEF t
    <2>4. /\ u \in State /\ u.print_state = s.resume_to /\ u.resume_to = "ready"
          /\ u.monitoring
      <3>1. s.resume_to \in PrintStates BY <2>1 DEF PrintStates
      <3>2. ASSUME NEW r \in PrintStates
            PROVE  LET w == [t EXCEPT !.paused_temp = "none", !.monitoring = TRUE,
                                      !.print_state = r, !.resume_to = "ready"]
                   IN  /\ w \in State /\ w.print_state = r /\ w.resume_to = "ready"
                       /\ w.monitoring
        BY <2>2, ZenonT(30) DEF State
      <3> QED BY <3>1, <3>2
    <2>5. /\ KeepsKlipper(t, u) /\ KeepsSeen(t, u) /\ u.pending = t.pending
          /\ u.off_timer = t.off_timer /\ u.timeout = t.timeout
          /\ u.enabled = t.enabled /\ u.target = t.target
      BY <2>1, <2>2, ZenonT(30) DEF State, KeepsKlipper, KeepsSeen
    <2> HIDE DEF u
    <2> DEFINE v == RestorePosition(u, "resume")
    <2>6. KeepsJob(u, v) /\ KeepsKlipper(u, v) /\ KeepsSeen(u, v) /\ v.pending = u.pending
      BY <2>4, RestorePositionFacts
    <2>7. ContinueAfter(s, o) = v BY <1>1 DEF ContinueAfter, v, u, t
    <2> HIDE DEF v
    <2> QED BY <1>1, <2>3, <2>4, <2>5, <2>6, <2>7
            DEF Resumed, KeepsJob, KeepsKlipper, KeepsSeen
  <1>2. CASE ~IsMmuPaused(s)
    <2>1. ContinueAfter(s, o) = RestorePosition(s, o) BY <1>2 DEF ContinueAfter
    <2> QED BY <1>2, <2>1, RestorePositionFacts
  <1>3. CASE IsMmuPaused(s) /\ o # "resume"
    <2>1. ContinueAfter(s, o) = s BY <1>3 DEF ContinueAfter
    <2> QED BY <1>3, <2>1 DEF KeepsJob, KeepsKlipper, KeepsSeen
  <1> QED BY <1>1, <1>2, <1>3

(* Handlers that set the job whatever it was, and single fields.           *)
LEMMA ReinitFacts ==
  ASSUME NEW s \in State
  PROVE  LET t == Reinit(s)
         IN  /\ KeepsKlipper(s, t) /\ t.pending = s.pending
             /\ t.print_state = "ready" /\ ~t.monitoring /\ t.enabled
  BY ZenonT(30) DEF State, Reinit, KeepsKlipper

LEMMA DisableFacts ==
  ASSUME NEW s \in State
  PROVE  LET t == DisableMmu(s)
         IN  /\ KeepsKlipper(s, t) /\ KeepsSeen(s, t) /\ t.pending = s.pending
             /\ t.print_state = "standby" /\ ~t.monitoring /\ ~t.off_timer
  BY ZenonT(30) DEF State, DisableMmu, KeepsKlipper, KeepsSeen

LEMMA BootupFacts ==
  ASSUME NEW s \in State, NEW found \in Positions
  PROVE  LET t == Bootup(s, found)
         IN  /\ KeepsKlipper(s, t) /\ KeepsSeen(s, t) /\ t.pending = s.pending
             /\ t.print_state = "initialized" /\ ~t.monitoring /\ t.enabled = s.enabled
  BY ZenonT(30) DEF State, Bootup, KeepsKlipper, KeepsSeen

LEMMA WakeupFacts ==
  ASSUME NEW s \in State
  PROVE  LET t == Wakeup(s)
         IN  /\ KeepsKlipper(s, t) /\ KeepsSeen(s, t) /\ t.pending = s.pending
             /\ t.resume_to = s.resume_to /\ t.monitoring = s.monitoring
             /\ t.off_timer = s.off_timer /\ t.timeout = s.timeout /\ t.enabled = s.enabled
             /\ t.paused_temp = s.paused_temp /\ t.target = s.target
             /\ t = s \/ (s.print_state = "standby" /\ t.print_state = "idle")
  <1>1. CASE s.print_state = "standby"
    BY <1>1, ZenonT(30) DEF State, Wakeup, KeepsKlipper, KeepsSeen
  <1>2. CASE s.print_state # "standby"
    BY <1>2 DEF Wakeup, KeepsKlipper, KeepsSeen
  <1> QED BY <1>1, <1>2

(* Fields no property of a pause is about may be set in any state.         *)
LEMMA FieldFacts ==
  ASSUME NEW s \in State, NEW b \in BOOLEAN, NEW q \in Seq(Callbacks), NEW p \in Positions
  PROVE  /\ LET t == [s EXCEPT !.pending = q]
            IN  KeepsJob(s, t) /\ KeepsKlipper(s, t) /\ KeepsSeen(s, t) /\ t.pending = q
         /\ LET t == [s EXCEPT !.filament = p]
            IN  KeepsJob(s, t) /\ KeepsKlipper(s, t) /\ KeepsSeen(s, t)
                  /\ t.pending = s.pending
         /\ LET t == [s EXCEPT !.saved_op = ""]
            IN  KeepsJob(s, t) /\ KeepsKlipper(s, t) /\ KeepsSeen(s, t)
                  /\ t.pending = s.pending
  <1>1. LET t == [s EXCEPT !.pending = q]
        IN  KeepsJob(s, t) /\ KeepsKlipper(s, t) /\ KeepsSeen(s, t) /\ t.pending = q
    BY ZenonT(30) DEF State, KeepsJob, KeepsKlipper, KeepsSeen
  <1>2. LET t == [s EXCEPT !.filament = p]
        IN  KeepsJob(s, t) /\ KeepsKlipper(s, t) /\ KeepsSeen(s, t)
              /\ t.pending = s.pending
    BY ZenonT(30) DEF State, KeepsJob, KeepsKlipper, KeepsSeen
  <1>3. LET t == [s EXCEPT !.saved_op = ""]
        IN  KeepsJob(s, t) /\ KeepsKlipper(s, t) /\ KeepsSeen(s, t)
              /\ t.pending = s.pending
    BY ZenonT(30) DEF State, KeepsJob, KeepsKlipper, KeepsSeen
  <1> QED BY <1>1, <1>2, <1>3

(* Suspending or resuming the filament monitoring changes nothing else.    *)
LEMMA MonitoringFacts ==
  ASSUME NEW s \in State, NEW b \in BOOLEAN
  PROVE  LET t == [s EXCEPT !.monitoring = b]
         IN  /\ KeepsKlipper(s, t) /\ KeepsSeen(s, t) /\ t.pending = s.pending
             /\ t.print_state = s.print_state /\ t.resume_to = s.resume_to
             /\ t.paused_temp = s.paused_temp /\ t.off_timer = s.off_timer
             /\ t.timeout = s.timeout /\ t.enabled = s.enabled /\ t.target = s.target
             /\ t.monitoring = b
  BY ZenonT(30) DEF State, KeepsKlipper, KeepsSeen

-----------------------------------------------------------------------------
(* Out of a pause: the outcomes of a step that finds the MMU paused. *)

(* The ways out of a state with the MMU paused: the pause stays as it is,  *)
(* is resumed, is lost to a detected job start, is cancelled, or the MMU is*)
(* reset.                                                                  *)
(* The outcomes of a step that finds the MMU paused: it stays so, is       *)
(* resumed, is taken for a new job, is cancelled, or is reset.             *)
Stays(s, t) ==
    IsMmuPaused(t) /\ t.paused_temp = s.paused_temp /\ t.resume_to = s.resume_to
Resumes(s, t) ==
    /\ ~s.stopping
    /\ t.print_state = s.resume_to /\ t.resume_to = "ready" /\ t.monitoring
    /\ s.paused_temp = "print" => t.target = "print"
Restarts(s, t) == Starts(s) /\ t.print_state = "started"
Cancels(s, t) ==
    /\ t.print_state = "cancelled"
    /\ t.target = "off" \/ (ParkingMoves /\ Starts(s))
    /\ s.stats = "printing" => t.stats = "cancelled"
Resets(s, t) ==
    /\ t.print_state \in {"ready", "standby", "initialized"}
    /\ AllowBoot \/ ~s.stopping

PausedOutcome(s, t) ==
    Stays(s, t) \/ Resumes(s, t) \/ Restarts(s, t) \/ Cancels(s, t) \/ Resets(s, t)

(* States that differ in what the outcomes do not depend on.               *)
SamePause(s, t) ==
    /\ t.print_state = s.print_state /\ t.resume_to = s.resume_to
    /\ t.paused_temp = s.paused_temp /\ t.enabled = s.enabled
    /\ t.stats = s.stats /\ t.stopping = s.stopping
    /\ KeepsSeen(s, t)

LEMMA SamePauseStarts ==
  ASSUME NEW s, NEW t, SamePause(s, t) PROVE Starts(t) <=> Starts(s)
  BY DEF SamePause, KeepsSeen, Starts, StartDetected, StatsChanged, PreviousStats, IsPrinting

LEMMA SamePauseOutcome ==
  ASSUME NEW s, NEW u, NEW t, SamePause(s, u), PausedOutcome(u, t)
  PROVE  PausedOutcome(s, t)
  BY SamePauseStarts
  DEF SamePause, PausedOutcome, Stays, Resumes, Restarts, Cancels, Resets

LEMMA KeepsIsSamePause ==
  ASSUME NEW s, NEW t, KeepsJob(s, t), KeepsKlipper(s, t), KeepsSeen(s, t)
  PROVE  SamePause(s, t)
  BY DEF SamePause, KeepsJob, KeepsKlipper

LEMMA KeepsJobStays ==
  ASSUME NEW s, NEW t, IsMmuPaused(s), KeepsJob(s, t) PROVE Stays(s, t)
  BY DEF Stays, KeepsJob, IsMmuPaused

LEMMA MovedOutcome ==
  ASSUME NEW s, NEW t, IsMmuPaused(s), Moved(s, t)
  PROVE  Stays(s, t) \/ Restarts(s, t)
  BY KeepsJobStays DEF Moved, Restarts

LEMMA PausedFixes ==
  ASSUME NEW s, IsMmuPaused(s)
  PROVE  FixStartedState(s) = s /\ PrintStartCommand(s) = s /\ Wakeup(s) = s
  BY Zenon DEF FixStartedState, PrintStartCommand, IsInPrint, Wakeup, IsMmuPaused

LEMMA PausedErrorStays ==
  ASSUME NEW s, Safe(s), IsMmuPaused(s), NEW force \in BOOLEAN, NEW found \in Positions
  PROVE  Stays(s, HandleMmuError(s, force, found))
  BY ErrorFacts, KeepsJobStays

LEMMA PausedPauseOutcome ==
  ASSUME NEW s, Safe(s), IsMmuPaused(s)
  PROVE  PausedOutcome(s, PauseCommand(s))
  <1> DEFINE u == IF s.enabled THEN SaveAndPark(s, "pause", TRUE) ELSE s
  <1>1. PauseCommand(s) = BasePause(u) BY PausedFixes DEF PauseCommand
  <1>2. Safe(u) BY SaveAndParkSafe DEF SavedOps
  <1>3. Stays(s, u) \/ Restarts(s, u)
    BY SaveAndParkFacts, MovedOutcome DEF Safe, SavedOps, Stays
  <1> HIDE DEF u
  <1>4. KeepsJob(u, BasePause(u)) BY <1>2, BasePauseFacts DEF Safe
  <1> QED BY <1>1, <1>3, <1>4 DEF PausedOutcome, Stays, Restarts, KeepsJob, IsMmuPaused

LEMMA PausedCancelOutcome ==
  ASSUME NEW s, Safe(s), IsMmuPaused(s), NEW homed \in BOOLEAN
  PROVE  Cancels(s, OnPrintEnd(BaseCancel(SaveAndPark(s, "cancel", homed)), "cancelled"))
  <1> DEFINE u == SaveAndPark(s, "cancel", homed)
             c == BaseCancel(u)
             t == OnPrintEnd(c, "cancelled")
  <1>1. Safe(u) BY SaveAndParkSafe DEF SavedOps
  <1>2. /\ Moved(s, u)
        /\ ~Starts(s) \/ ~ParkingMoves => KeepsJob(s, u)
    BY SaveAndParkFacts DEF Safe, SavedOps
  <1> HIDE DEF u
  <1>3. /\ KeepsJob(u, c) /\ c \in State
        /\ c.stats = (IF u.stats \in {"printing", "paused"} THEN "cancelled" ELSE u.stats)
    BY <1>1, BaseCancelFacts, BaseCancelSafe DEF Safe
  <1> HIDE DEF c
  <1>4. c.print_state \notin EndStates
    <2>1. u.print_state \in {"pause_locked", "paused", "started"}
      BY <1>2, Zenon DEF Moved, KeepsJob, IsMmuPaused
    <2> QED BY <2>1, <1>3, Zenon DEF KeepsJob, EndStates
  <1>5. /\ t.print_state = "cancelled"
        /\ IsMmuPaused(c) => t.target = "off"
        /\ t.stats = c.stats
    BY <1>3, <1>4, OnPrintEndFacts, Zenon DEF EndsUsed, KeepsKlipper
  <1> HIDE DEF t
  <1>6. IsMmuPaused(c) \/ (ParkingMoves /\ Starts(s))
    BY <1>2, <1>3 DEF KeepsJob, IsMmuPaused
  <1>7. s.stats = "printing" => t.stats = "cancelled"
    BY <1>2, <1>3, <1>5 DEF Moved, KeepsKlipper
  <1> QED BY <1>5, <1>6, <1>7 DEF Cancels, u, c, t

(* Suspending the monitoring and parking, as an operation begins.          *)
LEMMA PausedBeginOutcome ==
  ASSUME NEW s, Safe(s), IsMmuPaused(s), NEW o \in SavedOps
  PROVE  PausedOutcome(s, SaveAndPark([s EXCEPT !.monitoring = FALSE], o, TRUE))
  <1> DEFINE u == [s EXCEPT !.monitoring = FALSE]
  <1>1. Safe(u) /\ SamePause(s, u)
    BY MonitoringFacts, MonitoringSafe DEF Safe, SamePause, KeepsKlipper
  <1> HIDE DEF u
  <1>2. IsMmuPaused(u) BY <1>1 DEF SamePause, IsMmuPaused
  <1>3. Moved(u, SaveAndPark(u, o, TRUE)) BY <1>1, SaveAndParkFacts DEF Safe
  <1>4. PausedOutcome(u, SaveAndPark(u, o, TRUE))
    BY <1>2, <1>3, MovedOutcome DEF PausedOutcome
  <1> QED BY <1>1, <1>4, SamePauseOutcome DEF u

LEMMA PausedDequeued ==
  ASSUME IInv, m.pending # <<>>
  PROVE  /\ KeepsJob(m, Dequeued) /\ KeepsKlipper(m, Dequeued) /\ KeepsSeen(m, Dequeued)
         /\ Dequeued.pending = Tail(m.pending)
  <1>1. m \in State BY DEF IInv, Safe
  <1>2. m.pending \in Seq(Callbacks) BY <1>1, ZenonT(30) DEF State
  <1>3. Tail(m.pending) \in Seq(Callbacks) BY <1>2
  <1>4. "settled" \in Positions BY DEF Positions
  <1> QED BY <1>1, <1>3, <1>4, FieldFacts DEF Dequeued

(* Setting the temperature, or the idle_timeout state, changes nothing else.*)
KeepsPause(s, t) ==
    /\ t.print_state = s.print_state /\ t.resume_to = s.resume_to
    /\ t.paused_temp = s.paused_temp /\ t.monitoring = s.monitoring
    /\ t.timeout = s.timeout /\ t.enabled = s.enabled
    /\ KeepsKlipper(s, t) /\ t.pending = s.pending

LEMMA TargetFacts ==
  ASSUME NEW s \in State, NEW g \in Temps
  PROVE  LET t == [s EXCEPT !.target = g]
         IN  KeepsPause(s, t) /\ KeepsSeen(s, t) /\ t.off_timer = s.off_timer
  BY ZenonT(30) DEF State, KeepsKlipper, KeepsSeen, KeepsPause

LEMMA TimerFacts ==
  ASSUME NEW s \in State, NEW g \in Temps
  PROVE  LET t == [s EXCEPT !.off_timer = FALSE, !.target = g]
         IN  KeepsPause(s, t) /\ KeepsSeen(s, t) /\ ~t.off_timer
  BY ZenonT(30) DEF State, KeepsKlipper, KeepsSeen, KeepsPause

LEMMA ReadyFacts ==
  ASSUME NEW s \in State
  PROVE  LET t == [s EXCEPT !.idle = "Ready"]
         IN  /\ t \in State /\ KeepsJob(s, t) /\ KeepsKlipper(s, t)
             /\ t.last_stats = s.last_stats /\ t.new_job = s.new_job
             /\ t.pending = s.pending
  BY ZenonT(30) DEF State, KeepsJob, KeepsKlipper

LEMMA IdleFacts ==
  ASSUME NEW s \in State
  PROVE  LET t == [s EXCEPT !.idle = "Idle", !.target = "off"]
         IN  /\ t \in State /\ KeepsPause(s, t) /\ t.off_timer = s.off_timer
             /\ t.last_stats = s.last_stats /\ t.new_job = s.new_job
  BY ZenonT(30) DEF State, Temps, KeepsKlipper, KeepsPause

(* Klipper's own job steps.                                                *)
LEMMA StatsFacts ==
  ASSUME NEW s \in State, NEW j \in JobStates
  PROVE  /\ LET t == [s EXCEPT !.stats = "printing", !.new_job = TRUE]
            IN  /\ KeepsJob(s, t) /\ t.pending = s.pending
                /\ t.stats = "printing" /\ t.new_job /\ t.stopping = s.stopping
                /\ t.is_paused = s.is_paused /\ t.pause_sent = s.pause_sent
                /\ t.idle = s.idle /\ t.last_stats = s.last_stats
         /\ LET t == [s EXCEPT !.stopping = FALSE, !.stats = j]
            IN  /\ KeepsJob(s, t) /\ KeepsSeen(s, t) /\ t.pending = s.pending
                /\ t.stats = j /\ ~t.stopping
                /\ t.is_paused = s.is_paused /\ t.pause_sent = s.pause_sent
         /\ [s EXCEPT !.stats = j, !.stopping = FALSE]
             = [s EXCEPT !.stopping = FALSE, !.stats = j]
  <1>1. LET t == [s EXCEPT !.stats = "printing", !.new_job = TRUE]
        IN  /\ KeepsJob(s, t) /\ t.pending = s.pending
            /\ t.stats = "printing" /\ t.new_job /\ t.stopping = s.stopping
            /\ t.is_paused = s.is_paused /\ t.pause_sent = s.pause_sent
            /\ t.idle = s.idle /\ t.last_stats = s.last_stats
    BY ZenonT(30) DEF State, KeepsJob
  <1>2. LET t == [s EXCEPT !.stopping = FALSE, !.stats = j]
        IN  /\ KeepsJob(s, t) /\ KeepsSeen(s, t) /\ t.pending = s.pending
            /\ t.stats = j /\ ~t.stopping
            /\ t.is_paused = s.is_paused /\ t.pause_sent = s.pause_sent
    BY ZenonT(30) DEF State, KeepsJob, KeepsSeen
  <1>3. [s EXCEPT !.stats = j, !.stopping = FALSE]
         = [s EXCEPT !.stopping = FALSE, !.stats = j]
    BY ZenonT(30) DEF State
  <1> QED BY <1>1, <1>2, <1>3

LEMMA PausedKlipperStep ==
  ASSUME IInv, IsMmuPaused(m),
         \/ UserPrints \/ SdStops \/ JobEnds
         \/ ToolheadMoves \/ ToolheadDrains \/ IdleTimesOut \/ SetTemperature
  PROVE  PausedOutcome(m, m')
  <1> USE DEF IInv, Safe
  <1>1. CASE UserPrints
    BY <1>1, StatsFacts, KeepsJobStays DEF UserPrints, PausedOutcome, JobStates
  <1>2. CASE SdStops
    <2>1. (IF m.stats = "printing" THEN "paused" ELSE m.stats) \in JobStates
      BY ZenonT(30) DEF State, JobStates
    <2> QED BY <1>2, <2>1, StatsFacts, KeepsJobStays DEF SdStops, PausedOutcome
  <1>3. CASE JobEnds
    <2>1. PICK j \in {"complete", "error"} : m' = [m EXCEPT !.stats = j, !.stopping = FALSE]
      BY <1>3 DEF JobEnds
    <2>2. j \in JobStates BY DEF JobStates
    <2>3. KeepsJob(m, m') BY <2>1, <2>2, StatsFacts
    <2> QED BY <2>3, KeepsJobStays DEF PausedOutcome
  <1>4. CASE ToolheadMoves
    BY <1>4, ToolheadMoveFacts, MovedOutcome DEF ToolheadMoves, Becomes, PausedOutcome
  <1>5. CASE ToolheadDrains
    <2> DEFINE u == [m EXCEPT !.idle = "Ready"]
    <2>1. u \in State /\ KeepsJob(m, u) BY ReadyFacts
    <2> HIDE DEF u
    <2>2. KeepsJob(u, HandleIdleTimeoutEvent(u, "ready"))
      BY <2>1, EventFacts, Zenon DEF Events, StartDetected
    <2>3. KeepsJob(m, m') BY <1>5, <2>1, <2>2 DEF u, ToolheadDrains, Becomes, KeepsJob
    <2> QED BY <2>3, KeepsJobStays DEF PausedOutcome
  <1>6. CASE IdleTimesOut
    <2> DEFINE u == [m EXCEPT !.idle = "Idle", !.target = "off"]
    <2>1. /\ u \in State /\ u.print_state = m.print_state
          /\ u.resume_to = m.resume_to /\ u.paused_temp = m.paused_temp
      BY IdleFacts DEF KeepsPause
    <2> HIDE DEF u
    <2>2. KeepsJob(u, HandleIdleTimeoutEvent(u, "idle"))
      BY <2>1, EventFacts, Zenon DEF Events, StartDetected
    <2>3. m' = HandleIdleTimeoutEvent(u, "idle") BY <1>6 DEF u, IdleTimesOut, Becomes
    <2>4. Stays(m, m') BY <2>1, <2>2, <2>3 DEF Stays, KeepsJob, IsMmuPaused
    <2> QED BY <2>4 DEF PausedOutcome
  <1>7. CASE SetTemperature
    <2>1. Stays(m, m') BY <1>7, TargetFacts DEF SetTemperature, KeepsPause, Stays, IsMmuPaused
    <2> QED BY <2>1 DEF PausedOutcome
  <1> QED BY <1>1, <1>2, <1>3, <1>4, <1>5, <1>6, <1>7

LEMMA PausedResumeStep ==
  ASSUME IInv, IsMmuPaused(m), ResumePrint PROVE PausedOutcome(m, m')
  <1> USE DEF IInv
  <1> DEFINE unlocked == IF m.print_state = "pause_locked" THEN MmuUnlock(m) ELSE m
  <1>1. m \in State BY DEF Safe
  <1>2. /\ Safe(unlocked) /\ unlocked.print_state = "paused"
        /\ unlocked.resume_to = m.resume_to /\ unlocked.paused_temp = m.paused_temp
    BY <1>1, MmuUnlockSafe, UnlockFacts DEF IsMmuPaused
  <1> HIDE DEF unlocked
  <1>3. CASE ~m.enabled
    BY <1>1, <1>3, BaseResumeFacts, KeepsJobStays
    DEF ResumePrint, Command, Becomes, PausedOutcome
  <1>4. CASE m.enabled
    <2>1. PICK toolheadSensor \in BOOLEAN, found \in Positions :
            LET sensed == IF toolheadSensor
                          THEN [unlocked EXCEPT !.filament = "settled"] ELSE unlocked
            IN  Command(IF sensed.filament = "between"
                        THEN HandleMmuError(sensed, FALSE, found)
                        ELSE ContinueAfter(BaseResume(sensed), "resume"))
      BY <1>4 DEF ResumePrint, IsPaused, unlocked
    <2> DEFINE sensed == IF toolheadSensor
                         THEN [unlocked EXCEPT !.filament = "settled"] ELSE unlocked
    <2>2. /\ Safe(sensed) /\ sensed.print_state = "paused"
          /\ sensed.resume_to = m.resume_to /\ sensed.paused_temp = m.paused_temp
      <3> DEFINE t == [unlocked EXCEPT !.filament = "settled"]
      <3>1. Safe(t)
        BY <1>2, ZenonT(30) DEF Safe, State, Positions, TempKnown, TimerOff, IsMmuPaused, IsPrinting
      <3>2. /\ t.print_state = unlocked.print_state
            /\ t.resume_to = unlocked.resume_to /\ t.paused_temp = unlocked.paused_temp
        BY <1>2, ZenonT(30) DEF Safe, State
      <3> HIDE DEF t
      <3> QED BY <1>2, <3>1, <3>2 DEF t
    <2>3. m' = IF sensed.filament = "between" THEN HandleMmuError(sensed, FALSE, found)
               ELSE ContinueAfter(BaseResume(sensed), "resume")
      BY <2>1 DEF Command, Becomes
    <2> HIDE DEF sensed
    <2>4. IsMmuPaused(sensed) BY <2>2 DEF IsMmuPaused
    <2>5. Stays(sensed, HandleMmuError(sensed, FALSE, found))
      BY <2>2, <2>4, PausedErrorStays
    <2> DEFINE r == BaseResume(sensed)
    <2>6. r \in State /\ KeepsJob(sensed, r)
      BY <2>2, BaseResumeFacts, BaseResumeSafe DEF Safe
    <2> HIDE DEF r
    <2>7. IsMmuPaused(r) BY <2>4, <2>6 DEF KeepsJob, IsMmuPaused
    <2>8. Resumed(r, ContinueAfter(r, "resume")) BY <2>6, <2>7, ContinueFacts
    <2>9. ~m.stopping BY DEF ResumePrint
    <2>10. CASE sensed.filament = "between"
      BY <2>2, <2>3, <2>5, <2>10 DEF Stays, PausedOutcome
    <2>11. CASE sensed.filament # "between"
      <3>1. m' = ContinueAfter(r, "resume") BY <2>3, <2>11 DEF r
      <3>2. Resumes(m, m')
        BY <2>2, <2>6, <2>8, <2>9, <3>1 DEF Resumed, Resumes, KeepsJob
      <3> QED BY <3>2 DEF PausedOutcome
    <2> QED BY <2>10, <2>11
  <1> QED BY <1>3, <1>4

LEMMA PausedCommandStep ==
  ASSUME IInv, IsMmuPaused(m),
         SlicerPrintStart \/ SlicerPrintEnd \/ PausePrint \/ CancelPrint \/ ClearPause
  PROVE  PausedOutcome(m, m')
  <1> USE DEF IInv, Command, Becomes
  <1>0. m \in State /\ Stays(m, m) BY DEF Safe, Stays
  <1>1. CASE SlicerPrintStart
    BY <1>0, <1>1, PausedFixes DEF SlicerPrintStart, PausedOutcome
  <1>2. CASE SlicerPrintEnd
    BY <1>0, <1>2 DEF SlicerPrintEnd, PrintEndCommand, PausedOutcome
  <1>3. CASE PausePrint BY <1>3, PausedPauseOutcome DEF PausePrint
  <1>4. CASE CancelPrint
    <2>1. CASE m.enabled
      BY <1>4, <2>1, PausedFixes, PausedCancelOutcome DEF CancelPrint, PausedOutcome
    <2>2. CASE ~m.enabled
      BY <1>0, <1>4, <2>2, BaseCancelFacts, KeepsJobStays DEF CancelPrint, PausedOutcome
    <2> QED BY <2>1, <2>2
  <1>5. CASE ClearPause
    <2> DEFINE u == IF m.enabled /\ m.saved_op = "pause"
                    THEN [m EXCEPT !.saved_op = ""] ELSE m
    <2>1. KeepsJob(m, u) /\ Safe(u)
      <3>1. <<>> \in Seq(Callbacks) /\ "settled" \in Positions BY DEF Positions
      <3>2. Safe([m EXCEPT !.saved_op = ""])
        BY ZenonT(30) DEF Safe, State, TempKnown, TimerOff, IsMmuPaused, IsPrinting
      <3> QED BY <1>0, <3>1, <3>2, FieldFacts DEF KeepsJob
    <2>2. m' = BaseClear(u) BY <1>5 DEF ClearPause
    <2> HIDE DEF u
    <2>3. KeepsJob(m, m') BY <2>1, <2>2, BaseClearFacts DEF Safe, KeepsJob
    <2> QED BY <2>3, KeepsJobStays DEF PausedOutcome
  <1> QED BY <1>1, <1>2, <1>3, <1>4, <1>5

LEMMA PausedMmuStep ==
  ASSUME IInv, IsMmuPaused(m),
         MmuPause \/ MmuUnlockCommand \/ MmuRecover \/ ReinitMmu \/ MmuDisable
  PROVE  PausedOutcome(m, m')
  <1> USE DEF IInv, Command, Becomes
  <1>0. m \in State /\ Stays(m, m) BY DEF Safe, Stays
  <1>1. CASE MmuPause
    <2>1. PICK force \in {FALSE, AllowForce}, found \in Positions :
             m' = HandleMmuError(m, force, found)
      BY <1>1, PausedFixes DEF MmuPause
    <2>2. force \in BOOLEAN BY PrintJobAssumption
    <2> QED BY <2>1, <2>2, PausedErrorStays DEF PausedOutcome
  <1>2. CASE MmuUnlockCommand
    <2>1. Stays(m, MmuUnlock(m)) BY <1>0, UnlockFacts DEF Stays, IsMmuPaused
    <2> QED BY <1>0, <1>2, <2>1, PausedFixes DEF MmuUnlockCommand, PausedOutcome
  <1>3. CASE MmuRecover
    <2>1. <<>> \in Seq(Callbacks) OBVIOUS
    <2>2. PICK found \in Positions : m' = [m EXCEPT !.filament = found]
      BY <1>3, PausedFixes DEF MmuRecover
    <2>3. KeepsJob(m, m') BY <1>0, <2>1, <2>2, FieldFacts
    <2> QED BY <2>3, KeepsJobStays DEF PausedOutcome
  <1>4. CASE ReinitMmu
    <2> DEFINE t == Reinit(Wakeup(m))
    <2>1. Safe(t) /\ t.print_state = "ready"
      BY <1>0, WakeupSafe, ReinitSafe, ReinitFacts, PausedFixes
    <2> HIDE DEF t
    <2>2. t.pending \in Seq(Callbacks) BY <2>1, ZenonT(30) DEF Safe, State
    <2>3. "bootup" \in Callbacks /\ "settled" \in Positions BY DEF Callbacks, Positions
    <2>4. Append(MarkHandled(t.pending), "bootup") \in Seq(Callbacks)
      BY <2>2, <2>3, MarkHandledType
    <2>5. [t EXCEPT !.pending = Append(MarkHandled(t.pending), "bootup")].print_state = "ready"
      BY <2>1, <2>3, <2>4, FieldFacts DEF Safe, KeepsJob
    <2>6. m'.print_state = "ready" BY <1>4, <2>5 DEF t, ReinitMmu
    <2> QED BY <1>4, <2>6 DEF ReinitMmu, PausedOutcome, Resets
  <1>5. CASE MmuDisable
    BY <1>0, <1>5, DisableFacts DEF MmuDisable, PausedOutcome, Resets
  <1> QED BY <1>1, <1>2, <1>3, <1>4, <1>5

LEMMA PausedOperationStep ==
  ASSUME IInv, IsMmuPaused(m),
         \/ BeginOperation \/ NothingToDo \/ OperationHeats \/ MacroCallsPause
         \/ OperationSucceeds \/ OperationFails \/ HotendOffTimer
  PROVE  PausedOutcome(m, m')
  <1> USE DEF IInv, Command, Becomes
  <1>0. /\ m \in State /\ Stays(m, m) /\ op.monitored \in BOOLEAN
        /\ m.monitoring \in BOOLEAN /\ m.target \in Temps
    BY ZenonT(30) DEF Safe, State, Stays, Ops
  <1>1. CASE BeginOperation
    BY <1>1, PausedFixes, PausedBeginOutcome DEF BeginOperation, SavedOps
  <1>2. CASE NothingToDo
    BY <1>0, <1>2, PausedFixes DEF NothingToDo, PausedOutcome
  <1>3. CASE OperationHeats
    <2>1. "print" \in Temps BY DEF Temps
    <2>2. Stays(m, m')
      BY <1>0, <1>3, <2>1, TargetFacts
         DEF OperationHeats, EnsureTemperature, KeepsPause, Stays, IsMmuPaused
    <2> QED BY <2>2 DEF PausedOutcome
  <1>4. CASE MacroCallsPause BY <1>4, PausedErrorStays DEF MacroCallsPause, PausedOutcome
  <1>5. CASE OperationSucceeds
    <2> DEFINE moved == [m EXCEPT !.filament = "settled"]
               c == ContinueAfter(moved, op.kind)
               d == IF op.kind = "runout" THEN SendResume(c) ELSE c
    <2>1. <<>> \in Seq(Callbacks) /\ "settled" \in Positions BY DEF Positions
    <2>2. KeepsJob(m, moved) BY <1>0, <2>1, FieldFacts
    <2>3. Safe(moved)
      BY ZenonT(30) DEF Safe, State, Positions, TempKnown, TimerOff, IsMmuPaused, IsPrinting
    <2> HIDE DEF moved
    <2>4. op.kind # "resume" BY <1>5 DEF OperationSucceeds
    <2>5. KeepsJob(moved, c) /\ Safe(c)
      BY <2>3, <2>4, ContinueFacts, ContinueAfterSafe DEF Safe
    <2> HIDE DEF c
    <2>6. KeepsJob(c, d) /\ Safe(d)
      BY <2>5, SendResumeFacts, SendResumeSafe DEF Safe, KeepsJob
    <2> HIDE DEF d
    <2>7. m' = [d EXCEPT !.monitoring = op.monitored \/ d.monitoring]
      BY <1>5 DEF OperationSucceeds, ResumeMonitoring, d, c, moved
    <2>8. d.monitoring \in BOOLEAN BY <2>6, ZenonT(30) DEF Safe, State
    <2>9. (op.monitored \/ d.monitoring) \in BOOLEAN BY <1>0, <2>8
    <2>10. Stays(d, m') \/ ~IsMmuPaused(d)
      BY <2>6, <2>7, <2>9, MonitoringFacts DEF Safe, Stays, IsMmuPaused
    <2>11. Stays(m, m')
      BY <2>2, <2>5, <2>6, <2>10 DEF Stays, KeepsJob, IsMmuPaused
    <2> QED BY <2>11 DEF PausedOutcome
  <1>6. CASE OperationFails
    <2> DEFINE u == ResumeMonitoring(m)
    <2>1. Safe(u) BY ResumeMonitoringSafe
    <2>2. (op.monitored \/ m.monitoring) \in BOOLEAN BY <1>0
    <2>3. /\ u.print_state = m.print_state /\ u.resume_to = m.resume_to
          /\ u.paused_temp = m.paused_temp
      BY <1>0, <2>2, MonitoringFacts DEF ResumeMonitoring
    <2> HIDE DEF u
    <2>4. IsMmuPaused(u) BY <2>3 DEF IsMmuPaused
    <2>5. PICK found \in Positions : m' = HandleMmuError(u, FALSE, found)
      BY <1>6 DEF OperationFails, u
    <2>6. Stays(u, m') BY <2>1, <2>4, <2>5, PausedErrorStays
    <2> QED BY <2>3, <2>6 DEF Stays, PausedOutcome
  <1>7. CASE HotendOffTimer
    <2>1. (IF IsPrinting(m) THEN m.target ELSE "off") \in Temps
      BY <1>0 DEF Temps
    <2>2. Stays(m, m')
      BY <1>0, <1>7, <2>1, TimerFacts DEF HotendOffTimer, KeepsPause, Stays, IsMmuPaused
    <2> QED BY <2>2 DEF PausedOutcome
  <1> QED BY <1>1, <1>2, <1>3, <1>4, <1>5, <1>6, <1>7

LEMMA PausedQueueStep ==
  ASSUME IInv, IsMmuPaused(m),
         (\E kind \in {"runout", "clog"} : RaiseRunout(kind)) \/ RunQueued
  PROVE  PausedOutcome(m, m')
  <1> USE DEF IInv, Becomes
  <1>0. m \in State BY DEF Safe
  <1>1. CASE \E kind \in {"runout", "clog"} : RaiseRunout(kind)
    <2>1. PICK kind \in {"runout", "clog"} : RaiseRunout(kind) BY <1>1
    <2> DEFINE t == SendPause(m)
    <2>2. Safe(t) /\ KeepsJob(m, t) BY <1>0, SendPauseSafe, SendPauseFacts
    <2> HIDE DEF t
    <2>3. t.pending \in Seq(Callbacks) BY <2>2, ZenonT(30) DEF Safe, State
    <2>4. kind \in Callbacks /\ "settled" \in Positions BY DEF Callbacks, Runouts, Positions
    <2>5. Append(t.pending, kind) \in Seq(Callbacks) BY <2>3, <2>4
    <2>6. KeepsJob(t, [t EXCEPT !.pending = Append(t.pending, kind)])
      BY <2>2, <2>4, <2>5, FieldFacts DEF Safe
    <2>7. KeepsJob(m, m') BY <2>1, <2>2, <2>6 DEF t, RaiseRunout, KeepsJob
    <2> QED BY <2>7, KeepsJobStays DEF PausedOutcome
  <1> SUFFICES ASSUME RunQueued PROVE PausedOutcome(m, m')
    BY <1>1
  <1>2. m.pending # <<>> /\ ~m.stopping
    BY DEF RunQueued, IgnoreRunout, HandleRunout, RunoutAtExtruder, RunCallback, Deliver
  <1>3. /\ Safe(Dequeued) /\ SamePause(m, Dequeued) /\ KeepsJob(m, Dequeued)
        /\ IsMmuPaused(Dequeued)
    BY <1>2, DequeuedSafe, PausedDequeued, KeepsIsSamePause DEF KeepsJob, IsMmuPaused
  <1>4. FixStartedState(Dequeued) = Dequeued /\ PrintStartCommand(Dequeued) = Dequeued
    BY <1>3, PausedFixes
  <1>5. CASE \E kind \in Runouts : IgnoreRunout(kind)
    <2>1. m' = SendResume(Dequeued) BY <1>4, <1>5 DEF IgnoreRunout
    <2>2. KeepsJob(m, m') BY <1>3, <2>1, SendResumeFacts DEF Safe, KeepsJob
    <2> QED BY <2>2, KeepsJobStays DEF PausedOutcome
  <1>6. CASE \E kind \in Runouts : HandleRunout(kind)
    <2> DEFINE marked == [Dequeued EXCEPT !.pending = MarkHandled(Dequeued.pending)]
    <2>1. Dequeued.pending \in Seq(Callbacks) BY <1>3, ZenonT(30) DEF Safe, State
    <2>2. MarkHandled(Dequeued.pending) \in Seq(Callbacks) BY <2>1, MarkHandledType
    <2>3. "settled" \in Positions BY DEF Positions
    <2>4. Safe(marked) /\ SamePause(Dequeued, marked) /\ KeepsJob(Dequeued, marked)
      BY <1>3, <2>2, <2>3, FieldFacts, PendingSafe, KeepsIsSamePause DEF Safe
    <2> HIDE DEF marked
    <2>5. IsMmuPaused(marked) BY <1>3, <2>4 DEF KeepsJob, IsMmuPaused
    <2>6. FixStartedState(marked) = marked BY <2>5, PausedFixes
    <2>7. m' = SaveAndPark([marked EXCEPT !.monitoring = FALSE], "runout", TRUE)
      BY <1>6, <2>6 DEF HandleRunout, marked
    <2>8. PausedOutcome(marked, m') BY <2>4, <2>5, <2>7, PausedBeginOutcome DEF SavedOps
    <2> QED BY <1>3, <2>4, <2>8, SamePauseOutcome
  <1>7. CASE RunoutAtExtruder
    <2>1. PICK found \in Positions : m' = HandleMmuError(Dequeued, FALSE, found)
      BY <1>4, <1>7 DEF RunoutAtExtruder
    <2>2. Stays(Dequeued, m') BY <1>3, <2>1, PausedErrorStays
    <2> QED BY <1>3, <2>2, SamePauseOutcome DEF PausedOutcome
  <1>8. CASE RunCallback
    <2>1. m' = Dequeued \/ \E found \in Positions : m' = Bootup(Dequeued, found)
      BY <1>3, <1>4, <1>8 DEF RunCallback, PrintEndCommand
    <2>2. CASE m' = Dequeued
      BY <1>3, <2>2, KeepsJobStays DEF PausedOutcome
    <2>3. CASE \E found \in Positions : m' = Bootup(Dequeued, found)
      BY <1>2, <1>3, <2>3, BootupFacts DEF Safe, PausedOutcome, Resets
    <2> QED BY <2>1, <2>2, <2>3
  <1> QED BY <1>5, <1>6, <1>7, <1>8 DEF RunQueued

(* Every step that finds the MMU paused has one of the outcomes.           *)
LEMMA PausedStep ==
  ASSUME IInv, IsMmuPaused(m), [Next]_vars PROVE PausedOutcome(m, m')
  <1>1. CASE Next
    BY <1>1, PausedKlipperStep, PausedResumeStep, PausedCommandStep, PausedMmuStep,
       PausedOperationStep, PausedQueueStep DEF Next
  <1>2. CASE UNCHANGED vars
    BY <1>2 DEF vars, PausedOutcome, Stays
  <1> QED BY <1>1, <1>2

-----------------------------------------------------------------------------
(* In step with the job: what every handler keeps of guards and history. *)

(* Monitoring is on only where it may be, and a pause entered from a print *)
(* is resumed to it; the timers of a pause run only while it is locked.    *)
Watched(s) == IF AllowForce THEN ~IsMmuPaused(s) ELSE IsPrinting(s)
Armed(s) ==
    /\ s.monitoring => Watched(s)
    /\ IsMmuPaused(s) /\ ~AllowForce => s.resume_to = "printing"
Timers(s) ==
    /\ s.print_state = "pause_locked" => s.timeout = "pause"
    /\ s.off_timer => s.print_state = "pause_locked"
KeepsGuards(s, t) == (Armed(s) => Armed(t)) /\ (Timers(s) => Timers(t))

StopsPrinting(s) == s.stopping => s.stats = "printing"
Running == {"printing", "paused"}

(* What handlers do to the job as the driver has seen it: where parking    *)
(* moves, a pause is entered, and a print told to stop, only with the      *)
(* toolhead's activity seen.                                               *)
KeepsHistory(s, t) ==
    /\ t.enabled = s.enabled
    /\ IsMmuPaused(t) => IsMmuPaused(s) \/ s.enabled
    /\ StopsPrinting(s) => StopsPrinting(t)
    /\ ParkingMoves =>
         \/ t.idle = "Printing"
         \/ /\ KeepsSeen(s, t)
            /\ IsMmuPaused(t) => IsMmuPaused(s)
            /\ t.stopping => s.stopping \/ ~s.enabled
            /\ t.stats \in Running => s.stats \in Running

(* Follows: by handlers that may restart the SD print; FollowsQuietly: by  *)
(* handlers that do not.                                                   *)
Follows(s, t) ==
    /\ KeepsGuards(s, t) /\ KeepsHistory(s, t)
    /\ KeepsQueue(s, t)
FollowsQuietly(s, t) ==
    Follows(s, t) /\ (t.stats = "printing" => s.stats = "printing")

LEMMA FollowsTransitive ==
  ASSUME NEW s, NEW u, NEW t
  PROVE  /\ Follows(s, u) /\ Follows(u, t) => Follows(s, t)
         /\ FollowsQuietly(s, u) /\ FollowsQuietly(u, t) => FollowsQuietly(s, t)
  <1>1. KeepsGuards(s, u) /\ KeepsGuards(u, t) => KeepsGuards(s, t)
    BY DEF KeepsGuards
  <1>2. KeepsHistory(s, u) /\ KeepsHistory(u, t) => KeepsHistory(s, t)
    BY DEF KeepsHistory, KeepsSeen
  <1> QED BY <1>1, <1>2 DEF KeepsQueue, Follows, FollowsQuietly

LEMMA KeepsIsFollows ==
  ASSUME NEW s, NEW t, KeepsJob(s, t), KeepsKlipper(s, t), KeepsSeen(s, t),
         KeepsQueue(s, t)
  PROVE  FollowsQuietly(s, t)
  <1>1. KeepsGuards(s, t)
    BY DEF KeepsGuards, KeepsJob, Armed, Timers, Watched, IsMmuPaused, IsPrinting
  <1>2. KeepsHistory(s, t)
    BY DEF KeepsHistory, StopsPrinting, KeepsJob, KeepsKlipper, IsMmuPaused
  <1> QED BY <1>1, <1>2 DEF Follows, FollowsQuietly, KeepsKlipper

(* Handlers that leave the job to Klipper as it is.                        *)
LEMMA HistoryOfKlipper ==
  ASSUME NEW s, NEW t, KeepsKlipper(s, t), KeepsSeen(s, t), t.enabled = s.enabled,
         IsMmuPaused(t) => IsMmuPaused(s)
  PROVE  KeepsHistory(s, t)
  BY DEF KeepsHistory, StopsPrinting, KeepsKlipper

LEMMA KlipperFollows ==
  ASSUME NEW s \in State
  PROVE  /\ Follows(s, SendResume(s)) /\ Follows(s, BaseResume(s))
         /\ FollowsQuietly(s, BaseClear(s)) /\ FollowsQuietly(s, BaseCancel(s))
  <1>1. ASSUME NEW t, KeepsJob(s, t), KeepsSeen(s, t), t.pending = s.pending,
               t.stopping => s.stopping, s.stats = "printing" /\ t.stopping => t.stats = "printing",
               t.stats \in Running => s.stats \in Running
        PROVE  Follows(s, t)
    <2>1. KeepsGuards(s, t)
      BY <1>1 DEF KeepsGuards, KeepsJob, Armed, Timers, Watched, IsMmuPaused, IsPrinting
    <2>2. KeepsHistory(s, t)
      BY <1>1 DEF KeepsHistory, StopsPrinting, KeepsJob, IsMmuPaused
    <2> QED BY <1>1, <2>1, <2>2 DEF KeepsQueue, Follows
  <1>2. FollowsQuietly(s, BaseClear(s))
    BY <1>1, BaseClearFacts DEF FollowsQuietly
  <1>3. FollowsQuietly(s, BaseCancel(s))
    <2> DEFINE t == BaseCancel(s)
    <2>1. /\ KeepsJob(s, t) /\ KeepsSeen(s, t) /\ t.pending = s.pending
          /\ t.stats = (IF s.stats \in {"printing", "paused"} THEN "cancelled" ELSE s.stats)
          /\ ~t.stopping
      BY BaseCancelFacts
    <2> HIDE DEF t
    <2>2. t.stats \notin Running BY <2>1 DEF Running
    <2>3. t.stats # "printing" BY <2>2 DEF Running
    <2> QED BY <1>1, <2>1, <2>2, <2>3 DEF FollowsQuietly, t
  <1>4. Follows(s, SendResume(s))
    <2> DEFINE t == SendResume(s)
    <2>1. /\ KeepsJob(s, t) /\ KeepsSeen(s, t) /\ t.pending = s.pending
          /\ t.stats = (IF s.stats = "paused" THEN "printing" ELSE s.stats)
          /\ t.stopping = s.stopping
      BY SendResumeFacts
    <2> HIDE DEF t
    <2> QED BY <1>1, <2>1, Zenon DEF Running, t
  <1>5. Follows(s, BaseResume(s))
    <2> DEFINE t == BaseResume(s)
    <2>1. /\ KeepsJob(s, t) /\ KeepsSeen(s, t) /\ t.pending = s.pending
          /\ t.stats = (IF s.is_paused /\ s.stats = "paused" THEN "printing" ELSE s.stats)
          /\ t.stopping = s.stopping
      BY BaseResumeFacts
    <2> HIDE DEF t
    <2> QED BY <1>1, <2>1, Zenon DEF Running, t
  <1> QED BY <1>2, <1>3, <1>4, <1>5

LEMMA StartFollows ==
  ASSUME NEW s \in State, NEW b \in BOOLEAN
  PROVE  FollowsQuietly(s, OnPrintStart(s, b))
  <1> DEFINE t == OnPrintStart(s, b)
  <1>1. /\ KeepsKlipper(s, t) /\ KeepsSeen(s, t) /\ t.pending = s.pending
        /\ t.enabled = s.enabled
        /\ IsPrinting(s) => t.monitoring = s.monitoring /\ t.off_timer = s.off_timer
        /\ ~IsPrinting(s) => t.monitoring /\ ~t.off_timer
    BY OnPrintStartFacts
  <1>2. IsPrinting(t)
    <2>1. b /\ ~IsPrinting(s) => t.print_state = "started" BY OnPrintStartFacts
    <2>2. ~b => t.print_state = "printing" BY OnPrintStartFacts
    <2>3. b /\ IsPrinting(s) => t = s BY DEF OnPrintStart
    <2> HIDE DEF t
    <2> QED BY <2>1, <2>2, <2>3 DEF IsPrinting
  <1> HIDE DEF t
  <1>3. ~IsMmuPaused(t) /\ Watched(t) /\ t.print_state # "pause_locked"
    BY <1>2, Zenon DEF IsPrinting, IsMmuPaused, Watched
  <1>4. IsPrinting(s) => s.print_state # "pause_locked" BY DEF IsPrinting
  <1>5. KeepsGuards(s, t) BY <1>1, <1>3, <1>4 DEF KeepsGuards, Armed, Timers
  <1>6. KeepsHistory(s, t) BY <1>1, <1>3, HistoryOfKlipper
  <1> QED BY <1>1, <1>5, <1>6 DEF KeepsQueue, FollowsQuietly, Follows, KeepsKlipper, t

LEMMA FixFollows ==
  ASSUME NEW s \in State
  PROVE  FollowsQuietly(s, PrintStartCommand(s)) /\ FollowsQuietly(s, FixStartedState(s))
  <1>1. FollowsQuietly(s, s) BY KeepsIsFollows DEF KeepsQueue, KeepsJob, KeepsKlipper, KeepsSeen
  <1> QED BY <1>1, StartFollows DEF PrintStartCommand, FixStartedState

LEMMA MovedFollows ==
  ASSUME NEW s, NEW t, Moved(s, t), t.idle = "Printing" \/ KeepsSeen(s, t) \/ ~ParkingMoves
  PROVE  FollowsQuietly(s, t)
  <1>1. IsMmuPaused(t) => IsMmuPaused(s)
    BY Zenon DEF Moved, KeepsJob, IsMmuPaused
  <1>2. KeepsHistory(s, t)
    BY <1>1 DEF Moved, KeepsHistory, StopsPrinting, KeepsKlipper
  <1>3. CASE KeepsJob(s, t)
    <2>1. KeepsGuards(s, t)
      BY <1>3 DEF KeepsGuards, KeepsJob, Armed, Timers, Watched, IsMmuPaused, IsPrinting
    <2> QED BY <1>2, <2>1 DEF Moved, FollowsQuietly, Follows, KeepsKlipper
  <1>4. CASE t.print_state = "started" /\ ~t.off_timer
    <2>1. Watched(t) /\ ~IsMmuPaused(t) /\ t.print_state # "pause_locked"
      BY <1>4, Zenon DEF Watched, IsMmuPaused, IsPrinting
    <2>2. KeepsGuards(s, t) BY <1>4, <2>1 DEF KeepsGuards, Armed, Timers
    <2> QED BY <1>2, <2>2 DEF Moved, FollowsQuietly, Follows, KeepsKlipper
  <1> QED BY <1>3, <1>4 DEF Moved

LEMMA ParkFollows ==
  ASSUME NEW s \in State, NEW o \in SavedOps, NEW homed \in BOOLEAN
  PROVE  FollowsQuietly(s, SaveAndPark(s, o, homed))
  <1> DEFINE t == SaveAndPark(s, o, homed)
  <1>1. Moved(s, t) BY SaveAndParkFacts
  <1>2. t.idle = "Printing" \/ KeepsSeen(s, t) \/ ~ParkingMoves
    BY <1>1 DEF Moved
  <1> HIDE DEF t
  <1> QED BY <1>1, <1>2, MovedFollows DEF t

LEMMA EndFollows ==
  ASSUME NEW s \in State, NEW end \in EndsUsed
  PROVE  FollowsQuietly(s, OnPrintEnd(s, end))
  <1> DEFINE t == OnPrintEnd(s, end)
  <1>1. /\ KeepsKlipper(s, t) /\ KeepsSeen(s, t) /\ t.pending = s.pending
        /\ t.enabled = s.enabled
        /\ \/ t.print_state = end /\ ~t.monitoring /\ ~t.off_timer
           \/ /\ s.print_state \in EndStates
              /\ t.print_state \in {s.print_state, "standby"}
              /\ t.monitoring = s.monitoring /\ t.off_timer = s.off_timer
    BY OnPrintEndFacts
  <1> HIDE DEF t
  <1>2. t.print_state \in EndStates BY <1>1, Zenon DEF EndsUsed, EndStates
  <1>3. \A p \in EndStates : p \notin {"pause_locked", "paused", "started", "printing"}
    BY Zenon DEF EndStates
  <1>4. ~IsMmuPaused(t) /\ t.print_state # "pause_locked"
    BY <1>2, <1>3, Zenon DEF IsMmuPaused
  <1>5. s.print_state \in EndStates =>
          ~IsPrinting(s) /\ s.print_state # "pause_locked"
    BY <1>3, Zenon DEF IsPrinting
  <1>6. KeepsGuards(s, t)
    BY <1>1, <1>4, <1>5, Zenon DEF KeepsGuards, Armed, Timers, Watched
  <1>7. KeepsHistory(s, t) BY <1>1, <1>4, HistoryOfKlipper
  <1> QED BY <1>1, <1>6, <1>7 DEF KeepsQueue, FollowsQuietly, Follows, KeepsKlipper, t

LEMMA EndCommandFollows ==
  ASSUME NEW s, Safe(s), NEW end \in EndsUsed, NEW i \in BOOLEAN, NEW homed \in BOOLEAN
  PROVE  FollowsQuietly(s, PrintEndCommand(s, end, i, homed))
  <1>1. FollowsQuietly(s, s) BY KeepsIsFollows DEF KeepsQueue, KeepsJob, KeepsKlipper, KeepsSeen
  <1> DEFINE u == SaveAndPark(s, "complete", homed)
  <1>2. Safe(u) /\ FollowsQuietly(s, u) BY SaveAndParkSafe, ParkFollows DEF Safe, SavedOps
  <1>3. FollowsQuietly(s, OnPrintEnd(s, end)) BY EndFollows DEF Safe
  <1>4. FollowsQuietly(s, OnPrintEnd(u, end))
    <2> HIDE DEF u
    <2> QED BY <1>2, EndFollows, FollowsTransitive DEF Safe
  <1> QED BY <1>1, <1>3, <1>4 DEF PrintEndCommand

LEMMA SuspendFollows ==
  ASSUME NEW s \in State PROVE FollowsQuietly(s, [s EXCEPT !.monitoring = FALSE])
  <1> DEFINE t == [s EXCEPT !.monitoring = FALSE]
  <1>1. /\ KeepsKlipper(s, t) /\ KeepsSeen(s, t) /\ t.pending = s.pending
        /\ t.print_state = s.print_state /\ t.resume_to = s.resume_to
        /\ t.off_timer = s.off_timer /\ t.timeout = s.timeout /\ t.enabled = s.enabled
        /\ ~t.monitoring
    BY MonitoringFacts
  <1> HIDE DEF t
  <1>2. KeepsGuards(s, t) BY <1>1 DEF KeepsGuards, Armed, Timers, IsMmuPaused
  <1>3. KeepsHistory(s, t) BY <1>1, HistoryOfKlipper DEF IsMmuPaused
  <1> QED BY <1>1, <1>2, <1>3 DEF KeepsQueue, FollowsQuietly, Follows, KeepsKlipper, t

LEMMA WakeupFollows == ASSUME NEW s \in State PROVE FollowsQuietly(s, Wakeup(s))
  <1> DEFINE t == Wakeup(s)
  <1>1. /\ KeepsKlipper(s, t) /\ KeepsSeen(s, t) /\ t.pending = s.pending
        /\ t.monitoring = s.monitoring /\ t.off_timer = s.off_timer
        /\ t.timeout = s.timeout /\ t.enabled = s.enabled
        /\ t = s \/ (s.print_state = "standby" /\ t.print_state = "idle")
    BY WakeupFacts
  <1> HIDE DEF t
  <1>2. CASE t = s
    BY <1>2, KeepsIsFollows DEF KeepsQueue, KeepsJob, KeepsKlipper, KeepsSeen, t
  <1>3. CASE s.print_state = "standby" /\ t.print_state = "idle"
    <2>1. ~IsMmuPaused(t) /\ ~IsPrinting(s) BY <1>3, Zenon DEF IsMmuPaused, IsPrinting
    <2>2. KeepsGuards(s, t)
      BY <1>1, <1>3, <2>1 DEF KeepsGuards, Armed, Timers, Watched
    <2>3. KeepsHistory(s, t) BY <1>1, <2>1, HistoryOfKlipper
    <2> QED BY <1>1, <2>2, <2>3 DEF KeepsQueue, FollowsQuietly, Follows, KeepsKlipper, t
  <1> QED BY <1>1, <1>2, <1>3

LEMMA LockedFollows ==
  ASSUME NEW s \in State, NEW t, NEW r, s.enabled, Locked(s, t, r),
         r = "printing" \/ AllowForce
  PROVE  FollowsQuietly(s, t)
  <1>1. KeepsGuards(s, t) BY DEF KeepsGuards, Locked, Armed, Timers, IsMmuPaused
  <1>2. KeepsHistory(s, t)
    BY DEF KeepsHistory, Locked, StopsPrinting, IsMmuPaused
  <1> QED BY <1>1, <1>2 DEF FollowsQuietly, Follows, Locked

LEMMA ErrorFollows ==
  ASSUME NEW s, Safe(s), s.enabled, NEW force \in BOOLEAN, force => AllowForce,
         NEW found \in Positions
  PROVE  FollowsQuietly(s, HandleMmuError(s, force, found))
  <1> DEFINE t == HandleMmuError(s, force, found)
  <1>1. \/ /\ KeepsJob(s, t) /\ KeepsKlipper(s, t) /\ KeepsSeen(s, t)
           /\ t.pending = s.pending
        \/ Locked(s, t, "printing")
        \/ force /\ Locked(s, t, "ready")
    BY ErrorFacts
  <1> HIDE DEF t
  <1> QED BY <1>1, LockedFollows, KeepsIsFollows DEF KeepsQueue, Safe, t

LEMMA PauseFollows ==
  ASSUME NEW s, Safe(s) PROVE FollowsQuietly(s, PauseCommand(s))
  <1> DEFINE f == FixStartedState(s)
             u == SaveAndPark(f, "pause", TRUE)
  <1>1. ASSUME NEW v, Safe(v), v.enabled => ~ParkingMoves \/ v.idle = "Printing"
        PROVE  FollowsQuietly(v, BasePause(v))
    <2> DEFINE t == BasePause(v)
    <2>1. /\ KeepsJob(v, t) /\ KeepsSeen(v, t) /\ t.pending = v.pending
          /\ t.stats = v.stats
          /\ t.stopping => v.stopping \/ v.stats = "printing"
      BY <1>1, BasePauseFacts DEF Safe
    <2> HIDE DEF t
    <2>2. KeepsGuards(v, t)
      BY <2>1 DEF KeepsGuards, KeepsJob, Armed, Timers, Watched, IsMmuPaused, IsPrinting
    <2>3. KeepsHistory(v, t)
      BY <1>1, <2>1 DEF KeepsHistory, StopsPrinting, KeepsJob, KeepsSeen, IsMmuPaused
    <2> QED BY <2>1, <2>2, <2>3 DEF KeepsQueue, FollowsQuietly, Follows, t
  <1>2. CASE ~s.enabled BY <1>1, <1>2 DEF PauseCommand
  <1>3. CASE s.enabled
    <2>1. Safe(f) /\ FollowsQuietly(s, f) BY FixStartedStateSafe, FixFollows DEF Safe
    <2> HIDE DEF f
    <2>2. Safe(u) /\ FollowsQuietly(f, u) BY <2>1, SaveAndParkSafe, ParkFollows DEF Safe, SavedOps
    <2>3. ParkingMoves => u.idle = "Printing" BY <2>1, SaveAndParkFacts DEF Safe, SavedOps
    <2> HIDE DEF u
    <2>4. FollowsQuietly(u, BasePause(u)) BY <1>1, <2>2, <2>3
    <2>5. FollowsQuietly(s, BasePause(u)) BY <2>1, <2>2, <2>4, FollowsTransitive
    <2> QED BY <1>3, <2>5 DEF PauseCommand, f, u
  <1> QED BY <1>2, <1>3

LEMMA UnlockFollows ==
  ASSUME NEW s \in State, IsMmuPaused(s) PROVE FollowsQuietly(s, MmuUnlock(s))
  <1> DEFINE t == MmuUnlock(s)
  <1>1. /\ KeepsKlipper(s, t) /\ KeepsSeen(s, t) /\ t.pending = s.pending
        /\ t.print_state = "paused" /\ t.resume_to = s.resume_to
        /\ t.monitoring = s.monitoring /\ ~t.off_timer /\ t.enabled = s.enabled
    BY UnlockFacts
  <1> HIDE DEF t
  <1>2. ~Watched(s) BY Zenon DEF Watched, IsMmuPaused, IsPrinting
  <1>3. KeepsGuards(s, t) BY <1>1, <1>2 DEF KeepsGuards, Armed, Timers
  <1>4. KeepsHistory(s, t) BY <1>1, HistoryOfKlipper
  <1> QED BY <1>1, <1>3, <1>4 DEF KeepsQueue, FollowsQuietly, Follows, KeepsKlipper, t

LEMMA ContinueFollows ==
  ASSUME NEW s \in State, NEW o, o = "resume" => s.print_state # "pause_locked"
  PROVE  FollowsQuietly(s, ContinueAfter(s, o))
  <1> DEFINE t == ContinueAfter(s, o)
  <1>1. /\ KeepsKlipper(s, t) /\ KeepsSeen(s, t) /\ t.pending = s.pending
        /\ \/ KeepsJob(s, t)
           \/ IsMmuPaused(s) /\ o = "resume" /\ Resumed(s, t)
    BY ContinueFacts
  <1>2. s.resume_to \in {"ready", "printing"} BY ZenonT(30) DEF State
  <1> HIDE DEF t
  <1>3. CASE KeepsJob(s, t) BY <1>1, <1>3, KeepsIsFollows DEF KeepsQueue, t
  <1>4. CASE IsMmuPaused(s) /\ o = "resume" /\ Resumed(s, t)
    <2>1. ~IsMmuPaused(t) /\ t.print_state # "pause_locked"
      BY <1>2, <1>4, Zenon DEF Resumed, IsMmuPaused
    <2>2. s.resume_to = "printing" => Watched(t)
      BY <1>4, <2>1, Zenon DEF Resumed, Watched, IsPrinting
    <2>3. KeepsGuards(s, t)
      BY <1>4, <2>1, <2>2 DEF KeepsGuards, Armed, Timers, Resumed, Watched
    <2>4. KeepsHistory(s, t) BY <1>1, <1>4, <2>1, HistoryOfKlipper DEF Resumed
    <2> QED BY <1>1, <2>3, <2>4 DEF KeepsQueue, FollowsQuietly, Follows, KeepsKlipper, t
  <1> QED BY <1>1, <1>3, <1>4

LEMMA BootupFollows ==
  ASSUME NEW s \in State, NEW found \in Positions
  PROVE  /\ KeepsHistory(s, Bootup(s, found)) /\ (Armed(s) => Armed(Bootup(s, found)))
         /\ Bootup(s, found).pending = s.pending /\ Bootup(s, found).stats = s.stats
  <1> DEFINE t == Bootup(s, found)
  <1>1. /\ KeepsKlipper(s, t) /\ KeepsSeen(s, t) /\ t.pending = s.pending
        /\ t.print_state = "initialized" /\ ~t.monitoring /\ t.enabled = s.enabled
    BY BootupFacts
  <1> HIDE DEF t
  <1>2. ~IsMmuPaused(t) BY <1>1 DEF IsMmuPaused
  <1> QED BY <1>1, <1>2, HistoryOfKlipper DEF Armed, KeepsKlipper, t

LEMMA FieldFollows ==
  ASSUME NEW s \in State, NEW q \in Seq(Callbacks), NEW p \in Positions
  PROVE  /\ FollowsQuietly(s, [s EXCEPT !.filament = p])
         /\ FollowsQuietly(s, [s EXCEPT !.saved_op = ""])
         /\ (HasRunout(s.pending) => HasRunout(q)) /\ (HasBootup(q) => HasBootup(s.pending))
              => FollowsQuietly(s, [s EXCEPT !.pending = q])
  <1>1. ASSUME NEW t, KeepsJob(s, t), KeepsKlipper(s, t), KeepsSeen(s, t),
               t.pending = s.pending
        PROVE  FollowsQuietly(s, t)
    BY <1>1, KeepsIsFollows DEF KeepsQueue
  <1>2. FollowsQuietly(s, [s EXCEPT !.filament = p]) BY <1>1, FieldFacts
  <1>3. FollowsQuietly(s, [s EXCEPT !.saved_op = ""]) BY <1>1, FieldFacts
  <1>4. ASSUME HasRunout(s.pending) => HasRunout(q), HasBootup(q) => HasBootup(s.pending)
        PROVE  FollowsQuietly(s, [s EXCEPT !.pending = q])
    <2> DEFINE t == [s EXCEPT !.pending = q]
    <2>1. KeepsJob(s, t) /\ KeepsKlipper(s, t) /\ KeepsSeen(s, t) /\ t.pending = q
      BY FieldFacts
    <2> HIDE DEF t
    <2> QED BY <1>4, <2>1, KeepsIsFollows DEF KeepsQueue, t
  <1> QED BY <1>2, <1>3, <1>4

LEMMA TargetFollows ==
  ASSUME NEW s \in State, NEW g \in Temps
  PROVE  /\ FollowsQuietly(s, [s EXCEPT !.target = g])
         /\ FollowsQuietly(s, [s EXCEPT !.off_timer = FALSE, !.target = g])
  <1>1. ASSUME NEW t, KeepsPause(s, t), KeepsSeen(s, t), t.off_timer => s.off_timer
        PROVE  FollowsQuietly(s, t)
    <2>1. KeepsGuards(s, t)
      BY <1>1 DEF KeepsGuards, KeepsPause, Armed, Timers, Watched, IsMmuPaused, IsPrinting
    <2>2. KeepsHistory(s, t) BY <1>1, HistoryOfKlipper DEF KeepsPause, IsMmuPaused
    <2> QED BY <1>1, <2>1, <2>2 DEF FollowsQuietly, Follows, KeepsPause, KeepsKlipper, KeepsQueue
  <1> QED BY <1>1, TargetFacts, TimerFacts

(* The end of a job, and the stop of the SD print.                         *)
LEMMA StatsFollows ==
  ASSUME NEW s \in State, NEW j \in JobStates, j # "printing",
         j \in Running => s.stats \in Running
  PROVE  FollowsQuietly(s, [s EXCEPT !.stopping = FALSE, !.stats = j])
  <1> DEFINE t == [s EXCEPT !.stopping = FALSE, !.stats = j]
  <1>1. /\ KeepsJob(s, t) /\ KeepsSeen(s, t) /\ t.pending = s.pending
        /\ t.stats = j /\ ~t.stopping
    BY StatsFacts
  <1> HIDE DEF t
  <1>2. KeepsGuards(s, t)
    BY <1>1 DEF KeepsGuards, KeepsJob, Armed, Timers, Watched, IsMmuPaused, IsPrinting
  <1>3. KeepsHistory(s, t)
    BY <1>1 DEF KeepsHistory, StopsPrinting, KeepsJob, IsMmuPaused
  <1> QED BY <1>1, <1>2, <1>3 DEF FollowsQuietly, Follows, KeepsQueue, t

(* The history of a pause: why a detected job start cannot take it away.   *)
(* The SD print is told to stop only while it prints; a disabled MMU has no*)
(* pause and runs no operation; where parking moves, a pause is entered    *)
(* with the toolhead active, and the job is seen once it is not.           *)
PauseHistory(s) ==
    /\ StopsPrinting(s)
    /\ ~s.enabled => ~IsMmuPaused(s)
    /\ ParkingMoves /\ IsMmuPaused(s) /\ ~s.new_job /\ s.stats \in Running
         => s.idle = "Printing" \/ s.last_stats \in Running
EnabledOp == op.kind # "none" => m.enabled
JobInv == IInv /\ PauseHistory(m) /\ EnabledOp

LEMMA HistoryKept ==
  ASSUME NEW s, NEW t, KeepsHistory(s, t), PauseHistory(s) PROVE PauseHistory(t)
  BY DEF KeepsHistory, PauseHistory, KeepsSeen

(* What a step does to the guards of the pause: op is the operation before *)
(* the step.                                                               *)
GuardStep(s, t) ==
    /\ Armed(s) /\ (op.monitored => Watched(s)) => Armed(t)
    /\ ~AllowBoot /\ Timers(s) /\ ~HasBootup(s.pending)
         => Timers(t) /\ ~HasBootup(t.pending)

(* No restart of the SD print; what is known of any step that no queued    *)
(* command takes; the events it may not lose.                              *)
Quiet(s, t) == t.stats = "printing" => s.stats = "printing"
Tracked(s, t) == GuardStep(s, t) /\ KeepsHistory(s, t)
KeepsRunouts(s, t) == HasRunout(s.pending) => HasRunout(t.pending)

LEMMA FollowsTracked ==
  ASSUME NEW s, NEW t
  PROVE  /\ Follows(s, t) => Tracked(s, t) /\ KeepsRunouts(s, t)
         /\ FollowsQuietly(s, t) => Tracked(s, t) /\ KeepsRunouts(s, t) /\ Quiet(s, t)
  BY DEF Tracked, GuardStep, KeepsGuards, Follows, FollowsQuietly, KeepsQueue, Quiet,
         KeepsRunouts

LEMMA TrackedFollows ==
  ASSUME NEW s, NEW u, NEW t, Tracked(s, u), Follows(u, t)
  PROVE  Tracked(s, t)
  <1>1. GuardStep(s, t) BY DEF Tracked, GuardStep, Follows, KeepsGuards, KeepsQueue
  <1>2. KeepsHistory(s, t) BY DEF Tracked, Follows, KeepsHistory, KeepsSeen
  <1> QED BY <1>1, <1>2 DEF Tracked

LEMMA QuietTransitive ==
  ASSUME NEW s, NEW u, NEW t, Quiet(s, u), Quiet(u, t) PROVE Quiet(s, t)
  BY DEF Quiet

(* The end of an operation resumes the monitoring it suspended.            *)
LEMMA ResumeMonitoringTracked ==
  ASSUME NEW s, Safe(s), op \in Ops
  PROVE  /\ Tracked(s, ResumeMonitoring(s)) /\ Quiet(s, ResumeMonitoring(s))
         /\ ResumeMonitoring(s).enabled = s.enabled
         /\ ResumeMonitoring(s).print_state = s.print_state
         /\ KeepsKlipper(s, ResumeMonitoring(s))
         /\ ResumeMonitoring(s).pending = s.pending
  <1> DEFINE t == ResumeMonitoring(s)
  <1>1. op.monitored \in BOOLEAN /\ s.monitoring \in BOOLEAN
    BY ZenonT(30) DEF Ops, Safe, State
  <1>2. (op.monitored \/ s.monitoring) \in BOOLEAN BY <1>1
  <1>3. /\ KeepsKlipper(s, t) /\ KeepsSeen(s, t) /\ t.pending = s.pending
        /\ t.print_state = s.print_state /\ t.resume_to = s.resume_to
        /\ t.off_timer = s.off_timer /\ t.timeout = s.timeout /\ t.enabled = s.enabled
        /\ t.monitoring = (op.monitored \/ s.monitoring)
    BY <1>2, MonitoringFacts DEF ResumeMonitoring, Safe
  <1> HIDE DEF t
  <1>4. GuardStep(s, t)
    BY <1>3 DEF GuardStep, Armed, Timers, Watched, IsMmuPaused, IsPrinting
  <1>5. KeepsHistory(s, t) BY <1>3, HistoryOfKlipper DEF IsMmuPaused
  <1> QED BY <1>3, <1>4, <1>5 DEF Tracked, Quiet, KeepsKlipper, t

(* Every action tracks the job, and only a resume and the handlers of      *)
(* runouts restart the SD print.                                           *)
LEMMA KlipperTracked ==
  ASSUME IInv, SdStops \/ JobEnds \/ ToolheadMoves \/ SetTemperature
  PROVE  Tracked(m, m') /\ KeepsRunouts(m, m') /\ Quiet(m, m')
  <1> USE DEF IInv, Safe
  <1>1. CASE SdStops
    <2>1. m.stats \in JobStates BY ZenonT(30) DEF State
    <2> DEFINE j == IF m.stats = "printing" THEN "paused" ELSE m.stats
    <2>2. j \in JobStates /\ j # "printing" /\ (j \in Running => m.stats \in Running)
      BY <2>1, Zenon DEF JobStates, Running
    <2>3. m' = [m EXCEPT !.stopping = FALSE, !.stats = j] BY <1>1 DEF SdStops
    <2> HIDE DEF j
    <2> QED BY <2>2, <2>3, StatsFollows, FollowsTracked
  <1>2. CASE JobEnds
    <2>1. PICK j \in {"complete", "error"} : m' = [m EXCEPT !.stats = j, !.stopping = FALSE]
      BY <1>2 DEF JobEnds
    <2>2. j \in JobStates /\ j # "printing" /\ j \notin Running
      BY Zenon DEF JobStates, Running
    <2>3. m' = [m EXCEPT !.stopping = FALSE, !.stats = j] BY <2>1, <2>2, StatsFacts
    <2> QED BY <2>2, <2>3, StatsFollows, FollowsTracked
  <1>3. CASE ToolheadMoves
    <2>1. m' = ToolheadMove(m) BY <1>3 DEF ToolheadMoves, Becomes
    <2> QED BY <2>1, ToolheadMoveFacts, MovedFollows, FollowsTracked
  <1>4. CASE SetTemperature
    BY <1>4, TargetFollows, FollowsTracked DEF SetTemperature
  <1> QED BY <1>1, <1>2, <1>3, <1>4

LEMMA ResumeTracked ==
  ASSUME JobInv, ResumePrint
  PROVE  /\ Tracked(m, m') /\ KeepsRunouts(m, m')
         /\ Quiet(m, m') \/ ~IsMmuPaused(m')
  <1> USE DEF JobInv, IInv
  <1> DEFINE unlocked == IF m.print_state = "pause_locked" THEN MmuUnlock(m) ELSE m
  <1>0. FollowsQuietly(m, m)
    BY KeepsIsFollows DEF KeepsJob, KeepsKlipper, KeepsSeen, KeepsQueue
  <1>1. m \in State BY DEF Safe
  <1>2. /\ Safe(unlocked) /\ unlocked.print_state # "pause_locked"
        /\ unlocked.enabled = m.enabled
        /\ FollowsQuietly(m, unlocked)
    BY <1>0, <1>1, MmuUnlockSafe, UnlockFacts, UnlockFollows DEF IsMmuPaused
  <1> HIDE DEF unlocked
  <1>3. CASE ~m.enabled
    <2>1. m' = BaseResume(m) BY <1>3 DEF ResumePrint, Command, Becomes
    <2>2. KeepsJob(m, m') BY <1>1, <2>1, BaseResumeFacts
    <2>3. ~IsMmuPaused(m') BY <1>3, <2>2 DEF PauseHistory, KeepsJob, IsMmuPaused
    <2> QED BY <1>1, <2>1, <2>3, KlipperFollows, FollowsTracked
  <1>4. CASE m.enabled /\ ~IsPaused(m)
    BY <1>0, <1>4, FollowsTracked DEF ResumePrint, Command, Becomes
  <1>5. CASE m.enabled /\ IsPaused(m)
    <2>1. PICK toolheadSensor \in BOOLEAN, found \in Positions :
            LET sensed == IF toolheadSensor
                          THEN [unlocked EXCEPT !.filament = "settled"] ELSE unlocked
            IN  Command(IF sensed.filament = "between"
                        THEN HandleMmuError(sensed, FALSE, found)
                        ELSE ContinueAfter(BaseResume(sensed), "resume"))
      BY <1>5 DEF ResumePrint, unlocked
    <2> DEFINE sensed == IF toolheadSensor
                         THEN [unlocked EXCEPT !.filament = "settled"] ELSE unlocked
    <2>2. /\ Safe(sensed) /\ sensed.print_state # "pause_locked"
          /\ sensed.enabled /\ FollowsQuietly(m, sensed)
      <3> DEFINE t == [unlocked EXCEPT !.filament = "settled"]
      <3>0. unlocked \in State BY <1>2 DEF Safe
      <3>1. t \in State BY <3>0, ZenonT(30) DEF State, Positions
      <3>2. /\ t.print_state = unlocked.print_state /\ t.enabled = unlocked.enabled
            /\ t.paused_temp = unlocked.paused_temp /\ t.off_timer = unlocked.off_timer
        BY <3>0, ZenonT(30) DEF State
      <3>3. <<>> \in Seq(Callbacks) /\ "settled" \in Positions BY DEF Positions
      <3>4. FollowsQuietly(unlocked, t) BY <1>2, <3>3, FieldFollows DEF Safe
      <3> HIDE DEF t
      <3>5. FollowsQuietly(m, t) BY <1>2, <3>4, FollowsTransitive
      <3>6. Safe(t) BY <1>2, <3>1, <3>2, SafeKept
      <3> QED BY <1>2, <1>5, <3>2, <3>5, <3>6 DEF t
    <2>3. m' = IF sensed.filament = "between" THEN HandleMmuError(sensed, FALSE, found)
               ELSE ContinueAfter(BaseResume(sensed), "resume")
      BY <2>1 DEF Command, Becomes
    <2> HIDE DEF sensed
    <2>4. CASE sensed.filament = "between"
      <3>1. FollowsQuietly(sensed, m') BY <2>2, <2>3, <2>4, ErrorFollows
      <3> QED BY <2>2, <3>1, FollowsTransitive, FollowsTracked
    <2>5. CASE sensed.filament # "between"
      <3> DEFINE r == BaseResume(sensed)
      <3>1. r \in State /\ KeepsJob(sensed, r) /\ Follows(sensed, r)
        BY <2>2, BaseResumeFacts, BaseResumeSafe, KlipperFollows DEF Safe
      <3>2. m' = ContinueAfter(r, "resume") BY <2>3, <2>5
      <3> HIDE DEF r
      <3>3. r.print_state # "pause_locked" BY <2>2, <3>1 DEF KeepsJob
      <3>4. FollowsQuietly(r, m') BY <3>1, <3>2, <3>3, ContinueFollows
      <3>5. ~IsMmuPaused(m')
        <4>1. r.resume_to \in {"ready", "printing"} BY <3>1, ZenonT(30) DEF State
        <4>2. Resumed(r, m') \/ (KeepsJob(r, m') /\ ~IsMmuPaused(r))
          BY <3>1, <3>2, ContinueFacts
        <4> QED BY <4>1, <4>2, Zenon DEF Resumed, KeepsJob, IsMmuPaused
      <3>6. Follows(m, m')
        BY <2>2, <3>1, <3>4, FollowsTransitive DEF FollowsQuietly
      <3> QED BY <3>5, <3>6, FollowsTracked
    <2> QED BY <2>4, <2>5
  <1> QED BY <1>3, <1>4, <1>5

LEMMA CommandTracked ==
  ASSUME IInv,
         SlicerPrintStart \/ SlicerPrintEnd \/ PausePrint \/ CancelPrint \/ ClearPause
  PROVE  Tracked(m, m') /\ KeepsRunouts(m, m') /\ Quiet(m, m')
  <1> USE DEF IInv, Command, Becomes
  <1>0. m \in State BY DEF Safe
  <1>1. CASE SlicerPrintStart
    BY <1>0, <1>1, FixFollows, FollowsTracked DEF SlicerPrintStart
  <1>2. CASE SlicerPrintEnd
    BY <1>2, EndCommandFollows, FollowsTracked DEF SlicerPrintEnd, EndsUsed
  <1>3. CASE PausePrint BY <1>3, PauseFollows, FollowsTracked DEF PausePrint
  <1>4. CASE CancelPrint
    <2>1. CASE ~m.enabled
      BY <1>0, <1>4, <2>1, KlipperFollows, FollowsTracked DEF CancelPrint
    <2>2. CASE m.enabled
      <3>1. PICK homed \in BOOLEAN :
              m' = OnPrintEnd(BaseCancel(SaveAndPark(FixStartedState(m), "cancel", homed)),
                              "cancelled")
        BY <1>4, <2>2 DEF CancelPrint
      <3> DEFINE f == FixStartedState(m)
                 u == SaveAndPark(f, "cancel", homed)
                 c == BaseCancel(u)
      <3>2. Safe(f) /\ FollowsQuietly(m, f) BY <1>0, FixStartedStateSafe, FixFollows
      <3> HIDE DEF f
      <3>3. Safe(u) /\ FollowsQuietly(f, u)
        BY <3>2, SaveAndParkSafe, ParkFollows DEF Safe, SavedOps
      <3> HIDE DEF u
      <3>4. Safe(c) /\ FollowsQuietly(u, c) BY <3>3, BaseCancelSafe, KlipperFollows DEF Safe
      <3> HIDE DEF c
      <3>5. FollowsQuietly(c, OnPrintEnd(c, "cancelled"))
        BY <3>4, EndFollows DEF Safe, EndsUsed
      <3>6. FollowsQuietly(m, OnPrintEnd(c, "cancelled"))
        BY <3>2, <3>3, <3>4, <3>5, FollowsTransitive
      <3> QED BY <3>1, <3>6, FollowsTracked DEF c, u, f
    <2> QED BY <2>1, <2>2
  <1>5. CASE ClearPause
    <2> DEFINE u == IF m.enabled /\ m.saved_op = "pause"
                    THEN [m EXCEPT !.saved_op = ""] ELSE m
    <2>1. <<>> \in Seq(Callbacks) /\ "settled" \in Positions BY DEF Positions
    <2>2. Safe(u)
      <3>1. Safe([m EXCEPT !.saved_op = ""])
        BY ZenonT(30) DEF Safe, State, TempKnown, TimerOff, IsMmuPaused, IsPrinting
      <3> QED BY <3>1
    <2>3. FollowsQuietly(m, u)
      BY <1>0, <2>1, FieldFollows, KeepsIsFollows
      DEF KeepsJob, KeepsKlipper, KeepsSeen, KeepsQueue
    <2>4. m' = BaseClear(u) BY <1>5 DEF ClearPause
    <2> HIDE DEF u
    <2>5. FollowsQuietly(u, m') BY <2>2, <2>4, KlipperFollows DEF Safe
    <2> QED BY <2>3, <2>5, FollowsTransitive, FollowsTracked
  <1> QED BY <1>1, <1>2, <1>3, <1>4, <1>5

LEMMA MmuTracked ==
  ASSUME IInv, MmuPause \/ MmuUnlockCommand \/ MmuRecover
  PROVE  Tracked(m, m') /\ KeepsRunouts(m, m') /\ Quiet(m, m')
  <1> USE DEF IInv, Command, Becomes
  <1>0. m \in State BY DEF Safe
  <1> DEFINE w == Wakeup(m)
  <1>1. Safe(w) /\ FollowsQuietly(m, w) /\ w.enabled = m.enabled
    BY <1>0, WakeupSafe, WakeupFollows, WakeupFacts
  <1>2. CASE MmuPause
    <2>1. \E found \in Positions : \/ m' = HandleMmuError(w, FALSE, found)
                                  \/ m' = HandleMmuError(w, AllowForce, found)
      BY <1>2 DEF MmuPause
    <2>2. AllowForce \in BOOLEAN BY PrintJobAssumption
    <2>3. w.enabled BY <1>1, <1>2 DEF MmuPause
    <2> HIDE DEF w
    <2>4. \A found \in Positions : /\ FollowsQuietly(w, HandleMmuError(w, FALSE, found))
                                  /\ FollowsQuietly(w, HandleMmuError(w, AllowForce, found))
      BY <1>1, <2>2, <2>3, ErrorFollows
    <2>5. FollowsQuietly(w, m') BY <2>1, <2>4
    <2> QED BY <1>1, <2>5, FollowsTransitive, FollowsTracked
  <1>3. CASE MmuUnlockCommand
    <2>1. CASE m.print_state = "pause_locked"
      <3>1. m' = MmuUnlock(m) BY <1>3, <2>1 DEF MmuUnlockCommand
      <3> QED BY <1>0, <2>1, <3>1, UnlockFollows, FollowsTracked DEF IsMmuPaused
    <2>2. CASE m.print_state # "pause_locked"
      <3>1. m' = w BY <1>3, <2>2 DEF MmuUnlockCommand
      <3> HIDE DEF w
      <3> QED BY <1>1, <3>1, FollowsTracked
    <2> QED BY <2>1, <2>2
  <1>4. CASE MmuRecover
    <2>1. <<>> \in Seq(Callbacks) OBVIOUS
    <2>2. PICK found \in Positions : m' = [w EXCEPT !.filament = found]
      BY <1>4 DEF MmuRecover
    <2> HIDE DEF w
    <2>3. FollowsQuietly(w, m') BY <1>1, <2>1, <2>2, FieldFollows DEF Safe
    <2> QED BY <1>1, <2>3, FollowsTransitive, FollowsTracked
  <1> QED BY <1>2, <1>3, <1>4

(* Suspending the monitoring and parking, as an operation begins: where    *)
(* monitoring was on, it may be resumed.                                   *)
LEMMA BeginFollows ==
  ASSUME NEW s, Safe(s), NEW o \in SavedOps
  PROVE  LET t == SaveAndPark([s EXCEPT !.monitoring = FALSE], o, TRUE)
         IN  FollowsQuietly(s, t) /\ (Watched(s) => Watched(t))
  <1> DEFINE u == [s EXCEPT !.monitoring = FALSE]
             t == SaveAndPark(u, o, TRUE)
  <1>1. u \in State /\ u.print_state = s.print_state
    BY MonitoringSafe, MonitoringFacts DEF Safe
  <1>2. FollowsQuietly(s, u) BY SuspendFollows DEF Safe
  <1> HIDE DEF u
  <1>3. FollowsQuietly(u, t) /\ Moved(u, t) BY <1>1, ParkFollows, SaveAndParkFacts
  <1> HIDE DEF t
  <1>4. t.print_state = s.print_state \/ t.print_state = "started"
    BY <1>1, <1>3 DEF Moved, KeepsJob
  <1>5. Watched(s) => Watched(t)
    BY <1>4, Zenon DEF Watched, IsMmuPaused, IsPrinting
  <1> QED BY <1>2, <1>3, <1>5, FollowsTransitive DEF u, t

LEMMA OperationTracked ==
  ASSUME JobInv,
         \/ BeginOperation \/ NothingToDo \/ OperationHeats \/ MacroCallsPause
         \/ OperationSucceeds \/ OperationFails \/ HotendOffTimer
  PROVE  /\ Tracked(m, m') /\ KeepsRunouts(m, m')
         /\ Quiet(m, m') \/ op.kind = "runout"
  <1> USE DEF JobInv, IInv, Command, Becomes
  <1>0. m \in State /\ m.target \in Temps BY ZenonT(30) DEF Safe, State
  <1> DEFINE w == Wakeup(m)
             f == FixStartedState(w)
  <1>1. Safe(w) /\ FollowsQuietly(m, w) BY <1>0, WakeupSafe, WakeupFollows
  <1>2. Safe(f) /\ FollowsQuietly(m, f)
    <2> HIDE DEF w
    <2>1. Safe(f) /\ FollowsQuietly(w, f) BY <1>1, FixStartedStateSafe, FixFollows DEF Safe
    <2> QED BY <1>1, <2>1, FollowsTransitive
  <1>3. CASE BeginOperation
    <2>1. m' = SaveAndPark([f EXCEPT !.monitoring = FALSE], "change", TRUE)
      BY <1>3 DEF BeginOperation
    <2> HIDE DEF f
    <2>2. FollowsQuietly(f, m') BY <1>2, <2>1, BeginFollows DEF SavedOps
    <2> QED BY <1>2, <2>2, FollowsTransitive, FollowsTracked
  <1>4. CASE NothingToDo BY <1>2, <1>4, FollowsTracked DEF NothingToDo
  <1>5. CASE OperationHeats
    <2>1. "print" \in Temps BY DEF Temps
    <2> QED BY <1>0, <1>5, <2>1, TargetFollows, FollowsTracked
            DEF OperationHeats, EnsureTemperature
  <1>6. CASE MacroCallsPause
    BY <1>6, ErrorFollows, FollowsTracked DEF MacroCallsPause, EnabledOp
  <1>7. CASE OperationSucceeds
    <2> DEFINE moved == [m EXCEPT !.filament = "settled"]
               c == ContinueAfter(moved, op.kind)
               d == IF op.kind = "runout" THEN SendResume(c) ELSE c
    <2>1. <<>> \in Seq(Callbacks) /\ "settled" \in Positions BY DEF Positions
    <2>2. KeepsJob(m, moved) /\ FollowsQuietly(m, moved)
      BY <1>0, <2>1, FieldFacts, FieldFollows
    <2>3. Safe(moved)
      BY ZenonT(30) DEF Safe, State, Positions, TempKnown, TimerOff, IsMmuPaused, IsPrinting
    <2> HIDE DEF moved
    <2>4. op.kind # "resume" BY <1>7 DEF OperationSucceeds
    <2>5. KeepsJob(moved, c) /\ Safe(c) /\ FollowsQuietly(moved, c)
      BY <2>3, <2>4, ContinueFacts, ContinueAfterSafe, ContinueFollows DEF Safe
    <2> HIDE DEF c
    <2>6. /\ KeepsJob(c, d) /\ Safe(d) /\ Follows(c, d)
          /\ FollowsQuietly(c, d) \/ op.kind = "runout"
      BY <2>5, SendResumeFacts, SendResumeSafe, KlipperFollows, KeepsIsFollows
      DEF Safe, KeepsJob, KeepsKlipper, KeepsSeen, KeepsQueue, FollowsQuietly
    <2> HIDE DEF d
    <2>7. m' = ResumeMonitoring(d)
      BY <1>7 DEF OperationSucceeds, d, c, moved
    <2>8. Follows(m, d) /\ (FollowsQuietly(m, d) \/ op.kind = "runout")
      BY <2>2, <2>5, <2>6, FollowsTransitive DEF FollowsQuietly
    <2>9. d.print_state = m.print_state BY <2>2, <2>5, <2>6 DEF KeepsJob
    <2>10. Tracked(d, m') /\ Quiet(d, m') BY <2>6, <2>7, ResumeMonitoringTracked
    <2>11. Watched(d) <=> Watched(m) BY <2>9 DEF Watched, IsMmuPaused, IsPrinting
    <2>12. GuardStep(m, m')
      BY <2>8, <2>10, <2>11 DEF Tracked, GuardStep, Follows, KeepsGuards, KeepsQueue
    <2>13. KeepsHistory(m, m')
      BY <2>8, <2>10 DEF Tracked, Follows, KeepsHistory, KeepsSeen
    <2>14. KeepsRunouts(m, m')
      BY <2>6, <2>7, <2>8, ResumeMonitoringTracked DEF Follows, KeepsQueue, KeepsRunouts
    <2> QED BY <2>8, <2>10, <2>12, <2>13, <2>14 DEF Tracked, Quiet, FollowsQuietly
  <1>8. CASE OperationFails
    <2> DEFINE u == ResumeMonitoring(m)
    <2>1. Safe(u) /\ Tracked(m, u) /\ Quiet(m, u) /\ u.enabled /\ u.pending = m.pending
      BY <1>8, ResumeMonitoringSafe, ResumeMonitoringTracked DEF OperationFails, EnabledOp
    <2> HIDE DEF u
    <2>2. PICK found \in Positions : m' = HandleMmuError(u, FALSE, found)
      BY <1>8 DEF OperationFails, u
    <2>3. FollowsQuietly(u, m') BY <2>1, <2>2, ErrorFollows
    <2>4. KeepsRunouts(m, m') BY <2>1, <2>3, FollowsTracked DEF KeepsRunouts
    <2> QED BY <2>1, <2>3, <2>4, TrackedFollows, FollowsTracked, QuietTransitive DEF FollowsQuietly
  <1>9. CASE HotendOffTimer
    <2>1. (IF IsPrinting(m) THEN m.target ELSE "off") \in Temps
      BY <1>0 DEF Temps
    <2> QED BY <1>0, <1>9, <2>1, TargetFollows, FollowsTracked DEF HotendOffTimer
  <1> QED BY <1>3, <1>4, <1>5, <1>6, <1>7, <1>8, <1>9

(* The command that leaves the queue.                                      *)
LEMMA DequeuedTracked ==
  ASSUME IInv, m.pending # <<>>
  PROVE  /\ Tracked(m, Dequeued) /\ Quiet(m, Dequeued)
         /\ Dequeued.enabled = m.enabled
  <1>1. /\ KeepsJob(m, Dequeued) /\ KeepsKlipper(m, Dequeued) /\ KeepsSeen(m, Dequeued)
        /\ Dequeued.pending = Tail(m.pending)
    BY PausedDequeued
  <1>2. m.pending \in Seq(Callbacks) BY ZenonT(30) DEF IInv, Safe, State
  <1>3. HasBootup(Dequeued.pending) => HasBootup(m.pending)
    BY <1>1, <1>2, RunoutInTail
  <1>4. GuardStep(m, Dequeued)
    BY <1>1, <1>3 DEF GuardStep, KeepsJob, Armed, Timers, Watched, IsMmuPaused, IsPrinting
  <1>5. KeepsHistory(m, Dequeued)
    BY <1>1, HistoryOfKlipper DEF KeepsJob, IsMmuPaused
  <1> QED BY <1>1, <1>4, <1>5 DEF Tracked, Quiet, KeepsJob, KeepsKlipper

LEMMA QueueTracked ==
  ASSUME JobInv, RunQueued
  PROVE  /\ Tracked(m, m')
         /\ Quiet(m, m') \/ \E kind \in Runouts : IgnoreRunout(kind)
  <1> USE DEF JobInv, IInv, Becomes
  <1>0. m.pending # <<>>
    BY DEF RunQueued, IgnoreRunout, HandleRunout, RunoutAtExtruder, RunCallback, Deliver
  <1>1. /\ Safe(Dequeued) /\ Tracked(m, Dequeued) /\ Quiet(m, Dequeued)
        /\ Dequeued.enabled = m.enabled
    BY <1>0, DequeuedSafe, DequeuedTracked
  <1>2. ASSUME NEW t, FollowsQuietly(Dequeued, t) PROVE Tracked(m, t) /\ Quiet(m, t)
    BY <1>1, <1>2, TrackedFollows, FollowsTracked, QuietTransitive DEF FollowsQuietly
  <1> DEFINE f == FixStartedState(Dequeued)
  <1>3. Safe(f) /\ FollowsQuietly(Dequeued, f) /\ f.enabled = m.enabled
    BY <1>1, FixStartedStateSafe, FixFollows, FixFacts DEF Safe
  <1> HIDE DEF f
  <1>4. CASE \E kind \in Runouts : IgnoreRunout(kind)
    <2>1. m' = SendResume(IF m.enabled THEN f ELSE Dequeued)
      BY <1>4 DEF IgnoreRunout, f
    <2>2. Follows(f, SendResume(f)) /\ Follows(Dequeued, SendResume(Dequeued))
      BY <1>1, <1>3, KlipperFollows DEF Safe
    <2>3. Follows(Dequeued, m')
      BY <1>3, <2>1, <2>2, FollowsTransitive DEF FollowsQuietly
    <2> QED BY <1>1, <1>4, <2>3, TrackedFollows
  <1>5. CASE \E kind \in Runouts : HandleRunout(kind)
    <2> DEFINE marked == [Dequeued EXCEPT !.pending = MarkHandled(Dequeued.pending)]
               g == FixStartedState(marked)
    <2>1. Dequeued.pending \in Seq(Callbacks) BY <1>1, ZenonT(30) DEF Safe, State
    <2>2. MarkHandled(Dequeued.pending) \in Seq(Callbacks) BY <2>1, MarkHandledType
    <2>3. "settled" \in Positions BY DEF Positions
    <2>4. Safe(marked) /\ FollowsQuietly(Dequeued, marked)
      BY <1>1, <2>1, <2>2, <2>3, FieldFollows, RunoutsMarked, PendingSafe DEF Safe
    <2> HIDE DEF marked
    <2>5. Safe(g) /\ FollowsQuietly(marked, g)
      BY <2>4, FixStartedStateSafe, FixFollows DEF Safe
    <2> HIDE DEF g
    <2>6. m' = SaveAndPark([g EXCEPT !.monitoring = FALSE], "runout", TRUE)
      BY <1>5 DEF HandleRunout, g, marked
    <2>7. FollowsQuietly(g, m') BY <2>5, <2>6, BeginFollows DEF SavedOps
    <2>8. FollowsQuietly(Dequeued, m') BY <2>4, <2>5, <2>7, FollowsTransitive
    <2> QED BY <1>2, <2>8
  <1>6. CASE RunoutAtExtruder
    <2>1. PICK found \in Positions : m' = HandleMmuError(f, FALSE, found)
      BY <1>6 DEF RunoutAtExtruder, f
    <2>2. FollowsQuietly(f, m')
      BY <1>3, <1>6, <2>1, ErrorFollows DEF RunoutAtExtruder
    <2>3. FollowsQuietly(Dequeued, m') BY <1>3, <2>2, FollowsTransitive
    <2> QED BY <1>2, <2>3
  <1>7. CASE RunCallback
    <2>1. CASE m' = PrintStartCommand(Dequeued)
      BY <1>1, <1>2, <2>1, FixFollows DEF Safe
    <2>2. CASE \E homed \in BOOLEAN, end \in {"complete", "error"} :
                 m' = PrintEndCommand(Dequeued, end, FALSE, homed)
      BY <1>1, <1>2, <2>2, EndCommandFollows DEF EndsUsed
    <2>3. CASE m' = PrintEndCommand(Dequeued, "standby", TRUE, TRUE)
      BY <1>1, <1>2, <2>3, EndCommandFollows DEF EndsUsed
    <2>4. CASE Head(m.pending) = "bootup" /\ \E found \in Positions : m' = Bootup(Dequeued, found)
      <3>1. m.pending \in Seq(Callbacks) BY ZenonT(30) DEF Safe, State
      <3>2. HasBootup(m.pending) BY <1>0, <2>4, <3>1, RunoutInTail
      <3>3. /\ KeepsHistory(Dequeued, m') /\ (Armed(Dequeued) => Armed(m'))
            /\ m'.stats = Dequeued.stats
        BY <1>1, <2>4, BootupFollows DEF Safe
      <3>4. GuardStep(m, m') BY <1>1, <3>2, <3>3 DEF Tracked, GuardStep
      <3>5. KeepsHistory(m, m')
        BY <1>1, <3>3 DEF Tracked, KeepsHistory, KeepsSeen
      <3> QED BY <1>1, <3>3, <3>4, <3>5 DEF Tracked, Quiet
    <2> QED BY <1>7, <2>1, <2>2, <2>3, <2>4 DEF RunCallback, Deliver
  <1> QED BY <1>4, <1>5, <1>6, <1>7 DEF RunQueued

(* The ready and idle events detect no start: they only bring what the     *)
(* driver has seen of the job up to date.                                  *)
LEMMA EventGuards ==
  ASSUME NEW s \in State, NEW event \in {"ready", "idle"}
  PROVE  LET t == HandleIdleTimeoutEvent(s, event)
         IN  /\ KeepsGuards(s, t) /\ KeepsQueue(s, t) /\ KeepsKlipper(s, t)
             /\ t.enabled = s.enabled /\ t.print_state = s.print_state
             /\ s.enabled => t.last_stats = s.stats
  <1> DEFINE t == HandleIdleTimeoutEvent(s, event)
  <1>1. event \in Events /\ event # "printing" BY DEF Events
  <1>2. ~StartDetected(s, event) BY <1>1 DEF StartDetected
  <1>3. /\ KeepsKlipper(s, t) /\ KeepsQueue(s, t) /\ KeepsJob(s, t)
        /\ StatsChanged(s) => t.last_stats = s.stats
        /\ ~StatsChanged(s) => t.last_stats = s.last_stats
    BY <1>1, <1>2, EventFacts
  <1> HIDE DEF t
  <1>4. KeepsGuards(s, t)
    BY <1>3 DEF KeepsGuards, KeepsJob, Armed, Timers, Watched, IsMmuPaused, IsPrinting
  <1>5. s.enabled => t.last_stats = s.stats
    <2>1. s.stats \in JobStates BY ZenonT(30) DEF State
    <2>2. s.stats # "initialized" BY <2>1 DEF JobStates
    <2> QED BY <1>3, <2>2 DEF StatsChanged, PreviousStats
  <1> QED BY <1>3, <1>4, <1>5 DEF KeepsJob, t

(* idle_timeout's ready and idle events: the job is seen as it is.         *)
LEMMA IdleEventStep ==
  ASSUME IInv, ToolheadDrains \/ IdleTimesOut
  PROVE  /\ KeepsGuards(m, m') /\ KeepsQueue(m, m') /\ KeepsKlipper(m, m')
         /\ m'.enabled = m.enabled /\ m'.print_state = m.print_state
         /\ m.enabled => m'.last_stats = m.stats
         /\ UNCHANGED op
  <1>0. m \in State BY DEF IInv, Safe
  <1>1. ASSUME NEW u \in State, NEW event \in {"ready", "idle"},
               KeepsPause(m, u), u.off_timer = m.off_timer,
               m' = HandleIdleTimeoutEvent(u, event)
        PROVE  /\ KeepsGuards(m, m') /\ KeepsQueue(m, m') /\ KeepsKlipper(m, m')
               /\ m'.enabled = m.enabled /\ m'.print_state = m.print_state
               /\ m.enabled => m'.last_stats = m.stats
    <2>1. /\ KeepsGuards(u, m') /\ KeepsQueue(u, m') /\ KeepsKlipper(u, m')
          /\ m'.enabled = u.enabled /\ m'.print_state = u.print_state
          /\ u.enabled => m'.last_stats = u.stats
      BY <1>1, EventGuards
    <2>2. KeepsGuards(m, u)
      BY <1>1 DEF KeepsGuards, KeepsPause, Armed, Timers, Watched, IsMmuPaused, IsPrinting
    <2> QED BY <1>1, <2>1, <2>2 DEF KeepsGuards, KeepsPause, KeepsQueue, KeepsKlipper
  <1>2. CASE ToolheadDrains
    <2> DEFINE u == [m EXCEPT !.idle = "Ready"]
    <2>1. u \in State /\ KeepsPause(m, u) /\ u.off_timer = m.off_timer
      BY <1>0, ReadyFacts DEF KeepsPause, KeepsJob
    <2>2. m' = HandleIdleTimeoutEvent(u, "ready") /\ UNCHANGED op
      BY <1>2 DEF ToolheadDrains, Becomes
    <2> HIDE DEF u
    <2> QED BY <1>1, <2>1, <2>2
  <1>3. CASE IdleTimesOut
    <2> DEFINE u == [m EXCEPT !.idle = "Idle", !.target = "off"]
    <2>1. u \in State /\ KeepsPause(m, u) /\ u.off_timer = m.off_timer
      BY <1>0, IdleFacts
    <2>2. m' = HandleIdleTimeoutEvent(u, "idle") /\ UNCHANGED op
      BY <1>3 DEF IdleTimesOut, Becomes
    <2> HIDE DEF u
    <2> QED BY <1>1, <2>1, <2>2
  <1> QED BY <1>2, <1>3

(* SDCARD_PRINT_FILE: a new job, not seen by the driver yet.               *)
LEMMA UserPrintsStep ==
  ASSUME IInv, UserPrints
  PROVE  /\ KeepsJob(m, m') /\ KeepsQueue(m, m') /\ m'.new_job /\ m'.stopping = m.stopping
         /\ m.stats \notin Running /\ UNCHANGED op
         /\ m'.stats = "printing"
  <1>1. m \in State /\ m.stats \in JobStates BY ZenonT(30) DEF IInv, Safe, State
  <1> QED BY <1>1, StatsFacts DEF UserPrints, KeepsQueue, Running

(* MMU_RESET and MMU ENABLE=1.                                             *)
LEMMA ReinitStep ==
  ASSUME IInv, ReinitMmu
  PROVE  /\ KeepsKlipper(m, m') /\ m'.print_state = "ready" /\ ~m'.monitoring
         /\ m'.enabled /\ UNCHANGED op /\ AllowBoot /\ MutexFree
         /\ HasRunout(m.pending) => HasRunout(m'.pending)
  <1>0. m \in State BY DEF IInv, Safe
  <1> DEFINE w == Wakeup(m)
             t == Reinit(w)
  <1>1. Safe(w) /\ KeepsKlipper(m, w) /\ w.pending = m.pending
    BY <1>0, WakeupSafe, WakeupFacts DEF IInv
  <1> HIDE DEF w
  <1>2. /\ Safe(t) /\ KeepsKlipper(w, t) /\ t.pending = w.pending
        /\ t.print_state = "ready" /\ ~t.monitoring /\ t.enabled
    BY <1>1, ReinitSafe, ReinitFacts DEF Safe
  <1> HIDE DEF t
  <1>3. t.pending \in Seq(Callbacks) BY <1>2, ZenonT(30) DEF Safe, State
  <1>4. "bootup" \in Callbacks /\ "settled" \in Positions BY DEF Callbacks, Positions
  <1> DEFINE q == Append(MarkHandled(t.pending), "bootup")
             v == [t EXCEPT !.pending = q]
  <1>5. MarkHandled(t.pending) \in Seq(Callbacks) /\ q \in Seq(Callbacks)
    BY <1>3, <1>4, MarkHandledType
  <1>6. HasRunout(t.pending) => HasRunout(q)
    BY <1>3, <1>4, <1>5, RunoutsMarked, RunoutAppended
  <1> HIDE DEF q
  <1>7. KeepsJob(t, v) /\ KeepsKlipper(t, v) /\ v.pending = q
    BY <1>2, <1>4, <1>5, FieldFacts DEF Safe
  <1>8. m' = v /\ UNCHANGED op /\ AllowBoot /\ MutexFree
    BY DEF ReinitMmu, Becomes, v, q, t, w
  <1> HIDE DEF v
  <1> QED BY <1>1, <1>2, <1>6, <1>7, <1>8 DEF KeepsJob, KeepsKlipper

LEMMA DisableStep ==
  ASSUME IInv, MmuDisable
  PROVE  /\ KeepsKlipper(m, m') /\ KeepsSeen(m, m') /\ m'.pending = m.pending
         /\ m'.print_state = "standby" /\ ~m'.monitoring /\ ~m'.off_timer
         /\ UNCHANGED op /\ MutexFree
  BY DisableFacts DEF MmuDisable, Command, Becomes, IInv, Safe

(* The callback of a sensor, or of FlowGuard.                              *)
LEMMA RaiseStep ==
  ASSUME IInv, \E kind \in {"runout", "clog"} : RaiseRunout(kind)
  PROVE  /\ KeepsJob(m, m') /\ KeepsSeen(m, m') /\ m'.stats = m.stats
         /\ m'.stopping => m.stopping \/ m.stats = "printing"
         /\ KeepsQueue(m, m') /\ HasRunout(m'.pending)
         /\ m.monitoring /\ UNCHANGED op
  <1>0. m \in State BY DEF IInv, Safe
  <1>1. PICK kind \in {"runout", "clog"} : RaiseRunout(kind) OBVIOUS
  <1> DEFINE t == SendPause(m)
             q == Append(t.pending, kind)
             v == [t EXCEPT !.pending = q]
  <1>2. /\ Safe(t) /\ KeepsJob(m, t) /\ KeepsSeen(m, t) /\ t.pending = m.pending
        /\ t.stats = m.stats
        /\ t.stopping => m.stopping \/ m.stats = "printing"
    BY <1>0, SendPauseSafe, SendPauseFacts DEF IInv
  <1> HIDE DEF t
  <1>3. t.pending \in Seq(Callbacks) BY <1>2, ZenonT(30) DEF Safe, State
  <1>4. kind \in Callbacks /\ kind \in Runouts /\ kind # "bootup" /\ "settled" \in Positions
    BY DEF Callbacks, Runouts, Positions
  <1>5. /\ q \in Seq(Callbacks) /\ HasRunout(q)
        /\ HasBootup(q) => HasBootup(t.pending)
    BY <1>3, <1>4, RunoutAppended
  <1> HIDE DEF q
  <1>6. /\ KeepsJob(t, v) /\ KeepsKlipper(t, v) /\ KeepsSeen(t, v) /\ v.pending = q
    BY <1>2, <1>4, <1>5, FieldFacts DEF Safe
  <1>7. m' = v /\ m.monitoring /\ UNCHANGED op
    BY <1>1 DEF RaiseRunout, Becomes, v, q, t
  <1> HIDE DEF v
  <1> QED BY <1>2, <1>5, <1>6, <1>7 DEF KeepsJob, KeepsKlipper, KeepsSeen, KeepsQueue

-----------------------------------------------------------------------------
(* The job's history is an invariant. *)

(* The steps that only apply handlers that follow the job.                 *)
Ordinary ==
    \/ SdStops \/ JobEnds \/ ToolheadMoves \/ SetTemperature \/ ResumePrint
    \/ SlicerPrintStart \/ SlicerPrintEnd \/ PausePrint \/ CancelPrint \/ ClearPause
    \/ MmuPause \/ MmuUnlockCommand \/ MmuRecover
    \/ BeginOperation \/ NothingToDo \/ OperationHeats \/ MacroCallsPause
    \/ OperationSucceeds \/ OperationFails \/ HotendOffTimer
    \/ RunQueued
Special ==
    \/ UserPrints \/ ToolheadDrains \/ IdleTimesOut \/ ReinitMmu \/ MmuDisable
    \/ \E kind \in {"runout", "clog"} : RaiseRunout(kind)

LEMMA NextSplit == Next => Ordinary \/ Special
  BY DEF Next, Ordinary, Special

LEMMA OrdinaryTracked == ASSUME JobInv, Ordinary PROVE Tracked(m, m')
  BY KlipperTracked, ResumeTracked, CommandTracked, MmuTracked, OperationTracked, QueueTracked
  DEF Ordinary, JobInv

(* Where the operation a step leaves behind comes from.                    *)
LEMMA OrdinaryOp ==
  ASSUME Ordinary
  PROVE  UNCHANGED op \/ op' = Idle \/ BeginOperation
           \/ \E kind \in Runouts : HandleRunout(kind)
  BY DEF Ordinary, SdStops, JobEnds, ToolheadMoves, SetTemperature, ResumePrint,
         SlicerPrintStart, SlicerPrintEnd, PausePrint, CancelPrint, ClearPause,
         MmuPause, MmuUnlockCommand, MmuRecover, NothingToDo, OperationHeats,
         MacroCallsPause, OperationSucceeds, OperationFails, HotendOffTimer,
         RunQueued, IgnoreRunout, RunoutAtExtruder, RunCallback, Command

LEMMA JobInvInit == Init => JobInv
  <1> SUFFICES ASSUME Init PROVE JobInv
    OBVIOUS
  <1>1. IInv BY InitIInv
  <1>2. m.stats = "standby" /\ m.enabled /\ ~m.stopping
    BY ZenonT(60) DEF Init
  <1>3. op.kind = "none" BY DEF Init, Idle
  <1> QED BY <1>1, <1>2, <1>3, Zenon DEF JobInv, PauseHistory, StopsPrinting, EnabledOp, Running

LEMMA JobInvNext == ASSUME JobInv, [Next]_vars PROVE JobInv'
  <1>0. IInv' BY NextIInv DEF JobInv
  <1>1. CASE Ordinary
    <2>1. KeepsHistory(m, m') BY <1>1, OrdinaryTracked DEF Tracked
    <2>2. PauseHistory(m') BY <2>1, HistoryKept DEF JobInv
    <2>3. m'.enabled = m.enabled BY <2>1 DEF KeepsHistory
    <2>4. op'.kind # "none" => m'.enabled
      <3>1. CASE UNCHANGED op BY <2>3, <3>1 DEF JobInv, EnabledOp
      <3>2. CASE op' = Idle BY <3>2 DEF Idle
      <3>3. CASE BeginOperation BY <2>3, <3>3 DEF BeginOperation
      <3>4. CASE \E kind \in Runouts : HandleRunout(kind) BY <2>3, <3>4 DEF HandleRunout
      <3> QED BY <1>1, <3>1, <3>2, <3>3, <3>4, OrdinaryOp
    <2> QED BY <1>0, <2>2, <2>4 DEF JobInv, EnabledOp
  <1>2. CASE UserPrints
    <2>1. PauseHistory(m')
      BY <1>2, UserPrintsStep
      DEF JobInv, PauseHistory, StopsPrinting, KeepsJob, IsMmuPaused, Running
    <2>2. EnabledOp' BY <1>2, UserPrintsStep DEF JobInv, EnabledOp, KeepsJob
    <2> QED BY <1>0, <2>1, <2>2 DEF JobInv
  <1>3. CASE ToolheadDrains \/ IdleTimesOut
    <2>1. /\ KeepsKlipper(m, m') /\ m'.enabled = m.enabled /\ UNCHANGED op
          /\ m'.print_state = m.print_state /\ (m.enabled => m'.last_stats = m.stats)
      BY <1>3, IdleEventStep DEF JobInv
    <2>2. PauseHistory(m')
      BY <2>1 DEF JobInv, PauseHistory, StopsPrinting, KeepsKlipper, IsMmuPaused
    <2>3. EnabledOp' BY <2>1 DEF JobInv, EnabledOp
    <2> QED BY <1>0, <2>2, <2>3 DEF JobInv
  <1>4. CASE ReinitMmu
    <2>1. /\ KeepsKlipper(m, m') /\ m'.print_state = "ready" /\ m'.enabled
      BY <1>4, ReinitStep DEF JobInv
    <2>2. PauseHistory(m')
      BY <2>1 DEF JobInv, PauseHistory, StopsPrinting, KeepsKlipper, IsMmuPaused
    <2> QED BY <1>0, <2>1, <2>2 DEF JobInv, EnabledOp
  <1>5. CASE MmuDisable
    <2>1. /\ KeepsKlipper(m, m') /\ m'.print_state = "standby" /\ UNCHANGED op /\ MutexFree
      BY <1>5, DisableStep DEF JobInv
    <2>2. PauseHistory(m')
      BY <2>1 DEF JobInv, PauseHistory, StopsPrinting, KeepsKlipper, IsMmuPaused
    <2>3. EnabledOp' BY <2>1 DEF EnabledOp, MutexFree, Idle
    <2> QED BY <1>0, <2>2, <2>3 DEF JobInv
  <1>6. CASE \E kind \in {"runout", "clog"} : RaiseRunout(kind)
    <2>1. /\ KeepsJob(m, m') /\ KeepsSeen(m, m') /\ m'.stats = m.stats /\ UNCHANGED op
          /\ m'.stopping => m.stopping \/ m.stats = "printing"
      BY <1>6, RaiseStep DEF JobInv
    <2>2. PauseHistory(m')
      BY <2>1 DEF JobInv, PauseHistory, StopsPrinting, KeepsJob, KeepsSeen, IsMmuPaused
    <2>3. EnabledOp' BY <2>1 DEF JobInv, EnabledOp, KeepsJob
    <2> QED BY <1>0, <2>2, <2>3 DEF JobInv
  <1>7. CASE UNCHANGED vars
    BY <1>0, <1>7 DEF vars, JobInv, EnabledOp
  <1> QED BY <1>1, <1>2, <1>3, <1>4, <1>5, <1>6, <1>7, NextSplit DEF Special

LEMMA JobInvariant == Spec => []JobInv
  BY JobInvInit, JobInvNext, PTL DEF Spec

-----------------------------------------------------------------------------
(* The guards of the pause are invariants. *)
LEMMA GuardsStep == ASSUME JobInv, [Next]_vars PROVE GuardStep(m, m')
  <1> USE DEF JobInv
  <1>1. CASE Ordinary BY <1>1, OrdinaryTracked DEF Tracked
  <1>2. CASE UserPrints
    BY <1>2, UserPrintsStep
    DEF GuardStep, KeepsJob, KeepsQueue, Armed, Timers, Watched, IsMmuPaused, IsPrinting
  <1>3. CASE ToolheadDrains \/ IdleTimesOut
    BY <1>3, IdleEventStep DEF GuardStep, KeepsGuards, KeepsQueue
  <1>4. CASE ReinitMmu BY <1>4, ReinitStep DEF GuardStep, Armed, IsMmuPaused
  <1>5. CASE MmuDisable BY <1>5, DisableStep DEF GuardStep, Armed, Timers, IsMmuPaused
  <1>6. CASE \E kind \in {"runout", "clog"} : RaiseRunout(kind)
    BY <1>6, RaiseStep
    DEF GuardStep, KeepsJob, KeepsQueue, Armed, Timers, Watched, IsMmuPaused, IsPrinting
  <1>7. CASE UNCHANGED vars BY <1>7 DEF vars, GuardStep
  <1> QED BY <1>1, <1>2, <1>3, <1>4, <1>5, <1>6, <1>7, NextSplit DEF Special

(* With no bootup task queued, none will find the timers of a pause in     *)
(* force.                                                                  *)
TimersInv == JobInv /\ Timers(m) /\ ~HasBootup(m.pending)

LEMMA TimersInvariant == ASSUME ~AllowBoot PROVE Spec => []TimersInv
  <1>1. Init => TimersInv
    <2> SUFFICES ASSUME Init PROVE TimersInv
      OBVIOUS
    <2>1. m.print_state = "initialized" /\ ~m.off_timer /\ m.pending = <<>>
      BY ZenonT(60) DEF Init
    <2>2. ~HasBootup(m.pending) BY <2>1 DEF HasBootup
    <2> QED BY <2>1, <2>2, JobInvInit DEF TimersInv, Timers
  <1>2. TimersInv /\ [Next]_vars => TimersInv'
    BY JobInvNext, GuardsStep DEF TimersInv, GuardStep
  <1> QED BY <1>1, <1>2, PTL DEF Spec

(* The monitoring an operation suspended may be resumed, unless a macro    *)
(* paused the MMU meanwhile.                                               *)
WatchInv == JobInv /\ Armed(m) /\ (op.monitored => Watched(m))

LEMMA WatchedStep ==
  ASSUME WatchInv, ~MacroPauses, [Next]_vars PROVE op'.monitored => Watched(m')
  <1> USE DEF WatchInv, JobInv
  <1>1. ASSUME op = Idle, UNCHANGED op PROVE op'.monitored => Watched(m')
    BY <1>1 DEF Idle
  <1>2. ASSUME UNCHANGED op, m'.print_state = m.print_state \/ m'.print_state = "started"
        PROVE  op'.monitored => Watched(m')
    BY <1>2, Zenon DEF Watched, IsMmuPaused, IsPrinting
  <1>3. CASE Ordinary
    <2>1. CASE op' = Idle BY <2>1 DEF Idle
    <2>2. CASE BeginOperation
      <3> DEFINE f == FixStartedState(Wakeup(m))
      <3>1. Safe(f) /\ FollowsQuietly(m, f)
        <4> DEFINE w == Wakeup(m)
        <4>1. Safe(w) /\ FollowsQuietly(m, w) BY WakeupSafe, WakeupFollows DEF IInv, Safe
        <4> HIDE DEF w
        <4>2. FollowsQuietly(w, FixStartedState(w)) /\ Safe(FixStartedState(w))
          BY <4>1, FixStartedStateSafe, FixFollows DEF Safe
        <4> QED BY <4>1, <4>2, FollowsTransitive DEF w
      <3>2. /\ m' = SaveAndPark([f EXCEPT !.monitoring = FALSE], "change", TRUE)
            /\ op'.monitored = f.monitoring
        BY <2>2 DEF BeginOperation, Becomes
      <3> HIDE DEF f
      <3>3. Armed(f) BY <3>1 DEF FollowsQuietly, Follows, KeepsGuards
      <3>4. Watched(f) => Watched(m') BY <3>1, <3>2, BeginFollows DEF SavedOps
      <3> QED BY <3>2, <3>3, <3>4 DEF Armed
    <2>3. CASE \E kind \in Runouts : HandleRunout(kind)
      <3>0. m.pending # <<>> BY <2>3 DEF HandleRunout, Deliver
      <3> DEFINE marked == [Dequeued EXCEPT !.pending = MarkHandled(Dequeued.pending)]
                 f == FixStartedState(marked)
      <3>1. Safe(Dequeued) /\ Tracked(m, Dequeued)
        BY <3>0, DequeuedSafe, DequeuedTracked
      <3>2. Dequeued.pending \in Seq(Callbacks) BY <3>1, ZenonT(30) DEF Safe, State
      <3>3. MarkHandled(Dequeued.pending) \in Seq(Callbacks) /\ "settled" \in Positions
        BY <3>2, MarkHandledType DEF Positions
      <3>4. Safe(marked) /\ FollowsQuietly(Dequeued, marked)
        BY <3>1, <3>2, <3>3, FieldFollows, RunoutsMarked, PendingSafe DEF Safe
      <3> HIDE DEF marked
      <3>5. Safe(f) /\ FollowsQuietly(marked, f)
        BY <3>4, FixStartedStateSafe, FixFollows DEF Safe
      <3> HIDE DEF f
      <3>6. /\ m' = SaveAndPark([f EXCEPT !.monitoring = FALSE], "runout", TRUE)
            /\ op'.monitored = f.monitoring
        BY <2>3 DEF HandleRunout, Becomes, f, marked
      <3>7. Armed(f)
        BY <3>1, <3>4, <3>5 DEF Tracked, GuardStep, FollowsQuietly, Follows, KeepsGuards
      <3>8. Watched(f) => Watched(m') BY <3>5, <3>6, BeginFollows DEF SavedOps
      <3> QED BY <3>6, <3>7, <3>8 DEF Armed
    <2>4. CASE UNCHANGED op
      <3>1. m \in State /\ m.target \in Temps BY ZenonT(30) DEF IInv, Safe, State
      <3>2. CASE MutexFree BY <1>1, <2>4, <3>2 DEF MutexFree
      <3>3. CASE ToolheadMoves
        <4>1. Moved(m, m') BY <3>1, <3>3, ToolheadMoveFacts DEF ToolheadMoves, Becomes
        <4> QED BY <1>2, <2>4, <4>1 DEF Moved, KeepsJob
      <3>4. CASE OperationHeats
        <4>1. "print" \in Temps BY DEF Temps
        <4>2. m'.print_state = m.print_state
          BY <3>1, <3>4, <4>1, TargetFacts DEF OperationHeats, EnsureTemperature, KeepsPause
        <4> QED BY <1>2, <2>4, <4>2
      <3>5. CASE HotendOffTimer
        <4>1. (IF IsPrinting(m) THEN m.target ELSE "off") \in Temps BY <3>1 DEF Temps
        <4>2. m'.print_state = m.print_state
          BY <3>1, <3>5, <4>1, TimerFacts DEF HotendOffTimer, KeepsPause
        <4> QED BY <1>2, <2>4, <4>2
      <3>6. CASE OperationSucceeds \/ OperationFails
        <4>1. op' = Idle BY <3>6 DEF OperationSucceeds, OperationFails
        <4> QED BY <4>1 DEF Idle
      <3> QED
        BY <1>3, <2>2, <2>3, <3>2, <3>3, <3>4, <3>5, <3>6
        DEF Ordinary, MacroCallsPause, SdStops, JobEnds, SetTemperature, ResumePrint,
            SlicerPrintStart, SlicerPrintEnd, PausePrint, CancelPrint, ClearPause,
            MmuPause, MmuUnlockCommand, MmuRecover, NothingToDo, Command,
            RunQueued, IgnoreRunout, RunoutAtExtruder, RunCallback, Deliver
    <2> QED BY <1>3, <2>1, <2>2, <2>3, <2>4, OrdinaryOp
  <1>4. CASE UserPrints BY <1>2, <1>4, UserPrintsStep DEF KeepsJob
  <1>5. CASE ToolheadDrains \/ IdleTimesOut BY <1>2, <1>5, IdleEventStep
  <1>6. CASE ReinitMmu BY <1>1, <1>6, ReinitStep DEF MutexFree
  <1>7. CASE MmuDisable BY <1>1, <1>7, DisableStep DEF MutexFree
  <1>8. CASE \E kind \in {"runout", "clog"} : RaiseRunout(kind)
    BY <1>2, <1>8, RaiseStep DEF KeepsJob
  <1>9. CASE UNCHANGED vars BY <1>2, <1>9 DEF vars
  <1> QED BY <1>3, <1>4, <1>5, <1>6, <1>7, <1>8, <1>9, NextSplit DEF Special

LEMMA WatchInvariant == ASSUME ~MacroPauses PROVE Spec => []WatchInv
  <1>1. Init => WatchInv
    <2> SUFFICES ASSUME Init PROVE WatchInv
      OBVIOUS
    <2>1. m.print_state = "initialized" /\ ~m.monitoring
      BY ZenonT(60) DEF Init
    <2>2. ~op.monitored BY DEF Init, Idle
    <2> QED BY <2>1, <2>2, JobInvInit DEF WatchInv, Armed, IsMmuPaused
  <1>2. WatchInv /\ [Next]_vars => WatchInv'
    <2> SUFFICES ASSUME WatchInv, [Next]_vars PROVE WatchInv'
      OBVIOUS
    <2>1. JobInv' /\ Armed(m') BY JobInvNext, GuardsStep DEF WatchInv, GuardStep
    <2>2. op'.monitored => Watched(m') BY WatchedStep
    <2> QED BY <2>1, <2>2 DEF WatchInv
  <1> QED BY <1>1, <1>2, PTL DEF Spec

-----------------------------------------------------------------------------
(* The pause holds, and runouts are served: the last invariant and lemmas. *)

(* Where parking moves and neither macros nor resets interfere, a print    *)
(* being stopped for a pause cannot be taken for a new job.                *)
HoldInv ==
    /\ WatchInv /\ TimersInv
    /\ m.stopping /\ IsMmuPaused(m) =>
         m.idle = "Printing" \/ m.last_stats = "printing" \/ (m.last_stats = "paused" /\ ~m.new_job)

LEMMA ArmedNotPaused == ASSUME Armed(m), m.monitoring PROVE ~IsMmuPaused(m)
  BY Zenon DEF Armed, Watched, IsMmuPaused, IsPrinting

(* A step that leaves the MMU paused and the print stopping.               *)
LEMMA HoldStep ==
  ASSUME HoldInv, ParkingMoves, ~MacroPauses, ~AllowBoot, [Next]_vars,
         m'.stopping, IsMmuPaused(m')
  PROVE  \/ m'.idle = "Printing" \/ m'.last_stats = "printing"
         \/ m'.last_stats = "paused" /\ ~m'.new_job
  <1> USE DEF HoldInv, WatchInv, JobInv
  <1>0. m.enabled \/ ~IsMmuPaused(m) BY DEF PauseHistory
  <1>1. CASE Ordinary
    <2>1. KeepsHistory(m, m') BY <1>1, OrdinaryTracked DEF Tracked
    <2> QED BY <1>0, <2>1 DEF KeepsHistory, KeepsSeen
  <1>2. CASE UserPrints
    BY <1>2, UserPrintsStep DEF PauseHistory, StopsPrinting, Running
  <1>3. CASE ToolheadDrains \/ IdleTimesOut
    BY <1>0, <1>3, IdleEventStep DEF PauseHistory, StopsPrinting, KeepsKlipper, IsMmuPaused
  <1>4. CASE ReinitMmu BY <1>4, ReinitStep
  <1>5. CASE MmuDisable
    BY <1>5, DisableStep DEF IsMmuPaused
  <1>6. CASE \E kind \in {"runout", "clog"} : RaiseRunout(kind)
    BY <1>6, RaiseStep, ArmedNotPaused DEF KeepsJob, IsMmuPaused
  <1>7. CASE UNCHANGED vars BY <1>7 DEF vars
  <1> QED BY <1>1, <1>2, <1>3, <1>4, <1>5, <1>6, <1>7, NextSplit DEF Special

LEMMA HoldInvariant ==
  ASSUME ParkingMoves, ~MacroPauses, ~AllowBoot PROVE Spec => []HoldInv
  <1>1. Init => ~m.stopping
    <2> SUFFICES ASSUME Init PROVE ~m.stopping
      OBVIOUS
    <2>1. m.print_state = "initialized" /\ ~m.stopping BY ZenonT(60) DEF Init
    <2> QED BY <2>1
  <1>2. Spec => [](WatchInv /\ TimersInv)
    <2>1. Spec => []WatchInv BY WatchInvariant
    <2>2. Spec => []TimersInv BY TimersInvariant
    <2> QED BY <2>1, <2>2, PTL
  <1>3. Init /\ WatchInv /\ TimersInv => HoldInv BY <1>1 DEF HoldInv
  <1>4. HoldInv /\ [Next]_vars /\ (WatchInv /\ TimersInv)' => HoldInv'
    BY HoldStep DEF HoldInv
  <1> QED BY <1>2, <1>3, <1>4, PTL DEF Spec

(* An event raised and not served is in the queue or the operation that    *)
(* holds the mutex: only these steps end it.                               *)
LEMMA EventsWait ==
  ASSUME JobInv, [Next]_vars, Unserved, ~Unserved'
  PROVE  \/ OperationSucceeds \/ OperationFails \/ RunoutAtExtruder
         \/ \E kind \in Runouts : IgnoreRunout(kind)
  <1> USE DEF JobInv
  <1>0. Unserved <=> op.kind \in {"runout", "clog"} \/ HasRunout(m.pending)
    BY DEF Unserved, HasRunout
  <1>00. Unserved' <=> op'.kind \in {"runout", "clog"} \/ HasRunout(m'.pending)
    BY DEF Unserved, HasRunout
  <1>1. ASSUME UNCHANGED op, KeepsRunouts(m, m') PROVE FALSE
    BY <1>0, <1>00, <1>1 DEF KeepsRunouts
  <1>2. ASSUME op = Idle, KeepsRunouts(m, m') PROVE FALSE
    BY <1>0, <1>00, <1>2 DEF KeepsRunouts, Idle
  <1>3. CASE Ordinary
    <2>1. CASE RunQueued
      <3>1. CASE \E kind \in Runouts : HandleRunout(kind)
        <4>1. PICK kind \in Runouts : HandleRunout(kind) BY <3>1
        <4>2. op'.kind = kind /\ kind # "runout_dup" BY <4>1 DEF HandleRunout
        <4> QED BY <1>00, <4>2 DEF Runouts
      <3>2. CASE RunCallback
        <4>0. m.pending \in Seq(Callbacks) BY ZenonT(30) DEF IInv, Safe, State
        <4>1. /\ m.pending # <<>> /\ UNCHANGED op
              /\ Head(m.pending) \in {"print_start", "end_complete", "end_error", "standby", "bootup"}
          BY <3>2 DEF RunCallback, Deliver
        <4>2. Head(m.pending) \notin Runouts BY <4>1 DEF Runouts
        <4>3. Safe(Dequeued) /\ Dequeued.pending = Tail(m.pending)
          BY <4>1, DequeuedSafe, PausedDequeued DEF IInv
        <4>4. HasRunout(m.pending) => HasRunout(Dequeued.pending)
          BY <4>0, <4>1, <4>2, <4>3, RunoutInTail
        <4>5. HasRunout(Dequeued.pending) => HasRunout(m'.pending)
          <5>1. CASE m' = PrintStartCommand(Dequeued)
            BY <4>3, <5>1, FixFollows DEF Safe, FollowsQuietly, Follows, KeepsQueue
          <5>2. CASE \E homed \in BOOLEAN, end \in {"complete", "error"} :
                       m' = PrintEndCommand(Dequeued, end, FALSE, homed)
            BY <4>3, <5>2, EndCommandFollows DEF EndsUsed, FollowsQuietly, Follows, KeepsQueue
          <5>3. CASE m' = PrintEndCommand(Dequeued, "standby", TRUE, TRUE)
            BY <4>3, <5>3, EndCommandFollows DEF EndsUsed, FollowsQuietly, Follows, KeepsQueue
          <5>4. CASE \E found \in Positions : m' = Bootup(Dequeued, found)
            BY <4>3, <5>4, BootupFacts DEF Safe
          <5> QED BY <3>2, <5>1, <5>2, <5>3, <5>4 DEF RunCallback, Becomes
        <4> QED BY <1>1, <4>1, <4>4, <4>5 DEF KeepsRunouts
      <3> QED BY <2>1, <3>1, <3>2 DEF RunQueued
    <2>2. CASE ~RunQueued
      <3>1. KeepsRunouts(m, m')
        BY <1>3, <2>2, KlipperTracked, ResumeTracked, CommandTracked, MmuTracked,
           OperationTracked DEF Ordinary
      <3>2. CASE BeginOperation BY <1>2, <3>1, <3>2 DEF BeginOperation, MutexFree
      <3>3. CASE UNCHANGED op BY <1>1, <3>1, <3>3
      <3> QED BY <1>3, <2>2, <3>2, <3>3
              DEF Ordinary, SdStops, JobEnds, ToolheadMoves, SetTemperature, ResumePrint,
                  SlicerPrintStart, SlicerPrintEnd, PausePrint, CancelPrint, ClearPause,
                  MmuPause, MmuUnlockCommand, MmuRecover, NothingToDo, OperationHeats,
                  MacroCallsPause, HotendOffTimer, Command
    <2> QED BY <2>1, <2>2
  <1>4. CASE UserPrints BY <1>1, <1>4, UserPrintsStep DEF KeepsRunouts, KeepsQueue
  <1>5. CASE ToolheadDrains \/ IdleTimesOut
    BY <1>1, <1>5, IdleEventStep DEF KeepsRunouts, KeepsQueue
  <1>6. CASE ReinitMmu BY <1>1, <1>6, ReinitStep DEF KeepsRunouts
  <1>7. CASE MmuDisable BY <1>1, <1>7, DisableStep DEF KeepsRunouts
  <1>8. CASE \E kind \in {"runout", "clog"} : RaiseRunout(kind)
    BY <1>1, <1>8, RaiseStep DEF KeepsRunouts, KeepsQueue
  <1>9. CASE UNCHANGED vars BY <1>1, <1>9 DEF vars, KeepsRunouts
  <1> QED BY <1>3, <1>4, <1>5, <1>6, <1>7, <1>8, <1>9, NextSplit DEF Special

(* A failing handler of a job in print or running leaves a pause.          *)
LEMMA ErrorPauses ==
  ASSUME NEW s, Safe(s), IsInPrint(s) \/ s.stats = "printing", NEW found \in Positions
  PROVE  IsPaused(HandleMmuError(s, FALSE, found))
  BY ErrorFacts DEF Locked, KeepsJob, IsMmuPaused, IsPaused

-----------------------------------------------------------------------------
(* The theorems. *)

(* Every command, callback and timer leaves a well formed driver state: in  *)
(* particular RESUME only ever goes to a state of its own choosing.         *)
THEOREM TypeCorrect == Spec => []TypeOK
  <1>1. IInv => TypeOK BY DEF IInv, Safe, TypeOK
  <1> QED BY <1>1, IInvInvariant, PTL

(* "Pause temp should not be None" (mmu_controller.py:2755): in an MMU      *)
(* pause the temperature to resume with is known, whatever ran since.       *)
THEOREM PausedTempAlwaysKnown == Spec => []PausedTempKnown
  <1>1. IInv => PausedTempKnown BY DEF IInv, Safe, TempKnown, PausedTempKnown
  <1> QED BY <1>1, IInvInvariant, PTL

(* The hotend-off timer (_hotend_off_handler) is never armed in an active   *)
(* print, nor after MMU_UNLOCK heated the extruder for the user.            *)
THEOREM TimerNeverArmedInPrint == Spec => []TimerNeverInPrint
  <1>1. IInv => TimerNeverInPrint BY DEF IInv, Safe, TimerOff, TimerNeverInPrint
  <1> QED BY <1>1, IInvInvariant, PTL

(* The two together: neither the timer nor an unknown temperature leaves a  *)
(* print, a resumed print or an unlocked MMU with a cold extruder.          *)
THEOREM HotendAlwaysGuarded == Spec => []HotendGuarded
  <1>1. PausedTempKnown /\ TimerNeverInPrint => HotendGuarded BY DEF HotendGuarded
  <1> QED BY <1>1, PausedTempAlwaysKnown, TimerNeverArmedInPrint, PTL

(* ResumeRestores, for every bound and with every feature: RESUME returns  *)
(* to the print at the temperature saved by the first error of the pause,  *)
(* monitored; no later error, timer or callback replaces what was saved    *)
(* (_handle_mmu_error, _continue_after).                                   *)
THEOREM ResumeAlwaysRestores == Spec => ResumeRestores
  <1>1. ASSUME IInv, [Next]_vars, IsMmuPaused(m)
        PROVE  /\ m'.print_state = "printing" =>
                    /\ m.paused_temp = "print" => m'.target = "print"
                    /\ m'.monitoring /\ m'.resume_to = "ready"
               /\ IsMmuPaused(m') =>
                    m'.paused_temp = m.paused_temp /\ m'.resume_to = m.resume_to
    <2>1. PausedOutcome(m, m') BY <1>1, PausedStep
    <2>2. m.resume_to \in {"ready", "printing"} BY <1>1, ZenonT(30) DEF IInv, Safe, State
    <2>3. CASE Stays(m, m') BY <2>3, Zenon DEF Stays, IsMmuPaused
    <2>4. CASE Resumes(m, m') BY <2>2, <2>4, Zenon DEF Resumes, IsMmuPaused
    <2>5. CASE Restarts(m, m') BY <2>5, Zenon DEF Restarts, IsMmuPaused
    <2>6. CASE Cancels(m, m') BY <2>6, Zenon DEF Cancels, IsMmuPaused
    <2>7. CASE Resets(m, m') BY <2>7, Zenon DEF Resets, IsMmuPaused
    <2> QED BY <2>1, <2>3, <2>4, <2>5, <2>6, <2>7 DEF PausedOutcome
  <1> QED BY <1>1, IInvInvariant, PTL DEF Spec, ResumeRestores

(* A job that ends out of its MMU pause, by CANCEL_PRINT or a print end,   *)
(* has its heaters turned off (on_print_end): the job start that parking   *)
(* may report in between is ruled out by the history of the pause.         *)
THEOREM PausedJobAlwaysEndsCold == Spec => PausedJobEndsCold
  <1>1. ASSUME JobInv, [Next]_vars, IsMmuPaused(m), ~m.new_job,
               m'.print_state \in {"complete", "cancelled", "error"}
        PROVE  m'.target = "off"
    <2>1. PausedOutcome(m, m') BY <1>1, PausedStep DEF JobInv
    <2>2. m.resume_to \in {"ready", "printing"}
      BY <1>1, ZenonT(30) DEF JobInv, IInv, Safe, State
    <2>3. Cancels(m, m')
      BY <1>1, <2>1, <2>2, Zenon
      DEF PausedOutcome, Stays, Resumes, Restarts, Resets, IsMmuPaused
    <2>4. ParkingMoves => ~Starts(m)
      <3> SUFFICES ASSUME ParkingMoves, Starts(m) PROVE FALSE
        OBVIOUS
      <3>1. /\ m.idle # "Printing" /\ m.stats = "printing" /\ m.last_stats # "paused"
            /\ m.stats # PreviousStats(m)
        BY <1>1 DEF Starts, StartDetected, StatsChanged
      <3>2. m.last_stats # "printing" BY <3>1 DEF PreviousStats
      <3> QED BY <1>1, <3>1, <3>2 DEF JobInv, PauseHistory, Running
    <2> QED BY <2>3, <2>4 DEF Cancels
  <1> QED BY <1>1, JobInvariant, PTL DEF Spec, PausedJobEndsCold

(* Where parking moves the toolhead and neither macros nor resets          *)
(* interfere, nothing that runs before the SD print has stopped undoes the *)
(* pause: not the job start its own parking move could report              *)
(* (_handle_idle_timeout_event).                                           *)
THEOREM PauseAlwaysHolds ==
  ASSUME ParkingMoves, ~MacroPauses, ~AllowBoot PROVE Spec => PauseHolds
  <1>1. ASSUME HoldInv, [Next]_vars, m.stopping, IsMmuPaused(m)
        PROVE  IsMmuPaused(m') \/ m'.stats = "cancelled"
    <2>1. PausedOutcome(m, m') BY <1>1, PausedStep DEF HoldInv, WatchInv, JobInv
    <2>2. m.stats = "printing"
      BY <1>1 DEF HoldInv, WatchInv, JobInv, PauseHistory, StopsPrinting
    <2>3. ~Starts(m)
      BY <1>1, <2>2 DEF HoldInv, Starts, StartDetected, StatsChanged, PreviousStats
    <2> QED BY <1>1, <2>1, <2>2, <2>3
            DEF PausedOutcome, Stays, Resumes, Restarts, Cancels, Resets
  <1> QED BY <1>1, HoldInvariant, PTL DEF Spec, PauseHolds

(* Unless the driver is reset (reinit leaves the timers alone), the long   *)
(* idle timeout is in force while the MMU is locked and the hotend-off     *)
(* timer is armed only then.                                               *)
THEOREM PauseTimersInForce == ASSUME ~AllowBoot PROVE Spec => []PauseTimers
  <1>1. TimersInv => PauseTimers BY DEF TimersInv, Timers, PauseTimers
  <1> QED BY <1>1, TimersInvariant, PTL

(* Runout detection is on only in an active print, where no macro enters a *)
(* pause in an operation whose end then resumes the monitoring, and where  *)
(* no MMU_PAUSE is forced out of a print                                   *)
(* (_wrap_suspend_filament_monitoring).                                    *)
THEOREM MonitoredOnlyInPrint ==
  ASSUME ~MacroPauses, ~AllowForce PROVE Spec => []MonitoringOnlyInPrint
  <1>1. WatchInv => MonitoringOnlyInPrint
    BY DEF WatchInv, Armed, Watched, MonitoringOnlyInPrint
  <1> QED BY <1>1, WatchInvariant, PTL

(* Both: the guards of a pause and the guards of a print, each in its      *)
(* place.                                                                  *)
THEOREM GuardsAlwaysInPlace ==
  ASSUME ~MacroPauses, ~AllowForce, ~AllowBoot PROVE Spec => []GuardsInPlace
  <1>1. PauseTimers /\ MonitoringOnlyInPrint => GuardsInPlace BY DEF GuardsInPlace
  <1> QED BY <1>1, PauseTimersInForce, MonitoredOnlyInPrint, PTL

(* No command but RESUME, and no callback but the handler of a runout,     *)
(* restarts the SD print and leaves the MMU paused.                        *)
THEOREM OnlyResumeOrRunoutEverContinues == Spec => OnlyResumeOrRunoutContinues
  <1>1. ASSUME JobInv, [Next]_vars, m.stats = "paused", IsMmuPaused(m'), m'.stats = "printing"
        PROVE  op.kind = "runout" \/ \E kind \in Runouts : IgnoreRunout(kind)
    <2>0. ~Quiet(m, m') BY <1>1 DEF Quiet
    <2>1. CASE Ordinary
      BY <1>1, <2>0, <2>1, KlipperTracked, ResumeTracked, CommandTracked, MmuTracked,
         OperationTracked, QueueTracked
      DEF Ordinary, JobInv
    <2>2. CASE UserPrints BY <1>1, <2>2, UserPrintsStep DEF JobInv, Running
    <2>3. CASE ToolheadDrains \/ IdleTimesOut
      BY <1>1, <2>3, IdleEventStep DEF JobInv, KeepsKlipper
    <2>4. CASE ReinitMmu BY <1>1, <2>4, ReinitStep DEF JobInv, KeepsKlipper
    <2>5. CASE MmuDisable BY <1>1, <2>5, DisableStep DEF JobInv, KeepsKlipper
    <2>6. CASE \E kind \in {"runout", "clog"} : RaiseRunout(kind)
      BY <1>1, <2>6, RaiseStep DEF JobInv
    <2>7. CASE UNCHANGED vars BY <1>1, <2>7 DEF vars
    <2> QED BY <1>1, <2>1, <2>2, <2>3, <2>4, <2>5, <2>6, <2>7, NextSplit DEF Special
  <1> QED BY <1>1, JobInvariant, PTL DEF Spec, OnlyResumeOrRunoutContinues

(* A runout handler "will send_resume_command() or fail and pause"         *)
(* (mmu_sensor_runout.py:154): however the queue, the operation in         *)
(* progress, resets and print ends interleave with it.                     *)
THEOREM HandlersAlwaysResumeOrPause == Spec => HandlersResumeOrPause
  <1>1. ASSUME JobInv, [Next]_vars, Unserved, ~Unserved',
               IsInPrint(m) \/ m.stats = "printing"
        PROVE  ~m'.pause_sent \/ IsPaused(m')
    <2>0. m \in State BY <1>1 DEF JobInv, IInv, Safe
    <2>1. CASE OperationSucceeds
      <3>1. op.kind = "runout"
        <4>1. op'.kind = "none" /\ op.kind \in {"change", "runout"}
          BY <2>1 DEF OperationSucceeds, Idle
        <4>2. KeepsRunouts(m, m') BY <1>1, <2>1, OperationTracked
        <4>3. HasRunout(m.pending) => HasRunout(m'.pending) BY <4>2 DEF KeepsRunouts
        <4> QED BY <1>1, <4>1, <4>3 DEF Unserved, HasRunout
      <3> DEFINE moved == [m EXCEPT !.filament = "settled"]
                 c == ContinueAfter(moved, op.kind)
      <3>2. Safe(moved)
        BY <1>1, ZenonT(30)
        DEF JobInv, IInv, Safe, State, Positions, TempKnown, TimerOff, IsMmuPaused, IsPrinting
      <3> HIDE DEF moved
      <3>3. Safe(c) /\ c \in State BY <3>1, <3>2, ContinueAfterSafe DEF Safe
      <3>4. m' = ResumeMonitoring(SendResume(c)) BY <2>1, <3>1 DEF OperationSucceeds, moved
      <3> HIDE DEF c
      <3> DEFINE d == SendResume(c)
      <3>5. Safe(d) /\ ~d.pause_sent
        BY <3>3, SendResumeSafe, SendResumeFacts
      <3>6. op \in Ops BY <1>1 DEF JobInv, IInv
      <3> HIDE DEF d
      <3>7. KeepsKlipper(d, ResumeMonitoring(d)) BY <3>5, <3>6, ResumeMonitoringTracked
      <3> QED BY <3>4, <3>5, <3>7 DEF KeepsKlipper, d
    <2>2. CASE OperationFails
      <3>1. PICK found \in Positions : m' = HandleMmuError(ResumeMonitoring(m), FALSE, found)
        BY <2>2 DEF OperationFails, Becomes
      <3> DEFINE u == ResumeMonitoring(m)
      <3>2. Safe(u) /\ u.print_state = m.print_state /\ u.stats = m.stats
        BY <1>1, <2>2, ResumeMonitoringSafe, ResumeMonitoringTracked
        DEF JobInv, IInv, KeepsKlipper, OperationFails
      <3> HIDE DEF u
      <3> QED BY <1>1, <3>1, <3>2, ErrorPauses DEF u, IsInPrint, IsMmuPaused
    <2>3. CASE RunoutAtExtruder
      <3> DEFINE d == Dequeued
                 f == FixStartedState(d)
      <3>1. /\ Safe(d) /\ d.print_state = m.print_state /\ d.stats = m.stats
        BY <1>1, <2>3, DequeuedSafe, PausedDequeued
        DEF JobInv, IInv, RunoutAtExtruder, Deliver, KeepsJob, KeepsKlipper
      <3>2. PICK found \in Positions : m' = HandleMmuError(f, FALSE, found)
        BY <2>3 DEF RunoutAtExtruder, Becomes
      <3> HIDE DEF d
      <3>3. IsInPrint(d) \/ d.stats = "printing" BY <1>1, <3>1 DEF IsInPrint, IsMmuPaused
      <3>4. Safe(f) /\ (f = d \/ f.print_state = "printing")
        BY <3>1, FixStartedStateSafe, FixFacts DEF Safe
      <3> HIDE DEF f
      <3> QED BY <3>2, <3>3, <3>4, ErrorPauses DEF IsInPrint
    <2>4. CASE \E kind \in Runouts : IgnoreRunout(kind)
      <3>1. Safe(Dequeued) BY <1>1, <2>4, DequeuedSafe DEF JobInv, IInv, IgnoreRunout, Deliver
      <3> DEFINE d == IF m.enabled THEN FixStartedState(Dequeued) ELSE Dequeued
      <3>2. d \in State BY <3>1, FixStartedStateSafe DEF Safe
      <3>3. m' = SendResume(d) BY <2>4 DEF IgnoreRunout
      <3> HIDE DEF d
      <3> QED BY <3>2, <3>3, SendResumeFacts
    <2> QED BY <1>1, <2>1, <2>2, <2>3, <2>4, EventsWait
  <1> QED BY <1>1, JobInvariant, PTL DEF Spec, HandlersResumeOrPause

=============================================================================

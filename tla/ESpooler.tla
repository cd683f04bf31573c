------------------------------- MODULE ESpooler -------------------------------
(***************************************************************************)
(* The eSpooler of one unit (unit/mmu_espooler.py): a DC motor per gate    *)
(* that rewinds the spool or helps filament off it.  A motor runs along    *)
(* with a move, by command, or in a burst that a timer ends; the one gate  *)
(* in print assist mode gets a burst whenever its tension trigger closes   *)
(* or the extruder has moved far enough.                                   *)
(*                                                                         *)
(* The handlers call one another and never yield, so each is an operator   *)
(* from a state of the eSpooler to a state, named after the method.        *)
(* SpoolDrying has the actions.  The end of a burst is an event on which   *)
(* the environment manager starts the burst of the next spool it rotates   *)
(* (_handle_espooler_burst_done), from within the eSpooler's own handler;  *)
(* its list of spools is therefore part of this state.                     *)
(***************************************************************************)
EXTENDS Integers, FiniteSets

CONSTANTS
    NumGates,      \* gates 0 .. NumGates - 1 of the unit
    AssistGates,   \* gates with an assist motor pin
    RespoolGates,  \* gates with a respool motor pin
    MaxDuty,       \* motor power is 0 .. MaxDuty
    MaxBursts      \* espooler_assist_burst_trigger_max

Gates == 0 .. NumGates - 1

ASSUME ESpoolerAssumption ==
    /\ NumGates \in Nat \ {0}
    /\ AssistGates \subseteq Gates
    /\ RespoolGates \subseteq Gates
    /\ MaxDuty \in Nat \ {0}
    /\ MaxBursts \in Nat \ {0}

None     == -1
Duties   == 0 .. MaxDuty
BurstDuty == MaxDuty           \* espooler_assist_burst_power, espooler_rewind_burst_power
Turns    == {"assist", "rewind"}
Ops      == Turns \cup {"off", "print"}
Off      == <<"off", 0>>
Print0   == <<"print", 0>>

EState ==
    [ trigger  : BOOLEAN,                   \* espooler_assist_burst_trigger: switch, not extruder
      op       : [Gates -> Ops \X Duties],  \* operation, what the driver believes
      motor    : [Gates -> Ops \X Duties],  \* what the pins say
      timed    : SUBSET Gates,              \* burst_gates: a timer will end the burst
      assist   : Gates \cup {None},         \* print_assist_gate
      armed    : SUBSET Gates,              \* burst_trigger_enabled
      pressed  : SUBSET Gates,              \* burst_trigger_state
      count    : [Gates -> 0 .. MaxBursts], \* back_to_back_burst_count
      watching : BOOLEAN,                   \* the extruder monitor has the callback
      spools   : SUBSET Gates,              \* spools_to_rotate, ascending
      hand     : SUBSET Gates,              \* ghost: turning because of MMU_ESPOOLER
      orphaned : SUBSET Gates ]             \* ghost: a burst that lost its timer

-----------------------------------------------------------------------------
(* Motors. *)

Running(o) == o[1] \in Turns
Turn(g)    == [assist |-> g \in AssistGates, rewind |-> g \in RespoolGates]

(* _update_pwm: nothing is sent when the record has this setting already.  *)
UpdatePwm(e, g, o, v) ==
    IF e.op[g] = <<o, v>> THEN e
    ELSE [e EXCEPT !.motor[g] = IF v = 0 THEN Off ELSE <<o, v>>]

Forget(e, g) == [e EXCEPT !.hand = @ \ {g}, !.orphaned = @ \ {g}]

\* The motor is stopped and operation x recorded.
Stop(e, g, o, x) == [Forget(UpdatePwm(e, g, o, 0), g) EXCEPT !.op[g] = x]

(* set_operation for assist and rewind, up to the cancelling of a burst.   *)
StartMotor(e, g, o, v) ==
    LET stopped == IF Running(e.op[g]) THEN UpdatePwm(e, g, o, 0) ELSE e
    IN  Forget(IF Turn(g)[o] THEN [UpdatePwm(stopped, g, o, v) EXCEPT !.op[g] = <<o, v>>]
               ELSE stopped, g)

(* _handle_espooler_burst.  There is no burst of g to cancel.              *)
Burst(e, g, o) ==
    IF g \in e.timed \/ (Running(e.op[g]) /\ g # e.assist) THEN e
    ELSE [StartMotor(e, g, o, BurstDuty) EXCEPT !.timed = @ \cup {g}]

\* advance: no gate is in print assist mode, or that gate.
Advance(e, g) == IF g = None THEN e ELSE Burst(e, g, "assist")

-----------------------------------------------------------------------------
(* The end of a burst. *)

First(S) == CHOOSE g \in S : \A h \in S : g <= h

(* The environment manager's _rotate_spools_in_gates and, on the event of  *)
(* a finished burst, the next spool.                                       *)
Rotate(e, S) == Burst([e EXCEPT !.spools = S], First(S), "rewind")

BurstDone(e, g) ==
    LET left == e.spools \ {g}
    IN  IF g \notin e.spools THEN e
        ELSE IF left = {} THEN [e EXCEPT !.spools = {}] ELSE Rotate(e, left)

(* _dequeue_espooler_burst: cancel the timer of g's burst, if it has one.  *)
Dequeue(e, g) ==
    IF g \in e.timed THEN BurstDone([e EXCEPT !.timed = @ \ {g}], g) ELSE e

-----------------------------------------------------------------------------
(* set_operation, one operator for each operation. *)

Run(e, g, o, v) == Dequeue(StartMotor(e, g, o, v), g)

SetOff(e, g) ==
    Dequeue(Stop(e, g, "off", IF g = e.assist THEN Print0 ELSE Off), g)

\* Faulty variant: the trigger stays enabled.
Disarm_TriggerKept(e, g) == SetOff([e EXCEPT !.count[g] = 0], g)

\* _set_burst_trigger_enable
Disarm(e, g) ==
    IF g \in e.armed
    THEN SetOff([e EXCEPT !.armed = @ \ {g}, !.count[g] = 0], g)
    ELSE e

Arm(e, g) ==
    IF g \in e.armed THEN e
    ELSE LET armed == [e EXCEPT !.armed = @ \cup {g}]
         IN  IF g \in e.pressed THEN Advance(armed, g) ELSE armed

\* Faulty variant: the motor is recorded as off, and not stopped.
ResetAssist_MotorLeft(e) ==
    IF e.assist = None THEN e
    ELSE LET off == [e EXCEPT !.assist = None, !.watching = FALSE, !.op[e.assist] = Off]
         IN  Dequeue(IF e.trigger THEN Disarm(off, e.assist) ELSE off, e.assist)

(* reset_print_assist_mode *)
ResetAssist(e) ==
    IF e.assist = None THEN e
    ELSE LET g     == e.assist
             off   == Stop([e EXCEPT !.assist = None], g, "off", Off)
             plain == IF e.trigger THEN Disarm(off, g) ELSE off
         IN  Dequeue([plain EXCEPT !.watching = FALSE], g)

(* Entering print assist mode.  Arming a trigger that is pressed starts a  *)
(* burst, whose timer the last line cancels: nothing is left to end it.    *)
AssistMode(e, g) ==
    LET other   == IF g # e.assist THEN ResetAssist(e) ELSE e
        mode    == [Stop(other, g, "print", Print0) EXCEPT !.assist = g]
        primed  == IF e.trigger THEN Arm(mode, g) ELSE [mode EXCEPT !.watching = TRUE]
        begun   == primed.op[g] # Print0
    IN  Dequeue([primed EXCEPT !.orphaned = IF begun THEN @ \cup {g} ELSE @], g)

SetPrint(e, g, v) ==
    IF v = 0 THEN AssistMode(e, g)
    ELSE IF g # e.assist THEN ResetAssist(e) ELSE e

-----------------------------------------------------------------------------
(* Handlers of timers and switches. *)

\* Faulty variant: a trigger that is stuck earns any number of bursts.
StopBurst_NoLimit(e, g) ==
    IF g # e.assist THEN SetOff(e, g)
    ELSE IF g \in e.pressed THEN Advance(AssistMode(e, g), g)
    ELSE [AssistMode(e, g) EXCEPT !.count[g] = 0]

(* _stop_espooler_burst, the timer of a burst.  On the assist gate a       *)
(* trigger still pressed earns another burst, up to MaxBursts in a row.    *)
StopBurst(e, g) ==
    IF g # e.assist THEN SetOff(e, g)
    ELSE LET idle == AssistMode(e, g)
         IN  IF g \notin e.pressed THEN [idle EXCEPT !.count[g] = 0]
             ELSE IF idle.count[g] < MaxBursts
                  THEN Advance([idle EXCEPT !.count[g] = @ + 1], g)
                  ELSE idle

(* _handle_button_advance, on each edge of the tension trigger.            *)
ButtonAdvance(e, g, down) ==
    LET seen == [e EXCEPT !.pressed = IF down THEN @ \cup {g} ELSE @ \ {g}]
    IN  IF ~ e.trigger \/ g \notin e.armed THEN seen
        ELSE IF down THEN Advance([seen EXCEPT !.count[g] = @ + 1], g)
        ELSE [seen EXCEPT !.count[g] = 0]

=============================================================================

----------------------------- MODULE SpoolDrying -----------------------------
(***************************************************************************)
(* Filament drying (unit/mmu_environment_manager.py, MMU_HEATER) together  *)
(* with the eSpooler that turns the spools meanwhile.                      *)
(*                                                                         *)
(* With a heater per gate a cycle dries the gates asked for, at most       *)
(* MaxHeaters at a time, the others queued; a periodic check on the        *)
(* reactor ends a gate's drying on time or humidity and gives its place to *)
(* the next.  With one heater for all, every gate is dried at once.  Each  *)
(* handler runs without yielding.  Commands hold the gcode mutex: while a  *)
(* move runs, only timers, switches and the extruder monitor act.          *)
(***************************************************************************)
EXTENDS ESpooler

CONSTANTS
    MaxHeaters,    \* max_concurrent_heaters
    MaxSteps       \* bound: commands, moves and edges of the triggers

ASSUME SpoolDryingAssumption ==
    /\ MaxHeaters \in Nat \ {0}
    /\ MaxSteps \in Nat

VARIABLES
    e,         \* the eSpooler
    drying,    \* _drying_state of each gate
    cycle,     \* _drying_gates: the gates of the current or last cycle
    hot,       \* gates whose heater has a target
    raw,       \* ghost: gates heated by hand since their heater was last off
    rotate,    \* _rotate_enabled
    moving,    \* the gate whose filament an espooler-assisted move drives, or None
    enabled,   \* mmu.is_enabled
    perGate,   \* configuration: a heater and a sensor for each gate
    steps      \* bound

vars == <<e, drying, cycle, hot, raw, rotate, moving, enabled, perGate, steps>>

States == {"none", "queued", "active", "complete", "canceled"}
Done   == {"complete", "canceled"}

TypeOK ==
    /\ e \in EState
    /\ drying \in [Gates -> States]
    /\ {cycle, hot, raw} \subseteq SUBSET Gates
    /\ {rotate, enabled, perGate} \subseteq BOOLEAN
    /\ moving \in Gates \cup {None}
    /\ steps \in 0 .. MaxSteps

Nothing == [g \in Gates |-> "none"]

Init ==
    /\ e \in { [ trigger |-> t, op |-> [g \in Gates |-> Off], motor |-> [g \in Gates |-> Off],
                 timed |-> {}, assist |-> None, armed |-> {}, pressed |-> {},
                 count |-> [g \in Gates |-> 0], watching |-> FALSE, spools |-> {},
                 hand |-> {}, orphaned |-> {} ] : t \in BOOLEAN }
    /\ drying = Nothing
    /\ cycle = {} /\ hot = {} /\ raw = {}
    /\ rotate = FALSE
    /\ moving = None
    /\ enabled = TRUE
    /\ perGate \in BOOLEAN
    /\ steps = 0

Step    == steps < MaxSteps /\ steps' = steps + 1
Command == Step /\ enabled /\ moving = None

-----------------------------------------------------------------------------
(* Drying, the pure part. *)

Active(d)  == {g \in Gates : d[g] = "active"}
Queued(d)  == {g \in Gates : d[g] = "queued"}
Become(d, S, state) == [g \in Gates |-> IF g \in S THEN state ELSE d[g]]
IsDrying   == Active(drying) \cup Queued(drying) # {}

\* Faulty variant: all of them, whatever the limit.
Starting_NoLimit(d) == {Queued(d)}

(* _start_next_queued_gates: the gates that get a heater, as many as there *)
(* are places and gates waiting.  The queue is in the order the user named *)
(* the gates, which can be any.                                            *)
Starting(d) ==
    LET used == Cardinality(Active(d))
    IN  {S \in SUBSET Queued(d) :
            \/ S = {} /\ (Queued(d) = {} \/ used >= MaxHeaters)
            \/ S # {} /\ used + Cardinality(S) <= MaxHeaters
                      /\ (S = Queued(d) \/ used + Cardinality(S) = MaxHeaters)}

AllDone(d) == \A g \in cycle : d[g] \in Done

\* _heater_off for some gates, then _heater_on for others.
Heat(off, on) == hot' = (hot \ off) \cup on /\ raw' = raw \ off

-----------------------------------------------------------------------------
(* MMU_HEATER. *)

\* DRY=1: start_drying_cycle.
StartCycle(G, rot) ==
    /\ Command /\ ~ IsDrying
    /\ rot => G # {}
    /\ cycle' = G /\ rotate' = rot
    /\ e' = [e EXCEPT !.spools = {}]
    /\ LET waiting == Become(Nothing, G, "queued")
       IN  \E S \in IF perGate THEN Starting(waiting) ELSE {Gates} :
              /\ drying' = Become(waiting, S, "active")
              /\ Heat({}, S)
    /\ UNCHANGED <<moving, enabled, perGate>>

\* STOP=1 or TEMP=0: stop_or_cancel, for a whole cycle, some of its gates or no cycle.
StopCycle ==
    /\ Command /\ IsDrying /\ ~ perGate
    /\ drying' = Nothing /\ cycle' = {} /\ rotate' = FALSE
    /\ Heat(Gates, {})
    /\ UNCHANGED <<e, moving, enabled, perGate>>

CancelGates(G) ==
    /\ Command /\ IsDrying /\ perGate
    /\ LET gone == Become(drying, G \cap (Active(drying) \cup Queued(drying)), "canceled")
       IN  \E S \in Starting(gone) :
              LET next == Become(gone, S, "active")
              IN  IF AllDone(next)
                  THEN /\ drying' = Nothing /\ cycle' = {} /\ rotate' = FALSE
                       /\ Heat((G \cap Active(drying)) \cup cycle, {})
                  ELSE /\ drying' = next
                       /\ Heat(G \cap Active(drying), S)
                       /\ UNCHANGED <<cycle, rotate>>
    /\ UNCHANGED <<e, moving, enabled, perGate>>

HeatersOff(G) ==
    /\ Command /\ ~ IsDrying
    /\ Heat(IF perGate THEN G ELSE Gates, {})
    /\ UNCHANGED <<e, drying, cycle, rotate, moving, enabled, perGate>>

\* TEMP=: set_heater_target.  A queued gate only has its temperature noted.
HeatersOn(G) ==
    /\ Command
    /\ G # {} /\ (perGate => Cardinality(G) <= MaxHeaters)
    /\ LET on == IF perGate THEN G \ Queued(drying) ELSE Gates
       IN  hot' = hot \cup on /\ raw' = raw \cup on
    /\ UNCHANGED <<e, drying, cycle, rotate, moving, enabled, perGate>>

-----------------------------------------------------------------------------
(* _check_mmu_environment, the periodic check.  Of the gates drying, those *)
(* in S have reached their time or humidity.                               *)

Completes(S) ==
    /\ UNCHANGED <<e, cycle, moving, enabled, perGate, steps>>
    /\ S # {} /\ S \subseteq Active(drying)
    /\ ~ perGate => S = Active(drying)
    /\ LET over == Become(drying, S, "complete")
       IN  \E P \in IF perGate THEN Starting(over) ELSE {{}} :
              /\ drying' = Become(over, P, "active")
              /\ LET end == IF perGate THEN AllDone(drying') ELSE TRUE
                 IN  /\ Heat(IF ~ perGate THEN Gates ELSE IF end THEN S \cup cycle ELSE S, P)
                     /\ rotate' = (rotate /\ ~ end)

\* The spools of the gates in S, which are empty, are turned one after the other.
RotateSpools(S) ==
    /\ IsDrying /\ rotate
    /\ S # {} /\ (perGate => S \subseteq Active(drying))
    /\ e' = Rotate(e, S)
    /\ UNCHANGED <<drying, cycle, hot, raw, rotate, moving, enabled, perGate, steps>>

-----------------------------------------------------------------------------
(* The eSpooler at work. *)

HeatersAside == UNCHANGED <<drying, cycle, hot, raw, rotate, enabled, perGate>>

BurstEnds(g) ==
    /\ g \in e.timed
    /\ HeatersAside /\ UNCHANGED <<moving, steps>>
    /\ e' = StopBurst(e, g)

Trigger(g) ==
    /\ Step
    /\ e' = ButtonAdvance(e, g, g \notin e.pressed)
    /\ HeatersAside /\ UNCHANGED moving

\* _handle_extruder_movement
ExtruderMoves ==
    /\ e.watching /\ enabled
    /\ e' = Advance(e, e.assist)
    /\ HeatersAside /\ UNCHANGED <<moving, steps>>

\* _adjust_espooler_assist, whenever the filament position or the print state is set.
Loaded(g) ==
    /\ Command
    /\ g # e.assist
    /\ e' = SetPrint(e, g, 0)
    /\ HeatersAside /\ UNCHANGED moving

NotLoaded ==
    /\ Command
    /\ e' = ResetAssist(e)
    /\ HeatersAside /\ UNCHANGED moving

\* _wrap_espooler around a move of the selected gate's filament.
MoveBegins(g, o, v) ==
    /\ Command
    /\ moving' = g
    /\ e' = Run(e, g, o, v)
    /\ HeatersAside

MoveEnds ==
    /\ moving # None
    /\ moving' = None
    /\ e' = SetOff(e, moving)
    /\ HeatersAside /\ UNCHANGED steps

-----------------------------------------------------------------------------
(* MMU_ESPOOLER.  ALLOFF=1 is HandOff of each gate in turn; RESET=1 is     *)
(* NotLoaded.                                                              *)

HandTrigger(g) ==
    /\ Command
    /\ e' = Advance(e, g)
    /\ HeatersAside /\ UNCHANGED moving

\* TIGHTEN=1, LOOSEN=1, BURST=1
HandBurst(g, o) ==
    /\ Command
    /\ e' = Burst(e, g, o)
    /\ HeatersAside /\ UNCHANGED moving

HandRun(g, o, v) ==
    /\ Command
    /\ LET run == Run(e, g, o, v)
       IN  e' = [run EXCEPT !.hand = IF run.motor[g] = Off THEN @ ELSE @ \cup {g}]
    /\ HeatersAside /\ UNCHANGED moving

\* The code refuses this during a print job, which is not part of this state.
HandPrint(g, v) ==
    /\ Command
    /\ e' = SetPrint(e, g, v)
    /\ HeatersAside /\ UNCHANGED moving

HandOff(g) ==
    /\ Command
    /\ e' = SetOff(e, g)
    /\ HeatersAside /\ UNCHANGED moving

-----------------------------------------------------------------------------
(* MMU ENABLE=0 and ENABLE=1.  The eSpooler hears of it first. *)

Disable ==
    /\ Command
    /\ enabled' = FALSE
    /\ e' = [ResetAssist(e) EXCEPT !.spools = {}]
    /\ drying' = Nothing /\ cycle' = {} /\ rotate' = FALSE
    /\ Heat(Gates, {})
    /\ UNCHANGED <<moving, perGate>>

Enable ==
    /\ Step /\ ~ enabled
    /\ enabled' = TRUE
    /\ e' = [e EXCEPT !.spools = {}]
    /\ drying' = Nothing /\ cycle' = {} /\ rotate' = FALSE
    /\ UNCHANGED <<hot, raw, moving, perGate>>

-----------------------------------------------------------------------------
Heater ==
    \/ \E G \in SUBSET Gates : \/ \E rot \in BOOLEAN : StartCycle(G, rot)
                               \/ CancelGates(G)
                               \/ HeatersOff(G)
                               \/ HeatersOn(G)
                               \/ Completes(G)
                               \/ RotateSpools(G)
    \/ StopCycle

Spooler ==
    \/ \E g \in Gates : \/ BurstEnds(g)
                        \/ Trigger(g)
                        \/ Loaded(g)
                        \/ HandTrigger(g)
                        \/ HandOff(g)
                        \/ \E v \in Duties : HandPrint(g, v)
                        \/ \E o \in Turns : HandBurst(g, o)
                        \/ \E o \in Turns, v \in Duties : HandRun(g, o, v)
                        \/ \E o \in Turns, v \in Duties \ {0} : MoveBegins(g, o, v)
    \/ HandTrigger(e.assist)
    \/ ExtruderMoves \/ NotLoaded \/ MoveEnds

Next == Heater \/ Spooler \/ Disable \/ Enable

Spec == Init /\ [][Next]_vars

(* The reactor runs the timers of bursts, and what dries is dry in time:   *)
(* weak fairness of BurstEnds(g) and of Completes, with their enabling     *)
(* conditions spelled out, which TLC is slow to find in nested handlers.   *)
FairSpec ==
    /\ Spec
    /\ \A g \in Gates : \/ []<>(g \notin e.timed \/ StopBurst(e, g) = e)
                        \/ []<><<BurstEnds(g)>>_vars
    /\ []<>(Active(drying) = {}) \/ []<><<\E S \in SUBSET Gates : Completes(S)>>_vars

-----------------------------------------------------------------------------
(* Properties. *)

(* A motor turns as the driver has it on record, and for a reason that     *)
(* ends: a burst with its timer, the move at hand, or a command.  The      *)
(* exception is the gate that entered print assist mode with its trigger   *)
(* pressed, whose burst lost its timer; it stops when the mode is left.    *)
MotorsAccounted ==
    /\ \A g \in Gates : e.motor[g] # Off =>
          /\ e.op[g] = e.motor[g]
          /\ g \in e.timed \cup e.hand \cup e.orphaned \cup {moving}
    /\ e.orphaned \subseteq {e.assist}

(* Print assist belongs to one gate: only its trigger or, without          *)
(* triggers, the extruder monitor starts bursts, no other gate is in print *)
(* mode, and bursts in a row are counted only of its trigger, held down.   *)
AssistAlone ==
    /\ e.armed = IF e.trigger THEN {e.assist} \ {None} ELSE {}
    /\ e.watching <=> ~ e.trigger /\ e.assist # None
    /\ \A g \in Gates : /\ e.op[g][1] = "print" => g = e.assist
                        /\ e.op[g][1] = "off" => g # e.assist
                        /\ e.trigger /\ e.count[g] # 0 => g = e.assist /\ g \in e.pressed

(* Every gate drying is heated, and no other unless by hand; heaters of a  *)
(* cycle keep to their limit, and no gate waits while there is room.       *)
HeatersAccounted ==
    /\ Active(drying) \subseteq hot /\ hot \subseteq Active(drying) \cup raw
    /\ perGate => Cardinality(Active(drying)) <= MaxHeaters
    /\ Queued(drying) # {} => perGate /\ Cardinality(Active(drying)) = MaxHeaters

(* A queued gate gets its turn or is cancelled, and a burst ends, the      *)
(* trigger stuck or not.                                                   *)
TurnsEnd ==
    \A g \in Gates : /\ drying[g] = "queued" ~> drying[g] # "queued"
                     /\ g \in e.timed ~> g \notin e.timed

===============================================================================

------------------------------- MODULE GearSync -------------------------------
(***************************************************************************)
(* Which gear motor follows the extruder, with which current and which     *)
(* rotation distance: sync_mode of MmuDrive, the sync, current and         *)
(* selection methods of the controller (mmu_filament_movement.py,          *)
(* mmu_controller.py) and MmuSyncFeedback, one object per unit, which      *)
(* listens to their events.  Gates of a unit share a drive (type A) or     *)
(* have one each (type B).                                                 *)
(*                                                                         *)
(* The methods run to their end before others do, but for the reactor's    *)
(* callbacks: the controller's recommendations (Sample), the deferred      *)
(* change of current, which waits for the driver's bus (TangleStarts,      *)
(* TangleLands), and the deferred change of rotation distance, which waits *)
(* for the lookahead queue (RdApplied).  A method is an operator from a    *)
(* state of the machine to a state; an action applies one or more.         *)
(*                                                                         *)
(* The feature is on, sensors are proportional, sync_gear_current is below *)
(* 100 %.  The bypass, disabling the MMU and test commands are left out.   *)
(***************************************************************************)
CONSTANTS
    Gates, Units,
    None,
    Tuned,     \* a rotation distance the sync controller comes to
    Layouts    \* machines to consider: unit and drive of each gate, a drive
               \* bearing the name of a gate; units that always grip the
               \* filament; units that sync in a print (sync_to_extruder)

ASSUME GearSyncAssumption ==
    /\ None \notin Gates /\ Tuned \notin Gates \cup {None}
    /\ \A f \in Layouts :
           /\ f.unit \in [Gates -> Units] /\ f.drive \in [Gates -> Gates]
           /\ \A g \in Gates : f.unit[f.drive[g]] = f.unit[g]
           /\ f.gripped \subseteq f.synced /\ f.synced \subseteq Units

VARIABLES
    fit,   \* the layout at hand
    s,     \* the machine
    op     \* the command that runs: "none", "watched" if monitoring goes on,
           \* "suspended" by wrap_suspend_filament_monitoring, "quiet" if it
           \* was off before

vars == <<fit, s, op>>

Modes    == {"unsynced", "follow", "lead", "extruder"}  \* DRIVE_*: follow is GEAR_SYNCED_TO_EXTRUDER
Currents == {"full", "sync", "wrap"}                    \* run_current_percent
Rds      == Gates \cup {Tuned}                          \* a gate stands for its calibrated value
Changes  == [gate : Gates, boost : BOOLEAN]
NoWrap   == [gate |-> None, before |-> "full"]

Machine ==
    [ gate       : Gates \cup {None},      \* gate_selected
      here       : Units,                  \* mmu_unit(): its unit, or the last one
      homed      : BOOLEAN,                \* its selector is
      inside     : BOOLEAN,                \* filament_pos >= EXTRUDER_ENTRY
      standalone : BOOLEAN,                \* _standalone_sync
      print      : {"off", "started", "printing", "paused"},
      monitoring : BOOLEAN,                \* filament_monitoring_enabled
      wrap       : [gate : Gates \cup {None}, before : Currents], \* wrap_gear_current
      mode       : [Gates -> Modes],       \* of a drive
      current    : [Gates -> Currents],    \* of a drive, as recorded
      rd         : [Gates -> Rds],         \* of a drive
      active     : SUBSET Units,           \* sync feedback at work
      armed      : SUBSET Units,           \* _tangle_prevention_active
      requested  : SUBSET Units,           \* _tangle_prevention_requested
      boosted    : [Units -> Gates \cup {None}],   \* _tangle_prevention_boosted, _gate
      pending    : [Units -> Changes \cup {None}], \* _pending_tangle
      landing    : [Units -> Changes \cup {None}], \* its SET_TMC_CURRENT is under way
      scheduled  : [Units -> Rds \cup {None}],     \* _last_scheduled_rd
      pendingRd  : [Units -> Rds \cup {None}] ]    \* _pending_rd

TypeOK == fit \in Layouts /\ s \in Machine /\ op \in {"none", "watched", "suspended", "quiet"}

Drive(g)    == fit.drive[g]
Percent(c)  == IF c.boost THEN "full" ELSE "sync"

-----------------------------------------------------------------------------
(* Currents. *)

(* The driver has the deferred change, and the record follows.             *)
Land(m, u) ==
    LET c == m.landing[u] IN
    [m EXCEPT !.landing[u] = None,
              !.current[Drive(c.gate)] = Percent(c),
              !.boosted[u] = IF c.boost THEN c.gate ELSE None]

(* A change for the same driver waits for the one on the bus.              *)
BusFree(m, g) ==
    LET u == fit.unit[g] IN
    IF m.landing[u] # None /\ Drive(m.landing[u].gate) = Drive(g) THEN Land(m, u) ELSE m

Refused(m, g, percent) == m.wrap # NoWrap \/ m.current[Drive(g)] = percent

AdjustGearCurrent(m, g, percent) ==
    IF g = None \/ Refused(m, g, percent) THEN m
    ELSE [BusFree(m, g) EXCEPT !.current[Drive(g)] = percent]

\* Faulty variant: what was boosted is forgotten, and stays boosted.
InvalidateTangle_NoRestore(m, u) ==
    [m EXCEPT !.pending[u] = None, !.requested = @ \ {u}, !.boosted[u] = None]

(* Deferred changes are dropped first, what was boosted is put back.       *)
InvalidateTangle(m, u) ==
    LET dropped == [m EXCEPT !.pending[u] = None, !.requested = @ \ {u}, !.boosted[u] = None]
    IN IF m.boosted[u] = None THEN dropped ELSE AdjustGearCurrent(dropped, m.boosted[u], "sync")

-----------------------------------------------------------------------------
(* Sync feedback of unit u, on events. *)

InvalidateRd(m, u) == [m EXCEPT !.scheduled[u] = None, !.pendingRd[u] = None]

RestoreRd(m) == IF m.gate = None THEN m ELSE [m EXCEPT !.rd[Drive(m.gate)] = m.gate]

HandleSynced(u, m) ==
    IF u \in m.active THEN m ELSE InvalidateRd([m EXCEPT !.active = @ \cup {u}], u)

\* Faulty variant: the rotation distance stays where it was tuned to.
HandleUnsynced_RdKept(u, m) ==
    LET calm == InvalidateTangle(m, u)
    IN IF u \notin m.active THEN calm
       ELSE InvalidateRd([calm EXCEPT !.active = @ \ {u}, !.armed = @ \ {u}], u)

HandleUnsynced(u, m) ==
    LET calm == InvalidateTangle(m, u)
        off  == [calm EXCEPT !.active = @ \ {u}, !.armed = @ \ {u}]
    IN IF u \notin m.active THEN calm
       ELSE InvalidateRd(RestoreRd(InvalidateTangle(off, u)), u)

(* No change of current is under way when a gate is selected (Landed).     *)
HandleGateSelected(m) ==
    LET boosts == {u \in Units : m.boosted[u] # None}
        put    == {Drive(m.boosted[u]) : u \in boosts}
        none   == [u \in Units |-> None]
    IN [m EXCEPT !.scheduled = none, !.pendingRd = none, !.pending = none, !.boosted = none,
                 !.requested = {},
                 !.current = [d \in Gates |-> IF d \in put /\ m.wrap = NoWrap THEN "sync" ELSE @[d]]]

(* The unit that takes an event to be its own: manages_gate(gate_selected).*)
(* All units do without a gate, but then no drive changes its mode.        *)
Hearing(m) == fit.unit[m.gate]

-----------------------------------------------------------------------------
(* Drives and selection. *)

SyncMode(m, g, mode) ==
    LET was == m.mode[Drive(g)]
        set == [m EXCEPT !.mode[Drive(g)] = mode]
    IN IF mode = was THEN m
       ELSE IF mode = "follow" THEN HandleSynced(Hearing(set), set)
       ELSE IF was = "follow" THEN HandleUnsynced(Hearing(set), set)
       ELSE set

(* The first steps of move_filament, and the last of _sync_gear_to_extruder*)
Motors(m, mode) ==
    AdjustGearCurrent(SyncMode(m, m.gate, mode), m.gate, IF mode = "follow" THEN "sync" ELSE "full")

\* Faulty variant: the drive left is unsynced after the selection.
SetGateSelected_LateUnsync(m, g) ==
    LET moved == [m EXCEPT !.gate = g, !.here = IF g = None THEN @ ELSE fit.unit[g]]
        left  == IF None \in {m.gate, g} THEN moved ELSE SyncMode(moved, m.gate, "unsynced")
    IN IF g = m.gate THEN m ELSE RestoreRd(HandleGateSelected(left))

(* The drive left is unsynced while its unit still takes the event as its  *)
(* own.                                                                    *)
SetGateSelected(m, g) ==
    LET left  == IF m.gate = None THEN m ELSE SyncMode(m, m.gate, "unsynced")
        moved == [left EXCEPT !.gate = g, !.here = IF g = None THEN @ ELSE fit.unit[g]]
    IN IF g = m.gate THEN m ELSE RestoreRd(HandleGateSelected(moved))

-----------------------------------------------------------------------------
(* Whether to sync. *)

SyncGearToExtruder(m, sync) ==
    LET ready == m.gate # None /\ m.homed
        r     == IF ready THEN m ELSE [m EXCEPT !.standalone = FALSE]
    IN IF m.gate = None THEN r ELSE Motors(r, IF sync /\ ready THEN "follow" ELSE "unsynced")

(* The intention is "yes", "no" or, to be found out, "ask".                *)
WantsSync(m, intention, skipCheck) ==
    LET gripped == m.here \in fit.gripped
        must    == ~skipCheck /\ m.inside /\ gripped
    IN IF ~skipCheck /\ ~m.inside THEN FALSE
       ELSE IF must \/ intention = "yes" THEN TRUE
       ELSE IF intention = "no" THEN FALSE
       ELSE IF m.print = "printing" THEN m.inside /\ m.here \in fit.synced
       ELSE must \/ m.standalone

(* To grip the filament a servo may buzz the gear.                         *)
GripFilament(m, sync, buzz) == IF sync /\ buzz /\ m.gate # None THEN Motors(m, "unsynced") ELSE m

ResetSync(m, intention, skipCheck, buzz) ==
    LET sync == WantsSync(m, intention, skipCheck)
    IN SyncGearToExtruder(GripFilament(m, sync, buzz), sync)

-----------------------------------------------------------------------------
(* Monitoring and the print. *)

DisableMonitoring(m) ==
    InvalidateTangle([m EXCEPT !.monitoring = FALSE, !.armed = @ \ {m.here}], m.here)

(* FlowGuard, which was off, resets the sync controller.                   *)
EnableMonitoring(m) ==
    LET reset == IF m.monitoring THEN m ELSE InvalidateRd(m, m.here)
    IN [reset EXCEPT !.monitoring = TRUE, !.armed = IF m.gate = None THEN @ ELSE @ \cup {m.here}]

OnPrintStart(m) == ResetSync([m EXCEPT !.print = "printing"], "ask", FALSE, FALSE)

FixStartedState(m) == IF m.print = "started" THEN OnPrintStart(m) ELSE m

HandleMmuError(m, buzz) ==
    LET fixed == FixStartedState(m)
    IN ResetSync(IF fixed.print = "printing"
                 THEN [DisableMonitoring(fixed) EXCEPT !.print = "paused"] ELSE fixed,
                 "ask", FALSE, buzz)

-----------------------------------------------------------------------------
(* Callbacks of the reactor, at any time. *)

(* A tick of the sync controller of unit u: a new rotation distance rd, or *)
(* None within the dead-band, and what the tension is (_process_status).   *)
Asked(m, u, tension) ==
    IF u \notin m.armed THEN m
    ELSE IF u \notin m.requested /\ tension = "high"
    THEN [m EXCEPT !.requested = @ \cup {u}, !.pending[u] = [gate |-> m.gate, boost |-> TRUE]]
    ELSE IF u \in m.requested /\ tension = "eased"
    THEN [m EXCEPT !.requested = @ \ {u},
                   !.pending[u] = [gate  |-> IF m.boosted[u] = None THEN m.gate ELSE m.boosted[u],
                                   boost |-> FALSE]]
    ELSE m

Sample(u, tension, rd) ==
    /\ u \in s.active
    /\ rd \in {None, s.gate, Tuned} /\ (rd # None => rd # s.scheduled[u])
    /\ s' = Asked(IF rd = None THEN s
                  ELSE [s EXCEPT !.scheduled[u] = rd, !.pendingRd[u] = rd], u, tension)
    /\ UNCHANGED <<fit, op>>

(* What was asked is what the driver has, as far as is known.              *)
Realigned(m, u) ==
    [m EXCEPT !.requested = IF m.boosted[u] = None THEN @ \ {u} ELSE @ \cup {u}]

(* The deferred change begins, if it still can (_apply_pending_tangle).    *)
TangleStarts(u) ==
    LET c     == s.pending[u]
        taken == [s EXCEPT !.pending[u] = None]
    IN /\ c # None
       /\ \/ /\ u \notin s.active \cap s.armed
             /\ s' = Realigned(taken, u)
          \/ /\ u \in s.active \cap s.armed /\ Refused(s, c.gate, Percent(c))
             /\ s' = IF s.current[Drive(c.gate)] = Percent(c)
                     THEN [taken EXCEPT !.boosted[u] = IF c.boost THEN c.gate ELSE None]
                     ELSE Realigned(taken, u)
          \/ /\ u \in s.active \cap s.armed /\ ~Refused(s, c.gate, Percent(c))
             /\ s.landing[u] = None
             /\ s' = [taken EXCEPT !.landing[u] = c]
       /\ UNCHANGED <<fit, op>>

TangleLands(u) ==
    /\ s.landing[u] # None
    /\ s' = Land(s, u)
    /\ UNCHANGED <<fit, op>>

(* The lookahead queue has come to the change (_apply_pending_rd).         *)
RdApplied(u) ==
    /\ s.pendingRd[u] # None
    /\ LET taken == [s EXCEPT !.pendingRd[u] = None]
       IN s' = IF u \in s.active /\ s.gate # None /\ fit.unit[s.gate] = u
               THEN [taken EXCEPT !.rd[Drive(s.gate)] = s.pendingRd[u]] ELSE taken
    /\ UNCHANGED <<fit, op>>

-----------------------------------------------------------------------------
(* Commands under wrap_sync_gear_to_extruder, one at a time. *)

(* Those that suspend monitoring, and those that do not.                   *)
Begin(suspends) ==
    /\ op = "none"
    /\ LET fixed == FixStartedState(s)
       IN /\ s'  = IF suspends THEN DisableMonitoring(fixed) ELSE fixed
          /\ op' = IF ~suspends THEN "watched"
                   ELSE IF fixed.monitoring THEN "suspended" ELSE "quiet"
    /\ UNCHANGED fit

Follows == s.gate # None /\ s.mode[Drive(s.gate)] = "follow"

Running == op # "none" /\ UNCHANGED <<fit, op>>
Calm    == s.wrap = NoWrap

(* move_filament, and where it may take the filament.                      *)
Move(mode, inside) ==
    /\ Running /\ s.gate # None
    /\ Calm \/ mode = "unsynced"
    /\ s' = [Motors(s, mode) EXCEPT !.inside = inside]

(* Before form-tip, purge and the macros of a load or unload.              *)
Reset(intention, buzz) ==
    /\ Running /\ Calm
    /\ s' = ResetSync(s, intention, FALSE, buzz)

(* The driver's bus takes milliseconds, and a command that selects waits   *)
(* for the moves before.                                                   *)
Landed == \A u \in Units : s.landing[u] = None

(* select_gate homes a selector that is not; None is unselect_gate.        *)
Select(g) ==
    /\ Running /\ Calm /\ Landed
    /\ s' = [SetGateSelected(s, g) EXCEPT !.homed = TRUE]

(* load_sequence and unload_sequence begin, always with monitoring off.    *)
Sequence ==
    /\ Running /\ Calm /\ op # "watched"
    /\ s' = RestoreRd(s)

WrapBegins ==
    /\ Running /\ Calm /\ s.gate # None
    /\ s' = [AdjustGearCurrent(s, s.gate, "wrap")
                EXCEPT !.wrap = [gate |-> s.gate, before |-> s.current[Drive(s.gate)]]]

(* The gear has been moved meanwhile, by itself.                           *)
WrapEnds ==
    /\ Running /\ ~Calm /\ ~Follows
    /\ s' = AdjustGearCurrent([s EXCEPT !.wrap = NoWrap], s.wrap.gate, s.wrap.before)

(* The wrappers undo what they did, then a command that failed reports it; *)
(* a recovery may find the filament elsewhere.                             *)
Unwrapped(buzz) ==
    ResetSync(IF op = "suspended" THEN EnableMonitoring(s) ELSE s, "ask", FALSE, buzz)

Ends(buzz) ==
    /\ op # "none" /\ Calm
    /\ op' = "none" /\ s' = Unwrapped(buzz)
    /\ UNCHANGED fit

Fails(buzz, inside) ==
    /\ op # "none" /\ Calm
    /\ op' = "none" /\ s' = HandleMmuError([Unwrapped(buzz) EXCEPT !.inside = inside], buzz)
    /\ UNCHANGED fit

-----------------------------------------------------------------------------
(* The print, and commands of their own. *)

Alone == op = "none" /\ UNCHANGED <<fit, op>>

(* on_print_start from the idle timeout's event, the rest from             *)
(* MMU_PRINT_START or the first command.                                   *)
PrintStarts ==
    /\ Alone /\ s.print \in {"off", "paused"}
    /\ s' = [EnableMonitoring(s) EXCEPT !.print = "started"]

PrintGoes ==
    /\ Alone /\ s.print = "started"
    /\ s' = OnPrintStart(s)

PrintEnds ==
    /\ Alone /\ s.print # "off"
    /\ s' = ResetSync([DisableMonitoring(s) EXCEPT !.standalone = FALSE, !.print = "off"],
                      "ask", FALSE, FALSE)

(* MMU_PAUSE, a clog or a runout that cannot be handled.                   *)
Pause(buzz) ==
    /\ Alone
    /\ s' = HandleMmuError(s, buzz)

(* RESUME: the tension is adjusted, and the last step is that of Ends.     *)
Resume ==
    /\ op = "none" /\ s.print = "paused"
    /\ s' = ResetSync([EnableMonitoring(s) EXCEPT !.print = "printing"], "ask", FALSE, FALSE)
    /\ op' = "watched"
    /\ UNCHANGED fit

SyncGearMotor(sync, buzz) ==
    /\ Alone
    /\ ~sync => s.here \notin fit.gripped
    /\ s' = ResetSync([s EXCEPT !.standalone = IF s.print \in {"printing", "paused"} THEN @ ELSE sync],
                      IF sync THEN "yes" ELSE "no", TRUE, buzz)

(* MMU_RECOVER tells, or finds out, gate and position.                     *)
MmuRecover(g, inside, buzz) ==
    /\ Alone /\ Landed
    /\ LET told == [SetGateSelected(s, g) EXCEPT !.inside = inside]
       IN s' = ResetSync(told, "ask", FALSE, buzz)

(* MMU_MOTORS_OFF: a selector that moves has to be homed again.            *)
MotorsOff(u) ==
    /\ Alone
    /\ LET off == ResetSync(s, "no", FALSE, FALSE)
       IN s' = IF u = off.here /\ u \notin fit.gripped THEN [off EXCEPT !.homed = FALSE] ELSE off

(* MMU_SYNC_FEEDBACK RESET=1                                               *)
FeedbackReset(u) ==
    /\ Alone
    /\ s' = InvalidateRd(s, u)

-----------------------------------------------------------------------------
Init ==
    /\ fit \in Layouts
    /\ op = "none"
    /\ \E u \in Units :
         s = [ gate       |-> None,
               here       |-> u,
               homed      |-> TRUE,
               inside     |-> FALSE,
               standalone |-> FALSE,
               print      |-> "off",
               monitoring |-> FALSE,
               wrap       |-> NoWrap,
               mode       |-> [g \in Gates |-> "unsynced"],
               current    |-> [g \in Gates |-> "full"],
               rd         |-> [g \in Gates |-> g],
               active     |-> {},
               armed      |-> {},
               requested  |-> {},
               boosted    |-> [v \in Units |-> None],
               pending    |-> [v \in Units |-> None],
               landing    |-> [v \in Units |-> None],
               scheduled  |-> [v \in Units |-> None],
               pendingRd  |-> [v \in Units |-> None] ]

Callbacks ==
    \E u \in Units :
        \/ \E tension \in {"high", "eased", "between"}, rd \in Rds \cup {None} : Sample(u, tension, rd)
        \/ TangleStarts(u)
        \/ TangleLands(u)
        \/ RdApplied(u)

Command ==
    \E buzz \in BOOLEAN :
        \/ \E suspends \in BOOLEAN : Begin(suspends)
        \/ \E mode \in Modes, inside \in BOOLEAN : Move(mode, inside)
        \/ \E intention \in {"yes", "no", "ask"} : Reset(intention, buzz)
        \/ \E g \in Gates \cup {None} : Select(g)
        \/ Sequence
        \/ WrapBegins
        \/ WrapEnds
        \/ Ends(buzz)
        \/ \E inside \in BOOLEAN : Fails(buzz, inside)

Others ==
    \/ PrintStarts
    \/ PrintGoes
    \/ PrintEnds
    \/ \E buzz \in BOOLEAN : Pause(buzz)
    \/ Resume
    \/ \E sync, buzz \in BOOLEAN : SyncGearMotor(sync, buzz)
    \/ \E g \in Gates \cup {None}, inside, buzz \in BOOLEAN : MmuRecover(g, inside, buzz)
    \/ \E u \in Units : MotorsOff(u)
    \/ \E u \in Units : FeedbackReset(u)

Next == Callbacks \/ Command \/ Others

Spec == Init /\ [][Next]_vars

-----------------------------------------------------------------------------
(* Properties. *)

(* Only the gear of the selected gate ever follows the extruder, and sync  *)
(* feedback works on its unit, on no other, and as long as it does: the    *)
(* event tells no unit or drive, each unit looks at the selection.         *)
OneFollower ==
    /\ \A d \in Gates : s.mode[d] # "unsynced" => s.gate # None /\ d = Drive(s.gate)
    /\ \A u \in Units : u \in s.active <=> Follows /\ fit.unit[s.gate] = u

(* A gear that follows and has more than the sync current has it from a    *)
(* boost on record, so that something will lower it: a boosted stepper     *)
(* must not stay "high for the rest of the print"                          *)
(* (mmu_sync_feedback.py:482).  A gear left unsynced by a command has its  *)
(* full current.                                                           *)
NoForgottenBoost ==
    /\ Follows /\ Calm /\ s.current[Drive(s.gate)] # "sync" =>
           \E u \in Units : s.boosted[u] # None /\ Drive(s.boosted[u]) = Drive(s.gate)
    /\ s.gate # None /\ ~Follows /\ op = "none" => s.current[Drive(s.gate)] = "full"

(* A gear that does not follow turns by the selected gate's calibrated     *)
(* rotation distance, and no other gear keeps one the sync controller came *)
(* to; in a print the gear has the one scheduled last, once it is applied. *)
RotationKnown ==
    /\ s.gate # None /\ ~Follows => s.rd[Drive(s.gate)] = s.gate
    /\ \A d \in Gates : s.rd[d] = Tuned => Follows /\ d = Drive(s.gate)
    /\ \A u \in s.active :
           s.monitoring /\ op = "none" /\ s.scheduled[u] # None /\ s.pendingRd[u] = None
               => s.rd[Drive(s.gate)] = s.scheduled[u]
=============================================================================

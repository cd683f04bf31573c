----------------------------- MODULE FilamentPath -----------------------------
(***************************************************************************)
(* Where the tip of the selected gate's filament really is, and where      *)
(* Happy Hare believes it to be: load_sequence, unload_sequence, tip       *)
(* forming, gate checks, ejection and recover_filament_pos of              *)
(* mmu_filament_movement.py, with the commands that start them, the error  *)
(* handler that follows them and the sanity check made at boot.            *)
(*                                                                         *)
(* An operation is a chain of stages, one for every motor move the code    *)
(* decides upon.  A move may slip, jam or be cut short by a power loss, so *)
(* it leaves the tip anywhere between where it was and where it was sent;  *)
(* the code learns of it from the sensors alone.                           *)
(***************************************************************************)
EXTENDS Integers

CONSTANT Fits       \* the layouts the machine may have, see FitType

(* An entry sensor before the extruder gear, a toolhead sensor behind it   *)
(* and an encoder may be fitted.  The filament parks behind the gate       *)
(* sensor (gate_parking_distance < 0) or on it; without a bowden the entry *)
(* sensor is the gate sensor; force is extruder_force_homing.              *)
FitType == [es : BOOLEAN, ts : BOOLEAN, enc : BOOLEAN,
            retract : BOOLEAN, bowden : BOOLEAN, force : BOOLEAN]

ASSUME FilamentPathAssumption ==
    /\ Fits \subseteq FitType
    /\ \A f \in Fits : ~f.bowden => f.es

VARIABLES
    layout,      \* where sensors are fitted, never changed
    tip,         \* where the tip is, a Zone
    pos,         \* filament_pos
    status,      \* gate_status of the gate
    stage,       \* the move under way, "idle" or "failed" (MmuError raised)
    job,         \* what the operation was asked to do, a record (see Job)
    calibrated   \* the bowden length is known

pathVars == <<layout, tip, pos, status, stage, job, calibrated>>

-----------------------------------------------------------------------------
(* Zones of the path, from the spool to the nozzle.                        *)
Gone     == 0    \* out of the gear's grip
Parked   == 1
Gate     == 2    \* just past the gate sensor
Tube     == 3
End      == 4    \* the last of the bowden
Entry    == 5    \* past the entry sensor, not in the extruder gear
Grip     == 6    \* in the extruder gear, short of the toolhead sensor
Toolhead == 7
Nozzle   == 8
Zones    == Gone .. Nozzle

(* filament_pos, as mmu_constants.py numbers it.                           *)
UNKNOWN        == -1
UNLOADED       == 0
HOMED_GATE     == 1
START_BOWDEN   == 2
IN_BOWDEN      == 3
END_BOWDEN     == 4
HOMED_ENTRY    == 5
HOMED_EXTRUDER == 6
EXTRUDER_ENTRY == 7
HOMED_TS       == 8
IN_EXTRUDER    == 9
LOADED         == 10

(* gate_status                                                             *)
GATE_UNKNOWN == -1
GATE_EMPTY == 0
GATE_AVAILABLE == 1
GATE_AVAILABLE_FROM_BUFFER == 2

Stages == {"idle", "failed", "loadGate", "loadBowden", "homeExtruder", "loadExtruder",
           "toNozzle", "formTip", "unloadExtruder", "leaveExtruder", "fastUnload",
           "unloadGate", "park", "eject"}

Job == [kind   : {"none", "load", "unload", "check", "eject"},
        full   : BOOLEAN,                \* the bowden move is the calibrated length
        skip   : BOOLEAN,                \* skip_extruder
        tip    : BOOLEAN,                \* Happy Hare forms the tip
        runout : BOOLEAN,                \* is_handling_runout
        start  : UNKNOWN .. LOADED]      \* start_filament_pos

NoJob == [kind |-> "none", full |-> TRUE, skip |-> FALSE, tip |-> FALSE,
          runout |-> FALSE, start |-> UNKNOWN]

AtLeast(a, b) == IF a >= b THEN a ELSE b

-----------------------------------------------------------------------------
(* Sensors.  A contiguous filament triggers every sensor behind its tip.   *)

GateAt == IF layout.bowden THEN Gate ELSE Entry

gs(z) == z >= GateAt                   \* the gate_homing_endstop
es(z) == layout.es /\ z >= Entry
ts(z) == layout.ts /\ z >= Toolhead

(* check_all_sensors_in_path: the gate sensor, es and ts as far as fitted. *)
LooksLoaded(z) == gs(z) /\ (layout.es => es(z)) /\ (layout.ts => ts(z))

(* check_any_sensors_in_path leaves out a gate sensor parked filament      *)
(* rests on; then the encoder is tried by a buzz of the gear.              *)
AnySensor(z)  == (layout.bowden /\ layout.retract /\ gs(z)) \/ es(z) \/ ts(z)
Detected(z)   == AnySensor(z) \/ (layout.enc /\ z >= Gate)

(* check_filament_in_extruder: the entry sensor settles it if fitted, then *)
(* a triggered toolhead sensor, then a retraction watched by the encoder.  *)
InExtruder(z) == IF layout.es THEN es(z) ELSE ts(z) \/ (layout.enc /\ z >= Grip)

-----------------------------------------------------------------------------
(* Recovery. *)

\* Faulty variant: the entry sensor is asked before the extruder is.
Recovered_EntryFirst(z, p, strict, heat) ==
    IF ts(z) THEN LOADED
    ELSE IF ~strict /\ p = LOADED /\ LooksLoaded(z) THEN LOADED
    ELSE IF es(z) THEN HOMED_ENTRY
    ELSE IF Detected(z) /\ heat /\ InExtruder(z) THEN IN_EXTRUDER
    ELSE IF gs(z) /\ ~layout.retract THEN UNLOADED
    ELSE IF gs(z) \/ Detected(z) THEN IN_BOWDEN
    ELSE UNLOADED

(* recover_filament_pos.                                                   *)
Recovered(z, p, strict, heat) ==
    IF ts(z) THEN LOADED
    ELSE IF ~strict /\ p = LOADED /\ LooksLoaded(z) THEN LOADED
    ELSE IF es(z) /\ ~layout.bowden THEN IN_EXTRUDER
    ELSE IF Detected(z) /\ heat /\ InExtruder(z) THEN IN_EXTRUDER
    ELSE IF es(z) THEN HOMED_ENTRY
    ELSE IF gs(z) /\ ~layout.retract THEN UNLOADED
    ELSE IF gs(z) \/ Detected(z) THEN IN_BOWDEN
    ELSE UNLOADED

(* ... which ends by correcting the status of a gate filament was seen in. *)
StatusAfter(z, p) ==
    IF ~Detected(z) THEN status
    ELSE IF p >= START_BOWDEN THEN AtLeast(status, GATE_AVAILABLE)
    ELSE IF status = GATE_EMPTY THEN GATE_UNKNOWN
    ELSE status

RecoverFilamentPos(strict) ==
    LET p == Recovered(tip, pos, strict, TRUE)
    IN  pos' = p /\ status' = StatusAfter(tip, p)

-----------------------------------------------------------------------------
(* Moves.  The gear alone cannot move filament the extruder holds, nor     *)
(* push it through the extruder gear at rest.                              *)

GearTo(z) ==
    IF tip = Gone \/ tip >= Grip THEN {tip}
    ELSE IF z < tip THEN z .. tip
    ELSE tip .. (IF z > Entry THEN Entry ELSE z)

SyncedTo(z) == IF tip = Gone THEN {tip} ELSE IF z < tip THEN z .. tip ELSE tip .. z

ExtruderTo(z) == IF tip < Grip THEN {tip} ELSE z .. tip

(* The fast unload goes the length of the bowden: it ends short of the     *)
(* gate sensor, unless the tip was not at the end of the bowden.           *)
FastUnloadTo == IF job.full /\ tip >= End THEN Tube ELSE Gone

(* Final parking, away from the point the sensor was homed at.             *)
ParkedFrom(z) ==
    IF z = Gone THEN {Gone}
    ELSE IF layout.retract THEN Parked .. z
    ELSE z .. GateAt

(* Where the move of a stage can leave the tip, be it done or cut short.   *)
Reach ==
    CASE stage = "loadGate"       -> GearTo(IF gs(tip) /\ layout.retract THEN GateAt - 1 ELSE GateAt)
      [] stage = "loadBowden"     -> GearTo(IF job.full THEN Entry ELSE Tube)
      [] stage = "homeExtruder"   -> GearTo(Entry)
      [] stage = "loadExtruder"   -> IF layout.ts THEN SyncedTo(Toolhead) ELSE {tip}
      [] stage = "toNozzle"       -> SyncedTo(Nozzle)
      [] stage = "formTip"        -> IF tip >= Grip THEN Entry .. tip ELSE {tip}
      [] stage = "unloadExtruder" -> IF layout.es THEN (IF es(tip) THEN SyncedTo(End) ELSE {tip})
                                     ELSE IF ts(tip) THEN SyncedTo(Grip) ELSE {tip}
      [] stage = "leaveExtruder"  -> SyncedTo(IF tip < End THEN tip ELSE End) \cup ExtruderTo(Entry)
      [] stage = "fastUnload"     -> GearTo(FastUnloadTo)
      [] stage = "unloadGate"     -> IF gs(tip) THEN GearTo(GateAt - 1) ELSE {tip}
      [] stage = "park"           -> ParkedFrom(tip)
      [] stage = "eject"          -> GearTo(Gone)
      [] OTHER                    -> {tip}

-----------------------------------------------------------------------------
(* Stages.  Each move is made (tip' is chosen from Reach), the sensors are *)
(* read where it ended, and the next stage follows, or MmuError.           *)

Go(s)   == stage' = s /\ UNCHANGED job
Fail    == stage' = "failed" /\ UNCHANGED job
Finish  == stage' = "idle" /\ job' = NoJob
Set(p)  == pos' = p                       \* set_filament_pos_state
Known   == UNCHANGED <<layout, calibrated>>
Moved   == tip' \in Reach

MustHome == layout.es /\ (layout.ts => layout.force)

(* What follows the bowden, if anything: home to the entry sensor, or let  *)
(* the extruder load home to the toolhead sensor.                          *)
AfterBowden == IF MustHome THEN "homeExtruder" ELSE IF job.skip THEN "idle" ELSE "loadExtruder"

LoadStage(s) == IF s = "idle" THEN Finish ELSE Go(s)

(* _home_to_gate: the status and position of a filament that arrived, or   *)
(* the gate marked empty.  A failed gate check ends the check as well.     *)
HomeToGate ==
    /\ stage = "loadGate"
    /\ Moved
    /\ LET reached == IF gs(tip) /\ layout.retract THEN ~gs(tip') ELSE gs(tip')
           none    == ~calibrated /\ ~layout.es       \* extruder_homing_endstop: none
       IN  \/ /\ reached
              /\ status' = AtLeast(status, GATE_AVAILABLE)
              /\ Set(IF layout.bowden THEN HOMED_GATE ELSE HOMED_ENTRY)
              /\ IF job.kind = "check" THEN Go("unloadGate")
                 ELSE IF ~calibrated THEN
                     \* the bowden is calibrated by homing to the extruder
                     IF none \/ es(tip') THEN Fail ELSE Go("homeExtruder")
                 ELSE IF layout.bowden THEN Go("loadBowden") ELSE LoadStage(AfterBowden)
           \/ /\ ~reached
              /\ status' = GATE_EMPTY
              /\ Set(UNLOADED)
              /\ \/ Fail
                 \/ job.kind = "check" /\ Finish
    /\ Known

(* _load_bowden: only an encoder notices filament that did not come along; *)
(* part of the bowden is loaded without the extruder.                      *)
LoadBowden ==
    /\ stage = "loadBowden"
    /\ Moved
    /\ \/ /\ layout.enc /\ tip' < End
          /\ Set(START_BOWDEN) /\ Fail
       \/ /\ job.full
          /\ Set(END_BOWDEN) /\ LoadStage(AfterBowden)
       \/ /\ ~job.full
          /\ Set(IN_BOWDEN) /\ Finish
    /\ UNCHANGED status /\ Known

(* _home_to_extruder: the move on from the entry sensor to the gear is     *)
(* measured, so it is not told apart from where the homing ended.          *)
HomeToExtruder ==
    /\ stage = "homeExtruder"
    /\ Moved
    /\ IF es(tip')
       THEN /\ Set(HOMED_EXTRUDER)
            /\ LoadStage(IF job.skip THEN "idle" ELSE "loadExtruder")
            /\ calibrated' = (calibrated \/ job.skip)
       ELSE Set(END_BOWDEN) /\ Fail /\ UNCHANGED calibrated
    /\ UNCHANGED <<layout, status>>

\* Faulty variant: homing to the toolhead sensor is taken to have worked.
LoadExtruder_Unhomed ==
    /\ stage = "loadExtruder"
    /\ Moved
    /\ IF ts(tip) THEN Fail /\ UNCHANGED pos
       ELSE Set(IF layout.ts THEN HOMED_TS ELSE pos) /\ Go("toNozzle")
    /\ UNCHANGED status /\ Known

(* _load_extruder, first half: a toolhead sensor triggered too early is    *)
(* taken to be broken, one not reached leaves filament at the gear.        *)
LoadExtruder ==
    /\ stage = "loadExtruder"
    /\ Moved
    /\ IF ts(tip) THEN Fail /\ UNCHANGED pos
       ELSE /\ IF layout.ts => ts(tip')
               THEN Set(IF layout.ts THEN HOMED_TS ELSE pos) /\ Go("toNozzle")
               ELSE Set(EXTRUDER_ENTRY) /\ Fail
    /\ UNCHANGED status /\ Known

(* ... second half: on to the nozzle, where only an encoder, and only      *)
(* without a toolhead sensor, notices filament that was not picked up.     *)
(* Purging and the macros that follow may still raise an error.            *)
ToNozzle ==
    /\ stage = "toNozzle"
    /\ Moved
    /\ \/ /\ Set(LOADED)
          /\ \/ Finish
             \/ Fail
          /\ calibrated' = TRUE
       \/ /\ layout.enc /\ ~layout.ts /\ tip' < Nozzle
          /\ Set(IF tip' = tip THEN pos ELSE IN_EXTRUDER)
          /\ Fail /\ UNCHANGED calibrated
    /\ UNCHANGED <<layout, status>>

(* What an unload does below the extruder: the fast move if filament is    *)
(* known to be at the end of a calibrated bowden, or a part of it is asked *)
(* for; else the gate is homed to from wherever the tip is.  Without a     *)
(* bowden a sensor just homed off is where parking starts from.            *)
Retreat(start, datum) ==
    IF \/ start >= END_BOWDEN /\ calibrated
       \/ start >= HOMED_GATE /\ ~job.full
    THEN IF layout.bowden THEN "fastUnload" ELSE IF datum THEN "park" ELSE "unloadGate"
    ELSE "unloadGate"

(* form_tip_standalone of filament the toolhead sensor does not see.       *)
TipState(p) == IF p = LOADED THEN EXTRUDER_ENTRY ELSE IN_BOWDEN

(* Tip forming, when asked for and filament is in the extruder, or always  *)
(* on a runout.  Without a toolhead sensor an encoder may tell there was no *)
(* filament to form a tip of, unless the macro reports where it parked.    *)
FormsTip == job.tip /\ (pos >= IN_EXTRUDER \/ job.runout)

FormTip ==
    /\ stage = "formTip"
    /\ IF ~FormsTip THEN UNCHANGED <<tip, pos>>
       ELSE IF layout.ts /\ ~ts(tip) THEN Set(TipState(pos)) /\ UNCHANGED tip
       ELSE /\ Moved
            /\ \/ Set(IN_EXTRUDER)
               \/ layout.enc /\ ~layout.ts /\ ~job.runout /\ tip < Grip /\ Set(IN_BOWDEN)
    /\ stage' = IF pos' >= EXTRUDER_ENTRY THEN "unloadExtruder" ELSE Retreat(pos', FALSE)
    /\ job' = [job EXCEPT !.start = pos']
    /\ UNCHANGED status /\ Known

(* A macro failed, or the encoder saw no movement of filament that is in   *)
(* the extruder: the position stays what it was.                           *)
FormTipFails ==
    /\ stage = "formTip"
    /\ IF FormsTip THEN Moved ELSE UNCHANGED tip
    /\ Fail
    /\ UNCHANGED <<pos, status>> /\ Known

\* Faulty variant: reverse homing off the entry sensor is taken to have worked.
UnloadExtruder_Unhomed ==
    /\ stage = "unloadExtruder"
    /\ Moved
    /\ Set(IF layout.es THEN HOMED_ENTRY ELSE pos)
    /\ Go(IF layout.es THEN Retreat(job.start, FALSE) ELSE "leaveExtruder")
    /\ UNCHANGED status /\ Known

(* _unload_extruder: reverse home off the entry sensor or, without one,    *)
(* off the toolhead sensor.  A sensor that sees nothing to begin with is   *)
(* believed, unless the sensor behind it does.                             *)
UnloadExtruder ==
    /\ stage = "unloadExtruder"
    /\ Moved
    /\ IF layout.es
       THEN IF es(tip') \/ ts(tip') THEN Fail /\ UNCHANGED pos
            ELSE Set(HOMED_ENTRY) /\ Go(Retreat(job.start, es(tip)))
       ELSE IF ts(tip') THEN Fail /\ UNCHANGED pos
            ELSE /\ Set(IF layout.ts THEN HOMED_TS ELSE pos)
                 /\ Go("leaveExtruder")
    /\ UNCHANGED status /\ Known

(* ... and from there blindly out of the extruder, by the extruder alone   *)
(* or with the gear, then some way into the bowden.                        *)
LeaveExtruder ==
    /\ stage = "leaveExtruder"
    /\ \/ tip' \in SyncedTo(IF tip < End THEN tip ELSE End) /\ Set(END_BOWDEN)
       \/ tip' \in ExtruderTo(Entry) /\ Set(HOMED_EXTRUDER)
    /\ Go(Retreat(job.start, FALSE))
    /\ UNCHANGED status /\ Known

(* _unload_bowden is given a length by unload_sequence, so what it does    *)
(* only for a full unload (length None) is not part of an unload.          *)
FastUnload ==
    /\ stage = "fastUnload"
    /\ Moved
    /\ Set(IN_BOWDEN)
    /\ Go("unloadGate")
    /\ UNCHANGED status /\ Known

(* Filament at the gate again came back from the end of the bowden at      *)
(* least: it is buffered.  After a runout what is left of it is ejected.   *)
Buffered == layout.bowden /\ job.start >= END_BOWDEN

Unloaded ==
    /\ Set(UNLOADED)
    /\ status' = IF job.kind = "check" THEN AtLeast(status, GATE_AVAILABLE)
                 ELSE IF Buffered /\ status # GATE_EMPTY THEN GATE_AVAILABLE_FROM_BUFFER
                 ELSE status
    /\ IF job.runout THEN Go("eject") ELSE Finish

\* Faulty variant: what did not clear the gate sensor is parked all the same.
UnloadGate_Uncleared ==
    /\ stage = "unloadGate"
    /\ \E z \in Reach : tip' \in ParkedFrom(z)
    /\ Unloaded
    /\ Known

(* _park_from_gate: reverse home off the gate sensor and park.  If that    *)
(* fails during a gate check the gate is marked empty and the filament     *)
(* unloaded, and the check of the other gates goes on, except in a print.  *)
UnloadGate ==
    /\ stage = "unloadGate"
    /\ \/ /\ \E z \in Reach : ~gs(z) /\ tip' \in ParkedFrom(z)
          /\ Unloaded
       \/ /\ Moved /\ gs(tip')
          /\ IF job.kind = "check"
             THEN /\ status' = GATE_EMPTY /\ Set(UNLOADED)
                  /\ \/ Fail
                     \/ Finish
             ELSE Fail /\ UNCHANGED <<pos, status>>
    /\ Known

(* _park_at_gate: the sensor that was just homed off is the gate sensor.   *)
ParkAtGate ==
    /\ stage = "park"
    /\ Moved
    /\ Unloaded
    /\ Known

(* _eject_from_gate: out of the gate sensor first, if every gate has one,  *)
(* then out of the gear; the gate is reset.  The position stays.           *)
EjectFromGate ==
    /\ stage = "eject"
    /\ \/ /\ gs(tip) => \E z \in GearTo(GateAt - 1) : ~gs(z)
          /\ tip' \in (IF tip >= Grip THEN {tip} ELSE Gone .. (IF gs(tip) THEN GateAt - 1 ELSE tip))
          /\ status' = GATE_EMPTY
          /\ Finish
       \/ /\ Moved /\ gs(tip')
          /\ Fail /\ UNCHANGED status
    /\ UNCHANGED pos /\ Known

-----------------------------------------------------------------------------
(* Commands, the error handler and power. *)

Start(k, s, j) ==
    /\ stage = "idle"
    /\ stage' = s
    /\ job' = [j EXCEPT !.kind = k]
    /\ UNCHANGED tip /\ Known

(* MMU_LOAD and tool changes load an unloaded gate that is not empty;      *)
(* MMU_TEST_LOAD stops short of the extruder, after part of the bowden     *)
(* unless FULL=1, and does not look at the gate's status.                  *)
Load(full, skip) ==
    /\ pos = UNLOADED
    /\ full \/ skip
    /\ skip \/ status # GATE_EMPTY
    /\ Start("load", "loadGate", [NoJob EXCEPT !.full = full, !.skip = skip])
    /\ UNCHANGED <<pos, status>>

(* unload_sequence; the boot check leaves no unknown position to recover.  *)
Unload(full, forms, runout) ==
    /\ pos # UNLOADED
    /\ Start("unload", "formTip", [NoJob EXCEPT !.full = full, !.tip = forms, !.runout = runout])
    /\ UNCHANGED <<pos, status>>

(* MMU_CHECK_GATE, of a gate whose filament is parked.                     *)
CheckGate ==
    /\ pos = UNLOADED
    /\ Start("check", "loadGate", NoJob)
    /\ UNCHANGED <<pos, status>>

(* MMU_EJECT of a parked filament.                                         *)
Eject ==
    /\ pos = UNLOADED
    /\ Start("eject", "eject", NoJob)
    /\ UNCHANGED <<pos, status>>

(* MMU_RECOVER                                                             *)
Recover(strict) ==
    /\ stage = "idle"
    /\ RecoverFilamentPos(strict)
    /\ UNCHANGED <<tip, stage, job>> /\ Known

(* handle_mmu_error: in a print, if so configured, the position is         *)
(* recovered; a tool change about to be tried again does so in any case.   *)
HandleError ==
    /\ stage = "failed"
    /\ Finish
    /\ \/ RecoverFilamentPos(FALSE)
       \/ UNCHANGED <<pos, status>>
    /\ UNCHANGED tip /\ Known

(* set_filament_pos_state saves the two ends of the path only.             *)
Saved == IF pos \in {LOADED, UNLOADED} THEN pos ELSE UNKNOWN

(* The check at boot: filament at every sensor of the extruder is loaded;  *)
(* what the sensors contradict is recovered, without heating.              *)
BootPos(z, p) ==
    IF (layout.es \/ layout.ts) /\ (layout.es => es(z)) /\ (layout.ts => ts(z)) THEN LOADED
    ELSE IF \/ p = LOADED /\ ~es(z) /\ ~ts(z)
            \/ p = UNLOADED /\ AnySensor(z)
            \/ p = UNKNOWN
    THEN Recovered(z, p, FALSE, FALSE)
    ELSE p

(* Power is lost, during any move, and Klipper starts again.               *)
Restart ==
    /\ Moved
    /\ Set(BootPos(tip', Saved))
    /\ status' \in {status, StatusAfter(tip', pos')}
    /\ Finish
    /\ Known

(* Where filament rests in the gate.                                       *)
AtRest == IF layout.retract THEN {Parked} ELSE {Parked, GateAt}

(* External: a spool is taken out of a parked gate, or put in.             *)
SpoolOut ==
    /\ stage = "idle" /\ pos = UNLOADED /\ tip \in AtRest
    /\ tip' = Gone
    /\ status' \in {status, GATE_EMPTY}
    /\ UNCHANGED <<pos, stage, job>> /\ Known

SpoolIn ==
    /\ stage = "idle" /\ pos = UNLOADED /\ tip = Gone
    /\ tip' \in AtRest
    /\ status' \in {status, GATE_UNKNOWN, GATE_AVAILABLE}
    /\ UNCHANGED <<pos, stage, job>> /\ Known

PathNext ==
    \/ \E full, skip \in BOOLEAN : Load(full, skip)
    \/ \E full, forms, runout \in BOOLEAN : Unload(full, forms, runout)
    \/ CheckGate
    \/ Eject
    \/ HomeToGate
    \/ LoadBowden
    \/ HomeToExtruder
    \/ LoadExtruder
    \/ ToNozzle
    \/ FormTip
    \/ FormTipFails
    \/ UnloadExtruder
    \/ LeaveExtruder
    \/ FastUnload
    \/ UnloadGate
    \/ ParkAtGate
    \/ EjectFromGate
    \/ \E strict \in BOOLEAN : Recover(strict)
    \/ HandleError
    \/ Restart
    \/ SpoolOut
    \/ SpoolIn

PathInit ==
    /\ layout \in Fits
    /\ tip \in {Gone} \cup AtRest
    /\ pos = UNLOADED
    /\ status \in {GATE_UNKNOWN, GATE_EMPTY, GATE_AVAILABLE}
    /\ stage = "idle"
    /\ job = NoJob
    /\ calibrated \in {~layout.bowden, TRUE}

PathSpec == PathInit /\ [][PathNext]_pathVars

-----------------------------------------------------------------------------
(* Properties. *)

(* Every variable has its type; filament_pos is never UNKNOWN once the     *)
(* boot check has run, so every unload knows a position to start from.     *)
PathTypeOK ==
    /\ layout \in Fits
    /\ tip \in Zones
    /\ pos \in UNLOADED .. LOADED
    /\ status \in GATE_UNKNOWN .. GATE_AVAILABLE_FROM_BUFFER
    /\ stage \in Stages
    /\ job \in Job
    /\ calibrated \in BOOLEAN

(* A gate recorded as unloaded, and not as empty, has its filament behind  *)
(* the gate sensor, however the last load, unload, check or restart ended: *)
(* selectors move and other gates load into the shared path on the         *)
(* strength of it.  Filament parked on the sensor is told by no sensor     *)
(* from filament further on, until it is at an entry sensor.               *)
ParkedWhenUnloaded ==
    stage = "idle" /\ pos = UNLOADED /\ status # GATE_EMPTY =>
        /\ layout.retract => ~gs(tip)
        /\ layout.bowden => ~es(tip)

(* Filament is declared loaded, by a load, by recovery or by the check at  *)
(* boot, only if the first sensor of the extruder that is fitted sees it:  *)
(* no slip, failed homing or power cut has a print start on filament that  *)
(* never reached the extruder.                                             *)
LoadedSeen ==
    [][ pos' = LOADED /\ (pos # LOADED \/ Restart) /\ (layout.es \/ layout.ts)
        => tip' >= (IF layout.es THEN Entry ELSE Toolhead) ]_pathVars

(* With an entry sensor, the gear alone never pulls on filament the        *)
(* extruder holds, whatever failed, was retried or was cut short before;   *)
(* except that filament between the extruder gear and a toolhead sensor is *)
(* taken to be in the bowden by form_tip_standalone.                       *)
GripRespected ==
    stage \in {"fastUnload", "unloadGate", "park", "eject"} /\ layout.es /\ tip >= Grip
        => layout.ts /\ tip = Grip

(* Heated recovery errs on the side of the extruder: filament in it is     *)
(* never taken to be out of it if anything fitted can tell, and filament   *)
(* past the gate sensor is never taken to be parked.                       *)
Recovering == stage \in {"idle", "failed"} /\ \E strict \in BOOLEAN : RecoverFilamentPos(strict)

RecoversSafely ==
    [][ Recovering /\ UNCHANGED tip /\ stage' = "idle" =>
            /\ tip >= Grip /\ (layout.es \/ layout.enc) => pos' >= IN_EXTRUDER
            /\ gs(tip) /\ layout.retract => pos' # UNLOADED ]_pathVars
=============================================================================

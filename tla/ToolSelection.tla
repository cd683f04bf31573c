---------------------------- MODULE ToolSelection ----------------------------
(***************************************************************************)
(* Which tool and gate Happy Hare has selected, how tools are mapped to    *)
(* gates, which gates are marked empty and where the filament stands: the  *)
(* selection methods of mmu_controller.py, the tool-to-gate map and        *)
(* EndlessSpool of mmu_gate_maps.py, and the commands that load, unload,   *)
(* change, select, home, eject, preload, scan, check, remap and recover.   *)
(*                                                                         *)
(* Klipper's gcode mutex lets one command run at a time, so a command is   *)
(* one action; what is uncertain is how far it gets.  A method is a        *)
(* function from a set of driver states to the set of states it can leave, *)
(* a state in which it raised MmuError having ok = FALSE: such a state     *)
(* passes through the rest of the command untouched, until a finally or    *)
(* the command's own handler.                                              *)
(***************************************************************************)
EXTENDS Integers, FiniteSets

CONSTANTS
    NumGates,       \* mmu_machine.num_gates; as many tools
    Group,          \* EndlessSpool group of each gate
    UnitTypes,      \* the kinds of MMU the unit may be, see UnitType
    EndlessSpool,   \* endless_spool_enabled
    OnLoad,         \* endless_spool_on_load
    Recovery,       \* filament_recovery_on_pause
    Retry,          \* retry_tool_change_on_error
    UserMaps,       \* bound: the <<tool, gate>> pairs a user maps anew
    BulkMaps        \* bound: the maps MMU_TTG_MAP MAP= is given

Gates == 0 .. NumGates - 1
Tools == Gates
None  == -1         \* TOOL_GATE_UNKNOWN

(* What the operations ask of a unit: its selector must be homed and can   *)
(* fail; it may select another gate while filament is loaded; it has a     *)
(* gear motor per gate; its gate sensor is one all gates share; the gate   *)
(* EndlessSpool ejects remnants through, or None.                          *)
UnitType == [homing : BOOLEAN, crossload : BOOLEAN, multigear : BOOLEAN,
             shared : BOOLEAN, waste : Gates \cup {None}]

ASSUME ToolSelectionAssumption ==
    /\ NumGates \in Nat \ {0}
    /\ Group \in [Gates -> Nat]
    /\ UnitTypes \subseteq UnitType
    /\ \A u \in UnitTypes : u.homing \/ u.crossload   \* no homing: no carriage to move
    /\ {EndlessSpool, OnLoad, Recovery, Retry} \subseteq BOOLEAN
    /\ UserMaps \subseteq Tools \X Gates
    /\ BulkMaps \subseteq [Tools -> Gates]

VARIABLES
    mmu,       \* the driver's state, a record (see State)
    print,     \* "standby", "printing" or "paused"
    unit,      \* the unit's type, never changed
    did        \* ghost: the operation of the last step, and its argument

vars == <<mmu, print, unit, did>>

Positions == {"unloaded", "between", "loaded"}

State ==
    [ tool     : Tools \cup {None},   \* tool_selected
      gate     : Gates \cup {None},   \* gate_selected
      homed    : BOOLEAN,             \* selector.is_homed
      ttg      : [Tools -> Gates],    \* ttg_map
      empty    : SUBSET Gates,        \* gates whose gate_status is GATE_EMPTY
      pos      : Positions,           \* filament_pos; "between" is neither end
      handling : BOOLEAN,             \* is_handling_runout
      ok       : BOOLEAN,             \* the last command raised no MmuError
      dragged  : BOOLEAN,             \* ghost: it moved the selector with filament in the gate
      seen     : BOOLEAN ]            \* ghost: every sensor of the path saw what it loaded

InPrint == print # "standby"

Fail(s)  == [s EXCEPT !.ok = FALSE]
Good(S)  == {s \in S : s.ok}
Bad(S)   == S \ Good(S)
Failed(S) == {Fail(s) : s \in S}

Marked(s, g) == [s EXCEPT !.empty = @ \cup (Gates \cap {g})]   \* set_gate_status(g, GATE_EMPTY)
Unmarked(s, g) == [s EXCEPT !.empty = @ \ {g}]
At(s, p)       == [s EXCEPT !.pos = p]

(* Python indexes a list with -1 as its last element.                      *)
Index(i) == IF i = None THEN NumGates - 1 ELSE i

-----------------------------------------------------------------------------
(* Selection. *)

Unselected(s) == [Fail(s) EXCEPT !.gate = None]
Adrift(s)     == [Fail(s) EXCEPT !.gate = None, !.homed = FALSE]

(* home_unit(reselect=False): filament anywhere refuses it, a failure      *)
(* leaves the gate unknown and the selector unhomed.                       *)
HomeUnit(S) ==
    Bad(S) \cup UNION
      { IF ~unit.homing THEN {s}
        ELSE IF s.pos # "unloaded" THEN {Fail(s)}
        ELSE {[s EXCEPT !.gate = None, !.homed = TRUE], Adrift(s)} : s \in Good(S) }

Dragging(s, g) == ~unit.crossload /\ s.pos # "unloaded" /\ s.gate \notin {None, g}

Dragged(s, g) == [s EXCEPT !.dragged = @ \/ Dragging(s, g)]

(* selector.select_gate and _set_gate_selected; a failed move unselects.   *)
MoveSelector(S, g) ==
    LET reaches == {s \in Good(S) : g = None \/ ~unit.homing \/ s.homed}
        blocked == {s \in Good(S) : g # None /\ unit.homing}
    IN  Bad(S)
        \cup {[Dragged(s, g) EXCEPT !.gate = g] : s \in reaches}
        \cup UNION {{Unselected(Dragged(s, g)), Adrift(Dragged(s, g))} : s \in blocked}

SelectGate(S, g) ==
    LET unready == {s \in Good(S) : g # s.gate /\ ~s.homed}
    IN  MoveSelector((S \ unready) \cup HomeUnit(unready), g)

(* A tool that does not exist is reported, nothing is raised.              *)
SelectTool(S, t) ==
    IF t = None THEN S
    ELSE LET T == UNION {SelectGate({s}, s.ttg[t]) : s \in S}
         IN  Bad(T) \cup {[s EXCEPT !.tool = t] : s \in Good(T)}

-----------------------------------------------------------------------------
(* The tool-to-gate map. *)

Mapped(s) == {t \in Tools : s.ttg[t] = s.gate}
Lowest(T) == {t \in T : \A u \in T : t <= u}

(* ensure_ttg_match: the selected tool must map to the selected gate.      *)
MatchedTools(s) ==
    IF s.tool \in Mapped(s) THEN {s.tool}
    ELSE IF Mapped(s) = {} THEN {None}
    ELSE Lowest(Mapped(s))

EnsureTtgMatch(S) == UNION {{[s EXCEPT !.tool = t] : t \in MatchedTools(s)} : s \in S}

\* Faulty variant: remap_tool() without its ensure_ttg_match().
RemapTool_Unmatched(S, t, g) == {[s EXCEPT !.ttg = [@ EXCEPT ![Index(t)] = g]] : s \in S}

RemapTool(S, t, g) == EnsureTtgMatch({[s EXCEPT !.ttg = [@ EXCEPT ![Index(t)] = g]] : s \in S})

\* Faulty variant: the gates after g are searched whatever their group.
NextEndlessSpoolGate_AnyGroup(s, g) ==
    LET found == Gates \ (s.empty \cup {g})
    IN  {n \in found : \A m \in found : (n - g - 1) % NumGates <= (m - g - 1) % NumGates}

(* get_next_endless_spool_gate: the first gate after g, cyclically, of its *)
(* group and not empty; no gate when there is none.                        *)
Alternatives(s, g) == {c \in Gates \ s.empty : c # g /\ Group[c] = Group[g]}
NextEndlessSpoolGate(s, g) ==
    {n \in Alternatives(s, g) :
        \A m \in Alternatives(s, g) : (n - g - 1) % NumGates <= (m - g - 1) % NumGates}

-----------------------------------------------------------------------------
(* Filament. *)

(* load_sequence: refused, not picked up at the gate, stuck on the way,    *)
(* loaded with a failure in purging or a macro, or loaded; `seen' is what  *)
(* the sensors of the path then say.                                       *)
LoadSequence(S) ==
    Bad(S) \cup UNION
      { {Fail(s), Fail(At(Marked(s, s.gate), "unloaded")),
         Fail(At(Unmarked(s, s.gate), "between")),
         Fail(At(Unmarked(s, s.gate), "loaded"))}
        \cup {[At(Unmarked(s, s.gate), "loaded") EXCEPT !.seen = b] : b \in BOOLEAN}
        : s \in Good(S) }

(* _unload_tool: a runout being handled is over-unloaded, out of the gate. *)
UnloadTool(S) ==
    Bad(S) \cup UNION
      { IF s.pos = "unloaded" THEN {s}
        ELSE {Fail(s), Fail(At(s, "between")), Fail(At(s, "unloaded"))}
             \cup LET done == At(IF s.handling THEN Marked(s, s.gate) ELSE s, "unloaded")
                  IN  {done, Fail(done)}
        : s \in Good(S) }

(* _eject_from_gate: resets the gate, leaves filament_pos alone.           *)
EjectFromGate(S) == Bad(S) \cup UNION {{Fail(s), Marked(s, s.gate)} : s \in Good(S)}

(* recover_filament_pos: filament the sensors see makes its gate non-empty.*)
RecoverFilamentPos(S) ==
    UNION {{At(s, p), At(Unmarked(s, s.gate), p)} : s \in S, p \in Positions}

\* Faulty variant: the runout stays being handled.
ContinueAfter_StillHandling(S) == S

(* _continue_after a load, unload or change: with the print running it     *)
(* ends the handling of a runout; confirm_loaded builds an MmuError for a  *)
(* path that is not seen, and does not raise it.                           *)
ContinueAfter(S) ==
    Bad(S) \cup {[s EXCEPT !.handling = @ /\ print # "printing"] : s \in Good(S)}

(* The gate a load of tool t starts from.                                  *)
LoadGate(s, t) == IF t = None THEN Index(s.gate) ELSE s.ttg[t]

(* _select_and_load_tool.                                                  *)
SelectAndLoadTool(S, t) ==
    LET selected == SelectTool(S, t)
        empty    == {s \in Good(selected) : LoadGate(s, t) \in s.empty}
        next(s)  == IF EndlessSpool /\ OnLoad
                    THEN NextEndlessSpoolGate(s, LoadGate(s, t)) ELSE {}
    IN  LoadSequence((selected \ empty)
          \cup {Fail(s) : s \in {x \in empty : next(x) = {}}}
          \cup UNION {UNION {SelectTool(RemapTool({s}, t, n), t) : n \in next(s)} : s \in empty})

(* The finally of an operation on another gate: with the print going on, a *)
(* gear per gate or filament loaded, gate g0 is selected again; otherwise  *)
(* the tool follows the gate.  What the operation raised is still raised,  *)
(* unless the selection raises.                                            *)
Reselects(p0) == InPrint \/ unit.multigear \/ p0 # "unloaded"
GoBack(S, g0, p0) ==
    LET away == {s \in S : s.gate # g0}
        back(s) == IF Reselects(p0)
                   THEN SelectGate({[s EXCEPT !.ok = TRUE]}, g0) ELSE EnsureTtgMatch({s})
    IN  (S \ away) \cup UNION {{[b EXCEPT !.ok = @ /\ s.ok] : b \in back(s)} : s \in away}

-----------------------------------------------------------------------------
(* The commands. *)

Begin == {[mmu EXCEPT !.ok = TRUE, !.dragged = FALSE, !.seen = TRUE]}

(* What a command's except clause, handle_mmu_error, does: in a print the  *)
(* error pauses it and the filament position is recovered.                 *)
End(S) ==
    /\ mmu' \in IF InPrint /\ Recovery THEN Good(S) \cup RecoverFilamentPos(Bad(S)) ELSE S
    /\ print' = IF print = "printing" /\ ~mmu'.ok THEN "paused" ELSE print
    /\ UNCHANGED unit

Attempt(S, t) == SelectAndLoadTool(UnloadTool(S), t)

\* Faulty variant: with the gate loaded the tool is not looked at.
ChangeTool_GateOnly(S, t) ==
    UNION { IF s.ttg[Index(t)] = s.gate /\ s.pos = "loaded" THEN {s}
            ELSE ContinueAfter(Attempt({s}, t)) : s \in S }

(* The body of MMU_CHANGE_TOOL for a tool; -1 is possible, see ChangeGate. *)
(* A failed attempt is repeated in a print, and elsewhere if STANDALONE=1. *)
ChangeTool(S, t) ==
    UNION { IF s.ttg[Index(t)] = s.gate /\ s.pos = "loaded"
            THEN IF t = s.tool THEN {s} ELSE SelectTool({s}, t)
            ELSE LET once == Attempt({s}, t)
                 IN  ContinueAfter(
                       (IF Retry
                        THEN Good(once)
                             \cup Attempt(RecoverFilamentPos({[x EXCEPT !.ok = TRUE] : x \in Bad(once)}), t)
                        ELSE {})
                       \cup (IF Retry /\ print = "printing" THEN {} ELSE once)) : s \in S }

Change(t) == End(ChangeTool(Begin, t))

(* MMU_CHANGE_TOOL GATE=g: a tool mapped to g; the selected one is remapped *)
(* to the gate it has, which may select another tool, or none.             *)
ChangeGate(g) ==
    /\ g # mmu.gate
    /\ \E t \in Tools : mmu.ttg[t] = g
    /\ LET mapped == {t \in Tools : mmu.ttg[t] = g}
       IN  IF mmu.tool \in mapped
           THEN End(UNION {ChangeTool({s}, s.tool) : s \in RemapTool(Begin, mmu.tool, g)})
           ELSE End(UNION {ChangeTool(Begin, t) : t \in Lowest(mapped)})

(* MMU_LOAD, MMU_UNLOAD.                                                   *)
Load ==
    /\ mmu.pos = "unloaded"
    /\ End(ContinueAfter(SelectAndLoadTool(Begin, mmu.tool)))

Unload ==
    /\ mmu.pos # "unloaded"
    /\ End(ContinueAfter(UnloadTool(Begin)))

Matched(S) == Bad(S) \cup EnsureTtgMatch(Good(S))

\* Faulty variant: filament is not looked for.
Select_Unchecked(t, g) ==
    End(Matched(IF t # None THEN SelectTool(Begin, t) ELSE SelectGate(Begin, g)))

(* MMU_SELECT TOOL=t, MMU_SELECT GATE=g.                                   *)
Select(t, g) ==
    /\ mmu.pos = "unloaded"
    /\ End(Matched(IF t # None THEN SelectTool(Begin, t) ELSE SelectGate(Begin, g)))

(* MMU_HOME TOOL=t SKIP_HOMED=skip; without TOOL t is the selected tool.   *)
Home(t, skip) ==
    End(SelectTool(IF skip /\ (mmu.homed \/ ~unit.homing) THEN Begin ELSE HomeUnit(Begin), t))

(* _runout: the selected gate's spool has emptied or is jammed, while      *)
(* printing.  What an entry sensor says of its gate is a GateStatus step.  *)
Replace(s, n) ==
    LET away == IF unit.waste # None THEN SelectGate({s}, unit.waste) ELSE {s}
        free == SelectGate(EjectFromGate(UnloadTool(away)), n)
    IN  ContinueAfter(SelectAndLoadTool(Bad(free) \cup RemapTool(Good(free), s.tool, n), s.tool))

Runout ==
    LET noted   == {[s EXCEPT !.handling = TRUE] : s \in Begin}
        spent   == {Marked(s, s.gate) : s \in noted}
        next(s) == NextEndlessSpoolGate(s, Index(s.gate))
    IN  /\ print = "printing"
        /\ IF mmu.tool = None \/ ~EndlessSpool THEN End(Failed(noted))
           ELSE End({Fail(s) : s \in {x \in spent : next(x) = {}}}
                    \cup UNION {UNION {Replace(s, n) : n \in next(s)} : s \in spent})

Clog ==
    /\ print = "printing"
    /\ End({[Fail(s) EXCEPT !.handling = FALSE] : s \in Begin})

(* MMU_EJECT GATE=g FORCE=force.                                           *)
EjectGate(g, force) ==
    LET here    == g = mmu.gate
        entire  == mmu.pos = "unloaded" \/ force \/ ~here
        cleared == IF here /\ mmu.pos # "unloaded" THEN ContinueAfter(UnloadTool(Begin)) ELSE Begin
        ejected == EjectFromGate(IF here THEN Good(cleared) ELSE SelectGate(Good(cleared), g))
    IN  /\ print # "printing"
        /\ mmu.pos = "unloaded" \/ unit.crossload \/ here
        /\ End(IF entire THEN Bad(cleared) \cup GoBack(ejected, mmu.gate, mmu.pos) ELSE cleared)

(* Preload and scan work on another gate of a loaded MMU when its selector *)
(* and its gate sensor allow it.  A failed selection is not undone.        *)
MayWorkOn(g) ==
    /\ print # "printing"
    /\ mmu.pos = "unloaded" \/ (unit.crossload /\ ~unit.shared)
    /\ g = mmu.gate => mmu.pos = "unloaded"

Selected(g) == IF g = mmu.gate THEN Begin ELSE SelectGate(Begin, g)

(* _preload_gate: the shared sensor is occupied, nothing was inserted, it  *)
(* was found and parked, or found and not parked.                          *)
PreloadGate(S, g) ==
    UNION { LET found == Unmarked(s, g)
            IN  { s, Fail(s), Fail(At(Marked(s, g), "unloaded")) }
                \cup UNION {{At(found, p), Fail(At(found, p))} : p \in {"unloaded", "between"}}
            : s \in S }

\* Faulty variant: the gate is handed back, the filament position is not.
Restored_GateOnly(S) == S

(* Handing the gate back hands back the filament position it describes.    *)
Restored(S) ==
    {s \in S : ~Reselects(mmu.pos) \/ s.gate # mmu.gate}
    \cup {At(s, mmu.pos) : s \in {x \in S : Reselects(mmu.pos) /\ x.gate = mmu.gate}}

(* MMU_PRELOAD GATE=g.                                                     *)
Preload(g) ==
    LET preloaded == PreloadGate(Good(Selected(g)), g)
        back      == GoBack(preloaded, mmu.gate, mmu.pos)
    IN  /\ MayWorkOn(g)
        /\ End(Bad(Selected(g)) \cup (IF g = mmu.gate THEN back ELSE Restored(back)))

(* MMU_NFC_SCAN GATE=g: the tag is at the reader already, or it is jogged  *)
(* to it and back.                                                         *)
JogScan(S, g) ==
    S \cup {At(s, "unloaded") : s \in S}
      \cup Failed(S) \cup {Fail(Marked(s, g)) : s \in S}
      \cup UNION {{Fail(At(s, p)), Fail(At(Marked(s, g), p))} : s \in S, p \in {"unloaded", "between"}}

Scan(g) ==
    /\ MayWorkOn(g) /\ g \notin mmu.empty
    /\ End(Bad(Selected(g)) \cup GoBack(JogScan(Good(Selected(g)), g), mmu.gate, mmu.pos))

(* The probing of MMU_CHECK_GATE: whatever goes wrong, the selection       *)
(* included, marks the gate empty and the filament unloaded.               *)
Probed(S, g) ==
    LET at == SelectGate({[s EXCEPT !.tool = None] : s \in Good(S)}, g)
    IN  Bad(S) \cup {At(Unmarked(s, g), "unloaded") : s \in Good(at)}
               \cup {[At(Marked(s, g), "unloaded") EXCEPT !.ok = ~InPrint] : s \in at}

(* MMU_CHECK_GATE GATE=g.                                                  *)
CheckGate(g) ==
    LET cleared == IF mmu.pos = "unloaded" THEN Begin ELSE ContinueAfter(UnloadTool(Begin))
        reload  == print # "printing" /\ mmu.pos = "loaded" /\ mmu.tool # None
    IN  IF mmu.pos = "loaded" /\ g = mmu.gate THEN End({Unmarked(s, g) : s \in Begin})
        ELSE End(IF reload THEN ContinueAfter(SelectAndLoadTool(Probed(cleared, g), mmu.tool))
                 ELSE SelectTool(Probed(cleared, g), mmu.tool))

(* MMU_RECOVER TOOL=t GATE=g, GATE=g alone, or neither; LOADED=l, -1 when  *)
(* it is not given.  remap_tool takes l as the availability of the gate.   *)
Recovered(S, l) ==
    IF l = -1 THEN RecoverFilamentPos(S)
    ELSE {At(s, IF l = 1 THEN "loaded" ELSE "unloaded") : s \in S}

RecoverTool(t, g, l) ==
    LET named  == RemapTool({[s EXCEPT !.tool = t, !.gate = g] : s \in Begin}, t, g)
        status == {IF l = 0 THEN Marked(s, g) ELSE Unmarked(s, g) : s \in named}
    IN  /\ g = mmu.ttg[t] \/ <<t, g>> \in UserMaps
        /\ End(Recovered(status, l))

RecoverGate(g, l) == End(Recovered(EnsureTtgMatch({[s EXCEPT !.gate = g] : s \in Begin}), l))
RecoverPos(l)     == End(Recovered(Begin, l))

(* MMU_TTG_MAP TOOL=t GATE=g, perhaps AVAILABLE=0; RESET=1; MAP=m.         *)
TtgMap(t, g) ==
    /\ <<t, g>> \in UserMaps
    /\ End(UNION {{Unmarked(s, g), Marked(s, g)} : s \in RemapTool(Begin, t, g)})
ResetTtgMap   == End(EnsureTtgMatch({[s EXCEPT !.ttg = [t \in Tools |-> t]] : s \in Begin}))
BulkMap(m)    == End({[s EXCEPT !.ttg = m] : s \in Begin})

(* MMU_GATE_MAP AVAILABLE=, or a gate's sensor: the gate's status changes. *)
GateStatus(g) == End({IF g \in s.empty THEN Unmarked(s, g) ELSE Marked(s, g) : s \in Begin})

MotorsOff ==                                                 \* MMU_MOTORS_OFF
    /\ unit.homing
    /\ End({[s EXCEPT !.homed = FALSE] : s \in Begin})

-----------------------------------------------------------------------------
(* The print, and a restart of Klipper. *)

PrintGoes(from, to, S) == print = from /\ print' = to /\ mmu' \in S /\ UNCHANGED unit

Handled == {[s EXCEPT !.handling = FALSE] : s \in Begin}

PrintStart == PrintGoes("standby", "printing", Handled)
Pause      == PrintGoes("printing", "paused", Begin)
Resume     == PrintGoes("paused", "printing", Handled)
PrintEnd   == InPrint /\ PrintGoes(print, "standby", Begin)

(* load_persisted_state: a gear per gate needs no unknown gate, and the    *)
(* selection is dropped when the position of the selector is not known.    *)
Persisted ==
    LET gate == IF mmu.gate = None /\ unit.multigear THEN 0 ELSE mmu.gate
    IN  EnsureTtgMatch(IF gate # None /\ ~mmu.homed
                       THEN {[s EXCEPT !.gate = None, !.tool = None] : s \in Handled}
                       ELSE {[s EXCEPT !.gate = gate] : s \in Handled})

(* handle_ready's check of the selection: a gate sensor may name another   *)
(* gate, the filament position is recovered, an empty unit may be homed,   *)
(* the gate is selected again.  Errors are only logged.                    *)
Verified(S) ==
    LET named == IF unit.shared THEN {} ELSE Gates
    IN  UNION {{[At(s, p) EXCEPT !.gate = g] : g \in {s.gate} \cup named} : s \in S, p \in Positions}

AutoHomed(S) ==
    S \cup UNION {SelectGate(HomeUnit({s}), IF s.gate = None THEN 0 ELSE s.gate) :
                    s \in {x \in S : unit.homing /\ x.pos = "unloaded"}}

Restart ==
    LET checked  == {[s EXCEPT !.ok = TRUE] : s \in AutoHomed(Verified(Persisted))}
        selected == UNION {IF s.gate = None THEN {s} ELSE MoveSelector({s}, s.gate) : s \in checked}
    IN  /\ mmu' \in EnsureTtgMatch({[s EXCEPT !.ok = TRUE] : s \in selected})
        /\ print' = "standby"
        /\ UNCHANGED unit

-----------------------------------------------------------------------------
Init ==
    /\ unit \in UnitTypes
    /\ print = "standby"
    /\ did = [op |-> "print", arg |-> None]
    /\ mmu \in { [tool |-> g, gate |-> g, homed |-> ~unit.homing, ttg |-> [t \in Tools |-> t],
                  empty |-> {}, pos |-> "unloaded", handling |-> FALSE,
                  ok |-> TRUE, dragged |-> FALSE, seen |-> TRUE] :
                 g \in {IF unit.multigear THEN 0 ELSE None} }

Operations == {"change", "changeGate", "select", "selectGate", "home", "homeIfNeeded",
               "motorsOff", "load", "unload", "runout", "clog", "eject", "preload", "scan",
               "check", "remap", "recover", "reset", "bulk", "status", "print"}

Does(op, arg) == did' = [op |-> op, arg |-> arg]

Selecting ==
    \/ \E t \in Tools : Change(t) /\ Does("change", t)
    \/ \E g \in Gates : ChangeGate(g) /\ Does("changeGate", g)
    \/ \E t \in Tools : Select(t, None) /\ Does("select", t)
    \/ \E g \in Gates : Select(None, g) /\ Does("selectGate", g)
    \/ \E t \in Tools \cup {None} : Home(t, FALSE) /\ Does("home", t)
    \/ \E t \in Tools \cup {None} : Home(t, TRUE) /\ Does("homeIfNeeded", t)
    \/ MotorsOff /\ Does("motorsOff", None)

Moving ==
    \/ Load /\ Does("load", None)
    \/ Unload /\ Does("unload", None)
    \/ Runout /\ Does("runout", None)
    \/ Clog /\ Does("clog", None)
    \/ \E g \in Gates, force \in BOOLEAN : EjectGate(g, force) /\ Does("eject", g)
    \/ \E g \in Gates : Preload(g) /\ Does("preload", g)
    \/ \E g \in Gates : Scan(g) /\ Does("scan", g)
    \/ \E g \in Gates : CheckGate(g) /\ Does("check", g)

Mapping ==
    \/ \E t \in Tools, g \in Gates, l \in {-1, 0, 1} : RecoverTool(t, g, l) /\ Does("remap", t)
    \/ \E g \in Gates, l \in {-1, 0, 1} : RecoverGate(g, l) /\ Does("recover", g)
    \/ \E l \in {-1, 0, 1} : RecoverPos(l) /\ Does("recover", None)
    \/ \E t \in Tools, g \in Gates : TtgMap(t, g) /\ Does("remap", t)
    \/ ResetTtgMap /\ Does("reset", None)
    \/ \E m \in BulkMaps : BulkMap(m) /\ Does("bulk", None)
    \/ \E g \in Gates : GateStatus(g) /\ Does("status", g)

Job ==
    /\ PrintStart \/ Pause \/ Resume \/ PrintEnd \/ Restart
    /\ Does("print", None)

Next == Selecting \/ Moving \/ Mapping \/ Job

Spec == Init /\ [][Next]_vars

-----------------------------------------------------------------------------
(* Properties. *)

(* Every part of the state has its type, and so has the unit.              *)
TypeOK ==
    /\ mmu \in State
    /\ print \in {"standby", "printing", "paused"}
    /\ unit \in UnitTypes
    /\ did \in [op : Operations, arg : Tools \cup {None}]

(* What every command relies on: a selected tool and a selected gate are   *)
(* mapped to each other.                                                   *)
Agree == mmu.tool # None /\ mmu.gate # None => mmu.ttg[mmu.tool] = mmu.gate

(* However far a command gets, and through every remapping and restart,    *)
(* the selected tool and gate stay mapped to each other.  What breaks it:  *)
(* MMU_TTG_MAP MAP=, which does not look at the selection, and a runout    *)
(* that fails after its waste gate was selected.                           *)
AgreementKept ==
    [][Agree => \/ Agree'
                \/ did'.op = "bulk"
                \/ did'.op = "runout" /\ unit.waste # None /\ ~mmu'.ok]_vars

(* MMU_CHANGE_TOOL that raises nothing ends with the tool it was asked     *)
(* for, on the gate the tool is mapped to, and with filament loaded, after *)
(* whatever retries and EndlessSpool remappings.                           *)
ChangeEndsAsAsked ==
    [][did'.op = "change" /\ mmu'.ok =>
        /\ mmu'.tool = did'.arg
        /\ mmu'.gate = mmu'.ttg[did'.arg]
        /\ mmu'.pos = "loaded"]_vars

Remapped == {t \in Tools : mmu'.ttg[t] # mmu.ttg[t]}

(* EndlessSpool, on load and on a runout, remaps at most one tool, and     *)
(* within the group of its gate: no step other than the user's own         *)
(* remapping does more.  (From a selection that agrees and has a tool; for *)
(* a runout and MMU_CHANGE_TOOL GATE= a gate too: without one a list is    *)
(* indexed with -1, a runout takes the group of the last gate, the change  *)
(* loads no tool and may remap the last.)                                  *)
RemapsWithinGroup ==
    [][/\ Agree /\ mmu.tool # None
       /\ did'.op \notin {"remap", "reset", "bulk"}
       /\ did'.op \in {"runout", "changeGate"} => mmu.gate # None
       => /\ \A t, u \in Remapped : t = u
          /\ \A t \in Remapped : Group[mmu'.ttg[t]] = Group[mmu.ttg[t]]]_vars

(* A selector that cannot move with filament in the gate is never moved    *)
(* from a gate in which the driver believes there is some.  What does it:  *)
(* MMU_HOME SKIP_HOMED=1, which does not look, going back from a preload   *)
(* or a scan that could not park the filament, and, as intended, a runout  *)
(* on its way to the waste gate.                                           *)
SelectorMovesUnloaded ==
    mmu'.dragged => \/ did'.op \in {"homeIfNeeded", "preload", "scan"}
                    \/ did'.op = "runout" /\ unit.waste # None

(* Ejecting or preloading another gate while filament is loaded leaves the *)
(* tool, the gate and the filament position of the load as they were.      *)
LoadKept ==
    (/\ did'.op \in {"eject", "preload"} /\ did'.arg # mmu.gate
     /\ mmu.pos = "loaded" /\ mmu'.ok)
       => <<mmu'.tool, mmu'.gate, mmu'.pos>> = <<mmu.tool, mmu.gate, mmu.pos>>

(* Both: no operation on one gate costs another the filament loaded there  *)
(* (ensure_safe_operation, mmu_preload.py:131, mmu_eject.py).              *)
LoadSpared == [][SelectorMovesUnloaded /\ LoadKept]_vars

(* While the print goes on no runout is being handled: an unload then      *)
(* parks filament in its gate and does not push it out.                    *)
RunoutHandled == print = "printing" => ~mmu.handling

(* A load in a print that raises nothing was seen by the sensors: not so,  *)
(* for confirm_loaded builds its error and does not raise it.              *)
LoadConfirmed ==
    [][print' = "printing" /\ mmu'.pos = "loaded" /\ mmu'.ok => mmu'.seen]_vars

(* MMU_CHANGE_TOOL GATE=g that raises nothing ends on gate g.              *)
GateAsAsked ==
    [][did'.op = "changeGate" /\ mmu'.ok => mmu'.gate = did'.arg]_vars

(* What TLC tells states apart by: nothing reads the outcome and the       *)
(* ghosts of the last command.                                             *)
View == <<[mmu EXCEPT !.ok = TRUE, !.dragged = FALSE, !.seen = TRUE], print, unit>>
=============================================================================

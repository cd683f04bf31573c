------------------------ MODULE ToolSelection_proofs ------------------------
(* Proofs about ToolSelection: its state keeps its type, the selected tool *)
(* and gate stay mapped to each other, a change ends as asked, no runout   *)
(* stays being handled in a print, the load of one gate survives the work  *)
(* on another, and EndlessSpool stays within a group.                      *)
EXTENDS ToolSelection, TLAPS

-----------------------------------------------------------------------------
(* What the updates of a state do to it. *)

(* Raising an error changes nothing but the outcome.                       *)
LEMMA FailState ==
    ASSUME NEW s \in State
    PROVE  /\ Fail(s) \in State
           /\ Fail(s).ok = FALSE
           /\ Fail(s).tool = s.tool /\ Fail(s).ttg = s.ttg /\ Fail(s).gate = s.gate
           /\ Fail(s).homed = s.homed /\ Fail(s).pos = s.pos
BY ZenonT(30) DEF Fail, State

(* Marking a gate, or the filament position, leaves the selection alone.   *)
LEMMA MarkedState ==
    ASSUME NEW s \in State, NEW g \in Gates \cup {None}
    PROVE  /\ Marked(s, g) \in State
           /\ Marked(s, g).tool = s.tool /\ Marked(s, g).ttg = s.ttg
           /\ Marked(s, g).gate = s.gate /\ Marked(s, g).homed = s.homed
           /\ Marked(s, g).ok = s.ok /\ Marked(s, g).pos = s.pos
<1>1. s.empty \cup (Gates \cap {g}) \in SUBSET Gates  BY DEF State
<1> QED  BY <1>1, ZenonT(30) DEF Marked, State

LEMMA UnmarkedState ==
    ASSUME NEW s \in State, NEW g
    PROVE  /\ Unmarked(s, g) \in State
           /\ Unmarked(s, g).tool = s.tool /\ Unmarked(s, g).ttg = s.ttg
           /\ Unmarked(s, g).gate = s.gate /\ Unmarked(s, g).homed = s.homed
           /\ Unmarked(s, g).ok = s.ok /\ Unmarked(s, g).pos = s.pos
<1>1. s.empty \ {g} \in SUBSET Gates  BY DEF State
<1> QED  BY <1>1, ZenonT(30) DEF Unmarked, State

LEMMA AtState ==
    ASSUME NEW s \in State, NEW p \in Positions
    PROVE  /\ At(s, p) \in State
           /\ At(s, p).tool = s.tool /\ At(s, p).ttg = s.ttg
           /\ At(s, p).gate = s.gate /\ At(s, p).homed = s.homed
           /\ At(s, p).ok = s.ok /\ At(s, p).pos = p
BY ZenonT(30) DEF At, State

(* A move of the selector, to a gate or to nowhere.                        *)
LEMMA DraggedState ==
    ASSUME NEW s \in State, NEW g
    PROVE  /\ Dragged(s, g) \in State
           /\ Dragged(s, g).tool = s.tool /\ Dragged(s, g).ttg = s.ttg
           /\ Dragged(s, g).gate = s.gate /\ Dragged(s, g).homed = s.homed
           /\ Dragged(s, g).ok = s.ok /\ Dragged(s, g).pos = s.pos
<1>1. (s.dragged \/ Dragging(s, g)) \in BOOLEAN  OBVIOUS
<1> QED  BY <1>1, ZenonT(30) DEF Dragged, State

LEMMA GateState ==
    ASSUME NEW s \in State, NEW g \in Gates \cup {None}, NEW r, r = [s EXCEPT !.gate = g]
    PROVE  /\ r \in State /\ r.tool = s.tool /\ r.ttg = s.ttg /\ r.gate = g
           /\ r.homed = s.homed /\ r.ok = s.ok /\ r.pos = s.pos
BY ZenonT(30) DEF State

LEMMA HomedState ==
    ASSUME NEW s \in State, NEW r, r = [s EXCEPT !.gate = None, !.homed = TRUE]
    PROVE  /\ r \in State /\ r.tool = s.tool /\ r.ttg = s.ttg /\ r.gate = None
           /\ r.ok = s.ok /\ r.pos = s.pos
BY ZenonT(30) DEF State

LEMMA StrayState ==
    ASSUME NEW s \in State, NEW r \in {Unselected(s), Adrift(s)}
    PROVE  /\ r \in State /\ r.tool = s.tool /\ r.ttg = s.ttg /\ r.gate = None
           /\ ~r.ok /\ r.pos = s.pos
<1>1. /\ Unselected(s) \in State /\ Unselected(s).tool = s.tool /\ Unselected(s).ttg = s.ttg
      /\ Unselected(s).gate = None /\ Unselected(s).ok = FALSE /\ Unselected(s).pos = s.pos
  BY ZenonT(30) DEF Unselected, Fail, State
<1>2. /\ Adrift(s) \in State /\ Adrift(s).tool = s.tool /\ Adrift(s).ttg = s.ttg
      /\ Adrift(s).gate = None /\ Adrift(s).ok = FALSE /\ Adrift(s).pos = s.pos
  BY ZenonT(30) DEF Adrift, Fail, State
<1> QED  BY <1>1, <1>2

LEMMA ToolState ==
    ASSUME NEW s \in State, NEW t \in Tools \cup {None}
    PROVE  LET r == [s EXCEPT !.tool = t]
           IN  /\ r \in State
               /\ r.tool = t /\ r.ttg = s.ttg /\ r.gate = s.gate
               /\ r.homed = s.homed /\ r.ok = s.ok /\ r.pos = s.pos
BY ZenonT(30) DEF State

-----------------------------------------------------------------------------
(* Selection.  A state r that a selection of gate g leaves comes from a    *)
(* state s: it is s, which had failed; or it is on gate g; or it failed    *)
(* and is on no gate; or homing was refused and it is on the gate s is on. *)
Same(r, s) == r.tool = s.tool /\ r.ttg = s.ttg /\ r.pos = s.pos
Arrives(r, s, g) == s.ok /\ r.ok /\ r.gate = g /\ (g = None \/ ~unit.homing \/ r.homed)
Strays(r, s)  == s.ok /\ ~r.ok /\ r.gate = None
Refused(r, s) == s.ok /\ ~r.ok /\ r.gate = s.gate /\ ~s.homed /\ unit.homing

Moved(r, s, g) ==
    /\ Same(r, s)
    /\ (r = s /\ ~s.ok) \/ Arrives(r, s, g) \/ Strays(r, s) \/ Refused(r, s)

LEMMA HomeUnitResult ==
    ASSUME NEW S \in SUBSET State, NEW r \in HomeUnit(S)
    PROVE  /\ r \in State
           /\ \E s \in S : /\ Same(r, s)
                           /\ \/ r = s
                              \/ s.ok /\ ~r.ok /\ r.gate = s.gate /\ unit.homing
                              \/ s.ok /\ r.gate = None
<1>1. CASE r \in Bad(S)
  BY <1>1 DEF Bad, Same
<1>2. CASE r \notin Bad(S)
  <2>1. PICK s \in Good(S) :
          r \in IF ~unit.homing THEN {s}
                ELSE IF s.pos # "unloaded" THEN {Fail(s)}
                ELSE {[s EXCEPT !.gate = None, !.homed = TRUE], Adrift(s)}
    BY <1>2 DEF HomeUnit
  <2>2. s \in S /\ s \in State /\ s.ok  BY DEF Good
  <2>3. CASE r = s
    BY <2>2, <2>3 DEF Same
  <2>4. CASE r = Fail(s) /\ unit.homing
    BY <2>2, <2>4, FailState DEF Same
  <2>5. CASE r = [s EXCEPT !.gate = None, !.homed = TRUE]
    <3>1. r \in State /\ r.tool = s.tool /\ r.ttg = s.ttg /\ r.pos = s.pos /\ r.gate = None
      BY <2>2, <2>5, HomedState
    <3> QED  BY <2>2, <3>1 DEF Same
  <2>6. CASE r = Adrift(s)
    BY <2>2, <2>6, StrayState DEF Same
  <2> QED  BY <2>1, <2>3, <2>4, <2>5, <2>6
<1> QED  BY <1>1, <1>2

LEMMA MoveSelectorResult ==
    ASSUME NEW S \in SUBSET State, NEW g \in Gates \cup {None}, NEW r \in MoveSelector(S, g)
    PROVE  /\ r \in State
           /\ \E s \in S : /\ Same(r, s)
                           /\ (r = s /\ ~s.ok) \/ Arrives(r, s, g) \/ Strays(r, s)
<1>1. CASE r \in Bad(S)
  BY <1>1 DEF Bad, Good, Same
<1>2. CASE r \in {[Dragged(s, g) EXCEPT !.gate = g] :
                    s \in {s \in Good(S) : g = None \/ ~unit.homing \/ s.homed}}
  <2>1. PICK s \in {s \in Good(S) : g = None \/ ~unit.homing \/ s.homed} :
          r = [Dragged(s, g) EXCEPT !.gate = g]
    BY <1>2
  <2>2. s \in S /\ s \in State /\ s.ok /\ (g = None \/ ~unit.homing \/ s.homed)
    BY DEF Good
  <2>3. /\ Dragged(s, g) \in State
        /\ Dragged(s, g).tool = s.tool /\ Dragged(s, g).ttg = s.ttg /\ Dragged(s, g).pos = s.pos
        /\ Dragged(s, g).homed = s.homed /\ Dragged(s, g).ok = s.ok
    BY <2>2, DraggedState
  <2>4. /\ r \in State /\ r.tool = Dragged(s, g).tool /\ r.ttg = Dragged(s, g).ttg
        /\ r.pos = Dragged(s, g).pos
        /\ r.gate = g /\ r.homed = Dragged(s, g).homed /\ r.ok = Dragged(s, g).ok
    BY <2>1, <2>3, GateState
  <2> QED  BY <2>2, <2>3, <2>4 DEF Same, Arrives
<1>3. CASE r \in UNION {{Unselected(Dragged(s, g)), Adrift(Dragged(s, g))} :
                            s \in {s \in Good(S) : g # None /\ unit.homing}}
  <2>1. PICK s \in Good(S) : r \in {Unselected(Dragged(s, g)), Adrift(Dragged(s, g))}
    BY <1>3
  <2>2. s \in S /\ s \in State /\ s.ok  BY DEF Good
  <2>3. /\ Dragged(s, g) \in State
        /\ Dragged(s, g).tool = s.tool /\ Dragged(s, g).ttg = s.ttg /\ Dragged(s, g).pos = s.pos
    BY <2>2, DraggedState
  <2>4. /\ r \in State /\ r.tool = s.tool /\ r.ttg = s.ttg /\ r.pos = s.pos /\ r.gate = None /\ ~r.ok
    BY <2>1, <2>3, StrayState
  <2> QED  BY <2>2, <2>4 DEF Same, Strays
<1> QED  BY <1>1, <1>2, <1>3 DEF MoveSelector

LEMMA SelectGateResult ==
    ASSUME NEW S \in SUBSET State, NEW g \in Gates \cup {None}, NEW r \in SelectGate(S, g)
    PROVE  r \in State /\ \E s \in S : Moved(r, s, g)
<1> DEFINE U == {s \in Good(S) : g # s.gate /\ ~s.homed}
           T == (S \ U) \cup HomeUnit(U)
<1>1. U \subseteq State /\ U \subseteq S  BY DEF Good
<1>2. T \in SUBSET State  BY <1>1, HomeUnitResult
<1>3. r \in MoveSelector(T, g)  BY DEF SelectGate
<1> HIDE DEF T
<1>4. r \in State  BY <1>2, <1>3, MoveSelectorResult
<1>5. PICK m \in T : Same(r, m) /\ ((r = m /\ ~m.ok) \/ Arrives(r, m, g) \/ Strays(r, m))
  BY <1>2, <1>3, MoveSelectorResult
<1>6. CASE m \in S
  BY <1>4, <1>5, <1>6 DEF Moved
<1>7. CASE m \in HomeUnit(U)
  <2>1. PICK s \in U : /\ Same(m, s)
                       /\ \/ m = s
                          \/ s.ok /\ ~m.ok /\ m.gate = s.gate /\ unit.homing
                          \/ s.ok /\ m.gate = None
    BY <1>1, <1>7, HomeUnitResult
  <2>2. s \in S /\ s.ok /\ ~s.homed  BY <2>1 DEF Good
  <2>3. Same(r, s)  BY <1>5, <2>1 DEF Same
  <2>4. Moved(r, s, g)  BY <1>5, <2>1, <2>2, <2>3 DEF Moved, Arrives, Strays, Refused
  <2> QED  BY <1>4, <2>2, <2>4
<1> QED  BY <1>4, <1>5, <1>6, <1>7 DEF T

(* A tool's selection succeeds on the gate it is mapped to.                *)
Fits(s) == s.tool # None /\ s.gate # None => s.ttg[s.tool] = s.gate
FitState == {s \in State : Fits(s)}
On(r, t) == r.tool = t /\ r.gate = r.ttg[t]

LEMMA SelectToolResult ==
    ASSUME NEW S \in SUBSET State, NEW t \in Tools \cup {None}, NEW r \in SelectTool(S, t)
    PROVE  /\ r \in State
           /\ \E s \in S : r.ttg = s.ttg /\ r.pos = s.pos /\ (Fits(s) => Fits(r)) /\ (r.ok => s.ok)
           /\ t # None /\ r.ok => On(r, t)
<1>1. CASE t = None
  BY <1>1 DEF SelectTool
<1>2. CASE t # None
  <2> DEFINE T == UNION {SelectGate({s}, s.ttg[t]) : s \in S}
  <2>1. t \in Tools  BY <1>2
  <2>2. \A s \in S : s.ttg[t] \in Gates  BY <2>1 DEF State
  <2>3. ASSUME NEW m \in T
        PROVE  m \in State /\ \E s \in S : Moved(m, s, s.ttg[t])
    <3>1. PICK s \in S : m \in SelectGate({s}, s.ttg[t])  OBVIOUS
    <3> QED  BY <2>2, <3>1, SelectGateResult
  <2> HIDE DEF T
  <2>4. r \in Bad(T) \cup {[s EXCEPT !.tool = t] : s \in Good(T)}
    BY <1>2 DEF SelectTool, T
  <2>5. CASE r \in Bad(T)
    <3>1. r \in T /\ ~r.ok  BY <2>5 DEF Bad, Good
    <3>2. PICK s \in S : Moved(r, s, s.ttg[t])  BY <2>3, <3>1
    <3>3. r.ttg = s.ttg /\ r.pos = s.pos /\ (Fits(s) => Fits(r))
      BY <3>1, <3>2 DEF Moved, Same, Arrives, Strays, Refused, Fits
    <3> QED  BY <2>3, <3>1, <3>3
  <2>6. CASE r \in {[s EXCEPT !.tool = t] : s \in Good(T)}
    <3>1. PICK m \in Good(T) : r = [m EXCEPT !.tool = t]  BY <2>6
    <3>2. m \in T /\ m \in State /\ m.ok  BY <2>3 DEF Good
    <3>3. PICK s \in S : Moved(m, s, s.ttg[t])  BY <2>3, <3>2
    <3>4. m.ttg = s.ttg /\ m.pos = s.pos /\ m.gate = s.ttg[t] /\ s.ok
      BY <3>2, <3>3 DEF Moved, Same, Arrives, Strays, Refused
    <3>5. /\ r \in State /\ r.tool = t /\ r.ttg = m.ttg /\ r.gate = m.gate /\ r.ok = m.ok
          /\ r.pos = m.pos
      BY <3>1, <3>2, ToolState
    <3>6. On(r, t) /\ Fits(r)  BY <3>4, <3>5 DEF On, Fits
    <3> QED  BY <3>4, <3>5, <3>6
  <2> QED  BY <2>4, <2>5, <2>6
<1> QED  BY <1>1, <1>2

-----------------------------------------------------------------------------
(* The tool-to-gate map. *)

LEMMA Indices == \A i \in Tools \cup {None} : Index(i) \in Tools
BY ToolSelectionAssumption DEF Index, Tools, Gates, None

LEMMA GateNumbers == Tools = Gates /\ None \notin Gates /\ 0 \in Gates
BY ToolSelectionAssumption DEF Tools, Gates, None

LEMMA LowestOf == \A T \in SUBSET Tools : Lowest(T) \subseteq T
BY DEF Lowest

(* ensure_ttg_match leaves a tool that maps to the gate, or no tool.       *)
LEMMA EnsureTtgMatchResult ==
    ASSUME NEW S \in SUBSET State, NEW r \in EnsureTtgMatch(S)
    PROVE  /\ r \in FitState
           /\ \E s \in S : /\ r.ttg = s.ttg /\ r.gate = s.gate /\ r.homed = s.homed
                           /\ r.ok = s.ok /\ r.pos = s.pos
<1>1. PICK s \in S : r \in {[s EXCEPT !.tool = t] : t \in MatchedTools(s)}
  BY DEF EnsureTtgMatch
<1>2. PICK t \in MatchedTools(s) : r = [s EXCEPT !.tool = t]
  BY <1>1
<1>3. Mapped(s) \in SUBSET Tools  BY DEF Mapped
<1>4. t = None \/ t \in Mapped(s)
  BY <1>2, <1>3, LowestOf DEF MatchedTools, Mapped, Lowest
<1>5. t \in Tools \cup {None} /\ (t # None => s.ttg[t] = s.gate)
  BY <1>4 DEF Mapped
<1>6. /\ r \in State /\ r.tool = t /\ r.ttg = s.ttg /\ r.gate = s.gate
      /\ r.homed = s.homed /\ r.ok = s.ok /\ r.pos = s.pos
  BY <1>2, <1>5, ToolState
<1> QED  BY <1>5, <1>6 DEF Fits, FitState

LEMMA RemapToolResult ==
    ASSUME NEW S \in SUBSET State, NEW t \in Tools \cup {None}, NEW g \in Gates,
           NEW r \in RemapTool(S, t, g)
    PROVE  /\ r \in FitState
           /\ \E s \in S : r.gate = s.gate /\ r.homed = s.homed /\ r.ok = s.ok /\ r.pos = s.pos
<1> DEFINE T == {[s EXCEPT !.ttg = [@ EXCEPT ![Index(t)] = g]] : s \in S}
<1>1. ASSUME NEW m \in T
      PROVE  /\ m \in State
             /\ \E s \in S : m.gate = s.gate /\ m.homed = s.homed /\ m.ok = s.ok /\ m.pos = s.pos
  <2>1. PICK s \in S : m = [s EXCEPT !.ttg = [@ EXCEPT ![Index(t)] = g]]  OBVIOUS
  <2>2. s \in State  OBVIOUS
  <2>3. [s.ttg EXCEPT ![Index(t)] = g] \in [Tools -> Gates]  BY <2>2, Indices DEF State
  <2>4. /\ m \in State /\ m.gate = s.gate /\ m.homed = s.homed /\ m.ok = s.ok /\ m.pos = s.pos
    BY <2>1, <2>2, <2>3, ZenonT(30) DEF State
  <2> QED  BY <2>4
<1>2. r \in EnsureTtgMatch(T)  BY DEF RemapTool
<1>3. T \in SUBSET State  BY <1>1
<1> HIDE DEF T
<1>4. r \in FitState  BY <1>2, <1>3, EnsureTtgMatchResult
<1>5. PICK m \in T : r.gate = m.gate /\ r.homed = m.homed /\ r.ok = m.ok /\ r.pos = m.pos
  BY <1>2, <1>3, EnsureTtgMatchResult
<1> QED  BY <1>1, <1>4, <1>5

-----------------------------------------------------------------------------
(* Filament. It moves without a change of selection or map. *)
Keeps(r, s) == r.tool = s.tool /\ r.ttg = s.ttg /\ r.gate = s.gate /\ r.homed = s.homed

LEMMA KeepsFit == \A r, s : Keeps(r, s) /\ Fits(s) => Fits(r)
BY DEF Keeps, Fits

(* So do the updates made on the way, one after another.                   *)
LEMMA FailKeeps ==
    ASSUME NEW s, NEW m \in State, Keeps(m, s)
    PROVE  Fail(m) \in State /\ Keeps(Fail(m), s) /\ ~Fail(m).ok
BY FailState DEF Keeps

LEMMA MarkedKeeps ==
    ASSUME NEW s, NEW m \in State, Keeps(m, s), NEW g \in Gates \cup {None}
    PROVE  Marked(m, g) \in State /\ Keeps(Marked(m, g), s) /\ Marked(m, g).ok = m.ok
BY MarkedState DEF Keeps

LEMMA UnmarkedKeeps ==
    ASSUME NEW s, NEW m \in State, Keeps(m, s), NEW g
    PROVE  Unmarked(m, g) \in State /\ Keeps(Unmarked(m, g), s) /\ Unmarked(m, g).ok = m.ok
BY UnmarkedState DEF Keeps

LEMMA AtKeeps ==
    ASSUME NEW s, NEW m \in State, Keeps(m, s), NEW p \in Positions
    PROVE  /\ At(m, p) \in State /\ Keeps(At(m, p), s)
           /\ At(m, p).ok = m.ok /\ At(m, p).pos = p
BY AtState DEF Keeps

LEMMA KeepsItself == \A s : Keeps(s, s)
BY DEF Keeps

LEMMA KeepsTransitive == \A r, m, s : Keeps(r, m) /\ Keeps(m, s) => Keeps(r, s)
BY DEF Keeps

LEMMA LoadSequenceResult ==
    ASSUME NEW S \in SUBSET State, NEW r \in LoadSequence(S)
    PROVE  /\ r \in State
           /\ \E s \in S : Keeps(r, s) /\ (r.ok => s.ok /\ r.pos = "loaded")
<1>1. CASE r \in Bad(S)
  BY <1>1 DEF Bad, Good, Keeps
<1>2. CASE r \notin Bad(S)
  <2>1. PICK s \in Good(S) :
          r \in {Fail(s), Fail(At(Marked(s, s.gate), "unloaded")),
                 Fail(At(Unmarked(s, s.gate), "between")),
                 Fail(At(Unmarked(s, s.gate), "loaded"))}
                \cup {[At(Unmarked(s, s.gate), "loaded") EXCEPT !.seen = b] : b \in BOOLEAN}
    BY <1>2 DEF LoadSequence
  <2>2. s \in S /\ s \in State /\ s.ok /\ s.gate \in Gates \cup {None}  BY DEF Good, State
  <2> DEFINE m == Marked(s, s.gate)  u == Unmarked(s, s.gate)
             a == At(m, "unloaded")  b == At(u, "between")  c == At(u, "loaded")
  <2>3. m \in State /\ Keeps(m, s) /\ u \in State /\ Keeps(u, s)  BY <2>2, MarkedState, UnmarkedState DEF Keeps
  <2> HIDE DEF m, u
  <2>4. /\ a \in State /\ Keeps(a, s) /\ b \in State /\ Keeps(b, s)
        /\ c \in State /\ Keeps(c, s) /\ c.pos = "loaded"
    BY <2>3, AtState DEF Positions, Keeps
  <2> HIDE DEF a, b, c
  <2>5. CASE r \in {Fail(s), Fail(a), Fail(b), Fail(c)}
    <3>1. r \in State /\ Keeps(r, s) /\ ~r.ok  BY <2>2, <2>4, <2>5, KeepsItself, FailKeeps
    <3> QED  BY <2>2, <3>1
  <2>6. CASE r \in {[c EXCEPT !.seen = d] : d \in BOOLEAN}
    <3>1. PICK d \in BOOLEAN : r = [c EXCEPT !.seen = d]  BY <2>6
    <3>2. /\ r \in State /\ r.tool = c.tool /\ r.ttg = c.ttg /\ r.gate = c.gate
          /\ r.homed = c.homed /\ r.pos = c.pos
      BY <2>4, <3>1, ZenonT(30) DEF State
    <3> QED  BY <2>2, <2>4, <3>2 DEF Keeps
  <2> QED  BY <2>1, <2>5, <2>6 DEF m, u, a, b, c
<1> QED  BY <1>1, <1>2

LEMMA UnloadToolResult ==
    ASSUME NEW S \in SUBSET State, NEW r \in UnloadTool(S)
    PROVE  r \in State /\ \E s \in S : Keeps(r, s) /\ (r.ok => s.ok)
<1>1. CASE r \in Bad(S)
  BY <1>1 DEF Bad, Good, Keeps
<1>2. CASE r \notin Bad(S)
  <2>1. PICK s \in Good(S) :
          r \in IF s.pos = "unloaded" THEN {s}
                ELSE {Fail(s), Fail(At(s, "between")), Fail(At(s, "unloaded"))}
                     \cup LET done == At(IF s.handling THEN Marked(s, s.gate) ELSE s, "unloaded")
                          IN  {done, Fail(done)}
    BY <1>2 DEF UnloadTool
  <2>2. s \in S /\ s \in State /\ s.ok /\ s.gate \in Gates \cup {None}  BY DEF Good, State
  <2> DEFINE m == IF s.handling THEN Marked(s, s.gate) ELSE s
             a == At(s, "between")  b == At(s, "unloaded")  done == At(m, "unloaded")
  <2>3. m \in State /\ Keeps(m, s)  BY <2>2, MarkedState DEF Keeps
  <2> HIDE DEF m
  <2>4. /\ a \in State /\ Keeps(a, s) /\ b \in State /\ Keeps(b, s)
        /\ done \in State /\ Keeps(done, s)
    BY <2>2, <2>3, AtState DEF Positions, Keeps
  <2> HIDE DEF a, b, done
  <2>5. r \in {s, Fail(s), Fail(a), Fail(b), done, Fail(done)}  BY <2>1 DEF a, b, done, m
  <2>6. r \in State /\ Keeps(r, s)  BY <2>2, <2>4, <2>5, KeepsItself, FailKeeps
  <2> QED  BY <2>2, <2>6
<1> QED  BY <1>1, <1>2

LEMMA EjectFromGateResult ==
    ASSUME NEW S \in SUBSET State, NEW r \in EjectFromGate(S)
    PROVE  r \in State /\ \E s \in S : Keeps(r, s) /\ r.pos = s.pos /\ (r.ok => s.ok)
<1>1. CASE r \in Bad(S)
  BY <1>1 DEF Bad, Good, Keeps
<1>2. CASE r \notin Bad(S)
  <2>1. PICK s \in Good(S) : r \in {Fail(s), Marked(s, s.gate)}  BY <1>2 DEF EjectFromGate
  <2>2. s \in S /\ s \in State /\ s.ok /\ s.gate \in Gates \cup {None}  BY DEF Good, State
  <2>3. /\ Fail(s) \in State /\ Keeps(Fail(s), s) /\ Fail(s).pos = s.pos
        /\ Marked(s, s.gate) \in State /\ Keeps(Marked(s, s.gate), s)
        /\ Marked(s, s.gate).pos = s.pos
    <3>1. Fail(s) \in State /\ Keeps(Fail(s), s) /\ Fail(s).pos = s.pos
      BY <2>2, FailState DEF Keeps
    <3>2. /\ Marked(s, s.gate) \in State /\ Keeps(Marked(s, s.gate), s)
          /\ Marked(s, s.gate).pos = s.pos
      BY <2>2, MarkedState DEF Keeps
    <3> QED  BY <3>1, <3>2
  <2>4. r \in State /\ Keeps(r, s) /\ r.pos = s.pos  BY <2>1, <2>3
  <2> QED  BY <2>2, <2>4
<1> QED  BY <1>1, <1>2

LEMMA RecoverFilamentPosResult ==
    ASSUME NEW S \in SUBSET State, NEW r \in RecoverFilamentPos(S)
    PROVE  r \in State /\ \E s \in S : Keeps(r, s) /\ r.ok = s.ok
<1>1. PICK s \in S, p \in Positions : r \in {At(s, p), At(Unmarked(s, s.gate), p)}
  BY DEF RecoverFilamentPos
<1>2. Unmarked(s, s.gate) \in State /\ Keeps(Unmarked(s, s.gate), s) /\ Unmarked(s, s.gate).ok = s.ok
  BY UnmarkedState DEF Keeps
<1> QED  BY <1>1, <1>2, AtState DEF Keeps

LEMMA ContinueAfterResult ==
    ASSUME NEW S \in SUBSET State, NEW r \in ContinueAfter(S)
    PROVE  r \in State /\ \E s \in S : Keeps(r, s) /\ r.ok = s.ok /\ r.pos = s.pos
<1>1. CASE r \in Bad(S)
  BY <1>1 DEF Bad, Keeps
<1>2. CASE r \in {[s EXCEPT !.handling = @ /\ print # "printing"] : s \in Good(S)}
  <2>1. PICK s \in Good(S) : r = [s EXCEPT !.handling = @ /\ print # "printing"]  BY <1>2
  <2>2. s \in S /\ s \in State  BY DEF Good
  <2>3. (s.handling /\ print # "printing") \in BOOLEAN  OBVIOUS
  <2>4. /\ r \in State /\ r.tool = s.tool /\ r.ttg = s.ttg /\ r.gate = s.gate
        /\ r.homed = s.homed /\ r.ok = s.ok /\ r.pos = s.pos
    BY <2>1, <2>2, <2>3, ZenonT(30) DEF State
  <2> QED  BY <2>2, <2>4 DEF Keeps
<1> QED  BY <1>1, <1>2 DEF ContinueAfter

LEMMA OutcomeState ==
    ASSUME NEW s \in State, NEW o \in BOOLEAN, NEW r, r = [s EXCEPT !.ok = o]
    PROVE  r \in State /\ Keeps(r, s) /\ r.ok = o /\ r.pos = s.pos
BY ZenonT(30) DEF State, Keeps

(* A load of a tool that raises nothing ends on its gate and loaded; it    *)
(* never parts the tool from the gate.                                     *)
LEMMA SelectAndLoadToolResult ==
    ASSUME NEW S \in SUBSET State, NEW t \in Tools \cup {None}, NEW r \in SelectAndLoadTool(S, t)
    PROVE  /\ r \in State
           /\ (\A s \in S : Fits(s)) => Fits(r)
           /\ t # None /\ r.ok => On(r, t) /\ r.pos = "loaded"
<1> DEFINE selected == SelectTool(S, t)
           empty    == {s \in Good(selected) : LoadGate(s, t) \in s.empty}
           next(s)  == IF EndlessSpool /\ OnLoad
                       THEN NextEndlessSpoolGate(s, LoadGate(s, t)) ELSE {}
           failed   == {Fail(s) : s \in {x \in empty : next(x) = {}}}
           spooled  == UNION {UNION {SelectTool(RemapTool({s}, t, n), t) : n \in next(s)} : s \in empty}
           T        == (selected \ empty) \cup failed \cup spooled
           Sound(m) == /\ m \in State
                       /\ (\A s \in S : Fits(s)) => Fits(m)
                       /\ t # None /\ m.ok => On(m, t)
<1>1. ASSUME NEW m \in selected  PROVE Sound(m)
  BY SelectToolResult
<1>2. ASSUME NEW m \in failed  PROVE Sound(m)
  <2>1. PICK s \in selected : m = Fail(s)  BY DEF Good
  <2> QED  BY <1>1, <2>1, KeepsItself, FailKeeps, KeepsFit
<1>3. ASSUME NEW m \in spooled  PROVE Sound(m)
  <2>1. PICK s \in empty : m \in UNION {SelectTool(RemapTool({s}, t, n), t) : n \in next(s)}
    OBVIOUS
  <2>2. PICK n \in next(s) : m \in SelectTool(RemapTool({s}, t, n), t)
    BY <2>1
  <2>3. s \in State /\ n \in Gates
    BY <1>1, <2>2 DEF Good, NextEndlessSpoolGate, Alternatives
  <2>4. RemapTool({s}, t, n) \in SUBSET FitState
    BY <2>3, RemapToolResult
  <2>5. RemapTool({s}, t, n) \in SUBSET State /\ \A x \in RemapTool({s}, t, n) : Fits(x)
    BY <2>4 DEF FitState
  <2> QED  BY <2>2, <2>5, SelectToolResult
<1>4. T \in SUBSET State /\ \A m \in T : Sound(m)  BY <1>1, <1>2, <1>3
<1>5. r \in LoadSequence(T)  BY DEF SelectAndLoadTool
<1> HIDE DEF T
<1>6. r \in State  BY <1>4, <1>5, LoadSequenceResult
<1>7. PICK m \in T : Keeps(r, m) /\ (r.ok => m.ok /\ r.pos = "loaded")
  BY <1>4, <1>5, LoadSequenceResult
<1>8. Sound(m)  BY <1>4
<1> QED  BY <1>6, <1>7, <1>8, KeepsFit DEF Keeps, On

LEMMA AttemptResult ==
    ASSUME NEW S \in SUBSET State, NEW t \in Tools \cup {None}, NEW r \in Attempt(S, t)
    PROVE  /\ r \in State
           /\ (\A s \in S : Fits(s)) => Fits(r)
           /\ t # None /\ r.ok => On(r, t) /\ r.pos = "loaded"
<1>1. UnloadTool(S) \in SUBSET State  BY UnloadToolResult
<1>2. (\A s \in S : Fits(s)) => \A m \in UnloadTool(S) : Fits(m)  BY UnloadToolResult, KeepsFit
<1> QED  BY <1>1, <1>2, SelectAndLoadToolResult DEF Attempt

LEMMA ChangeToolResult ==
    ASSUME NEW S \in SUBSET State, NEW t \in Tools \cup {None}, NEW r \in ChangeTool(S, t)
    PROVE  /\ r \in State
           /\ (\A s \in S : Fits(s)) => Fits(r)
           /\ t # None /\ r.ok => On(r, t) /\ r.pos = "loaded"
<1> DEFINE once(s)  == Attempt({s}, t)
           again(s) == {[x EXCEPT !.ok = TRUE] : x \in Bad(once(s))}
           tried(s) == (IF Retry
                        THEN Good(once(s)) \cup Attempt(RecoverFilamentPos(again(s)), t)
                        ELSE {})
                       \cup (IF Retry /\ print = "printing" THEN {} ELSE once(s))
           Sound(m) == /\ m \in State
                       /\ (\A s \in S : Fits(s)) => Fits(m)
                       /\ t # None /\ m.ok => On(m, t) /\ m.pos = "loaded"
<1>1. PICK s \in S : r \in IF s.ttg[Index(t)] = s.gate /\ s.pos = "loaded"
                           THEN IF t = s.tool THEN {s} ELSE SelectTool({s}, t)
                           ELSE ContinueAfter(tried(s))
  BY DEF ChangeTool
<1>2. s \in State  OBVIOUS
<1>3. CASE s.ttg[Index(t)] = s.gate /\ s.pos = "loaded" /\ t = s.tool
  <2>1. r = s  BY <1>1, <1>3
  <2>2. t # None => On(r, t)  BY <1>3, <2>1 DEF Index, On
  <2> QED  BY <1>2, <1>3, <2>1, <2>2
<1>4. CASE s.ttg[Index(t)] = s.gate /\ s.pos = "loaded" /\ t # s.tool
  <2>1. r \in SelectTool({s}, t) /\ {s} \in SUBSET State  BY <1>1, <1>2, <1>4
  <2>2. /\ r \in State /\ r.pos = s.pos /\ (Fits(s) => Fits(r))
        /\ t # None /\ r.ok => On(r, t)
    BY <2>1, SelectToolResult
  <2> QED  BY <1>4, <2>2
<1>5. CASE ~(s.ttg[Index(t)] = s.gate /\ s.pos = "loaded")
  <2>1. ASSUME NEW m \in once(s)  PROVE Sound(m)
    BY <1>2, AttemptResult
  <2>2. ASSUME NEW m \in again(s)  PROVE m \in State /\ ((\A u \in S : Fits(u)) => Fits(m))
    <3>1. PICK x \in once(s) : m = [x EXCEPT !.ok = TRUE]  BY DEF Bad
    <3> QED  BY <2>1, <3>1, OutcomeState, KeepsFit
  <2> HIDE DEF once, again
  <2>3. again(s) \in SUBSET State  BY <2>2
  <2>4. ASSUME NEW m \in RecoverFilamentPos(again(s))
        PROVE  m \in State /\ ((\A u \in S : Fits(u)) => Fits(m))
    BY <2>2, <2>3, RecoverFilamentPosResult, KeepsFit
  <2>5. RecoverFilamentPos(again(s)) \in SUBSET State  BY <2>4
  <2>6. ASSUME NEW m \in Attempt(RecoverFilamentPos(again(s)), t)  PROVE Sound(m)
    BY <2>4, <2>5, AttemptResult
  <2>7. tried(s) \in SUBSET State /\ \A m \in tried(s) : Sound(m)
    BY <2>1, <2>6 DEF Good
  <2>8. r \in ContinueAfter(tried(s))  BY <1>1, <1>5
  <2> HIDE DEF tried
  <2>9. r \in State  BY <2>7, <2>8, ContinueAfterResult
  <2>10. PICK m \in tried(s) : Keeps(r, m) /\ r.ok = m.ok /\ r.pos = m.pos
    BY <2>7, <2>8, ContinueAfterResult
  <2>11. Sound(m)  BY <2>7
  <2> QED  BY <2>9, <2>10, <2>11, KeepsFit DEF Keeps, On
<1> QED  BY <1>3, <1>4, <1>5

-----------------------------------------------------------------------------
(* Operations on another gate.  While one is under way the tool and the    *)
(* map are as before the command; the gate is the one before, none, or one *)
(* a homed selector reached.                                               *)
Away(m) ==
    /\ m \in State /\ m.tool = mmu.tool /\ m.ttg = mmu.ttg
    /\ m.gate \in {mmu.gate, None} \/ ~unit.homing \/ m.homed

LEMMA KeepsAway == \A r \in State : \A m : Keeps(r, m) /\ Away(m) => Away(r)
BY DEF Keeps, Away

LEMMA BeginResult ==
    ASSUME TypeOK
    PROVE  /\ Begin \in SUBSET State
           /\ \A b \in Begin : Keeps(b, mmu) /\ b.pos = mmu.pos /\ b.ok /\ (Agree => Fits(b)) /\ Away(b)
<1> DEFINE b == [mmu EXCEPT !.ok = TRUE, !.dragged = FALSE, !.seen = TRUE]
<1>1. /\ b \in State /\ b.tool = mmu.tool /\ b.ttg = mmu.ttg /\ b.gate = mmu.gate
      /\ b.homed = mmu.homed /\ b.pos = mmu.pos /\ b.ok = TRUE
  BY ZenonT(30) DEF TypeOK, State
<1> QED  BY <1>1 DEF Begin, Keeps, Agree, Fits, Away

(* Another gate's selection leaves one of those states; one that failed    *)
(* still has its tool and gate mapped to each other.                       *)
LEMMA SelectedAway ==
    ASSUME NEW S, \A s \in S : Away(s) /\ s.gate = mmu.gate,
           NEW g \in Gates, NEW r \in SelectGate(S, g)
    PROVE  /\ r \in State /\ Away(r)
           /\ Agree /\ ~r.ok => Fits(r)
<1>1. S \in SUBSET State  BY DEF Away
<1>2. r \in State  BY <1>1, SelectGateResult
<1>3. PICK s \in S : Moved(r, s, g)  BY <1>1, SelectGateResult
<1>4. s \in State /\ s.tool = mmu.tool /\ s.ttg = mmu.ttg /\ s.gate = mmu.gate
  BY <1>3 DEF Away
<1>5. r.tool = mmu.tool /\ r.ttg = mmu.ttg  BY <1>3, <1>4 DEF Moved, Same
<1>6. r.gate \in {mmu.gate, None} \/ (r.ok /\ (~unit.homing \/ r.homed))
  BY <1>3, <1>4 DEF Moved, Same, Arrives, Strays, Refused
<1> QED  BY <1>2, <1>5, <1>6 DEF Away, Agree, Fits

LEMMA GoBackResult ==
    ASSUME TypeOK, NEW S, \A s \in S : Away(s), NEW p0, NEW r \in GoBack(S, mmu.gate, p0)
    PROVE  /\ r \in State
           /\ Agree => Fits(r)
<1>1. S \in SUBSET State  BY DEF Away
<1>2. mmu.gate \in Gates \cup {None}  BY DEF TypeOK, State
<1>3. CASE r \in S /\ r.gate = mmu.gate
  BY <1>3 DEF Away, Agree, Fits
<1>4. CASE ~(r \in S /\ r.gate = mmu.gate)
  <2> DEFINE back(s) == IF Reselects(p0)
                        THEN SelectGate({[s EXCEPT !.ok = TRUE]}, mmu.gate) ELSE EnsureTtgMatch({s})
  <2>1. PICK s \in {x \in S : x.gate # mmu.gate} :
          r \in {[b EXCEPT !.ok = @ /\ s.ok] : b \in back(s)}
    BY <1>4 DEF GoBack
  <2>2. PICK b \in back(s) : r = [b EXCEPT !.ok = @ /\ s.ok]  BY <2>1
  <2>3. s \in State /\ Away(s) /\ s.gate # mmu.gate  BY <1>1, <2>1
  <2>4. b \in State /\ (Agree => Fits(b))
    <3>1. CASE ~Reselects(p0)
      <4>1. b \in EnsureTtgMatch({s}) /\ {s} \in SUBSET State  BY <2>2, <2>3, <3>1
      <4> QED  BY <4>1, EnsureTtgMatchResult DEF FitState
    <3>2. CASE Reselects(p0)
      <4> DEFINE x == [s EXCEPT !.ok = TRUE]
      <4>1. x \in State /\ Keeps(x, s) /\ x.ok = TRUE  BY <2>3, OutcomeState
      <4>2. b \in SelectGate({x}, mmu.gate)  BY <2>2, <3>2
      <4> HIDE DEF x
      <4>3. b \in State /\ Moved(b, x, mmu.gate)  BY <1>2, <4>1, <4>2, SelectGateResult
      <4>4. b.tool = mmu.tool /\ b.ttg = mmu.ttg
        BY <2>3, <4>1, <4>3 DEF Moved, Same, Keeps, Away
      <4>5. b.gate \in {mmu.gate, None}
        BY <2>3, <4>1, <4>3 DEF Moved, Arrives, Strays, Refused, Keeps, Away
      <4> QED  BY <4>3, <4>4, <4>5 DEF Agree, Fits
    <3> QED  BY <3>1, <3>2
  <2>5. (b.ok /\ s.ok) \in BOOLEAN  OBVIOUS
  <2>6. r \in State /\ Keeps(r, b)  BY <2>2, <2>4, <2>5, ZenonT(30) DEF State, Keeps
  <2> QED  BY <2>4, <2>6, KeepsFit
<1> QED  BY <1>3, <1>4

LEMMA PreloadGateResult ==
    ASSUME NEW S \in SUBSET State, NEW g \in Gates, NEW r \in PreloadGate(S, g)
    PROVE  r \in State /\ \E s \in S : Keeps(r, s)
<1>1. PICK s \in S : r \in { s, Fail(s), Fail(At(Marked(s, g), "unloaded")) }
        \cup UNION {{At(Unmarked(s, g), p), Fail(At(Unmarked(s, g), p))} : p \in {"unloaded", "between"}}
  BY DEF PreloadGate
<1> DEFINE m == Marked(s, g)  a == At(m, "unloaded")  u == Unmarked(s, g)
<1>2. s \in State /\ Keeps(s, s)  BY KeepsItself
<1>3. m \in State /\ Keeps(m, s) /\ u \in State /\ Keeps(u, s)
  BY <1>2, MarkedKeeps, UnmarkedKeeps
<1> HIDE DEF m, u
<1>4. a \in State /\ Keeps(a, s)  BY <1>3, AtKeeps DEF Positions
<1> HIDE DEF a
<1>5. CASE r \in {s, Fail(s), Fail(a)}
  BY <1>2, <1>4, <1>5, FailKeeps
<1>6. CASE r \in UNION {{At(u, p), Fail(At(u, p))} : p \in {"unloaded", "between"}}
  <2>1. PICK p \in {"unloaded", "between"} : r \in {At(u, p), Fail(At(u, p))}  BY <1>6
  <2>2. At(u, p) \in State /\ Keeps(At(u, p), s)  BY <1>3, AtKeeps DEF Positions
  <2> QED  BY <2>1, <2>2, FailKeeps
<1> QED  BY <1>1, <1>5, <1>6 DEF m, a, u

LEMMA JogScanResult ==
    ASSUME NEW S \in SUBSET State, NEW g \in Gates, NEW r \in JogScan(S, g)
    PROVE  r \in State /\ \E s \in S : Keeps(r, s)
<1>1. PICK s \in S : \/ r \in {s, At(s, "unloaded"), Fail(s), Fail(Marked(s, g))}
                     \/ \E p \in {"unloaded", "between"} :
                          r \in {Fail(At(s, p)), Fail(At(Marked(s, g), p))}
  BY DEF JogScan, Failed
<1> DEFINE m == Marked(s, g)
<1>2. s \in State /\ Keeps(s, s)  BY KeepsItself
<1>3. m \in State /\ Keeps(m, s)  BY <1>2, MarkedKeeps
<1> HIDE DEF m
<1>4. \A p \in {"unloaded", "between"} : /\ At(s, p) \in State /\ Keeps(At(s, p), s)
                                         /\ At(m, p) \in State /\ Keeps(At(m, p), s)
  BY <1>2, <1>3, AtKeeps DEF Positions
<1>5. CASE r \in {s, At(s, "unloaded"), Fail(s), Fail(m)}
  BY <1>2, <1>3, <1>4, <1>5, FailKeeps
<1>6. CASE \E p \in {"unloaded", "between"} : r \in {Fail(At(s, p)), Fail(At(m, p))}
  BY <1>4, <1>6, FailKeeps
<1> QED  BY <1>1, <1>5, <1>6 DEF m

(* Probing a gate leaves no tool selected.                                 *)
LEMMA ProbedResult ==
    ASSUME NEW S \in SUBSET State, NEW g \in Gates, NEW r \in Probed(S, g)
    PROVE  /\ r \in State
           /\ (\A s \in S : Fits(s)) => Fits(r)
<1> DEFINE N == {[s EXCEPT !.tool = None] : s \in Good(S)}
           at == SelectGate(N, g)
<1>1. \A m \in N : m \in State /\ m.tool = None
  <2>1. ASSUME NEW m \in N  PROVE m \in State /\ m.tool = None
    <3>1. PICK s \in S : m = [s EXCEPT !.tool = None]  BY DEF Good
    <3> QED  BY <3>1, ToolState
  <2> QED  BY <2>1
<1> HIDE DEF N
<1>2. ASSUME NEW m \in at
      PROVE  /\ m \in State /\ m.tool = None
             /\ Marked(m, g) \in State /\ Keeps(Marked(m, g), m)
             /\ Unmarked(m, g) \in State /\ Keeps(Unmarked(m, g), m)
  <2>1. m \in State  BY <1>1, SelectGateResult
  <2>2. PICK n \in N : Moved(m, n, g)  BY <1>1, SelectGateResult
  <2>3. m.tool = None  BY <1>1, <2>2 DEF Moved, Same
  <2> QED  BY <2>1, <2>3, KeepsItself, MarkedKeeps, UnmarkedKeeps
<1>3. CASE r \in Bad(S)
  BY <1>3 DEF Bad
<1>4. CASE r \in {At(Unmarked(s, g), "unloaded") : s \in Good(at)}
  <2>1. PICK m \in at : r = At(Unmarked(m, g), "unloaded")  BY <1>4 DEF Good
  <2>2. r \in State /\ Keeps(r, m)  BY <1>2, <2>1, AtKeeps DEF Positions
  <2> QED  BY <1>2, <2>1, <2>2 DEF Keeps, Fits
<1>5. CASE r \in {[At(Marked(s, g), "unloaded") EXCEPT !.ok = ~InPrint] : s \in at}
  <2>1. PICK m \in at : r = [At(Marked(m, g), "unloaded") EXCEPT !.ok = ~InPrint]  BY <1>5
  <2> DEFINE a == At(Marked(m, g), "unloaded")
  <2>2. a \in State /\ Keeps(a, m)  BY <1>2, <2>1, AtKeeps DEF Positions
  <2> HIDE DEF a
  <2>3. r \in State /\ Keeps(r, a)  BY <2>1, <2>2, OutcomeState DEF InPrint, a
  <2> QED  BY <1>2, <2>1, <2>2, <2>3 DEF Keeps, Fits
<1> QED  BY <1>3, <1>4, <1>5 DEF Probed, N

-----------------------------------------------------------------------------
(* The states a command may end in: when the selection agreed before it,   *)
(* it agrees in each of them.                                              *)
Safe(S) == S \in SUBSET State /\ (Agree => \A s \in S : Fits(s))

Stepped == mmu' \in State /\ print' \in {"standby", "printing", "paused"} /\ unit' = unit
Settled == Agree => Fits(mmu')

LEMMA BeginSafe == TypeOK => Safe(Begin)
BY BeginResult DEF Safe

LEMMA SafeOperations ==
    ASSUME NEW S, Safe(S), NEW t \in Tools \cup {None}, NEW g \in Gates
    PROVE  /\ Safe(SelectTool(S, t))
           /\ Safe(SelectAndLoadTool(S, t))
           /\ Safe(ChangeTool(S, t))
           /\ Safe(UnloadTool(S))
           /\ Safe(EjectFromGate(S))
           /\ Safe(ContinueAfter(S))
           /\ Safe(RecoverFilamentPos(S))
           /\ Safe(Probed(S, g))
           /\ Safe(EnsureTtgMatch(S))
           /\ Safe(RemapTool(S, t, g))
           /\ Safe(HomeUnit(S))
           /\ Safe(Good(S)) /\ Safe(Bad(S))
<1>1. S \in SUBSET State  BY DEF Safe
<1>2. Safe(SelectTool(S, t))  BY <1>1, SelectToolResult DEF Safe
<1>3. Safe(SelectAndLoadTool(S, t))  BY <1>1, SelectAndLoadToolResult DEF Safe
<1>4. Safe(ChangeTool(S, t))  BY <1>1, ChangeToolResult DEF Safe
<1>5. Safe(UnloadTool(S))  BY <1>1, UnloadToolResult, KeepsFit DEF Safe
<1>6. Safe(EjectFromGate(S))  BY <1>1, EjectFromGateResult, KeepsFit DEF Safe
<1>7. Safe(ContinueAfter(S))  BY <1>1, ContinueAfterResult, KeepsFit DEF Safe
<1>8. Safe(RecoverFilamentPos(S))  BY <1>1, RecoverFilamentPosResult, KeepsFit DEF Safe
<1>9. Safe(Probed(S, g))  BY <1>1, ProbedResult DEF Safe
<1>10. Safe(EnsureTtgMatch(S))  BY <1>1, EnsureTtgMatchResult DEF Safe, FitState
<1>11. Safe(RemapTool(S, t, g))  BY <1>1, RemapToolResult DEF Safe, FitState
<1>12. Safe(HomeUnit(S))
  <2>1. ASSUME NEW r \in HomeUnit(S), Agree  PROVE Fits(r)
    <3>1. PICK s \in S : /\ Same(r, s)
                         /\ \/ r = s
                            \/ s.ok /\ ~r.ok /\ r.gate = s.gate /\ unit.homing
                            \/ s.ok /\ r.gate = None
      BY <1>1, HomeUnitResult
    <3>2. Fits(s)  BY <2>1 DEF Safe
    <3> QED  BY <3>1, <3>2 DEF Same, Fits
  <2> QED  BY <1>1, <2>1, HomeUnitResult DEF Safe
<1>13. Safe(Good(S)) /\ Safe(Bad(S))  BY DEF Safe, Good, Bad
<1> QED  BY <1>2, <1>3, <1>4, <1>5, <1>6, <1>7, <1>8, <1>9, <1>10, <1>11, <1>12, <1>13

LEMMA SafeUnion == \A S, T : Safe(S) /\ Safe(T) => Safe(S \cup T)
BY DEF Safe

LEMMA EndResult ==
    ASSUME TypeOK, NEW STATE S, S \in SUBSET State, End(S)
    PROVE  /\ Stepped
           /\ \E s \in S : Keeps(mmu', s) /\ mmu'.ok = s.ok /\ (s.ok => mmu'.pos = s.pos)
<1>1. print' \in {"standby", "printing", "paused"} /\ unit' = unit
  BY DEF End, TypeOK
<1>2. CASE mmu' \in S
  BY <1>1, <1>2, KeepsItself DEF Stepped
<1>3. CASE mmu' \in RecoverFilamentPos(Bad(S)) /\ mmu' \notin S
  <2>1. Bad(S) \in SUBSET State  BY DEF Bad
  <2>2. mmu' \in State /\ \E s \in Bad(S) : Keeps(mmu', s) /\ mmu'.ok = s.ok
    BY <1>3, <2>1, RecoverFilamentPosResult
  <2> QED  BY <1>1, <2>2 DEF Bad, Good, Stepped
<1> QED  BY <1>2, <1>3 DEF End, Good

LEMMA EndSafe ==
    ASSUME TypeOK, NEW STATE S, Safe(S), End(S)
    PROVE  Stepped /\ Settled
<1>1. S \in SUBSET State  BY DEF Safe
<1>2. Stepped  BY <1>1, EndResult
<1>3. PICK s \in S : Keeps(mmu', s)  BY <1>1, EndResult
<1> QED  BY <1>2, <1>3, KeepsFit DEF Safe, Settled

-----------------------------------------------------------------------------
(* Every operation leaves the state well formed, and the selected tool and *)
(* gate mapped to each other if they were: but for MMU_TTG_MAP MAP= and a  *)
(* failed runout through a waste gate.                                     *)
LEMMA SelectingSteps ==
    ASSUME TypeOK, Selecting
    PROVE  Stepped /\ Settled
<1>1. Safe(Begin)  BY BeginSafe
<1>2. mmu.tool \in Tools \cup {None}  BY DEF TypeOK, State
<1>3. 0 \in Gates /\ None \notin Tools /\ None \in Tools \cup {None}  BY GateNumbers
<1>4. PICK z \in Gates : TRUE  BY <1>3
<1>5. ASSUME NEW t \in Tools, Change(t)  PROVE Stepped /\ Settled
  <2>1. Safe(ChangeTool(Begin, t))  BY <1>1, <1>4, SafeOperations
  <2> QED  BY <1>5, <2>1, EndSafe DEF Change
<1>6. ASSUME NEW g \in Gates, ChangeGate(g)  PROVE Stepped /\ Settled
  <2> DEFINE mapped == {t \in Tools : mmu.ttg[t] = g}
             one    == UNION {ChangeTool({s}, s.tool) : s \in RemapTool(Begin, mmu.tool, g)}
             other  == UNION {ChangeTool(Begin, t) : t \in Lowest(mapped)}
  <2>1. Safe(one)
    <3>1. Safe(RemapTool(Begin, mmu.tool, g))  BY <1>1, <1>2, SafeOperations
    <3>2. ASSUME NEW s \in RemapTool(Begin, mmu.tool, g)
          PROVE  Safe(ChangeTool({s}, s.tool))
      <4>1. Safe({s}) /\ s.tool \in Tools \cup {None}  BY <3>1 DEF Safe, State
      <4> QED  BY <1>4, <4>1, SafeOperations
    <3> QED  BY <3>2 DEF Safe
  <2>2. Safe(other)
    <3>1. ASSUME NEW t \in Lowest(mapped)  PROVE Safe(ChangeTool(Begin, t))
      <4>1. t \in Tools  BY LowestOf DEF Lowest
      <4> QED  BY <1>1, <1>4, <4>1, SafeOperations
    <3> QED  BY <3>1 DEF Safe
  <2>3. End(one) \/ End(other)  BY <1>6 DEF ChangeGate
  <2> HIDE DEF one, other
  <2> QED  BY <2>1, <2>2, <2>3, EndSafe
<1>7. ASSUME NEW t \in Tools \cup {None}, NEW g \in Gates \cup {None},
             t # None \/ g \in Gates, Select(t, g)
      PROVE  Stepped /\ Settled
  <2> DEFINE sel == IF t # None THEN SelectTool(Begin, t) ELSE SelectGate(Begin, g)
  <2>1. sel \in SUBSET State /\ (Agree => \A s \in Bad(sel) : Fits(s))
    <3>1. CASE t # None
      BY <1>1, <1>4, <3>1, SafeOperations DEF Safe, Bad
    <3>2. CASE t = None
      <4>1. g \in Gates /\ sel = SelectGate(Begin, g)  BY <1>7, <3>2
      <4>2. \A b \in Begin : Away(b) /\ b.gate = mmu.gate  BY BeginResult DEF Keeps
      <4> QED  BY <4>1, <4>2, SelectedAway DEF Bad, Good
    <3> QED  BY <3>1, <3>2
  <2> HIDE DEF sel
  <2>2. Safe(EnsureTtgMatch(Good(sel)))
    <3>1. Good(sel) \in SUBSET State  BY <2>1 DEF Good
    <3> QED  BY <3>1, EnsureTtgMatchResult DEF Safe, FitState
  <2>3. Safe(Matched(sel))  BY <2>1, <2>2 DEF Safe, Matched, Bad
  <2> QED  BY <1>7, <2>3, EndSafe DEF Select, sel
<1>8. ASSUME NEW t \in Tools \cup {None}, NEW skip \in BOOLEAN, Home(t, skip)
      PROVE  Stepped /\ Settled
  <2> DEFINE homed == IF skip /\ (mmu.homed \/ ~unit.homing) THEN Begin ELSE HomeUnit(Begin)
  <2>1. Safe(homed)  BY <1>1, <1>3, <1>4, SafeOperations
  <2> HIDE DEF homed
  <2>2. Safe(SelectTool(homed, t))  BY <1>4, <2>1, SafeOperations
  <2> QED  BY <1>8, <2>2, EndSafe DEF Home, homed
<1>9. ASSUME MotorsOff  PROVE Stepped /\ Settled
  <2> DEFINE off == {[s EXCEPT !.homed = FALSE] : s \in Begin}
  <2>1. ASSUME NEW r \in off  PROVE r \in State /\ (Agree => Fits(r))
    <3>1. PICK s \in Begin : r = [s EXCEPT !.homed = FALSE]  OBVIOUS
    <3>2. s \in State /\ (Agree => Fits(s))  BY BeginResult
    <3>3. r \in State /\ r.tool = s.tool /\ r.gate = s.gate /\ r.ttg = s.ttg
      BY <3>1, <3>2, ZenonT(30) DEF State
    <3> QED  BY <3>2, <3>3 DEF Fits
  <2>2. Safe(off)  BY <2>1 DEF Safe
  <2> QED  BY <1>9, <2>2, EndSafe DEF MotorsOff
<1> QED  BY <1>3, <1>5, <1>6, <1>7, <1>8, <1>9 DEF Selecting

LEMMA ReplaceResult ==
    ASSUME TypeOK, NEW s \in State, s.tool \in Tools, NEW n \in Gates, NEW r \in Replace(s, n)
    PROVE  /\ r \in State
           /\ r.ok => Fits(r)
           /\ unit.waste = None /\ Fits(s) => Fits(r)
<1> DEFINE away    == IF unit.waste # None THEN SelectGate({s}, unit.waste) ELSE {s}
           cleared == UnloadTool(away)
           ejected == EjectFromGate(cleared)
           free    == SelectGate(ejected, n)
           all     == Bad(free) \cup RemapTool(Good(free), s.tool, n)
           loaded  == SelectAndLoadTool(all, s.tool)
           Fit(m)  == unit.waste = None /\ Fits(s) => Fits(m)
<1>1. unit.waste \in Gates \cup {None}
  BY ToolSelectionAssumption DEF TypeOK, UnitType
<1>2. away \in SUBSET State /\ \A m \in away : Fit(m)
  BY <1>1, SelectGateResult
<1>3. cleared \in SUBSET State /\ \A m \in cleared : Fit(m)
  BY <1>2, UnloadToolResult, KeepsFit
<1>4. ejected \in SUBSET State /\ \A m \in ejected : Fit(m)
  BY <1>3, EjectFromGateResult, KeepsFit
<1> HIDE DEF away, cleared, ejected
<1>5. ASSUME NEW m \in free
      PROVE  m \in State /\ (~m.ok => Fit(m))
  <2>1. PICK e \in ejected : m \in State /\ Moved(m, e, n)  BY <1>4, SelectGateResult
  <2> QED  BY <1>4, <2>1 DEF Moved, Same, Arrives, Strays, Refused, Fits
<1>6. Bad(free) \in SUBSET State /\ \A m \in Bad(free) : Fit(m)
  BY <1>5 DEF Bad, Good
<1>7. RemapTool(Good(free), s.tool, n) \in SUBSET FitState
  BY <1>5, RemapToolResult DEF Good
<1>8. all \in SUBSET State /\ \A m \in all : Fit(m)
  BY <1>6, <1>7 DEF FitState
<1> HIDE DEF free, all
<1>9. s.tool \in Tools \cup {None} /\ s.tool # None  BY GateNumbers
<1>10. ASSUME NEW m \in loaded
       PROVE  m \in State /\ Fit(m) /\ (m.ok => Fits(m))
  <2>1. m \in State /\ ((\A x \in all : Fits(x)) => Fits(m)) /\ (m.ok => On(m, s.tool))
    BY <1>8, <1>9, SelectAndLoadToolResult
  <2> QED  BY <1>8, <2>1 DEF On, Fits
<1>11. loaded \in SUBSET State  BY <1>10
<1>12. r \in ContinueAfter(loaded)
  BY DEF Replace, loaded, all, free, ejected, cleared, away
<1> HIDE DEF loaded
<1>13. r \in State  BY <1>11, <1>12, ContinueAfterResult
<1>14. PICK m \in loaded : Keeps(r, m) /\ r.ok = m.ok
  BY <1>11, <1>12, ContinueAfterResult
<1> QED  BY <1>10, <1>13, <1>14, KeepsFit

LEMMA RunoutStep ==
    ASSUME TypeOK, Runout
    PROVE  Stepped /\ (Settled \/ (unit.waste # None /\ ~mmu'.ok))
<1> DEFINE noted   == {[s EXCEPT !.handling = TRUE] : s \in Begin}
           spent   == {Marked(s, s.gate) : s \in noted}
           next(s) == NextEndlessSpoolGate(s, Index(s.gate))
           stuck   == {Fail(s) : s \in {x \in spent : next(x) = {}}}
           renewed == UNION {UNION {Replace(s, n) : n \in next(s)} : s \in spent}
<1>1. ASSUME NEW s \in noted  PROVE s \in State /\ Keeps(s, mmu) /\ (Agree => Fits(s))
  <2>1. PICK b \in Begin : s = [b EXCEPT !.handling = TRUE]  OBVIOUS
  <2>2. b \in State /\ Keeps(b, mmu) /\ (Agree => Fits(b))  BY BeginResult
  <2>3. s \in State /\ Keeps(s, b)  BY <2>1, <2>2, ZenonT(30) DEF State, Keeps
  <2> QED  BY <2>2, <2>3, KeepsFit, KeepsTransitive
<1> HIDE DEF noted
<1>2. ASSUME NEW s \in spent  PROVE s \in State /\ Keeps(s, mmu) /\ (Agree => Fits(s))
  <2>1. PICK b \in noted : s = Marked(b, b.gate)  OBVIOUS
  <2>2. b \in State /\ b.gate \in Gates \cup {None}  BY <1>1 DEF State
  <2>3. s \in State /\ Keeps(s, b)  BY <2>1, <2>2, KeepsItself, MarkedKeeps
  <2> QED  BY <1>1, <2>3, KeepsFit, KeepsTransitive
<1> HIDE DEF spent
<1>3. CASE mmu.tool = None \/ ~EndlessSpool
  <2>1. End(Failed(noted))  BY <1>3 DEF Runout, noted
  <2>2. Safe(Failed(noted))
    BY <1>1, KeepsItself, FailKeeps, KeepsFit DEF Safe, Failed
  <2> QED  BY <2>1, <2>2, EndSafe
<1>4. CASE ~(mmu.tool = None \/ ~EndlessSpool)
  <2>1. End(stuck \cup renewed)  BY <1>4 DEF Runout, spent, noted
  <2>2. ASSUME NEW m \in stuck  PROVE m \in State /\ (Agree => Fits(m))
    BY <1>2, KeepsItself, FailKeeps, KeepsFit
  <2>3. ASSUME NEW m \in renewed
        PROVE  m \in State /\ (m.ok => Fits(m)) /\ (unit.waste = None /\ Agree => Fits(m))
    <3>1. PICK s \in spent : m \in UNION {Replace(s, n) : n \in next(s)}  OBVIOUS
    <3>2. PICK n \in next(s) : m \in Replace(s, n)  BY <3>1
    <3>3. n \in Gates  BY <3>2 DEF NextEndlessSpoolGate, Alternatives
    <3>4. s \in State /\ s.tool \in Tools /\ (Agree => Fits(s))
      BY <1>2, <1>4 DEF Keeps, State
    <3> QED  BY <3>2, <3>3, <3>4, ReplaceResult
  <2> HIDE DEF stuck, renewed
  <2>4. stuck \cup renewed \in SUBSET State  BY <2>2, <2>3
  <2>5. Stepped  BY <2>1, <2>4, EndResult
  <2>6. PICK m \in stuck \cup renewed : Keeps(mmu', m) /\ mmu'.ok = m.ok
    BY <2>1, <2>4, EndResult
  <2> QED  BY <2>2, <2>3, <2>5, <2>6, KeepsFit DEF Settled
<1> QED  BY <1>3, <1>4

LEMMA SelectedResult ==
    ASSUME TypeOK, NEW g \in Gates, NEW m \in Selected(g)
    PROVE  /\ m \in State /\ Away(m)
           /\ Agree /\ ~m.ok => Fits(m)
<1>1. \A b \in Begin : b \in State /\ Away(b) /\ b.gate = mmu.gate /\ b.ok
  BY BeginResult DEF Keeps
<1>2. CASE g = mmu.gate
  BY <1>1, <1>2 DEF Selected
<1>3. CASE g # mmu.gate
  <2>1. m \in SelectGate(Begin, g)  BY <1>3 DEF Selected
  <2> QED  BY <1>1, <2>1, SelectedAway
<1> QED  BY <1>2, <1>3

LEMMA WorkedOnIsSafe ==
    ASSUME TypeOK, NEW g \in Gates, NEW W, NEW p0,
           \A r \in W : r \in State /\ \E m \in Good(Selected(g)) : Keeps(r, m)
    PROVE  Safe(GoBack(W, mmu.gate, p0)) /\ Safe(Bad(Selected(g)))
<1>1. \A r \in W : Away(r)
  BY SelectedResult, KeepsAway DEF Good
<1>2. Safe(GoBack(W, mmu.gate, p0))  BY <1>1, GoBackResult DEF Safe
<1>3. Safe(Bad(Selected(g)))  BY SelectedResult DEF Safe, Bad, Good
<1> QED  BY <1>2, <1>3

LEMMA EjectGateStep ==
    ASSUME TypeOK, NEW g \in Gates, NEW force \in BOOLEAN, EjectGate(g, force)
    PROVE  Stepped /\ Settled
<1> DEFINE here    == g = mmu.gate
           entire  == mmu.pos = "unloaded" \/ force \/ ~here
           cleared == IF here /\ mmu.pos # "unloaded" THEN ContinueAfter(UnloadTool(Begin)) ELSE Begin
           reached == IF here THEN Good(cleared) ELSE SelectGate(Good(cleared), g)
           ejected == EjectFromGate(reached)
           back    == GoBack(ejected, mmu.gate, mmu.pos)
<1>1. Safe(Begin)  BY BeginSafe
<1>2. \A b \in Begin : b \in State /\ Away(b) /\ Keeps(b, mmu)  BY BeginResult
<1>3. Safe(cleared) /\ Safe(Bad(cleared))
  <2>1. None \in Tools \cup {None}  OBVIOUS
  <2>2. Safe(UnloadTool(Begin))  BY <1>1, <2>1, SafeOperations
  <2>3. Safe(ContinueAfter(UnloadTool(Begin)))  BY <2>1, <2>2, SafeOperations
  <2> QED  BY <1>1, <2>3 DEF Safe, Bad
<1>4. ASSUME NEW m \in cleared  PROVE m \in State /\ Away(m) /\ Keeps(m, mmu)
  <2>1. CASE m \in Begin
    BY <1>2, <2>1
  <2>2. CASE m \in ContinueAfter(UnloadTool(Begin))
    <3>1. Begin \in SUBSET State /\ UnloadTool(Begin) \in SUBSET State
      BY <1>2, UnloadToolResult
    <3>2. PICK u \in UnloadTool(Begin) : m \in State /\ Keeps(m, u)
      BY <2>2, <3>1, ContinueAfterResult
    <3>3. PICK b \in Begin : Keeps(u, b)  BY <3>1, <3>2, UnloadToolResult
    <3>4. Keeps(m, b) /\ Away(b) /\ Keeps(b, mmu)  BY <1>2, <3>2, <3>3, KeepsTransitive
    <3> QED  BY <3>2, <3>4, KeepsTransitive, KeepsAway
  <2> QED  BY <2>1, <2>2
<1> HIDE DEF cleared
<1>5. ASSUME NEW m \in reached  PROVE m \in State /\ Away(m)
  <2>1. CASE here
    BY <1>4, <2>1 DEF Good
  <2>2. CASE ~here
    <3>1. m \in SelectGate(Good(cleared), g)  BY <2>2
    <3>2. \A s \in Good(cleared) : Away(s) /\ s.gate = mmu.gate  BY <1>4 DEF Good, Keeps
    <3> QED  BY <3>1, <3>2, SelectedAway
  <2> QED  BY <2>1, <2>2
<1> HIDE DEF reached
<1>6. \A m \in ejected : Away(m)
  <2>1. reached \in SUBSET State  BY <1>5
  <2> QED  BY <1>5, <2>1, EjectFromGateResult, KeepsAway
<1> HIDE DEF ejected
<1>7. Safe(back)  BY <1>6, GoBackResult DEF Safe
<1> HIDE DEF back
<1>8. Safe(IF entire THEN Bad(cleared) \cup back ELSE cleared)  BY <1>3, <1>7, SafeUnion
<1>9. End(IF entire THEN Bad(cleared) \cup back ELSE cleared)
  BY DEF EjectGate, cleared, reached, ejected, back
<1> HIDE DEF entire
<1> QED  BY <1>8, <1>9, EndSafe

LEMMA PreloadStep ==
    ASSUME TypeOK, NEW g \in Gates, Preload(g)
    PROVE  Stepped /\ Settled
<1> DEFINE preloaded == PreloadGate(Good(Selected(g)), g)
           back      == GoBack(preloaded, mmu.gate, mmu.pos)
           all       == Bad(Selected(g)) \cup (IF g = mmu.gate THEN back ELSE Restored(back))
<1>1. Good(Selected(g)) \in SUBSET State  BY SelectedResult DEF Good
<1>2. \A r \in preloaded : r \in State /\ \E m \in Good(Selected(g)) : Keeps(r, m)
  BY <1>1, PreloadGateResult
<1> HIDE DEF preloaded
<1>3. Safe(back) /\ Safe(Bad(Selected(g)))  BY <1>2, WorkedOnIsSafe
<1> HIDE DEF back
<1>4. Safe(Restored(back))
  <2>1. ASSUME NEW r \in Restored(back)  PROVE r \in State /\ \E m \in back : Keeps(r, m)
    <3>1. mmu.pos \in Positions  BY DEF TypeOK, State
    <3>2. PICK m \in back : r = m \/ r = At(m, mmu.pos)  BY DEF Restored
    <3>3. m \in State /\ Keeps(m, m)  BY <1>3, KeepsItself DEF Safe
    <3> QED  BY <3>1, <3>2, <3>3, AtKeeps
  <2> QED  BY <1>3, <2>1, KeepsFit DEF Safe
<1>5. Safe(all)  BY <1>3, <1>4, SafeUnion
<1>6. End(all)  BY DEF Preload, back, preloaded
<1> HIDE DEF all
<1> QED  BY <1>5, <1>6, EndSafe

LEMMA MovingSteps ==
    ASSUME TypeOK, Moving
    PROVE  Stepped /\ (Settled \/ (Runout /\ Does("runout", None)))
<1>1. Safe(Begin)  BY BeginSafe
<1>2. mmu.tool \in Tools \cup {None}  BY DEF TypeOK, State
<1>3. 0 \in Gates  BY GateNumbers
<1>4. \A b \in Begin : b \in State /\ (Agree => Fits(b))  BY BeginResult
<1>5. ASSUME Load  PROVE Stepped /\ Settled
  <2>1. Safe(SelectAndLoadTool(Begin, mmu.tool))  BY <1>1, <1>2, <1>3, SafeOperations
  <2>2. Safe(ContinueAfter(SelectAndLoadTool(Begin, mmu.tool)))
    BY <1>2, <1>3, <2>1, SafeOperations
  <2> QED  BY <1>5, <2>2, EndSafe DEF Load
<1>6. ASSUME Unload  PROVE Stepped /\ Settled
  <2>1. Safe(UnloadTool(Begin))  BY <1>1, <1>2, <1>3, SafeOperations
  <2>2. Safe(ContinueAfter(UnloadTool(Begin)))  BY <1>2, <1>3, <2>1, SafeOperations
  <2> QED  BY <1>6, <2>2, EndSafe DEF Unload
<1>7. ASSUME Clog  PROVE Stepped /\ Settled
  <2> DEFINE S == {[Fail(s) EXCEPT !.handling = FALSE] : s \in Begin}
  <2>1. ASSUME NEW r \in S  PROVE r \in State /\ (Agree => Fits(r))
    <3>1. PICK b \in Begin : r = [Fail(b) EXCEPT !.handling = FALSE]  OBVIOUS
    <3> DEFINE f == Fail(b)
    <3>2. f \in State /\ Keeps(f, b)  BY <1>4, KeepsItself, FailKeeps
    <3> HIDE DEF f
    <3>3. r = [f EXCEPT !.handling = FALSE]  BY <3>1 DEF f
    <3>4. r \in State /\ Keeps(r, f)  BY <3>2, <3>3, ZenonT(30) DEF State, Keeps
    <3> QED  BY <1>4, <3>2, <3>4, KeepsFit
  <2>2. Safe(S)  BY <2>1 DEF Safe
  <2>3. End(S)  BY <1>7 DEF Clog
  <2> HIDE DEF S
  <2> QED  BY <2>2, <2>3, EndSafe
<1>8. ASSUME NEW g \in Gates, Scan(g)  PROVE Stepped /\ Settled
  <2> DEFINE scanned == JogScan(Good(Selected(g)), g)
             back    == GoBack(scanned, mmu.gate, mmu.pos)
  <2>1. Good(Selected(g)) \in SUBSET State  BY SelectedResult DEF Good
  <2>2. \A r \in scanned : r \in State /\ \E m \in Good(Selected(g)) : Keeps(r, m)
    BY <2>1, JogScanResult
  <2> HIDE DEF scanned
  <2>3. Safe(back) /\ Safe(Bad(Selected(g)))  BY <2>2, WorkedOnIsSafe
  <2> HIDE DEF back
  <2>4. Safe(Bad(Selected(g)) \cup back)  BY <2>3, SafeUnion
  <2>5. End(Bad(Selected(g)) \cup back)  BY <1>8 DEF Scan, back, scanned
  <2> QED  BY <2>4, <2>5, EndSafe
<1>9. ASSUME NEW g \in Gates, CheckGate(g)  PROVE Stepped /\ Settled
  <2> DEFINE cleared == IF mmu.pos = "unloaded" THEN Begin ELSE ContinueAfter(UnloadTool(Begin))
             reload  == print # "printing" /\ mmu.pos = "loaded" /\ mmu.tool # None
             probed  == Probed(cleared, g)
             loaded  == SelectAndLoadTool(probed, mmu.tool)
             present == {Unmarked(s, g) : s \in Begin}
             checked == IF reload THEN ContinueAfter(loaded) ELSE SelectTool(probed, mmu.tool)
  <2>1. Safe(UnloadTool(Begin))  BY <1>1, <1>2, <1>3, SafeOperations
  <2>2. Safe(ContinueAfter(UnloadTool(Begin)))  BY <1>2, <1>3, <2>1, SafeOperations
  <2>3. Safe(cleared)  BY <1>1, <2>2
  <2> HIDE DEF cleared
  <2>4. Safe(probed)  BY <1>2, <2>3, SafeOperations
  <2> HIDE DEF probed
  <2>5. Safe(loaded) /\ Safe(SelectTool(probed, mmu.tool))  BY <1>2, <1>3, <2>4, SafeOperations
  <2> HIDE DEF loaded
  <2>6. Safe(ContinueAfter(loaded))  BY <1>2, <1>3, <2>5, SafeOperations
  <2>7. Safe(checked)  BY <2>5, <2>6
  <2>8. Safe(present)
    BY <1>4, KeepsItself, UnmarkedKeeps, KeepsFit DEF Safe
  <2>9. End(present) \/ End(checked)  BY <1>9 DEF CheckGate, probed, loaded, cleared
  <2> HIDE DEF present, checked
  <2> QED  BY <2>7, <2>8, <2>9, EndSafe
<1>10. ASSUME Runout  PROVE Stepped
  BY <1>10, RunoutStep
<1> QED  BY <1>5, <1>6, <1>7, <1>8, <1>9, <1>10, EjectGateStep, PreloadStep DEF Moving

LEMMA RecoveredSafe ==
    ASSUME NEW S, Safe(S), NEW l
    PROVE  Safe(Recovered(S, l))
<1>1. CASE l = -1
  <2>1. None \in Tools \cup {None} /\ 0 \in Gates  BY GateNumbers
  <2> QED  BY <1>1, <2>1, SafeOperations DEF Recovered
<1>2. CASE l # -1
  <2>1. ASSUME NEW r \in Recovered(S, l)  PROVE r \in State /\ \E m \in S : Keeps(r, m)
    <3>1. PICK m \in S : r = At(m, IF l = 1 THEN "loaded" ELSE "unloaded")
      BY <1>2 DEF Recovered
    <3>2. m \in State /\ Keeps(m, m)  BY KeepsItself DEF Safe
    <3>3. (IF l = 1 THEN "loaded" ELSE "unloaded") \in Positions  BY DEF Positions
    <3> QED  BY <3>1, <3>2, <3>3, AtKeeps
  <2> QED  BY <2>1, KeepsFit DEF Safe
<1> QED  BY <1>1, <1>2

LEMMA MappingSteps ==
    ASSUME TypeOK, Mapping
    PROVE  Stepped /\ (Settled \/ \E m \in BulkMaps : BulkMap(m) /\ Does("bulk", None))
<1>1. Safe(Begin)  BY BeginSafe
<1>2. Begin \in SUBSET State /\ \A b \in Begin : b \in State /\ (Agree => Fits(b))
  BY BeginResult
<1>3. Tools = Gates /\ 0 \in Gates /\ None \in Tools \cup {None}  BY GateNumbers
<1>4. ASSUME NEW t \in Tools, NEW g \in Gates, NEW l, RecoverTool(t, g, l)
      PROVE  Stepped /\ Settled
  <2> DEFINE N      == {[s EXCEPT !.tool = t, !.gate = g] : s \in Begin}
             named  == RemapTool(N, t, g)
             status == {IF l = 0 THEN Marked(s, g) ELSE Unmarked(s, g) : s \in named}
  <2>1. ASSUME NEW m \in N  PROVE m \in State
    <3>1. PICK b \in Begin : m = [b EXCEPT !.tool = t, !.gate = g]  OBVIOUS
    <3> QED  BY <1>2, <3>1, ZenonT(30) DEF State
  <2>2. \A m \in named : m \in State /\ Fits(m)
    BY <2>1, RemapToolResult DEF FitState
  <2> HIDE DEF N, named
  <2>3. ASSUME NEW r \in status  PROVE r \in State /\ Fits(r)
    <3>1. PICK m \in named : r = Marked(m, g) \/ r = Unmarked(m, g)  OBVIOUS
    <3> QED  BY <2>2, <3>1, KeepsItself, MarkedKeeps, UnmarkedKeeps, KeepsFit
  <2>4. Safe(status)  BY <2>3 DEF Safe
  <2>5. End(Recovered(status, l))  BY <1>4 DEF RecoverTool, named, N
  <2> HIDE DEF status
  <2> QED  BY <2>4, <2>5, RecoveredSafe, EndSafe
<1>5. ASSUME NEW g \in Gates, NEW l, RecoverGate(g, l)  PROVE Stepped /\ Settled
  <2> DEFINE N == {[s EXCEPT !.gate = g] : s \in Begin}
  <2>1. \A m \in N : m \in State  BY <1>2, GateState
  <2>2. N \in SUBSET State  BY <2>1
  <2>3. End(Recovered(EnsureTtgMatch(N), l))  BY <1>5 DEF RecoverGate
  <2> HIDE DEF N
  <2>4. Safe(EnsureTtgMatch(N))  BY <2>2, EnsureTtgMatchResult DEF Safe, FitState
  <2> QED  BY <2>3, <2>4, RecoveredSafe, EndSafe
<1>6. ASSUME NEW l, RecoverPos(l)  PROVE Stepped /\ Settled
  BY <1>1, <1>6, RecoveredSafe, EndSafe DEF RecoverPos
<1>7. ASSUME NEW t \in Tools, NEW g \in Gates, TtgMap(t, g)  PROVE Stepped /\ Settled
  <2> DEFINE S == UNION {{Unmarked(s, g), Marked(s, g)} : s \in RemapTool(Begin, t, g)}
  <2>1. Safe(RemapTool(Begin, t, g))  BY <1>1, SafeOperations
  <2>2. ASSUME NEW r \in S  PROVE r \in State /\ (Agree => Fits(r))
    <3>1. PICK m \in RemapTool(Begin, t, g) : r = Unmarked(m, g) \/ r = Marked(m, g)  OBVIOUS
    <3>2. m \in State /\ (Agree => Fits(m))  BY <2>1 DEF Safe
    <3> QED  BY <3>1, <3>2, KeepsItself, MarkedKeeps, UnmarkedKeeps, KeepsFit
  <2>3. Safe(S)  BY <2>2 DEF Safe
  <2>4. End(S)  BY <1>7 DEF TtgMap
  <2> HIDE DEF S
  <2> QED  BY <2>3, <2>4, EndSafe
<1>8. ASSUME ResetTtgMap  PROVE Stepped /\ Settled
  <2> DEFINE N == {[s EXCEPT !.ttg = [t \in Tools |-> t]] : s \in Begin}
  <2>1. ASSUME NEW m \in N  PROVE m \in State
    <3>1. PICK b \in Begin : m = [b EXCEPT !.ttg = [t \in Tools |-> t]]  OBVIOUS
    <3>2. [t \in Tools |-> t] \in [Tools -> Gates]  BY <1>3
    <3> QED  BY <1>2, <3>1, <3>2, ZenonT(30) DEF State
  <2>2. N \in SUBSET State  BY <2>1
  <2>3. End(EnsureTtgMatch(N))  BY <1>8 DEF ResetTtgMap
  <2> HIDE DEF N
  <2>4. Safe(EnsureTtgMatch(N))  BY <2>2, EnsureTtgMatchResult DEF Safe, FitState
  <2> QED  BY <2>3, <2>4, EndSafe
<1>9. ASSUME NEW m \in BulkMaps, BulkMap(m)  PROVE Stepped
  <2> DEFINE N == {[s EXCEPT !.ttg = m] : s \in Begin}
  <2>1. ASSUME NEW r \in N  PROVE r \in State
    <3>1. PICK b \in Begin : r = [b EXCEPT !.ttg = m]  OBVIOUS
    <3>2. m \in [Tools -> Gates]  BY ToolSelectionAssumption
    <3> QED  BY <1>2, <3>1, <3>2, ZenonT(30) DEF State
  <2>2. N \in SUBSET State  BY <2>1
  <2>3. End(N)  BY <1>9 DEF BulkMap
  <2> HIDE DEF N
  <2> QED  BY <2>2, <2>3, EndResult
<1>10. ASSUME NEW g \in Gates, GateStatus(g)  PROVE Stepped /\ Settled
  <2> DEFINE S == {IF g \in s.empty THEN Unmarked(s, g) ELSE Marked(s, g) : s \in Begin}
  <2>1. ASSUME NEW r \in S  PROVE r \in State /\ (Agree => Fits(r))
    <3>1. PICK b \in Begin : r = Unmarked(b, g) \/ r = Marked(b, g)  OBVIOUS
    <3> QED  BY <1>2, <3>1, KeepsItself, MarkedKeeps, UnmarkedKeeps, KeepsFit
  <2>2. Safe(S)  BY <2>1 DEF Safe
  <2>3. End(S)  BY <1>10 DEF GateStatus
  <2> HIDE DEF S
  <2> QED  BY <2>2, <2>3, EndSafe
<1> QED  BY <1>4, <1>5, <1>6, <1>7, <1>8, <1>9, <1>10 DEF Mapping

LEMMA RestartStep ==
    ASSUME TypeOK, Restart
    PROVE  Stepped /\ Settled
<1> DEFINE checked  == {[s EXCEPT !.ok = TRUE] : s \in AutoHomed(Verified(Persisted))}
           selected == UNION {IF s.gate = None THEN {s} ELSE MoveSelector({s}, s.gate) : s \in checked}
           ready    == {[s EXCEPT !.ok = TRUE] : s \in selected}
<1>1. 0 \in Gates /\ None \notin Gates  BY GateNumbers
<1>2. Begin \in SUBSET State  BY BeginResult
<1>3. Persisted \in SUBSET State
  <2> DEFINE gate    == IF mmu.gate = None /\ unit.multigear THEN 0 ELSE mmu.gate
             dropped == {[s EXCEPT !.gate = None, !.tool = None] : s \in Handled}
             kept    == {[s EXCEPT !.gate = gate] : s \in Handled}
  <2>1. gate \in Gates \cup {None}
    BY <1>1 DEF TypeOK, State
  <2>2. Persisted = EnsureTtgMatch(dropped) \/ Persisted = EnsureTtgMatch(kept)
    BY DEF Persisted
  <2> HIDE DEF gate
  <2>3. ASSUME NEW s \in Handled  PROVE s \in State
    <3>1. PICK b \in Begin : s = [b EXCEPT !.handling = FALSE]  BY DEF Handled
    <3>2. b \in State  BY <1>2
    <3> QED  BY <3>1, <3>2, ZenonT(30) DEF State
  <2>4. ASSUME NEW m \in dropped  PROVE m \in State
    <3>1. PICK s \in Handled : m = [s EXCEPT !.gate = None, !.tool = None]  OBVIOUS
    <3> QED  BY <2>3, <3>1, ZenonT(30) DEF State
  <2>5. ASSUME NEW m \in kept  PROVE m \in State
    BY <2>1, <2>3, <2>5, GateState
  <2>6. dropped \in SUBSET State /\ kept \in SUBSET State  BY <2>4, <2>5
  <2> HIDE DEF dropped, kept
  <2> QED  BY <2>2, <2>6, EnsureTtgMatchResult DEF FitState
<1>4. Verified(Persisted) \in SUBSET State
  <2> DEFINE named == IF unit.shared THEN {} ELSE Gates
             options(s, p) == {[At(s, p) EXCEPT !.gate = g] : g \in {s.gate} \cup named}
  <2>1. Verified(Persisted) = UNION {options(s, p) : s \in Persisted, p \in Positions}
    BY DEF Verified
  <2>2. named \subseteq Gates  OBVIOUS
  <2> HIDE DEF named
  <2>3. ASSUME NEW s \in Persisted, NEW p \in Positions, NEW r \in options(s, p)
        PROVE  r \in State
    <3>1. PICK g \in {s.gate} \cup named : r = [At(s, p) EXCEPT !.gate = g]  OBVIOUS
    <3>2. At(s, p) \in State /\ s \in State  BY <1>3, AtState
    <3>3. g \in Gates \cup {None}  BY <2>2, <3>2 DEF State
    <3> QED  BY <3>1, <3>2, <3>3, GateState
  <2> HIDE DEF options
  <2> QED  BY <2>1, <2>3
<1>5. AutoHomed(Verified(Persisted)) \in SUBSET State
  <2>1. ASSUME NEW r \in AutoHomed(Verified(Persisted)), r \notin Verified(Persisted)
        PROVE  r \in State
    <3>1. PICK s \in Verified(Persisted) :
            r \in SelectGate(HomeUnit({s}), IF s.gate = None THEN 0 ELSE s.gate)
      BY <2>1 DEF AutoHomed
    <3>2. s \in State /\ (IF s.gate = None THEN 0 ELSE s.gate) \in Gates
      BY <1>1, <1>4 DEF State
    <3>3. HomeUnit({s}) \in SUBSET State  BY <3>2, HomeUnitResult
    <3> QED  BY <3>1, <3>2, <3>3, SelectGateResult
  <2> QED  BY <1>4, <2>1
<1>6. \A s \in checked : s \in State  BY <1>5, OutcomeState
<1> HIDE DEF checked
<1>7. ASSUME NEW r \in selected  PROVE r \in State
  <2>1. PICK s \in checked : r \in IF s.gate = None THEN {s} ELSE MoveSelector({s}, s.gate)
    OBVIOUS
  <2>2. s \in State /\ s.gate \in Gates \cup {None}  BY <1>6 DEF State
  <2> QED  BY <2>1, <2>2, MoveSelectorResult
<1> HIDE DEF selected
<1>8. \A s \in ready : s \in State  BY <1>7, OutcomeState
<1>9. ready \in SUBSET State  BY <1>8
<1>10. mmu' \in EnsureTtgMatch(ready) /\ print' = "standby" /\ unit' = unit
  BY DEF Restart, checked, selected
<1> HIDE DEF ready
<1> QED  BY <1>9, <1>10, EnsureTtgMatchResult DEF FitState, Stepped, Settled

LEMMA PrintSteps ==
    ASSUME TypeOK, Job
    PROVE  Stepped /\ Settled
<1>1. ASSUME NEW r \in Begin \cup Handled  PROVE r \in State /\ (Agree => Fits(r))
  <2>1. \A b \in Begin : b \in State /\ (Agree => Fits(b))  BY BeginResult
  <2>2. CASE r \in Handled
    <3>1. PICK b \in Begin : r = [b EXCEPT !.handling = FALSE]  BY <2>2 DEF Handled
    <3>2. r \in State /\ Keeps(r, b)  BY <2>1, <3>1, ZenonT(30) DEF State, Keeps
    <3> QED  BY <2>1, <3>2, KeepsFit
  <2> QED  BY <2>1, <2>2
<1>2. CASE PrintStart \/ Pause \/ Resume \/ PrintEnd
  <2>1. /\ mmu' \in Begin \cup Handled
        /\ print' \in {"standby", "printing", "paused"} /\ unit' = unit
    BY <1>2 DEF PrintStart, Pause, Resume, PrintEnd, PrintGoes
  <2> QED  BY <1>1, <2>1 DEF Stepped, Settled
<1> QED  BY <1>2, RestartStep DEF Job

-----------------------------------------------------------------------------
(* Every step of the driver.                                               *)
LEMMA EveryStep ==
    ASSUME TypeOK, Next
    PROVE  /\ Stepped
           /\ \/ Settled
              \/ did'.op = "bulk"
              \/ did'.op = "runout" /\ unit.waste # None /\ ~mmu'.ok
           /\ did' \in [op : Operations, arg : Tools \cup {None}]
<1>1. Tools = Gates  BY GateNumbers
<1>2. \A op \in Operations, a \in Tools \cup {None} :
        Does(op, a) => did' \in [op : Operations, arg : Tools \cup {None}]
  BY DEF Does
<1>3. CASE Selecting
  <2>1. did' \in [op : Operations, arg : Tools \cup {None}]
    BY <1>1, <1>2, <1>3 DEF Selecting, Operations
  <2> QED  BY <1>3, <2>1, SelectingSteps
<1>4. CASE Moving
  <2>1. did' \in [op : Operations, arg : Tools \cup {None}]
    BY <1>1, <1>2, <1>4 DEF Moving, Operations
  <2>2. CASE Runout /\ Does("runout", None)
    <3>1. did'.op = "runout"  BY <2>2 DEF Does
    <3> QED  BY <2>1, <2>2, <3>1, RunoutStep
  <2> QED  BY <1>4, <2>1, <2>2, MovingSteps
<1>5. CASE Mapping
  <2>1. did' \in [op : Operations, arg : Tools \cup {None}]
    BY <1>1, <1>2, <1>5 DEF Mapping, Operations
  <2>2. Does("bulk", None) => did'.op = "bulk"  BY DEF Does
  <2> QED  BY <1>5, <2>1, <2>2, MappingSteps
<1>6. CASE Job
  <2>1. did' \in [op : Operations, arg : Tools \cup {None}]
    BY <1>2, <1>6 DEF Job, Operations
  <2> QED  BY <1>6, <2>1, PrintSteps
<1> QED  BY <1>3, <1>4, <1>5, <1>6 DEF Next

-----------------------------------------------------------------------------
(* The results. *)

LEMMA InitTyped == Init => TypeOK
<1> SUFFICES ASSUME Init PROVE TypeOK
  OBVIOUS
<1>1. PICK g \in {IF unit.multigear THEN 0 ELSE None} :
        mmu = [tool |-> g, gate |-> g, homed |-> ~unit.homing, ttg |-> [t \in Tools |-> t],
               empty |-> {}, pos |-> "unloaded", handling |-> FALSE,
               ok |-> TRUE, dragged |-> FALSE, seen |-> TRUE]
  BY DEF Init
<1>2. g \in Tools \cup {None} /\ g \in Gates \cup {None}  BY GateNumbers
<1>3. [t \in Tools |-> t] \in [Tools -> Gates] /\ {} \in SUBSET Gates /\ "unloaded" \in Positions
  BY GateNumbers DEF Positions
<1>4. (~unit.homing) \in BOOLEAN  OBVIOUS
<1>5. mmu \in State  BY <1>1, <1>2, <1>3, <1>4, ZenonT(30) DEF State
<1>6. did \in [op : Operations, arg : Tools \cup {None}]  BY DEF Init, Operations
<1> QED  BY <1>5, <1>6 DEF Init, TypeOK

LEMMA StepTyped == TypeOK /\ [Next]_vars => TypeOK'
<1>1. ASSUME TypeOK, Next  PROVE TypeOK'
  BY <1>1, EveryStep DEF TypeOK, Stepped
<1>2. ASSUME TypeOK, UNCHANGED vars  PROVE TypeOK'
  BY <1>2 DEF TypeOK, vars
<1> QED  BY <1>1, <1>2

(* Whatever the number of gates, the groups, the kind of unit and the      *)
(* outcomes of its motions, the driver's state keeps its type: the         *)
(* selected tool and gate exist or are unknown, every tool maps to a gate. *)
THEOREM TypeCorrect == Spec => []TypeOK
<1> QED  BY InitTyped, StepTyped, PTL DEF Spec

(* For any number of gates, any groups and any kind of unit: the selected  *)
(* tool and the selected gate stay mapped to each other, but for           *)
(* MMU_TTG_MAP MAP= and a failed runout with a waste gate                  *)
(* (ensure_ttg_match of mmu_gate_maps.py and its callers).                 *)
THEOREM SelectionAgrees == Spec => AgreementKept
<1>1. TypeOK /\ [Next]_vars =>
        [Agree => \/ Agree'
                  \/ did'.op = "bulk"
                  \/ did'.op = "runout" /\ unit.waste # None /\ ~mmu'.ok]_vars
  <2>1. Agree' <=> Fits(mmu')  BY DEF Agree, Fits
  <2>2. ASSUME TypeOK, Next
        PROVE  Agree => \/ Agree'
                        \/ did'.op = "bulk"
                        \/ did'.op = "runout" /\ unit.waste # None /\ ~mmu'.ok
    BY <2>1, <2>2, EveryStep DEF Settled
  <2> QED  BY <2>2
<1> QED  BY <1>1, TypeCorrect, PTL DEF Spec, AgreementKept

-----------------------------------------------------------------------------
(* A change is the only operation called one. *)

LEMMA ChangeOnly ==
    ASSUME TypeOK, Next, did'.op = "change"
    PROVE  Change(did'.arg) /\ did'.arg \in Tools
<1>1. \A op, a : Does(op, a) => did'.op = op /\ did'.arg = a  BY DEF Does
<1>2. ~Moving  BY <1>1 DEF Moving
<1>3. ~Mapping  BY <1>1 DEF Mapping
<1>4. ~Job  BY <1>1 DEF Job
<1>5. \E t \in Tools : Change(t) /\ Does("change", t)
  <2>1. Selecting  BY <1>2, <1>3, <1>4 DEF Next
  <2>2. \A op \in {"changeGate", "select", "selectGate", "home", "homeIfNeeded", "motorsOff"} :
          \A a : ~Does(op, a)
    BY <1>1
  <2>3. \A a : /\ ~Does("changeGate", a) /\ ~Does("select", a) /\ ~Does("selectGate", a)
               /\ ~Does("home", a) /\ ~Does("homeIfNeeded", a) /\ ~Does("motorsOff", a)
    BY <2>2
  <2> QED  BY <2>1, <2>3, Zenon DEF Selecting
<1> QED  BY <1>1, <1>5

(* Whatever tool is asked for, whatever the retries, the EndlessSpool      *)
(* remappings and the failures on the way, MMU_CHANGE_TOOL that raises     *)
(* nothing ends with that tool selected, on its gate, loaded.              *)
THEOREM ChangeIsAsAsked == Spec => ChangeEndsAsAsked
<1>1. TypeOK /\ [Next]_vars =>
        [did'.op = "change" /\ mmu'.ok =>
            /\ mmu'.tool = did'.arg
            /\ mmu'.gate = mmu'.ttg[did'.arg]
            /\ mmu'.pos = "loaded"]_vars
  <2>1. ASSUME TypeOK, Next, did'.op = "change", mmu'.ok
        PROVE  mmu'.tool = did'.arg /\ mmu'.gate = mmu'.ttg[did'.arg] /\ mmu'.pos = "loaded"
    <3>1. PICK t \in Tools : did'.arg = t /\ Change(t)  BY <2>1, ChangeOnly
    <3> DEFINE S == ChangeTool(Begin, t)
    <3>2. t \in Tools \cup {None} /\ t # None  BY GateNumbers
    <3>3. Begin \in SUBSET State  BY <2>1, BeginResult
    <3>4. \A s \in S : s \in State /\ (s.ok => On(s, t) /\ s.pos = "loaded")
      BY <3>2, <3>3, ChangeToolResult
    <3>5. End(S)  BY <3>1 DEF Change
    <3> HIDE DEF S
    <3>6. S \in SUBSET State  BY <3>4
    <3>7. PICK s \in S : Keeps(mmu', s) /\ mmu'.ok = s.ok /\ (s.ok => mmu'.pos = s.pos)
      BY <2>1, <3>5, <3>6, EndResult
    <3> QED  BY <2>1, <3>1, <3>4, <3>7 DEF Keeps, On
  <2> QED  BY <2>1
<1> QED  BY <1>1, TypeCorrect, PTL DEF Spec, ChangeEndsAsAsked

-----------------------------------------------------------------------------
(* What a command makes of the handling of a runout and, in the ghost      *)
(* `dragged', of the filament in the gate.  With h FALSE no runout is      *)
(* being handled in the states of Quiet(h, d), with d FALSE none of them   *)
(* has moved the selector from a loaded gate; in those of Ready(h, d) the  *)
(* next move of the selector will not do so either.                        *)
Quiet(h, d) == {s \in State : (s.handling => h) /\ (s.dragged => d)}
Free(s, d)  == d \/ unit.crossload \/ s.pos = "unloaded" \/ ~s.ok
Ready(h, d) == {s \in Quiet(h, d) : Free(s, d)}

(* Every update of a state but a move of the selector is quiet.            *)
LEMMA QuietUpdates ==
    ASSUME NEW h \in BOOLEAN, NEW d \in BOOLEAN, NEW s \in Quiet(h, d),
           NEW g \in Gates \cup {None}, NEW p \in Positions
    PROVE  /\ Fail(s) \in Quiet(h, d) /\ At(s, p) \in Quiet(h, d)
           /\ Marked(s, g) \in Quiet(h, d) /\ Unmarked(s, g) \in Quiet(h, d)
           /\ Unselected(s) \in Quiet(h, d) /\ Adrift(s) \in Quiet(h, d)
<1>1. Fail(s) \in Quiet(h, d)  BY FailState, ZenonT(30) DEF Quiet, Fail, State
<1>2. Marked(s, g) \in Quiet(h, d)  BY MarkedState, ZenonT(30) DEF Quiet, Marked, State
<1>3. Unmarked(s, g) \in Quiet(h, d)  BY UnmarkedState, ZenonT(30) DEF Quiet, Unmarked, State
<1>4. At(s, p) \in Quiet(h, d)  BY AtState, ZenonT(30) DEF Quiet, At, State
<1>5. Unselected(s) \in Quiet(h, d) /\ Adrift(s) \in Quiet(h, d)
  BY StrayState, ZenonT(30) DEF Quiet, Unselected, Adrift, Fail, State
<1> QED  BY <1>1, <1>2, <1>3, <1>4, <1>5

LEMMA QuietAssignments ==
    ASSUME NEW h \in BOOLEAN, NEW d \in BOOLEAN, NEW s \in Quiet(h, d),
           NEW g \in Gates \cup {None}, NEW b \in BOOLEAN
    PROVE  /\ [s EXCEPT !.gate = g] \in Quiet(h, d) /\ [s EXCEPT !.tool = g] \in Quiet(h, d)
           /\ [s EXCEPT !.gate = None, !.homed = TRUE] \in Quiet(h, d)
           /\ [s EXCEPT !.ok = b] \in Quiet(h, d) /\ [s EXCEPT !.seen = b] \in Quiet(h, d)
           /\ [s EXCEPT !.homed = b] \in Quiet(h, d)
BY GateNumbers, ZenonT(30) DEF Quiet, State

LEMMA QuietDragged ==
    ASSUME NEW h \in BOOLEAN, NEW d \in BOOLEAN, NEW s \in Quiet(h, d),
           NEW g \in Gates \cup {None}, d \/ ~Dragging(s, g)
    PROVE  Dragged(s, g) \in Quiet(h, d)
<1>1. s \in State /\ Dragged(s, g) \in State  BY DraggedState DEF Quiet
<1>2. /\ Dragged(s, g).handling = s.handling
      /\ Dragged(s, g).dragged = (s.dragged \/ Dragging(s, g))
  BY <1>1, ZenonT(30) DEF Dragged, State
<1> QED  BY <1>1, <1>2 DEF Quiet

LEMMA QuietParts ==
    ASSUME NEW X, NEW S \in SUBSET X
    PROVE  Good(S) \in SUBSET X /\ Bad(S) \in SUBSET X
BY DEF Good, Bad

LEMMA QuietStates ==
    ASSUME NEW h, NEW d
    PROVE  Quiet(h, d) \subseteq State /\ Ready(h, d) \subseteq Quiet(h, d)
BY DEF Quiet, Ready

(* What leaves the filament where it was, and raises no less, leaves a     *)
(* ready state ready.                                                      *)
LEMMA ReadyFollows ==
    ASSUME NEW h, NEW d, NEW S \in SUBSET Ready(h, d), NEW T \in SUBSET Quiet(h, d),
           \A r \in T : \E s \in S : r.pos = s.pos /\ (r.ok => s.ok)
    PROVE  T \in SUBSET Ready(h, d)
BY DEF Ready, Free

LEMMA QuietHomeUnit ==
    ASSUME NEW h \in BOOLEAN, NEW d \in BOOLEAN, NEW S \in SUBSET Quiet(h, d)
    PROVE  HomeUnit(S) \in SUBSET Quiet(h, d)
<1> SUFFICES ASSUME NEW r \in HomeUnit(S)  PROVE r \in Quiet(h, d)
  OBVIOUS
<1>1. CASE r \in Bad(S)
  BY <1>1 DEF Bad
<1>2. CASE r \notin Bad(S)
  <2>1. PICK s \in Good(S) :
          r \in IF ~unit.homing THEN {s}
                ELSE IF s.pos # "unloaded" THEN {Fail(s)}
                ELSE {[s EXCEPT !.gate = None, !.homed = TRUE], Adrift(s)}
    BY <1>2 DEF HomeUnit
  <2>2. s \in Quiet(h, d)  BY DEF Good
  <2>3. /\ Fail(s) \in Quiet(h, d) /\ Adrift(s) \in Quiet(h, d)
        /\ [s EXCEPT !.gate = None, !.homed = TRUE] \in Quiet(h, d)
    BY <2>2, QuietUpdates, QuietAssignments DEF Positions
  <2> QED  BY <2>1, <2>2, <2>3
<1> QED  BY <1>1, <1>2

LEMMA ReadyHomeUnit ==
    ASSUME NEW h \in BOOLEAN, NEW d \in BOOLEAN, NEW S \in SUBSET Ready(h, d)
    PROVE  HomeUnit(S) \in SUBSET Ready(h, d)
<1>1. S \in SUBSET State /\ S \in SUBSET Quiet(h, d)  BY QuietStates
<1>2. \A r \in HomeUnit(S) : \E s \in S : r.pos = s.pos /\ (r.ok => s.ok)
  BY <1>1, HomeUnitResult DEF Same
<1> QED  BY <1>1, <1>2, QuietHomeUnit, ReadyFollows

(* The selector does not leave a loaded gate.                              *)
Spares(S, g, d) == \A s \in S : s.ok => d \/ ~Dragging(s, g)

LEMMA QuietMoveSelector ==
    ASSUME NEW h \in BOOLEAN, NEW d \in BOOLEAN, NEW g \in Gates \cup {None},
           NEW S \in SUBSET Quiet(h, d), Spares(S, g, d)
    PROVE  MoveSelector(S, g) \in SUBSET Quiet(h, d)
<1>1. Good(S) \in SUBSET Quiet(h, d) /\ Bad(S) \in SUBSET Quiet(h, d)  BY QuietParts
<1>2. \A s \in Good(S) : Dragged(s, g) \in Quiet(h, d)
  BY <1>1, QuietDragged DEF Spares, Good
<1>3. \A s \in Good(S) : /\ [Dragged(s, g) EXCEPT !.gate = g] \in Quiet(h, d)
                         /\ Unselected(Dragged(s, g)) \in Quiet(h, d)
                         /\ Adrift(Dragged(s, g)) \in Quiet(h, d)
  BY <1>2, QuietUpdates, QuietAssignments DEF Positions
<1>4. \A s \in Good(S) : {Unselected(Dragged(s, g)), Adrift(Dragged(s, g))} \subseteq Quiet(h, d)
  BY <1>3
<1> QED  BY <1>1, <1>3, <1>4 DEF MoveSelector

LEMMA ReadySelectGate ==
    ASSUME NEW h \in BOOLEAN, NEW d \in BOOLEAN, NEW g \in Gates \cup {None},
           NEW S \in SUBSET Ready(h, d)
    PROVE  SelectGate(S, g) \in SUBSET Ready(h, d)
<1> DEFINE U == {s \in Good(S) : g # s.gate /\ ~s.homed}
           T == (S \ U) \cup HomeUnit(U)
<1>1. U \in SUBSET Ready(h, d)  BY DEF Good
<1>2. T \in SUBSET Ready(h, d)  BY <1>1, ReadyHomeUnit
<1>3. SelectGate(S, g) = MoveSelector(T, g)  BY DEF SelectGate
<1> HIDE DEF T
<1>4. Spares(T, g, d)  BY <1>2 DEF Spares, Ready, Free, Dragging
<1>5. SelectGate(S, g) \in SUBSET Quiet(h, d)
  BY <1>2, <1>3, <1>4, QuietMoveSelector, QuietStates
<1>6. S \in SUBSET State  BY QuietStates
<1>7. \A r \in SelectGate(S, g) : \E s \in S : Moved(r, s, g)  BY <1>6, SelectGateResult
<1>8. \A r \in SelectGate(S, g) : \E s \in S : r.pos = s.pos /\ (r.ok => s.ok)
  BY <1>7 DEF Moved, Same, Arrives, Strays, Refused
<1> QED  BY <1>5, <1>8, ReadyFollows

(* Selecting the gate one is on moves nothing.                             *)
LEMMA QuietSelectGate ==
    ASSUME NEW h \in BOOLEAN, NEW d \in BOOLEAN, NEW g \in Gates \cup {None},
           NEW S \in SUBSET Quiet(h, d), \A s \in S : s.gate = g
    PROVE  SelectGate(S, g) \in SUBSET Quiet(h, d)
<1> DEFINE U == {s \in Good(S) : g # s.gate /\ ~s.homed}
<1>1. U = {}  BY DEF Good
<1>2. HomeUnit(U) = {}  BY <1>1 DEF HomeUnit, Good, Bad
<1>3. SelectGate(S, g) = MoveSelector(S, g)  BY <1>1, <1>2 DEF SelectGate
<1>4. Spares(S, g, d)  BY DEF Spares, Dragging
<1> QED  BY <1>3, <1>4, QuietMoveSelector

LEMMA QuietTool ==
    ASSUME NEW h \in BOOLEAN, NEW d \in BOOLEAN, NEW t \in Tools \cup {None},
           NEW S \in SUBSET Quiet(h, d),
           t # None => \A s \in S : SelectGate({s}, s.ttg[t]) \in SUBSET Quiet(h, d)
    PROVE  SelectTool(S, t) \in SUBSET Quiet(h, d)
<1>1. CASE t = None
  BY <1>1 DEF SelectTool
<1>2. CASE t # None
  <2> DEFINE T == UNION {SelectGate({s}, s.ttg[t]) : s \in S}
  <2>1. T \in SUBSET Quiet(h, d)  BY <1>2
  <2>2. SelectTool(S, t) = Bad(T) \cup {[s EXCEPT !.tool = t] : s \in Good(T)}
    BY <1>2 DEF SelectTool
  <2> HIDE DEF T
  <2>3. Good(T) \in SUBSET Quiet(h, d) /\ Bad(T) \in SUBSET Quiet(h, d)  BY <2>1, QuietParts
  <2>4. \A s \in Quiet(h, d) : [s EXCEPT !.tool = t] \in Quiet(h, d)
    BY GateNumbers, QuietAssignments
  <2> QED  BY <2>2, <2>3, <2>4
<1> QED  BY <1>1, <1>2

LEMMA ReadySelectTool ==
    ASSUME NEW h \in BOOLEAN, NEW d \in BOOLEAN, NEW t \in Tools \cup {None},
           NEW S \in SUBSET Ready(h, d)
    PROVE  SelectTool(S, t) \in SUBSET Ready(h, d)
<1>1. S \in SUBSET Quiet(h, d) /\ S \in SUBSET State  BY QuietStates
<1>2. t # None => \A s \in S : s.ttg[t] \in Gates  BY <1>1 DEF State
<1>3. t # None => \A s \in S : SelectGate({s}, s.ttg[t]) \in SUBSET Quiet(h, d)
  BY <1>2, ReadySelectGate, QuietStates
<1>4. SelectTool(S, t) \in SUBSET Quiet(h, d)  BY <1>1, <1>3, QuietTool
<1>5. \A r \in SelectTool(S, t) : \E s \in S : r.pos = s.pos /\ (r.ok => s.ok)
  BY <1>1, SelectToolResult
<1> QED  BY <1>4, <1>5, ReadyFollows

-----------------------------------------------------------------------------
(* The map. *)
LEMMA QuietMap ==
    ASSUME NEW h \in BOOLEAN, NEW d \in BOOLEAN, NEW S \in SUBSET Quiet(h, d)
    PROVE  /\ EnsureTtgMatch(S) \in SUBSET Quiet(h, d)
           /\ \A t \in Tools \cup {None}, g \in Gates : RemapTool(S, t, g) \in SUBSET Quiet(h, d)
<1>1. ASSUME NEW T \in SUBSET Quiet(h, d)  PROVE EnsureTtgMatch(T) \in SUBSET Quiet(h, d)
  <2>1. T \in SUBSET State  BY QuietStates
  <2> SUFFICES ASSUME NEW r \in EnsureTtgMatch(T)  PROVE r \in Quiet(h, d)
    OBVIOUS
  <2>2. PICK s \in T : \E t \in MatchedTools(s) : r = [s EXCEPT !.tool = t]  BY DEF EnsureTtgMatch
  <2>3. r \in State  BY <2>1, EnsureTtgMatchResult DEF FitState
  <2> QED  BY <2>2, <2>3, ZenonT(30) DEF Quiet, State
<1>2. ASSUME NEW t \in Tools \cup {None}, NEW g \in Gates
      PROVE  RemapTool(S, t, g) \in SUBSET Quiet(h, d)
  <2> DEFINE T == {[s EXCEPT !.ttg = [@ EXCEPT ![Index(t)] = g]] : s \in S}
  <2>1. ASSUME NEW m \in T  PROVE m \in Quiet(h, d)
    <3>1. PICK s \in S : m = [s EXCEPT !.ttg = [@ EXCEPT ![Index(t)] = g]]  OBVIOUS
    <3>2. [s.ttg EXCEPT ![Index(t)] = g] \in [Tools -> Gates]  BY Indices DEF Quiet, State
    <3> QED  BY <3>1, <3>2, ZenonT(30) DEF Quiet, State
  <2> QED  BY <1>1, <2>1 DEF RemapTool
<1> QED  BY <1>1, <1>2

LEMMA ReadyRemapTool ==
    ASSUME NEW h \in BOOLEAN, NEW d \in BOOLEAN, NEW S \in SUBSET Ready(h, d),
           NEW t \in Tools \cup {None}, NEW g \in Gates
    PROVE  RemapTool(S, t, g) \in SUBSET Ready(h, d)
<1>1. S \in SUBSET State /\ S \in SUBSET Quiet(h, d)  BY QuietStates
<1>2. \A r \in RemapTool(S, t, g) : \E s \in S : r.pos = s.pos /\ (r.ok => s.ok)
  BY <1>1, RemapToolResult
<1>3. RemapTool(S, t, g) \in SUBSET Quiet(h, d)  BY <1>1, QuietMap
<1> QED  BY <1>2, <1>3, ReadyFollows

-----------------------------------------------------------------------------
(* Filament. *)
LEMMA QuietFilament ==
    ASSUME NEW h \in BOOLEAN, NEW d \in BOOLEAN, NEW S \in SUBSET Quiet(h, d)
    PROVE  /\ LoadSequence(S) \in SUBSET Quiet(h, d)
           /\ UnloadTool(S) \in SUBSET Ready(h, d)
           /\ EjectFromGate(S) \in SUBSET Quiet(h, d)
           /\ RecoverFilamentPos(S) \in SUBSET Quiet(h, d)
           /\ ContinueAfter(S) \in SUBSET Quiet(h, d)
<1>1. Good(S) \in SUBSET Quiet(h, d) /\ Bad(S) \in SUBSET Quiet(h, d)  BY QuietParts
<1>2. \A s \in Quiet(h, d) : s.gate \in Gates \cup {None}  BY DEF Quiet, State
<1>3. \A s \in Quiet(h, d) : Fail(s) \in Quiet(h, d)  BY QuietUpdates DEF Positions
<1>4. \A s \in Quiet(h, d) : Marked(s, s.gate) \in Quiet(h, d) /\ Unmarked(s, s.gate) \in Quiet(h, d)
  BY <1>2, QuietUpdates DEF Positions
<1>5. \A s \in Quiet(h, d), p \in Positions : At(s, p) \in Quiet(h, d)  BY QuietUpdates
<1>6. {"unloaded", "between", "loaded"} = Positions  BY DEF Positions
<1>7. LoadSequence(S) \in SUBSET Quiet(h, d)
  <2>1. \A s \in Quiet(h, d) : \A b \in BOOLEAN :
          [At(Unmarked(s, s.gate), "loaded") EXCEPT !.seen = b] \in Quiet(h, d)
    BY <1>4, <1>5, <1>6, QuietAssignments
  <2>2. \A s \in Quiet(h, d) : /\ Fail(At(Marked(s, s.gate), "unloaded")) \in Quiet(h, d)
                               /\ Fail(At(Unmarked(s, s.gate), "between")) \in Quiet(h, d)
                               /\ Fail(At(Unmarked(s, s.gate), "loaded")) \in Quiet(h, d)
    BY <1>3, <1>4, <1>5, <1>6
  <2>3. ASSUME NEW s \in Good(S)
        PROVE  ({Fail(s), Fail(At(Marked(s, s.gate), "unloaded")),
                 Fail(At(Unmarked(s, s.gate), "between")),
                 Fail(At(Unmarked(s, s.gate), "loaded"))}
                \cup {[At(Unmarked(s, s.gate), "loaded") EXCEPT !.seen = b] : b \in BOOLEAN})
                  \subseteq Quiet(h, d)
    BY <1>1, <1>3, <2>1, <2>2
  <2> QED  BY <1>1, <2>3, Zenon DEF LoadSequence
<1>8. UnloadTool(S) \in SUBSET Ready(h, d)
  <2> SUFFICES ASSUME NEW r \in UnloadTool(S)  PROVE r \in Ready(h, d)
    OBVIOUS
  <2>1. CASE r \in Bad(S)
    BY <1>1, <2>1 DEF Bad, Good, Ready, Free
  <2>2. CASE r \notin Bad(S)
    <3>1. PICK s \in Good(S) :
            r \in IF s.pos = "unloaded" THEN {s}
                  ELSE {Fail(s), Fail(At(s, "between")), Fail(At(s, "unloaded"))}
                       \cup LET done == At(IF s.handling THEN Marked(s, s.gate) ELSE s, "unloaded")
                            IN  {done, Fail(done)}
      BY <2>2 DEF UnloadTool
    <3> DEFINE m == IF s.handling THEN Marked(s, s.gate) ELSE s
               done == At(m, "unloaded")
    <3>2. s \in Quiet(h, d) /\ m \in Quiet(h, d)  BY <1>1, <1>4
    <3>3. \A x \in Quiet(h, d) : x \in State  BY QuietStates
    <3>4. \A x \in Quiet(h, d) : Fail(x) \in Ready(h, d)
      BY <1>3, <3>3, FailState DEF Ready, Free
    <3>5. At(s, "between") \in Quiet(h, d) /\ At(s, "unloaded") \in Quiet(h, d)
      BY <1>5, <1>6, <3>2
    <3> HIDE DEF m
    <3>6. done \in Quiet(h, d) /\ done.pos = "unloaded"
      BY <1>5, <1>6, <3>2, <3>3, AtState
    <3>7. r \in {Fail(s), Fail(At(s, "between")), Fail(At(s, "unloaded")), done, Fail(done)}
          \/ (r = s /\ s.pos = "unloaded")
      BY <3>1 DEF m
    <3> HIDE DEF done
    <3> QED  BY <3>2, <3>4, <3>5, <3>6, <3>7 DEF Ready, Free
  <2> QED  BY <2>1, <2>2
<1>9. EjectFromGate(S) \in SUBSET Quiet(h, d)
  BY <1>1, <1>3, <1>4 DEF EjectFromGate
<1>10. RecoverFilamentPos(S) \in SUBSET Quiet(h, d)
  <2> SUFFICES ASSUME NEW r \in RecoverFilamentPos(S)  PROVE r \in Quiet(h, d)
    OBVIOUS
  <2>1. PICK s \in S, p \in Positions : r \in {At(s, p), At(Unmarked(s, s.gate), p)}
    BY DEF RecoverFilamentPos
  <2> QED  BY <1>4, <1>5, <2>1
<1>11. ContinueAfter(S) \in SUBSET Quiet(h, d)
  <2>1. ASSUME NEW s \in Quiet(h, d)
        PROVE  [s EXCEPT !.handling = s.handling /\ print # "printing"] \in Quiet(h, d)
    <3>1. (s.handling /\ print # "printing") \in BOOLEAN  OBVIOUS
    <3> QED  BY <3>1, ZenonT(30) DEF Quiet, State
  <2> QED  BY <1>1, <2>1 DEF ContinueAfter
<1> QED  BY <1>7, <1>8, <1>9, <1>10, <1>11

LEMMA ReadyEject ==
    ASSUME NEW h \in BOOLEAN, NEW d \in BOOLEAN, NEW S \in SUBSET Ready(h, d)
    PROVE  EjectFromGate(S) \in SUBSET Ready(h, d)
<1>1. S \in SUBSET State /\ S \in SUBSET Quiet(h, d)  BY QuietStates
<1>2. \A r \in EjectFromGate(S) : \E s \in S : r.pos = s.pos /\ (r.ok => s.ok)
  BY <1>1, EjectFromGateResult
<1>3. EjectFromGate(S) \in SUBSET Quiet(h, d)  BY <1>1, QuietFilament
<1> QED  BY <1>2, <1>3, ReadyFollows

-----------------------------------------------------------------------------
(* Loads, changes, and work on another gate.                               *)
LEMMA QuietSelectAndLoad ==
    ASSUME NEW h \in BOOLEAN, NEW d \in BOOLEAN, NEW S \in SUBSET Ready(h, d),
           NEW t \in Tools \cup {None}
    PROVE  SelectAndLoadTool(S, t) \in SUBSET Quiet(h, d)
<1> DEFINE selected == SelectTool(S, t)
           empty    == {s \in Good(selected) : LoadGate(s, t) \in s.empty}
           next(s)  == IF EndlessSpool /\ OnLoad
                       THEN NextEndlessSpoolGate(s, LoadGate(s, t)) ELSE {}
           failed   == {Fail(s) : s \in {x \in empty : next(x) = {}}}
           spooled  == UNION {UNION {SelectTool(RemapTool({s}, t, n), t) : n \in next(s)} : s \in empty}
<1>1. selected \in SUBSET Ready(h, d)  BY ReadySelectTool
<1>2. empty \in SUBSET Ready(h, d)  BY <1>1 DEF Good
<1>3. \A s \in empty : next(s) \subseteq Gates  BY DEF NextEndlessSpoolGate, Alternatives
<1> HIDE DEF empty, next
<1>4. failed \in SUBSET Quiet(h, d)
  <2>1. \A s \in Quiet(h, d) : Fail(s) \in Quiet(h, d)  BY QuietUpdates DEF Positions
  <2> QED  BY <1>2, <2>1, QuietStates
<1>5. spooled \in SUBSET Quiet(h, d)
  <2>1. ASSUME NEW s \in empty, NEW n \in next(s)
        PROVE  SelectTool(RemapTool({s}, t, n), t) \in SUBSET Quiet(h, d)
    <3>1. s \in Ready(h, d) /\ n \in Gates  BY <1>2, <1>3
    <3>2. {s} \in SUBSET Ready(h, d)  BY <3>1
    <3>3. RemapTool({s}, t, n) \in SUBSET Ready(h, d)  BY <3>1, <3>2, ReadyRemapTool
    <3>4. SelectTool(RemapTool({s}, t, n), t) \in SUBSET Ready(h, d)  BY <3>3, ReadySelectTool
    <3> QED  BY <3>4, QuietStates
  <2>2. ASSUME NEW m \in spooled  PROVE m \in Quiet(h, d)
    <3>1. PICK s \in empty : m \in UNION {SelectTool(RemapTool({s}, t, n), t) : n \in next(s)}
      OBVIOUS
    <3> QED  BY <2>1, <3>1
  <2> QED  BY <2>2
<1>6. (selected \ empty) \cup failed \cup spooled \in SUBSET Quiet(h, d)
  BY <1>1, <1>4, <1>5, QuietStates
<1>7. SelectAndLoadTool(S, t) = LoadSequence((selected \ empty) \cup failed \cup spooled)
  BY DEF SelectAndLoadTool, empty, next
<1> QED  BY <1>6, <1>7, QuietFilament

LEMMA QuietAttempt ==
    ASSUME NEW h \in BOOLEAN, NEW d \in BOOLEAN, NEW S \in SUBSET Quiet(h, d),
           NEW t \in Tools \cup {None}
    PROVE  Attempt(S, t) \in SUBSET Quiet(h, d)
<1>1. UnloadTool(S) \in SUBSET Ready(h, d)  BY QuietFilament
<1> QED  BY <1>1, QuietSelectAndLoad DEF Attempt

LEMMA QuietChangeTool ==
    ASSUME NEW h \in BOOLEAN, NEW d \in BOOLEAN, NEW S \in SUBSET Quiet(h, d),
           NEW t \in Tools \cup {None}
    PROVE  ChangeTool(S, t) \in SUBSET Quiet(h, d)
<1> SUFFICES ASSUME NEW r \in ChangeTool(S, t)  PROVE r \in Quiet(h, d)
  OBVIOUS
<1> DEFINE once(s)  == Attempt({s}, t)
           again(s) == {[x EXCEPT !.ok = TRUE] : x \in Bad(once(s))}
           tried(s) == (IF Retry
                        THEN Good(once(s)) \cup Attempt(RecoverFilamentPos(again(s)), t)
                        ELSE {})
                       \cup (IF Retry /\ print = "printing" THEN {} ELSE once(s))
<1>1. PICK s \in S : r \in IF s.ttg[Index(t)] = s.gate /\ s.pos = "loaded"
                           THEN IF t = s.tool THEN {s} ELSE SelectTool({s}, t)
                           ELSE ContinueAfter(tried(s))
  BY DEF ChangeTool
<1>2. {s} \in SUBSET Quiet(h, d) /\ s \in State  BY QuietStates
<1>3. CASE s.ttg[Index(t)] = s.gate /\ t = s.tool /\ r = s
  BY <1>2, <1>3
<1>4. CASE s.ttg[Index(t)] = s.gate /\ r \in SelectTool({s}, t)
  <2>1. t # None => s.ttg[t] = s.gate /\ s.gate \in Gates \cup {None}
    BY <1>2, <1>4 DEF Index, State
  <2>2. t # None => SelectGate({s}, s.ttg[t]) \in SUBSET Quiet(h, d)
    BY <1>2, <2>1, QuietSelectGate
  <2> QED  BY <1>2, <1>4, <2>2, QuietTool
<1>5. CASE r \in ContinueAfter(tried(s))
  <2>1. once(s) \in SUBSET Quiet(h, d)  BY <1>2, QuietAttempt
  <2>2. Bad(once(s)) \in SUBSET Quiet(h, d) /\ Good(once(s)) \in SUBSET Quiet(h, d)
    BY <2>1, QuietParts
  <2>3. again(s) \in SUBSET Quiet(h, d)
    <3>1. \A x \in Quiet(h, d) : [x EXCEPT !.ok = TRUE] \in Quiet(h, d)
      BY GateNumbers, QuietAssignments
    <3> QED  BY <2>2, <3>1
  <2> HIDE DEF once, again
  <2>4. RecoverFilamentPos(again(s)) \in SUBSET Quiet(h, d)  BY <2>3, QuietFilament
  <2>5. Attempt(RecoverFilamentPos(again(s)), t) \in SUBSET Quiet(h, d)  BY <2>4, QuietAttempt
  <2>6. tried(s) \in SUBSET Quiet(h, d)  BY <2>1, <2>2, <2>5
  <2> HIDE DEF tried
  <2> QED  BY <1>5, <2>6, QuietFilament
<1> QED  BY <1>1, <1>3, <1>4, <1>5

(* The way back moves the selector again, whatever the operation raised.   *)
LEMMA QuietGoBack ==
    ASSUME NEW h \in BOOLEAN, NEW d \in BOOLEAN, NEW S \in SUBSET Quiet(h, d), NEW p0,
           NEW g0 \in Gates \cup {None},
           \A s \in S : d \/ unit.crossload \/ s.pos = "unloaded" \/ s.gate = g0
    PROVE  GoBack(S, g0, p0) \in SUBSET Quiet(h, d)
<1> SUFFICES ASSUME NEW r \in GoBack(S, g0, p0)  PROVE r \in Quiet(h, d)
  OBVIOUS
<1>1. CASE r \in S
  BY <1>1
<1>2. CASE r \notin S
  <2> DEFINE back(s) == IF Reselects(p0)
                        THEN SelectGate({[s EXCEPT !.ok = TRUE]}, g0) ELSE EnsureTtgMatch({s})
  <2>1. PICK s \in {x \in S : x.gate # g0} : r \in {[b EXCEPT !.ok = @ /\ s.ok] : b \in back(s)}
    BY <1>2 DEF GoBack
  <2>2. PICK b \in back(s) : r = [b EXCEPT !.ok = @ /\ s.ok]  BY <2>1
  <2>3. s \in Quiet(h, d) /\ s \in State /\ (d \/ unit.crossload \/ s.pos = "unloaded")
    BY <2>1, QuietStates
  <2>4. b \in Quiet(h, d)
    <3> DEFINE x == [s EXCEPT !.ok = TRUE]
    <3>1. x \in Quiet(h, d) /\ x.pos = s.pos
      BY <2>3, GateNumbers, QuietAssignments, OutcomeState
    <3>2. {x} \in SUBSET Ready(h, d)  BY <2>3, <3>1 DEF Ready, Free
    <3> HIDE DEF x
    <3>3. SelectGate({x}, g0) \in SUBSET Quiet(h, d)  BY <3>2, ReadySelectGate, QuietStates
    <3>4. EnsureTtgMatch({s}) \in SUBSET Quiet(h, d)  BY <2>3, QuietMap
    <3> QED  BY <2>2, <3>3, <3>4 DEF x
  <2>5. b \in State /\ (b.ok /\ s.ok) \in BOOLEAN  BY <2>4, QuietStates
  <2> QED  BY <2>2, <2>4, <2>5, ZenonT(30) DEF Quiet, State
<1> QED  BY <1>1, <1>2

LEMMA QuietGateWork ==
    ASSUME NEW h \in BOOLEAN, NEW d \in BOOLEAN, NEW S \in SUBSET Quiet(h, d), NEW g \in Gates
    PROVE  /\ PreloadGate(S, g) \in SUBSET Quiet(h, d)
           /\ JogScan(S, g) \in SUBSET Quiet(h, d)
<1>1. \A s \in Quiet(h, d) : /\ Fail(s) \in Quiet(h, d)
                             /\ Marked(s, g) \in Quiet(h, d) /\ Unmarked(s, g) \in Quiet(h, d)
  BY QuietUpdates DEF Positions
<1>2. \A s \in Quiet(h, d), p \in Positions : At(s, p) \in Quiet(h, d)  BY QuietUpdates
<1>3. {"unloaded", "between"} \subseteq Positions  BY DEF Positions
<1>4. ASSUME NEW r \in PreloadGate(S, g)  PROVE r \in Quiet(h, d)
  <2>1. PICK s \in S : r \in { s, Fail(s), Fail(At(Marked(s, g), "unloaded")) }
        \cup UNION {{At(Unmarked(s, g), p), Fail(At(Unmarked(s, g), p))} : p \in {"unloaded", "between"}}
    BY DEF PreloadGate
  <2> QED  BY <1>1, <1>2, <1>3, <2>1
<1>5. ASSUME NEW r \in JogScan(S, g)  PROVE r \in Quiet(h, d)
  <2>1. PICK s \in S : \/ r \in {s, At(s, "unloaded"), Fail(s), Fail(Marked(s, g))}
                       \/ \E p \in {"unloaded", "between"} :
                            r \in {Fail(At(s, p)), Fail(At(Marked(s, g), p))}
    BY DEF JogScan, Failed
  <2> QED  BY <1>1, <1>2, <1>3, <2>1
<1> QED  BY <1>4, <1>5

LEMMA ReadyProbed ==
    ASSUME NEW h \in BOOLEAN, NEW d \in BOOLEAN, NEW S \in SUBSET Ready(h, d), NEW g \in Gates
    PROVE  Probed(S, g) \in SUBSET Ready(h, d)
<1> DEFINE N  == {[s EXCEPT !.tool = None] : s \in Good(S)}
           at == SelectGate(N, g)
<1>1. ASSUME NEW m \in N  PROVE m \in Ready(h, d)
  <2>1. PICK s \in Good(S) : m = [s EXCEPT !.tool = None]  OBVIOUS
  <2>2. s \in Ready(h, d) /\ s \in Quiet(h, d) /\ s \in State  BY QuietStates DEF Good
  <2>3. m \in Quiet(h, d) /\ m.pos = s.pos /\ m.ok = s.ok
    BY <2>1, <2>2, QuietAssignments, ToolState
  <2> QED  BY <2>2, <2>3 DEF Ready, Free
<1> HIDE DEF N
<1>2. at \in SUBSET Quiet(h, d)  BY <1>1, ReadySelectGate, QuietStates
<1> HIDE DEF at
<1>3. ASSUME NEW m \in at
      PROVE  /\ At(Unmarked(m, g), "unloaded") \in Quiet(h, d)
             /\ At(Unmarked(m, g), "unloaded").pos = "unloaded"
             /\ At(Marked(m, g), "unloaded") \in Quiet(h, d)
             /\ At(Marked(m, g), "unloaded").pos = "unloaded"
  <2>1. Unmarked(m, g) \in Quiet(h, d) /\ Marked(m, g) \in Quiet(h, d)
    BY <1>2, QuietUpdates DEF Positions
  <2>2. \A x \in Quiet(h, d) : At(x, "unloaded") \in Quiet(h, d) /\ At(x, "unloaded").pos = "unloaded"
    BY QuietUpdates, QuietStates, AtState DEF Positions
  <2> QED  BY <2>1, <2>2
<1>4. ASSUME NEW r \in Probed(S, g)  PROVE r \in Ready(h, d)
  <2>1. CASE r \in Bad(S)
    BY <2>1 DEF Bad
  <2>2. CASE r \in {At(Unmarked(s, g), "unloaded") : s \in Good(at)}
    <3>1. PICK m \in at : r = At(Unmarked(m, g), "unloaded")  BY <2>2 DEF Good
    <3> QED  BY <1>3, <3>1 DEF Ready, Free
  <2>3. CASE r \in {[At(Marked(s, g), "unloaded") EXCEPT !.ok = ~InPrint] : s \in at}
    <3>1. PICK m \in at : r = [At(Marked(m, g), "unloaded") EXCEPT !.ok = ~InPrint]  BY <2>3
    <3> DEFINE a == At(Marked(m, g), "unloaded")
    <3>2. a \in Quiet(h, d) /\ a \in State /\ a.pos = "unloaded"  BY <1>3, QuietStates
    <3> HIDE DEF a
    <3>3. r = [a EXCEPT !.ok = ~InPrint] /\ (~InPrint) \in BOOLEAN  BY <3>1 DEF InPrint, a
    <3>4. r \in Quiet(h, d) /\ r.pos = "unloaded"
      BY <3>2, <3>3, GateNumbers, QuietAssignments, OutcomeState
    <3> QED  BY <3>4 DEF Ready, Free
  <2> QED  BY <2>1, <2>2, <2>3 DEF Probed, N, at
<1> QED  BY <1>4

-----------------------------------------------------------------------------
(* How a command ends: with filament dragged only where d allows it, and   *)
(* with no runout being handled in a print that goes on, if none was.      *)
Ends(d) ==
    /\ mmu' \in State
    /\ mmu'.dragged => d
    /\ mmu'.handling /\ print' = "printing" => mmu.handling /\ print = "printing"

LEMMA BeginQuiet ==
    ASSUME TypeOK
    PROVE  /\ mmu.handling \in BOOLEAN
           /\ \A d \in BOOLEAN : Begin \in SUBSET Quiet(mmu.handling, d)
           /\ \A d \in BOOLEAN : d \/ unit.crossload \/ mmu.pos = "unloaded"
                                 => Begin \in SUBSET Ready(mmu.handling, d)
<1> DEFINE b == [mmu EXCEPT !.ok = TRUE, !.dragged = FALSE, !.seen = TRUE]
<1>1. /\ b \in State /\ b.handling = mmu.handling /\ b.dragged = FALSE /\ b.pos = mmu.pos
      /\ mmu.handling \in BOOLEAN
  BY ZenonT(30) DEF TypeOK, State
<1>2. Begin = {b}  BY DEF Begin
<1> HIDE DEF b
<1> QED  BY <1>1, <1>2 DEF Quiet, Ready, Free

LEMMA EndQuiet ==
    ASSUME TypeOK, NEW h \in BOOLEAN, NEW d \in BOOLEAN, NEW STATE S, S \in SUBSET Quiet(h, d), End(S)
    PROVE  /\ mmu' \in Quiet(h, d)
           /\ print' = "printing" => print = "printing" /\ mmu'.ok
<1>1. mmu' \in S \/ mmu' \in RecoverFilamentPos(Bad(S))  BY DEF End, Good
<1>2. Bad(S) \in SUBSET Quiet(h, d)  BY QuietParts
<1>3. RecoverFilamentPos(Bad(S)) \in SUBSET Quiet(h, d)  BY <1>2, QuietFilament
<1>4. print' = "printing" => print = "printing" /\ mmu'.ok  BY DEF End, TypeOK
<1> QED  BY <1>1, <1>3, <1>4

LEMMA EndsQuietly ==
    ASSUME TypeOK, NEW d \in BOOLEAN, NEW STATE S, S \in SUBSET Quiet(mmu.handling, d), End(S)
    PROVE  Ends(d)
<1>1. mmu.handling \in BOOLEAN  BY BeginQuiet
<1>2. CASE mmu.handling = TRUE
  BY <1>2, EndQuiet DEF Ends, Quiet
<1>3. CASE mmu.handling = FALSE
  BY <1>3, EndQuiet DEF Ends, Quiet
<1> QED  BY <1>1, <1>2, <1>3

LEMMA SelectingEnds ==
    ASSUME TypeOK, Selecting
    PROVE  Ends(did'.op = "homeIfNeeded")
<1> DEFINE Q(d) == Quiet(mmu.handling, d)
           R(d) == Ready(mmu.handling, d)
<1>1. mmu.handling \in BOOLEAN /\ TRUE \in BOOLEAN /\ FALSE \in BOOLEAN  BY BeginQuiet
<1>2. Begin \in SUBSET Q(FALSE) /\ Begin \in SUBSET R(TRUE)  BY BeginQuiet
<1>3. mmu.pos = "unloaded" => Begin \in SUBSET R(FALSE)  BY BeginQuiet
<1>4. mmu.tool \in Tools \cup {None}  BY DEF TypeOK, State
<1>5. \A d : Q(d) \subseteq State /\ R(d) \subseteq Q(d)  BY QuietStates
<1>6. \A op, a : Does(op, a) => did'.op = op  BY DEF Does
<1>7. \A d \in BOOLEAN : Ends(FALSE) => Ends(d)  BY DEF Ends
<1>8. ASSUME NEW t \in Tools, Change(t)  PROVE Ends(FALSE)
  <2>1. ChangeTool(Begin, t) \in SUBSET Q(FALSE)  BY <1>1, <1>2, QuietChangeTool
  <2> QED  BY <1>8, <2>1, EndsQuietly DEF Change
<1>9. ASSUME NEW g \in Gates, ChangeGate(g)  PROVE Ends(FALSE)
  <2> DEFINE mapped == {t \in Tools : mmu.ttg[t] = g}
             one    == UNION {ChangeTool({s}, s.tool) : s \in RemapTool(Begin, mmu.tool, g)}
             other  == UNION {ChangeTool(Begin, t) : t \in Lowest(mapped)}
  <2>1. one \in SUBSET Q(FALSE)
    <3>1. RemapTool(Begin, mmu.tool, g) \in SUBSET Q(FALSE)
      <4>1. \A t \in Tools \cup {None}, x \in Gates : RemapTool(Begin, t, x) \in SUBSET Q(FALSE)
        BY <1>1, <1>2, QuietMap
      <4> QED  BY <1>4, <4>1
    <3>2. ASSUME NEW s \in RemapTool(Begin, mmu.tool, g)
          PROVE  ChangeTool({s}, s.tool) \in SUBSET Q(FALSE)
      <4>1. s \in Q(FALSE) /\ s \in State
        <5>1. s \in Q(FALSE)  BY <3>1
        <5> QED  BY <1>5, <5>1
      <4>2. s.tool \in Tools \cup {None}  BY <4>1 DEF State
      <4>3. {s} \in SUBSET Q(FALSE)  BY <4>1
      <4> QED  BY <1>1, <4>2, <4>3, QuietChangeTool
    <3>3. ASSUME NEW m \in one  PROVE m \in Q(FALSE)
      <4>1. PICK s \in RemapTool(Begin, mmu.tool, g) : m \in ChangeTool({s}, s.tool)  OBVIOUS
      <4> QED  BY <3>2, <4>1
    <3> QED  BY <3>3
  <2>2. other \in SUBSET Q(FALSE)
    <3>1. Lowest(mapped) \subseteq Tools  BY LowestOf DEF Lowest
    <3>2. \A t \in Lowest(mapped) : ChangeTool(Begin, t) \in SUBSET Q(FALSE)
      BY <1>1, <1>2, <3>1, QuietChangeTool
    <3>3. ASSUME NEW m \in other  PROVE m \in Q(FALSE)
      <4>1. PICK t \in Lowest(mapped) : m \in ChangeTool(Begin, t)  OBVIOUS
      <4> QED  BY <3>2, <4>1
    <3> QED  BY <3>3
  <2>3. End(one) \/ End(other)  BY <1>9 DEF ChangeGate
  <2> HIDE DEF one, other
  <2> QED  BY <2>1, <2>2, <2>3, EndsQuietly
<1>10. ASSUME NEW t \in Tools \cup {None}, NEW g \in Gates \cup {None}, Select(t, g)
       PROVE  Ends(FALSE)
  <2> DEFINE sel == IF t # None THEN SelectTool(Begin, t) ELSE SelectGate(Begin, g)
  <2>1. Begin \in SUBSET R(FALSE)  BY <1>3, <1>10 DEF Select
  <2>2. SelectTool(Begin, t) \in SUBSET R(FALSE)  BY <1>1, <2>1, ReadySelectTool
  <2>3. SelectGate(Begin, g) \in SUBSET R(FALSE)  BY <1>1, <2>1, ReadySelectGate
  <2>4. sel \in SUBSET Q(FALSE)  BY <1>5, <2>2, <2>3
  <2> HIDE DEF sel
  <2>5. Good(sel) \in SUBSET Q(FALSE) /\ Bad(sel) \in SUBSET Q(FALSE)  BY <2>4, QuietParts
  <2>6. EnsureTtgMatch(Good(sel)) \in SUBSET Q(FALSE)  BY <1>1, <2>5, QuietMap
  <2>7. Matched(sel) \in SUBSET Q(FALSE)  BY <2>5, <2>6 DEF Matched
  <2>8. End(Matched(sel))  BY <1>10 DEF Select, sel
  <2> QED  BY <2>7, <2>8, EndsQuietly
<1>11. ASSUME NEW t \in Tools \cup {None}, Home(t, FALSE)  PROVE Ends(FALSE)
  <2>1. HomeUnit(Begin) \in SUBSET R(FALSE)
    <3>1. HomeUnit(Begin) \in SUBSET Q(FALSE)  BY <1>1, <1>2, QuietHomeUnit
    <3>2. unit.homing \/ unit.crossload  BY ToolSelectionAssumption DEF TypeOK
    <3>3. ASSUME NEW r \in HomeUnit(Begin)  PROVE Free(r, FALSE)
      <4>1. CASE r \in Bad(Begin)
        BY <4>1 DEF Bad, Good, Free
      <4>2. CASE r \notin Bad(Begin)
        <5>1. PICK s \in Good(Begin) :
                r \in IF ~unit.homing THEN {s}
                      ELSE IF s.pos # "unloaded" THEN {Fail(s)}
                      ELSE {[s EXCEPT !.gate = None, !.homed = TRUE], Adrift(s)}
          BY <4>2 DEF HomeUnit
        <5>2. s \in State  BY <1>2, <1>5 DEF Good
        <5>3. /\ ~Fail(s).ok /\ Adrift(s).pos = s.pos
              /\ [s EXCEPT !.gate = None, !.homed = TRUE].pos = s.pos
          BY <5>2, FailState, StrayState, HomedState
        <5> QED  BY <3>2, <5>1, <5>3 DEF Free
      <4> QED  BY <4>1, <4>2
    <3> QED  BY <3>1, <3>3 DEF Ready
  <2>2. SelectTool(HomeUnit(Begin), t) \in SUBSET Q(FALSE)  BY <1>1, <1>5, <2>1, ReadySelectTool
  <2> QED  BY <1>11, <2>2, EndsQuietly DEF Home
<1>12. ASSUME NEW t \in Tools \cup {None}, Home(t, TRUE)  PROVE Ends(TRUE)
  <2> DEFINE homed == IF mmu.homed \/ ~unit.homing THEN Begin ELSE HomeUnit(Begin)
  <2>1. homed \in SUBSET R(TRUE)  BY <1>1, <1>2, ReadyHomeUnit
  <2>2. End(SelectTool(homed, t))  BY <1>12 DEF Home
  <2> HIDE DEF homed
  <2>3. SelectTool(homed, t) \in SUBSET Q(TRUE)  BY <1>1, <1>5, <2>1, ReadySelectTool
  <2> QED  BY <2>2, <2>3, EndsQuietly
<1>13. ASSUME MotorsOff  PROVE Ends(FALSE)
  <2> DEFINE off == {[s EXCEPT !.homed = FALSE] : s \in Begin}
  <2>1. off \in SUBSET Q(FALSE)
    <3>1. \A s \in Q(FALSE) : [s EXCEPT !.homed = FALSE] \in Q(FALSE)
      BY <1>1, GateNumbers, QuietAssignments
    <3> QED  BY <1>2, <3>1
  <2> HIDE DEF off
  <2>2. End(off)  BY <1>13 DEF MotorsOff, off
  <2> QED  BY <2>1, <2>2, EndsQuietly
<1>14. (did'.op = "homeIfNeeded") \in BOOLEAN  OBVIOUS
<1>15. None \in Tools \cup {None} /\ None \in Gates \cup {None} /\ Gates = Tools  BY GateNumbers
<1>16. CASE \E t \in Tools \cup {None} : Home(t, TRUE) /\ Does("homeIfNeeded", t)
  BY <1>6, <1>12, <1>16
<1> HIDE DEF Q, R
<1> QED
  BY <1>7, <1>8, <1>9, <1>10, <1>11, <1>13, <1>14, <1>15, <1>16 DEF Selecting

-----------------------------------------------------------------------------
(* A runout: its handling is over when it ends well.                       *)
LEMMA ContinueAfterEnds ==
    ASSUME NEW S \in SUBSET State, print = "printing", NEW r \in ContinueAfter(S), r.ok
    PROVE  ~r.handling
<1>1. r \notin Bad(S)  BY DEF Bad, Good
<1>2. PICK s \in Good(S) : r = [s EXCEPT !.handling = s.handling /\ print # "printing"]
  BY <1>1 DEF ContinueAfter
<1>3. s \in State  BY DEF Good
<1>4. (s.handling /\ print # "printing") = FALSE  OBVIOUS
<1> QED  BY <1>2, <1>3, <1>4, ZenonT(30) DEF State

LEMMA ReplaceQuiet ==
    ASSUME TypeOK, NEW d \in BOOLEAN, d \/ unit.waste = None,
           NEW s \in Quiet(TRUE, d), s.tool \in Tools, NEW n \in Gates
    PROVE  /\ Replace(s, n) \in SUBSET Quiet(TRUE, d)
           /\ print = "printing" => \A r \in Replace(s, n) : r.ok => ~r.handling
<1> DEFINE away    == IF unit.waste # None THEN SelectGate({s}, unit.waste) ELSE {s}
           ejected == EjectFromGate(UnloadTool(away))
           free    == SelectGate(ejected, n)
           all     == Bad(free) \cup RemapTool(Good(free), s.tool, n)
           loaded  == SelectAndLoadTool(all, s.tool)
           R       == Ready(TRUE, d)
<1>1. unit.waste \in Gates \cup {None}
  BY ToolSelectionAssumption DEF TypeOK, UnitType
<1>2. R \subseteq Quiet(TRUE, d) /\ Quiet(TRUE, d) \subseteq State  BY QuietStates
<1>3. away \in SUBSET Quiet(TRUE, d)
  <2>1. CASE unit.waste = None
    BY <2>1
  <2>2. CASE unit.waste # None
    <3>1. s \in R  BY <2>2 DEF Ready, Free
    <3>2. {s} \in SUBSET R  BY <3>1
    <3>3. SelectGate({s}, unit.waste) \in SUBSET R  BY <1>1, <3>2, ReadySelectGate
    <3> QED  BY <1>2, <2>2, <3>3
  <2> QED  BY <2>1, <2>2
<1> HIDE DEF away
<1>4. UnloadTool(away) \in SUBSET R  BY <1>3, QuietFilament
<1>5. ejected \in SUBSET R  BY <1>4, ReadyEject
<1> HIDE DEF ejected
<1>6. free \in SUBSET R  BY <1>5, ReadySelectGate
<1> HIDE DEF free
<1>7. Good(free) \in SUBSET R /\ Bad(free) \in SUBSET R  BY <1>6, QuietParts
<1>8. s.tool \in Tools \cup {None}  OBVIOUS
<1>9. RemapTool(Good(free), s.tool, n) \in SUBSET R  BY <1>7, <1>8, ReadyRemapTool
<1>10. all \in SUBSET R  BY <1>7, <1>9
<1> HIDE DEF all
<1>11. loaded \in SUBSET Quiet(TRUE, d)  BY <1>8, <1>10, QuietSelectAndLoad
<1>12. Replace(s, n) = ContinueAfter(loaded)
  BY DEF Replace, loaded, all, free, ejected, away
<1> HIDE DEF loaded
<1>13. ContinueAfter(loaded) \in SUBSET Quiet(TRUE, d)  BY <1>11, QuietFilament
<1>14. loaded \in SUBSET State  BY <1>2, <1>11
<1> QED  BY <1>12, <1>13, <1>14, ContinueAfterEnds

LEMMA RunoutEnds ==
    ASSUME TypeOK, Runout
    PROVE  Ends(unit.waste # None)
<1> DEFINE d       == unit.waste # None
           noted   == {[s EXCEPT !.handling = TRUE] : s \in Begin}
           spent   == {Marked(s, s.gate) : s \in noted}
           next(s) == NextEndlessSpoolGate(s, Index(s.gate))
           stuck   == {Fail(s) : s \in {x \in spent : next(x) = {}}}
           renewed == UNION {UNION {Replace(s, n) : n \in next(s)} : s \in spent}
           Over(S) == S \in SUBSET Quiet(TRUE, d) /\ \A s \in S : s.ok => ~s.handling
<1>1. d \in BOOLEAN /\ (d \/ unit.waste = None) /\ print = "printing"  BY DEF Runout
<1> HIDE DEF d
<1>2. ASSUME NEW s \in noted  PROVE s \in Quiet(TRUE, d) /\ s.tool = mmu.tool
  <2>1. PICK b \in Begin : s = [b EXCEPT !.handling = TRUE]  OBVIOUS
  <2>2. b \in Quiet(mmu.handling, d)  BY <1>1, BeginQuiet
  <2>3. b.tool = mmu.tool  BY BeginResult DEF Keeps
  <2>4. s \in Quiet(TRUE, d) /\ s.tool = b.tool  BY <2>1, <2>2, ZenonT(30) DEF Quiet, State
  <2> QED  BY <2>3, <2>4
<1> HIDE DEF noted
<1>3. ASSUME NEW s \in spent  PROVE s \in Quiet(TRUE, d) /\ s.tool = mmu.tool
  <2>1. PICK b \in noted : s = Marked(b, b.gate)  OBVIOUS
  <2>2. b \in Quiet(TRUE, d) /\ b \in State  BY <1>2, QuietStates
  <2>3. b.gate \in Gates \cup {None}  BY <2>2 DEF State
  <2>4. s \in Quiet(TRUE, d)  BY <1>1, <2>1, <2>2, <2>3, QuietUpdates DEF Positions
  <2>5. s.tool = b.tool  BY <2>1, <2>2, <2>3, MarkedState
  <2> QED  BY <1>2, <2>4, <2>5
<1> HIDE DEF spent
<1>4. \A s \in Quiet(TRUE, d) : Fail(s) \in Quiet(TRUE, d) /\ ~Fail(s).ok
  <2>1. \A s \in Quiet(TRUE, d) : Fail(s) \in Quiet(TRUE, d)  BY <1>1, QuietUpdates DEF Positions
  <2>2. \A s \in Quiet(TRUE, d) : ~Fail(s).ok  BY QuietStates, FailState
  <2> QED  BY <2>1, <2>2
<1>5. Over(Failed(noted))  BY <1>2, <1>4 DEF Failed
<1>6. Over(stuck)  BY <1>3, <1>4
<1>7. ASSUME mmu.tool # None  PROVE Over(renewed)
  <2>1. mmu.tool \in Tools  BY <1>7 DEF TypeOK, State
  <2>2. ASSUME NEW m \in renewed  PROVE m \in Quiet(TRUE, d) /\ (m.ok => ~m.handling)
    <3>1. PICK s \in spent : m \in UNION {Replace(s, n) : n \in next(s)}  OBVIOUS
    <3>2. PICK n \in next(s) : m \in Replace(s, n)  BY <3>1
    <3>3. n \in Gates  BY <3>2 DEF NextEndlessSpoolGate, Alternatives
    <3>4. s \in Quiet(TRUE, d) /\ s.tool \in Tools  BY <1>3, <2>1
    <3> QED  BY <1>1, <3>2, <3>3, <3>4, ReplaceQuiet
  <2> QED  BY <2>2
<1>8. \E S : Over(S) /\ End(S)
  <2>1. CASE mmu.tool = None \/ ~EndlessSpool
    BY <1>5, <2>1 DEF Runout, noted
  <2>2. CASE ~(mmu.tool = None \/ ~EndlessSpool)
    <3>1. End(stuck \cup renewed)  BY <2>2 DEF Runout, spent, noted
    <3>2. Over(renewed)  BY <1>7, <2>2
    <3> HIDE DEF stuck, renewed
    <3>3. Over(stuck \cup renewed)  BY <1>6, <3>2
    <3> QED  BY <3>1, <3>3
  <2> QED  BY <2>1, <2>2
<1>9. PICK S : Over(S) /\ End(S)  BY <1>8
<1>10. mmu' \in Quiet(TRUE, d) /\ (print' = "printing" => print = "printing" /\ mmu'.ok)
  BY <1>1, <1>9, EndQuiet
<1>11. mmu'.ok => ~mmu'.handling
  <2>1. mmu' \in S \/ mmu' \in RecoverFilamentPos(Bad(S))  BY <1>9 DEF End, Good
  <2>2. Bad(S) \in SUBSET State /\ \A s \in Bad(S) : ~s.ok  BY <1>9, QuietStates DEF Bad, Good
  <2>3. \A r \in RecoverFilamentPos(Bad(S)) : ~r.ok  BY <2>2, RecoverFilamentPosResult
  <2> QED  BY <1>9, <2>1, <2>3
<1> QED  BY <1>10, <1>11 DEF Ends, Quiet, d

-----------------------------------------------------------------------------
(* Work on another gate.                                                   *)
LEMMA EjectGateEnds ==
    ASSUME TypeOK, NEW g \in Gates, NEW force \in BOOLEAN, EjectGate(g, force)
    PROVE  Ends(FALSE)
<1> DEFINE here    == g = mmu.gate
           entire  == mmu.pos = "unloaded" \/ force \/ ~here
           cleared == IF here /\ mmu.pos # "unloaded" THEN ContinueAfter(UnloadTool(Begin)) ELSE Begin
           reached == IF here THEN Good(cleared) ELSE SelectGate(Good(cleared), g)
           ejected == EjectFromGate(reached)
           back    == GoBack(ejected, mmu.gate, mmu.pos)
           Q       == Quiet(mmu.handling, FALSE)
           R       == Ready(mmu.handling, FALSE)
<1>1. mmu.handling \in BOOLEAN /\ FALSE \in BOOLEAN /\ Begin \in SUBSET Q  BY BeginQuiet
<1>2. Q \subseteq State /\ R \subseteq Q  BY QuietStates
<1>3. mmu.gate \in Gates \cup {None}  BY DEF TypeOK, State
<1>4. cleared \in SUBSET Q
  <2>1. UnloadTool(Begin) \in SUBSET R  BY <1>1, QuietFilament
  <2>2. UnloadTool(Begin) \in SUBSET Q  BY <1>2, <2>1
  <2>3. ContinueAfter(UnloadTool(Begin)) \in SUBSET Q  BY <1>1, <2>2, QuietFilament
  <2> QED  BY <1>1, <2>3
<1>5. Bad(cleared) \in SUBSET Q /\ Good(cleared) \in SUBSET Q  BY <1>4, QuietParts
<1>6. /\ reached \in SUBSET Q
      /\ ~here => \A s \in reached : unit.crossload \/ s.pos = "unloaded"
      /\ here => \A s \in reached : s.gate = mmu.gate
  <2>1. CASE here
    <3>1. UnloadTool(Begin) \in SUBSET State /\ Begin \in SUBSET State
      BY <1>1, <1>2, UnloadToolResult
    <3>2. \A b \in Begin : b.gate = mmu.gate  BY BeginResult DEF Keeps
    <3>3. \A s \in UnloadTool(Begin) : s.gate = mmu.gate
      BY <3>1, <3>2, UnloadToolResult DEF Keeps
    <3>4. \A s \in ContinueAfter(UnloadTool(Begin)) : s.gate = mmu.gate
      BY <3>1, <3>3, ContinueAfterResult DEF Keeps
    <3>5. \A s \in cleared : s.gate = mmu.gate  BY <3>2, <3>4
    <3> HIDE DEF cleared
    <3> QED  BY <1>5, <2>1, <3>5 DEF Good
  <2>2. CASE ~here
    <3>1. mmu.pos = "unloaded" \/ unit.crossload  BY <2>2 DEF EjectGate
    <3>2. Begin \in SUBSET R  BY <3>1, BeginQuiet
    <3>3. Good(Begin) \in SUBSET R  BY <3>2, QuietParts
    <3>4. SelectGate(Good(Begin), g) \in SUBSET R  BY <1>1, <3>3, ReadySelectGate
    <3>5. Good(Begin) \in SUBSET State /\ \A b \in Good(Begin) : b.pos = mmu.pos
      BY BeginResult DEF Good
    <3>6. \A s \in SelectGate(Good(Begin), g) : s.pos = mmu.pos
      BY <3>5, SelectGateResult DEF Moved, Same
    <3> QED  BY <1>2, <2>2, <3>1, <3>4, <3>6
  <2> QED  BY <2>1, <2>2
<1> HIDE DEF cleared, reached
<1>7. ejected \in SUBSET Q  BY <1>1, <1>6, QuietFilament
<1>8. \A s \in ejected : unit.crossload \/ s.pos = "unloaded" \/ s.gate = mmu.gate
  <2>1. reached \in SUBSET State  BY <1>2, <1>6
  <2>2. \A s \in ejected : \E m \in reached : s.pos = m.pos /\ s.gate = m.gate
    BY <2>1, EjectFromGateResult DEF Keeps
  <2> QED  BY <1>6, <2>2
<1> HIDE DEF ejected
<1>9. back \in SUBSET Q  BY <1>1, <1>3, <1>7, <1>8, QuietGoBack
<1> HIDE DEF back
<1>10. End(IF entire THEN Bad(cleared) \cup back ELSE cleared)
  BY DEF EjectGate, cleared, reached, ejected, back
<1>11. (IF entire THEN Bad(cleared) \cup back ELSE cleared) \in SUBSET Q  BY <1>4, <1>5, <1>9
<1> HIDE DEF entire
<1> QED  BY <1>10, <1>11, EndsQuietly

(* A preload or a scan may leave filament in the gate, and the selector    *)
(* goes back all the same.                                                 *)
LEMMA QuietSelected ==
    ASSUME TypeOK, NEW g \in Gates
    PROVE  /\ Good(Selected(g)) \in SUBSET Quiet(mmu.handling, TRUE)
           /\ Bad(Selected(g)) \in SUBSET Quiet(mmu.handling, TRUE)
<1>1. mmu.handling \in BOOLEAN /\ TRUE \in BOOLEAN  BY BeginQuiet
<1>2. Begin \in SUBSET Ready(mmu.handling, TRUE)  BY BeginQuiet
<1>3. SelectGate(Begin, g) \in SUBSET Ready(mmu.handling, TRUE)  BY <1>1, <1>2, ReadySelectGate
<1>4. Selected(g) \in SUBSET Quiet(mmu.handling, TRUE)  BY <1>2, <1>3, QuietStates DEF Selected
<1> QED  BY <1>4, QuietParts

LEMMA GateWorkEnds ==
    ASSUME TypeOK, NEW g \in Gates, Preload(g) \/ Scan(g)
    PROVE  Ends(TRUE)
<1> DEFINE Q         == Quiet(mmu.handling, TRUE)
           preloaded == PreloadGate(Good(Selected(g)), g)
           parked    == GoBack(preloaded, mmu.gate, mmu.pos)
           handed    == IF g = mmu.gate THEN parked ELSE Restored(parked)
           scanned   == GoBack(JogScan(Good(Selected(g)), g), mmu.gate, mmu.pos)
<1>1. mmu.handling \in BOOLEAN /\ TRUE \in BOOLEAN  BY BeginQuiet
<1>2. mmu.gate \in Gates \cup {None} /\ mmu.pos \in Positions  BY DEF TypeOK, State
<1>3. Good(Selected(g)) \in SUBSET Q /\ Bad(Selected(g)) \in SUBSET Q  BY QuietSelected
<1>4. preloaded \in SUBSET Q /\ JogScan(Good(Selected(g)), g) \in SUBSET Q
  BY <1>1, <1>3, QuietGateWork
<1>5. scanned \in SUBSET Q  BY <1>1, <1>2, <1>4, QuietGoBack
<1> HIDE DEF preloaded
<1>6. parked \in SUBSET Q  BY <1>1, <1>2, <1>4, QuietGoBack
<1> HIDE DEF parked, scanned
<1>7. handed \in SUBSET Q
  <2>1. \A s \in Q : At(s, mmu.pos) \in Q
    BY <1>1, <1>2, GateNumbers, QuietUpdates
  <2> QED  BY <1>6, <2>1 DEF Restored
<1>8. End(Bad(Selected(g)) \cup handed) \/ End(Bad(Selected(g)) \cup scanned)
  BY DEF Preload, Scan, preloaded, parked, scanned
<1> HIDE DEF handed
<1>9. Bad(Selected(g)) \cup handed \in SUBSET Q /\ Bad(Selected(g)) \cup scanned \in SUBSET Q
  BY <1>3, <1>5, <1>7
<1> QED  BY <1>8, <1>9, EndsQuietly

LEMMA CheckGateEnds ==
    ASSUME TypeOK, NEW g \in Gates, CheckGate(g)
    PROVE  Ends(FALSE)
<1> DEFINE cleared == IF mmu.pos = "unloaded" THEN Begin ELSE ContinueAfter(UnloadTool(Begin))
           reload  == print # "printing" /\ mmu.pos = "loaded" /\ mmu.tool # None
           probed  == Probed(cleared, g)
           loaded  == SelectAndLoadTool(probed, mmu.tool)
           present == {Unmarked(s, g) : s \in Begin}
           checked == IF reload THEN ContinueAfter(loaded) ELSE SelectTool(probed, mmu.tool)
           Q       == Quiet(mmu.handling, FALSE)
           R       == Ready(mmu.handling, FALSE)
<1>1. mmu.handling \in BOOLEAN /\ FALSE \in BOOLEAN /\ Begin \in SUBSET Q  BY BeginQuiet
<1>2. Q \subseteq State /\ R \subseteq Q  BY QuietStates
<1>3. mmu.tool \in Tools \cup {None}  BY DEF TypeOK, State
<1>4. cleared \in SUBSET R
  <2>1. CASE mmu.pos = "unloaded"
    BY <2>1, BeginQuiet
  <2>2. CASE mmu.pos # "unloaded"
    <3>1. UnloadTool(Begin) \in SUBSET R  BY <1>1, QuietFilament
    <3>2. UnloadTool(Begin) \in SUBSET Q /\ UnloadTool(Begin) \in SUBSET State  BY <1>2, <3>1
    <3>3. ContinueAfter(UnloadTool(Begin)) \in SUBSET Q  BY <1>1, <3>2, QuietFilament
    <3>4. \A r \in ContinueAfter(UnloadTool(Begin)) :
            \E s \in UnloadTool(Begin) : r.pos = s.pos /\ (r.ok => s.ok)
      BY <3>2, ContinueAfterResult
    <3>5. ContinueAfter(UnloadTool(Begin)) \in SUBSET R  BY <3>1, <3>3, <3>4, ReadyFollows
    <3> QED  BY <2>2, <3>5
  <2> QED  BY <2>1, <2>2
<1> HIDE DEF cleared
<1>5. probed \in SUBSET R  BY <1>1, <1>4, ReadyProbed
<1> HIDE DEF probed
<1>6. loaded \in SUBSET Q  BY <1>1, <1>3, <1>5, QuietSelectAndLoad
<1> HIDE DEF loaded
<1>7. ContinueAfter(loaded) \in SUBSET Q  BY <1>1, <1>6, QuietFilament
<1>8. SelectTool(probed, mmu.tool) \in SUBSET R  BY <1>1, <1>3, <1>5, ReadySelectTool
<1>9. checked \in SUBSET Q  BY <1>2, <1>7, <1>8
<1>10. present \in SUBSET Q
  <2>1. \A s \in Q : Unmarked(s, g) \in Q  BY <1>1, QuietUpdates DEF Positions
  <2> QED  BY <1>1, <2>1
<1>11. End(present) \/ End(checked)  BY DEF CheckGate, probed, loaded, cleared
<1> HIDE DEF present, checked
<1> QED  BY <1>9, <1>10, <1>11, EndsQuietly

(* What may move the selector from a loaded gate.                          *)
Moves == did'.op \in {"preload", "scan"} \/ (did'.op = "runout" /\ unit.waste # None)

LEMMA MovingEnds ==
    ASSUME TypeOK, Moving
    PROVE  Ends(Moves)
<1> DEFINE Q == Quiet(mmu.handling, FALSE)
<1>1. mmu.handling \in BOOLEAN /\ FALSE \in BOOLEAN /\ Begin \in SUBSET Q  BY BeginQuiet
<1>2. mmu.tool \in Tools \cup {None}  BY DEF TypeOK, State
<1>3. \A op, a : Does(op, a) => did'.op = op  BY DEF Does
<1>4. Ends(FALSE) => Ends(Moves)  BY DEF Ends
<1>5. ASSUME Load  PROVE Ends(FALSE)
  <2>1. Begin \in SUBSET Ready(mmu.handling, FALSE)  BY <1>5, BeginQuiet DEF Load
  <2>2. SelectAndLoadTool(Begin, mmu.tool) \in SUBSET Q  BY <1>1, <1>2, <2>1, QuietSelectAndLoad
  <2>3. ContinueAfter(SelectAndLoadTool(Begin, mmu.tool)) \in SUBSET Q
    BY <1>1, <2>2, QuietFilament
  <2> QED  BY <1>5, <2>3, EndsQuietly DEF Load
<1>6. ASSUME Unload  PROVE Ends(FALSE)
  <2>1. UnloadTool(Begin) \in SUBSET Ready(mmu.handling, FALSE)  BY <1>1, QuietFilament
  <2>2. UnloadTool(Begin) \in SUBSET Q  BY <2>1, QuietStates
  <2>3. ContinueAfter(UnloadTool(Begin)) \in SUBSET Q  BY <1>1, <2>2, QuietFilament
  <2> QED  BY <1>6, <2>3, EndsQuietly DEF Unload
<1>7. ASSUME Clog  PROVE Ends(FALSE)
  <2> DEFINE S == {[Fail(s) EXCEPT !.handling = FALSE] : s \in Begin}
  <2>1. ASSUME NEW r \in S  PROVE r \in Q
    <3>1. PICK b \in Begin : r = [Fail(b) EXCEPT !.handling = FALSE]  OBVIOUS
    <3> DEFINE f == Fail(b)
    <3>2. f \in Q  BY <1>1, QuietUpdates DEF Positions
    <3> HIDE DEF f
    <3>3. r = [f EXCEPT !.handling = FALSE]  BY <3>1 DEF f
    <3> QED  BY <3>2, <3>3, ZenonT(30) DEF Quiet, State
  <2>2. End(S)  BY <1>7 DEF Clog
  <2> HIDE DEF S
  <2> QED  BY <2>1, <2>2, EndsQuietly
<1>8. CASE Load \/ Unload \/ Clog
  BY <1>4, <1>5, <1>6, <1>7, <1>8
<1>9. CASE Runout /\ Does("runout", None)
  <2>1. (unit.waste # None) => Moves  BY <1>3, <1>9 DEF Moves
  <2> QED  BY <1>9, <2>1, RunoutEnds DEF Ends
<1>10. CASE \E g \in Gates, force \in BOOLEAN : EjectGate(g, force)
  BY <1>4, <1>10, EjectGateEnds
<1>11. CASE \E g \in Gates : CheckGate(g)
  BY <1>4, <1>11, CheckGateEnds
<1>12. CASE \E g \in Gates : \/ Preload(g) /\ Does("preload", g)
                             \/ Scan(g) /\ Does("scan", g)
  <2>1. Moves  BY <1>3, <1>12 DEF Moves
  <2>2. Ends(TRUE)  BY <1>12, GateWorkEnds
  <2> QED  BY <2>1, <2>2 DEF Ends
<1> QED  BY <1>8, <1>9, <1>10, <1>11, <1>12 DEF Moving

LEMMA MappingEnds ==
    ASSUME TypeOK, Mapping
    PROVE  Ends(FALSE)
<1> DEFINE Q == Quiet(mmu.handling, FALSE)
<1>1. mmu.handling \in BOOLEAN /\ FALSE \in BOOLEAN /\ Begin \in SUBSET Q  BY BeginQuiet
<1>2. Q \subseteq State  BY QuietStates
<1>3. Tools = Gates /\ None \in Tools \cup {None}  BY GateNumbers
<1>4. \A s \in Q, g \in Gates : Marked(s, g) \in Q /\ Unmarked(s, g) \in Q
  BY <1>1, QuietUpdates DEF Positions
<1>5. ASSUME NEW S \in SUBSET Q, NEW l  PROVE Recovered(S, l) \in SUBSET Q
  <2>1. RecoverFilamentPos(S) \in SUBSET Q  BY <1>1, QuietFilament
  <2>2. \A s \in Q, p \in Positions : At(s, p) \in Q  BY <1>1, <1>3, QuietUpdates
  <2>3. (IF l = 1 THEN "loaded" ELSE "unloaded") \in Positions  BY DEF Positions
  <2> QED  BY <2>1, <2>2, <2>3 DEF Recovered
<1>6. ASSUME NEW S \in SUBSET Q
      PROVE  /\ EnsureTtgMatch(S) \in SUBSET Q
             /\ \A t \in Tools \cup {None}, g \in Gates : RemapTool(S, t, g) \in SUBSET Q
  BY <1>1, QuietMap
<1>7. ASSUME NEW t \in Tools, NEW g \in Gates, NEW l, RecoverTool(t, g, l)  PROVE Ends(FALSE)
  <2> DEFINE N      == {[s EXCEPT !.tool = t, !.gate = g] : s \in Begin}
             named  == RemapTool(N, t, g)
             status == {IF l = 0 THEN Marked(s, g) ELSE Unmarked(s, g) : s \in named}
  <2>1. ASSUME NEW m \in N  PROVE m \in Q
    <3>1. PICK b \in Begin : m = [b EXCEPT !.tool = t, !.gate = g]  OBVIOUS
    <3>2. b \in Q  BY <1>1
    <3> QED  BY <3>1, <3>2, ZenonT(30) DEF Quiet, State
  <2>2. N \in SUBSET Q  BY <2>1
  <2> HIDE DEF N
  <2>3. named \in SUBSET Q  BY <1>6, <2>2
  <2> HIDE DEF named
  <2>4. status \in SUBSET Q  BY <1>4, <2>3
  <2>5. End(Recovered(status, l))  BY <1>7 DEF RecoverTool, named, N
  <2> HIDE DEF status
  <2> QED  BY <1>5, <2>4, <2>5, EndsQuietly
<1>8. ASSUME NEW g \in Gates, NEW l, RecoverGate(g, l)  PROVE Ends(FALSE)
  <2> DEFINE N == {[s EXCEPT !.gate = g] : s \in Begin}
  <2>1. \A s \in Q : [s EXCEPT !.gate = g] \in Q  BY <1>1, QuietAssignments
  <2>2. N \in SUBSET Q  BY <1>1, <2>1
  <2>3. End(Recovered(EnsureTtgMatch(N), l))  BY <1>8 DEF RecoverGate
  <2> HIDE DEF N
  <2>4. EnsureTtgMatch(N) \in SUBSET Q  BY <1>6, <2>2
  <2> QED  BY <1>5, <2>3, <2>4, EndsQuietly
<1>9. ASSUME NEW l, RecoverPos(l)  PROVE Ends(FALSE)
  BY <1>1, <1>5, <1>9, EndsQuietly DEF RecoverPos
<1>10. ASSUME NEW t \in Tools, NEW g \in Gates, TtgMap(t, g)  PROVE Ends(FALSE)
  <2> DEFINE S == UNION {{Unmarked(s, g), Marked(s, g)} : s \in RemapTool(Begin, t, g)}
  <2>1. RemapTool(Begin, t, g) \in SUBSET Q  BY <1>1, <1>6
  <2>2. ASSUME NEW r \in S  PROVE r \in Q
    <3>1. PICK m \in RemapTool(Begin, t, g) : r = Unmarked(m, g) \/ r = Marked(m, g)  OBVIOUS
    <3> QED  BY <1>4, <2>1, <3>1
  <2>3. End(S)  BY <1>10 DEF TtgMap
  <2> HIDE DEF S
  <2> QED  BY <2>2, <2>3, EndsQuietly
<1>11. ASSUME ResetTtgMap \/ \E m \in BulkMaps : BulkMap(m)  PROVE Ends(FALSE)
  <2> DEFINE N(m) == {[s EXCEPT !.ttg = m] : s \in Begin}
             id   == [t \in Tools |-> t]
  <2>1. ASSUME NEW m \in [Tools -> Gates]  PROVE N(m) \in SUBSET Q
    <3>1. ASSUME NEW r \in N(m)  PROVE r \in Q
      <4>1. PICK b \in Begin : r = [b EXCEPT !.ttg = m]  OBVIOUS
      <4>2. b \in Q  BY <1>1
      <4> QED  BY <4>1, <4>2, ZenonT(30) DEF Quiet, State
    <3> QED  BY <3>1
  <2>2. id \in [Tools -> Gates] /\ BulkMaps \subseteq [Tools -> Gates]
    BY <1>3, ToolSelectionAssumption
  <2>3. End(EnsureTtgMatch(N(id))) \/ \E m \in BulkMaps : End(N(m))
    BY <1>11 DEF ResetTtgMap, BulkMap
  <2> HIDE DEF N, id
  <2>4. N(id) \in SUBSET Q /\ \A m \in BulkMaps : N(m) \in SUBSET Q  BY <2>1, <2>2
  <2>5. EnsureTtgMatch(N(id)) \in SUBSET Q  BY <1>6, <2>4
  <2> QED  BY <2>3, <2>4, <2>5, EndsQuietly
<1>12. ASSUME NEW g \in Gates, GateStatus(g)  PROVE Ends(FALSE)
  <2> DEFINE S == {IF g \in s.empty THEN Unmarked(s, g) ELSE Marked(s, g) : s \in Begin}
  <2>1. S \in SUBSET Q  BY <1>1, <1>4
  <2>2. End(S)  BY <1>12 DEF GateStatus
  <2> HIDE DEF S
  <2> QED  BY <2>1, <2>2, EndsQuietly
<1> QED  BY <1>7, <1>8, <1>9, <1>10, <1>11, <1>12 DEF Mapping

LEMMA RestartEnds ==
    ASSUME TypeOK, Restart
    PROVE  Ends(FALSE)
<1> DEFINE Q == Quiet(mmu.handling, FALSE)
           checked  == {[s EXCEPT !.ok = TRUE] : s \in AutoHomed(Verified(Persisted))}
           selected == UNION {IF s.gate = None THEN {s} ELSE MoveSelector({s}, s.gate) : s \in checked}
           ready    == {[s EXCEPT !.ok = TRUE] : s \in selected}
<1>1. mmu.handling \in BOOLEAN /\ FALSE \in BOOLEAN /\ Begin \in SUBSET Q  BY BeginQuiet
<1>2. Q \subseteq State /\ mmu \in State  BY QuietStates DEF TypeOK
<1>3. 0 \in Gates /\ None \in Gates \cup {None} /\ None \in Tools \cup {None}  BY GateNumbers
<1>4. \A s \in Q, g \in Gates \cup {None} : [s EXCEPT !.gate = g] \in Q  BY <1>1, QuietAssignments
<1>5. \A s \in Q : [s EXCEPT !.ok = TRUE] \in Q  BY <1>1, <1>3, QuietAssignments
<1>6. ASSUME NEW S \in SUBSET Q  PROVE EnsureTtgMatch(S) \in SUBSET Q
  BY <1>1, QuietMap
<1>7. Persisted \in SUBSET Q
  <2> DEFINE gate    == IF mmu.gate = None /\ unit.multigear THEN 0 ELSE mmu.gate
             dropped == {[s EXCEPT !.gate = None, !.tool = None] : s \in Handled}
             kept    == {[s EXCEPT !.gate = gate] : s \in Handled}
  <2>1. gate \in Gates \cup {None}  BY <1>2, <1>3 DEF State
  <2>2. Persisted = EnsureTtgMatch(dropped) \/ Persisted = EnsureTtgMatch(kept)
    BY DEF Persisted
  <2> HIDE DEF gate
  <2>3. ASSUME NEW s \in Handled  PROVE s \in Q
    <3>1. PICK b \in Begin : s = [b EXCEPT !.handling = FALSE]  BY DEF Handled
    <3>2. b \in Q  BY <1>1
    <3> QED  BY <3>1, <3>2, ZenonT(30) DEF Quiet, State
  <2>4. ASSUME NEW m \in dropped  PROVE m \in Q
    <3>1. PICK s \in Handled : m = [s EXCEPT !.gate = None, !.tool = None]  OBVIOUS
    <3>2. s \in Q  BY <2>3
    <3> QED  BY <3>1, <3>2, ZenonT(30) DEF Quiet, State
  <2>5. kept \in SUBSET Q  BY <1>4, <2>1, <2>3
  <2>6. dropped \in SUBSET Q  BY <2>4
  <2> HIDE DEF dropped, kept
  <2> QED  BY <1>6, <2>2, <2>5, <2>6
<1>8. Verified(Persisted) \in SUBSET Q
  <2> DEFINE named == IF unit.shared THEN {} ELSE Gates
             options(s, p) == {[At(s, p) EXCEPT !.gate = g] : g \in {s.gate} \cup named}
  <2>1. Verified(Persisted) = UNION {options(s, p) : s \in Persisted, p \in Positions}
    BY DEF Verified
  <2>2. named \subseteq Gates  OBVIOUS
  <2> HIDE DEF named
  <2>3. ASSUME NEW s \in Persisted, NEW p \in Positions, NEW r \in options(s, p)
        PROVE  r \in Q
    <3>1. PICK g \in {s.gate} \cup named : r = [At(s, p) EXCEPT !.gate = g]  OBVIOUS
    <3>2. s \in Q /\ s \in State  BY <1>2, <1>7
    <3>3. At(s, p) \in Q  BY <1>1, <1>3, <3>2, QuietUpdates
    <3>4. g \in Gates \cup {None}  BY <2>2, <3>2 DEF State
    <3> QED  BY <1>4, <3>1, <3>3, <3>4
  <2> HIDE DEF options
  <2>4. ASSUME NEW r \in Verified(Persisted)  PROVE r \in Q
    <3>1. PICK s \in Persisted, p \in Positions : r \in options(s, p)  BY <2>1
    <3> QED  BY <2>3, <3>1
  <2> QED  BY <2>4
<1>9. AutoHomed(Verified(Persisted)) \in SUBSET Q
  <2>1. ASSUME NEW r \in AutoHomed(Verified(Persisted)), r \notin Verified(Persisted)
        PROVE  r \in Q
    <3>1. PICK s \in Verified(Persisted) :
            /\ s.pos = "unloaded"
            /\ r \in SelectGate(HomeUnit({s}), IF s.gate = None THEN 0 ELSE s.gate)
      BY <2>1 DEF AutoHomed
    <3>2. s \in Q /\ s \in State  BY <1>2, <1>8
    <3>3. (IF s.gate = None THEN 0 ELSE s.gate) \in Gates \cup {None}  BY <1>3, <3>2 DEF State
    <3>4. s \in Ready(mmu.handling, FALSE)  BY <3>1, <3>2 DEF Ready, Free
    <3>5. {s} \in SUBSET Ready(mmu.handling, FALSE)  BY <3>4
    <3>6. HomeUnit({s}) \in SUBSET Ready(mmu.handling, FALSE)  BY <1>1, <3>5, ReadyHomeUnit
    <3>7. r \in Ready(mmu.handling, FALSE)  BY <1>1, <3>1, <3>3, <3>6, ReadySelectGate
    <3> QED  BY <3>7, QuietStates
  <2> QED  BY <1>8, <2>1
<1>10. checked \in SUBSET Q  BY <1>5, <1>9
<1> HIDE DEF checked
<1>11. ASSUME NEW r \in selected  PROVE r \in Q
  <2>1. PICK s \in checked : r \in IF s.gate = None THEN {s} ELSE MoveSelector({s}, s.gate)
    OBVIOUS
  <2>2. s \in Q /\ s.gate \in Gates \cup {None}
    <3>1. s \in Q /\ s \in State  BY <1>2, <1>10
    <3> QED  BY <3>1 DEF State
  <2>3. {s} \in SUBSET Q /\ Spares({s}, s.gate, FALSE)  BY <2>2 DEF Spares, Dragging
  <2>4. MoveSelector({s}, s.gate) \in SUBSET Q  BY <1>1, <2>2, <2>3, QuietMoveSelector
  <2> QED  BY <2>1, <2>2, <2>4
<1>12. selected \in SUBSET Q  BY <1>11
<1> HIDE DEF selected
<1>13. ready \in SUBSET Q  BY <1>5, <1>12
<1>14. mmu' \in EnsureTtgMatch(ready) /\ print' = "standby"
  BY DEF Restart, checked, selected
<1> HIDE DEF ready
<1> QED  BY <1>2, <1>6, <1>13, <1>14 DEF Quiet, Ends

LEMMA JobEnds ==
    ASSUME TypeOK, Job
    PROVE  Ends(FALSE)
<1>1. \A b \in Begin : b \in State /\ ~b.dragged  BY BeginQuiet DEF Quiet
<1>2. \A r \in Handled : r \in State /\ ~r.dragged /\ ~r.handling
  <2>1. ASSUME NEW r \in Handled  PROVE r \in State /\ ~r.dragged /\ ~r.handling
    <3>1. PICK b \in Begin : r = [b EXCEPT !.handling = FALSE]  BY DEF Handled
    <3> QED  BY <1>1, <3>1, ZenonT(30) DEF State
  <2> QED  BY <2>1
<1>3. CASE PrintStart \/ Resume
  BY <1>2, <1>3 DEF PrintStart, Resume, PrintGoes, Ends
<1>4. CASE Pause \/ PrintEnd
  BY <1>1, <1>4 DEF Pause, PrintEnd, PrintGoes, Ends
<1> QED  BY <1>3, <1>4, RestartEnds DEF Job

LEMMA StepEnds ==
    ASSUME TypeOK, Next
    PROVE  Ends(did'.op = "homeIfNeeded" \/ Moves)
BY SelectingEnds, MovingEnds, MappingEnds, JobEnds DEF Next, Ends

(* A print that goes on handles no runout: it has been resumed after, or   *)
(* the runout ended in _continue_after; one that failed has paused it.     *)
THEOREM RunoutAlwaysHandled == Spec => []RunoutHandled
<1>1. Init => RunoutHandled  BY DEF Init, RunoutHandled
<1>2. TypeOK /\ RunoutHandled /\ [Next]_vars => RunoutHandled'
  <2>1. ASSUME TypeOK, RunoutHandled, Next  PROVE RunoutHandled'
    BY <2>1, StepEnds DEF RunoutHandled, Ends
  <2>2. ASSUME RunoutHandled, UNCHANGED vars  PROVE RunoutHandled'
    BY <2>2 DEF RunoutHandled, vars
  <2> QED  BY <2>1, <2>2
<1> QED  BY <1>1, <1>2, TypeCorrect, PTL DEF Spec

-----------------------------------------------------------------------------
(* The load of one gate survives work on another.                          *)

(* A way back that raises nothing is back on the gate, with the tool.      *)
LEMMA GoBackReturns ==
    ASSUME TypeOK, NEW S, \A s \in S : Away(s), NEW p0, Reselects(p0),
           NEW r \in GoBack(S, mmu.gate, p0), r.ok
    PROVE  /\ r.gate = mmu.gate /\ r.tool = mmu.tool
           /\ \E s \in S : r.pos = s.pos
<1>1. mmu.gate \in Gates \cup {None}  BY DEF TypeOK, State
<1>2. CASE r \in S /\ r.gate = mmu.gate
  BY <1>2 DEF Away
<1>3. CASE ~(r \in S /\ r.gate = mmu.gate)
  <2>1. PICK s \in {x \in S : x.gate # mmu.gate} :
          r \in {[b EXCEPT !.ok = @ /\ s.ok] : b \in SelectGate({[s EXCEPT !.ok = TRUE]}, mmu.gate)}
    BY <1>3 DEF GoBack
  <2> DEFINE x == [s EXCEPT !.ok = TRUE]
  <2>2. PICK b \in SelectGate({x}, mmu.gate) : r = [b EXCEPT !.ok = b.ok /\ s.ok]  BY <2>1
  <2>3. s \in S /\ s \in State /\ s.tool = mmu.tool  BY <2>1 DEF Away
  <2>4. x \in State /\ Keeps(x, s) /\ x.pos = s.pos  BY <2>3, OutcomeState
  <2> HIDE DEF x
  <2>5. b \in State /\ Moved(b, x, mmu.gate)  BY <1>1, <2>2, <2>4, SelectGateResult
  <2>6. (b.ok /\ s.ok) \in BOOLEAN  OBVIOUS
  <2>7. Keeps(r, b) /\ r.pos = b.pos /\ r.ok = (b.ok /\ s.ok)
    BY <2>2, <2>5, <2>6, OutcomeState
  <2>8. Arrives(b, x, mmu.gate) /\ Same(b, x)
    BY <2>5, <2>7 DEF Moved, Strays, Refused
  <2> QED  BY <2>3, <2>4, <2>7, <2>8 DEF Keeps, Same, Arrives
<1> QED  BY <1>2, <1>3

LEMMA EjectSpares ==
    ASSUME TypeOK, NEW g \in Gates, NEW force, EjectGate(g, force),
           g # mmu.gate, mmu.pos = "loaded", mmu'.ok
    PROVE  mmu'.tool = mmu.tool /\ mmu'.gate = mmu.gate /\ mmu'.pos = mmu.pos
<1> DEFINE reached == SelectGate(Good(Begin), g)
           ejected == EjectFromGate(reached)
           back    == GoBack(ejected, mmu.gate, mmu.pos)
           all     == Bad(Begin) \cup back
<1>1. \A b \in Begin : b \in State /\ b.ok /\ Away(b) /\ b.gate = mmu.gate /\ b.pos = mmu.pos
  BY BeginResult DEF Keeps
<1>2. Good(Begin) = Begin /\ Bad(Begin) = {}  BY <1>1 DEF Good, Bad
<1>3. ASSUME NEW m \in reached  PROVE m \in State /\ Away(m) /\ m.pos = mmu.pos
  <2>1. m \in State /\ Away(m)  BY <1>1, <1>2, SelectedAway
  <2>2. Begin \in SUBSET State  BY <1>1
  <2>3. PICK b \in Begin : Moved(m, b, g)  BY <1>2, <2>2, SelectGateResult
  <2> QED  BY <1>1, <2>1, <2>3 DEF Moved, Same
<1>4. reached \in SUBSET State  BY <1>3
<1> HIDE DEF reached
<1>5. \A m \in ejected : m \in State /\ Away(m) /\ m.pos = mmu.pos
  BY <1>3, <1>4, EjectFromGateResult, KeepsAway
<1> HIDE DEF ejected
<1>6. Reselects(mmu.pos)  BY DEF Reselects
<1>7. \A r \in back : r.ok => r.gate = mmu.gate /\ r.tool = mmu.tool /\ r.pos = mmu.pos
  BY <1>5, <1>6, GoBackReturns
<1>8. back \in SUBSET State  BY <1>5, GoBackResult
<1>9. End(all)  BY DEF EjectGate, back, ejected, reached
<1> HIDE DEF back
<1>10. all = back  BY <1>2
<1>11. \E s \in back : Keeps(mmu', s) /\ mmu'.ok = s.ok /\ (s.ok => mmu'.pos = s.pos)
  BY <1>8, <1>9, <1>10, EndResult
<1> QED  BY <1>7, <1>11 DEF Keeps

LEMMA PreloadSpares ==
    ASSUME TypeOK, NEW g \in Gates, Preload(g), g # mmu.gate, mmu.pos = "loaded", mmu'.ok
    PROVE  mmu'.tool = mmu.tool /\ mmu'.gate = mmu.gate /\ mmu'.pos = mmu.pos
<1> DEFINE preloaded == PreloadGate(Good(Selected(g)), g)
           back      == GoBack(preloaded, mmu.gate, mmu.pos)
           all       == Bad(Selected(g)) \cup Restored(back)
<1>1. \A m \in Selected(g) : m \in State /\ Away(m)  BY SelectedResult
<1>2. Good(Selected(g)) \in SUBSET State  BY <1>1 DEF Good
<1>3. \A r \in preloaded : r \in State /\ \E m \in Good(Selected(g)) : Keeps(r, m)
  BY <1>2, PreloadGateResult
<1>4. \A r \in preloaded : r \in State /\ Away(r)  BY <1>1, <1>3, KeepsAway DEF Good
<1> HIDE DEF preloaded
<1>5. Reselects(mmu.pos) /\ mmu.pos \in Positions  BY DEF Reselects, TypeOK, State
<1>6. \A r \in back : r \in State /\ (r.ok => r.gate = mmu.gate /\ r.tool = mmu.tool)
  BY <1>4, <1>5, GoBackResult, GoBackReturns
<1>7. End(all)  BY DEF Preload, back, preloaded
<1> HIDE DEF back
<1>8. ASSUME NEW r \in all
      PROVE  /\ r \in State
             /\ r.ok => r.gate = mmu.gate /\ r.tool = mmu.tool /\ r.pos = mmu.pos
  <2>1. CASE r \in Bad(Selected(g))
    BY <1>1, <2>1 DEF Bad, Good
  <2>2. CASE r \in Restored(back)
    <3>1. PICK m \in back : \/ r = m /\ m.gate # mmu.gate
                            \/ r = At(m, mmu.pos) /\ m.gate = mmu.gate
      BY <1>5, <2>2 DEF Restored
    <3>2. CASE r = m /\ m.gate # mmu.gate
      BY <1>6, <3>2
    <3>3. CASE r = At(m, mmu.pos) /\ m.gate = mmu.gate
      BY <1>5, <1>6, <3>3, AtState
    <3> QED  BY <3>1, <3>2, <3>3
  <2> QED  BY <2>1, <2>2
<1>9. all \in SUBSET State  BY <1>8
<1> HIDE DEF all
<1>10. \E s \in all : Keeps(mmu', s) /\ mmu'.ok = s.ok /\ (s.ok => mmu'.pos = s.pos)
  BY <1>7, <1>9, EndResult
<1> QED  BY <1>8, <1>10 DEF Keeps

LEMMA GateWorkOnly ==
    ASSUME Next, did'.op \in {"eject", "preload"}
    PROVE  /\ did'.arg \in Gates
           /\ Preload(did'.arg) \/ \E force \in BOOLEAN : EjectGate(did'.arg, force)
<1>1. \A op, a : Does(op, a) => did'.op = op /\ did'.arg = a  BY DEF Does
<1>2. ~Selecting
  <2>1. \A a : /\ ~Does("change", a) /\ ~Does("changeGate", a) /\ ~Does("select", a)
               /\ ~Does("selectGate", a) /\ ~Does("home", a) /\ ~Does("homeIfNeeded", a)
               /\ ~Does("motorsOff", a)
    BY <1>1
  <2> QED  BY <2>1, Zenon DEF Selecting
<1>3. ~Mapping  BY <1>1 DEF Mapping
<1>4. ~Job  BY <1>1 DEF Job
<1>5. Moving  BY <1>2, <1>3, <1>4 DEF Next
<1>6. \A a : /\ ~Does("load", a) /\ ~Does("unload", a) /\ ~Does("runout", a)
             /\ ~Does("clog", a) /\ ~Does("scan", a) /\ ~Does("check", a)
  BY <1>1
<1>7. \/ \E g \in Gates, force \in BOOLEAN : EjectGate(g, force) /\ Does("eject", g)
      \/ \E g \in Gates : Preload(g) /\ Does("preload", g)
  BY <1>5, <1>6, Zenon DEF Moving
<1> QED  BY <1>1, <1>7

(* Whatever the unit, its selector is moved with filament in the gate only *)
(* by the commands named, and ejecting or preloading another gate, if it   *)
(* raises nothing, gives back the load it found (mmu_eject.py,             *)
(* mmu_preload.py and the finally clauses of both).                        *)
THEOREM LoadAlwaysSpared == Spec => LoadSpared
<1>1. ASSUME TypeOK, Next  PROVE SelectorMovesUnloaded /\ LoadKept
  <2>1. SelectorMovesUnloaded
    BY <1>1, StepEnds DEF Ends, Moves, SelectorMovesUnloaded
  <2>2. LoadKept
    <3> SUFFICES ASSUME did'.op \in {"eject", "preload"}, did'.arg # mmu.gate,
                        mmu.pos = "loaded", mmu'.ok
                 PROVE  mmu'.tool = mmu.tool /\ mmu'.gate = mmu.gate /\ mmu'.pos = mmu.pos
      BY DEF LoadKept
    <3> QED  BY <1>1, GateWorkOnly, EjectSpares, PreloadSpares
  <2> QED  BY <2>1, <2>2
<1>2. TypeOK /\ [Next]_vars => [SelectorMovesUnloaded /\ LoadKept]_vars
  BY <1>1
<1> QED  BY <1>2, TypeCorrect, PTL DEF Spec, LoadSpared

-----------------------------------------------------------------------------
(* What becomes of the map.  In the states of Regrouped(t) it is the one   *)
(* the command found, but for tool t, which may have gone to another gate  *)
(* of its group.                                                           *)
Regrouped(t) ==
    {s \in State : /\ \A u \in Tools \ {t} : s.ttg[u] = mmu.ttg[u]
                   /\ Group[s.ttg[t]] = Group[mmu.ttg[t]]}

LEMMA SameMap ==
    ASSUME NEW t, NEW s \in Regrouped(t), NEW r \in State, r.ttg = s.ttg
    PROVE  r \in Regrouped(t)
BY DEF Regrouped

LEMMA SameMaps ==
    ASSUME NEW t, NEW S \in SUBSET Regrouped(t), NEW R,
           \A r \in R : r \in State /\ \E s \in S : r.ttg = s.ttg
    PROVE  R \in SUBSET Regrouped(t)
BY SameMap

(* Only remap_tool writes the map.                                         *)
LEMMA MapKeepers ==
    ASSUME NEW t, NEW S \in SUBSET Regrouped(t), NEW g \in Gates \cup {None}
    PROVE  /\ S \in SUBSET State /\ Good(S) \in SUBSET Regrouped(t) /\ Bad(S) \in SUBSET Regrouped(t)
           /\ HomeUnit(S) \in SUBSET Regrouped(t)
           /\ MoveSelector(S, g) \in SUBSET Regrouped(t)
           /\ SelectGate(S, g) \in SUBSET Regrouped(t)
           /\ SelectTool(S, g) \in SUBSET Regrouped(t)
           /\ EnsureTtgMatch(S) \in SUBSET Regrouped(t)
           /\ LoadSequence(S) \in SUBSET Regrouped(t)
           /\ UnloadTool(S) \in SUBSET Regrouped(t)
           /\ EjectFromGate(S) \in SUBSET Regrouped(t)
           /\ RecoverFilamentPos(S) \in SUBSET Regrouped(t)
           /\ ContinueAfter(S) \in SUBSET Regrouped(t)
<1>1. S \in SUBSET State  BY DEF Regrouped
<1>2. HomeUnit(S) \in SUBSET Regrouped(t)
  <2>1. \A r \in HomeUnit(S) : r \in State /\ \E s \in S : r.ttg = s.ttg
    BY <1>1, HomeUnitResult DEF Same
  <2> QED  BY <2>1, SameMaps
<1>3. MoveSelector(S, g) \in SUBSET Regrouped(t)
  <2>1. \A r \in MoveSelector(S, g) : r \in State /\ \E s \in S : r.ttg = s.ttg
    BY <1>1, MoveSelectorResult DEF Same
  <2> QED  BY <2>1, SameMaps
<1>4. SelectGate(S, g) \in SUBSET Regrouped(t)
  <2>1. \A r \in SelectGate(S, g) : r \in State /\ \E s \in S : r.ttg = s.ttg
    BY <1>1, SelectGateResult DEF Moved, Same
  <2> QED  BY <2>1, SameMaps
<1>5. SelectTool(S, g) \in SUBSET Regrouped(t)
  <2>1. \A r \in SelectTool(S, g) : r \in State /\ \E s \in S : r.ttg = s.ttg
    BY <1>1, GateNumbers, SelectToolResult
  <2> QED  BY <2>1, SameMaps
<1>6. EnsureTtgMatch(S) \in SUBSET Regrouped(t)
  <2>1. \A r \in EnsureTtgMatch(S) : r \in State /\ \E s \in S : r.ttg = s.ttg
    BY <1>1, EnsureTtgMatchResult DEF FitState
  <2> QED  BY <2>1, SameMaps
<1>7. LoadSequence(S) \in SUBSET Regrouped(t)
  <2>1. \A r \in LoadSequence(S) : r \in State /\ \E s \in S : r.ttg = s.ttg
    BY <1>1, LoadSequenceResult DEF Keeps
  <2> QED  BY <2>1, SameMaps
<1>8. UnloadTool(S) \in SUBSET Regrouped(t)
  <2>1. \A r \in UnloadTool(S) : r \in State /\ \E s \in S : r.ttg = s.ttg
    BY <1>1, UnloadToolResult DEF Keeps
  <2> QED  BY <2>1, SameMaps
<1>9. EjectFromGate(S) \in SUBSET Regrouped(t)
  <2>1. \A r \in EjectFromGate(S) : r \in State /\ \E s \in S : r.ttg = s.ttg
    BY <1>1, EjectFromGateResult DEF Keeps
  <2> QED  BY <2>1, SameMaps
<1>10. RecoverFilamentPos(S) \in SUBSET Regrouped(t)
  <2>1. \A r \in RecoverFilamentPos(S) : r \in State /\ \E s \in S : r.ttg = s.ttg
    BY <1>1, RecoverFilamentPosResult DEF Keeps
  <2> QED  BY <2>1, SameMaps
<1>11. ContinueAfter(S) \in SUBSET Regrouped(t)
  <2>1. \A r \in ContinueAfter(S) : r \in State /\ \E s \in S : r.ttg = s.ttg
    BY <1>1, ContinueAfterResult DEF Keeps
  <2> QED  BY <2>1, SameMaps
<1>12. Good(S) \in SUBSET Regrouped(t) /\ Bad(S) \in SUBSET Regrouped(t)  BY DEF Good, Bad
<1> QED  BY <1>1, <1>2, <1>3, <1>4, <1>5, <1>6, <1>7, <1>8, <1>9, <1>10, <1>11, <1>12

(* Nor do the updates of a state.                                          *)
LEMMA MapUpdates ==
    ASSUME NEW t, NEW s \in Regrouped(t), NEW g \in Gates \cup {None}, NEW p \in Positions
    PROVE  /\ Fail(s) \in Regrouped(t) /\ At(s, p) \in Regrouped(t)
           /\ Marked(s, g) \in Regrouped(t) /\ Unmarked(s, g) \in Regrouped(t)
           /\ [s EXCEPT !.gate = g] \in Regrouped(t) /\ [s EXCEPT !.tool = g] \in Regrouped(t)
           /\ \A b \in BOOLEAN : /\ [s EXCEPT !.ok = b] \in Regrouped(t)
                                 /\ [s EXCEPT !.homed = b] \in Regrouped(t)
                                 /\ [s EXCEPT !.handling = b] \in Regrouped(t)
<1>1. s \in State  BY DEF Regrouped
<1>2. Fail(s) \in Regrouped(t)  BY <1>1, FailState, SameMap
<1>3. At(s, p) \in Regrouped(t)  BY <1>1, AtState, SameMap
<1>4. Marked(s, g) \in Regrouped(t)  BY <1>1, MarkedState, SameMap
<1>5. Unmarked(s, g) \in Regrouped(t)  BY <1>1, UnmarkedState, SameMap
<1>6. [s EXCEPT !.gate = g] \in Regrouped(t)  BY <1>1, GateState, SameMap
<1>7. [s EXCEPT !.tool = g] \in Regrouped(t)  BY <1>1, GateNumbers, ToolState, SameMap
<1>8. ASSUME NEW b \in BOOLEAN
      PROVE  /\ [s EXCEPT !.ok = b] \in Regrouped(t)
             /\ [s EXCEPT !.homed = b] \in Regrouped(t)
             /\ [s EXCEPT !.handling = b] \in Regrouped(t)
  <2>1. /\ [s EXCEPT !.ok = b] \in State /\ [s EXCEPT !.ok = b].ttg = s.ttg
        /\ [s EXCEPT !.homed = b] \in State /\ [s EXCEPT !.homed = b].ttg = s.ttg
        /\ [s EXCEPT !.handling = b] \in State /\ [s EXCEPT !.handling = b].ttg = s.ttg
    BY <1>1, ZenonT(30) DEF State
  <2> QED  BY <2>1, SameMap
<1> QED  BY <1>2, <1>3, <1>4, <1>5, <1>6, <1>7, <1>8

(* EndlessSpool gives remap_tool a gate of the group of the tool's gate.   *)
LEMMA RegroupedRemap ==
    ASSUME NEW t \in Tools, NEW S \in SUBSET Regrouped(t), NEW n \in Gates,
           Group[n] = Group[mmu.ttg[t]]
    PROVE  RemapTool(S, t, n) \in SUBSET Regrouped(t)
<1> DEFINE T == {[s EXCEPT !.ttg = [@ EXCEPT ![Index(t)] = n]] : s \in S}
<1>1. Index(t) = t  BY GateNumbers DEF Index
<1>2. ASSUME NEW m \in T  PROVE m \in Regrouped(t)
  <2>1. PICK s \in S : m = [s EXCEPT !.ttg = [s.ttg EXCEPT ![t] = n]]  BY <1>1
  <2>2. s \in State  BY DEF Regrouped
  <2>3. [s.ttg EXCEPT ![t] = n] \in [Tools -> Gates]  BY <2>2 DEF State
  <2>4. m \in State /\ m.ttg = [s.ttg EXCEPT ![t] = n]
    BY <2>1, <2>2, <2>3, ZenonT(30) DEF State
  <2>5. s.ttg \in [Tools -> Gates]  BY <2>2 DEF State
  <2>6. m.ttg[t] = n /\ \A u \in Tools \ {t} : m.ttg[u] = s.ttg[u]  BY <2>4, <2>5
  <2>7. s \in Regrouped(t)  OBVIOUS
  <2> QED  BY <2>4, <2>6, <2>7 DEF Regrouped
<1>3. T \in SUBSET Regrouped(t)  BY <1>2
<1> HIDE DEF T
<1>4. EnsureTtgMatch(T) \in SUBSET Regrouped(t)  BY <1>3, MapKeepers
<1> QED  BY <1>4 DEF RemapTool, T

LEMMA RegroupedLoad ==
    ASSUME NEW t \in Tools, NEW S \in SUBSET Regrouped(t)
    PROVE  SelectAndLoadTool(S, t) \in SUBSET Regrouped(t)
<1> DEFINE selected == SelectTool(S, t)
           empty    == {s \in Good(selected) : LoadGate(s, t) \in s.empty}
           next(s)  == IF EndlessSpool /\ OnLoad
                       THEN NextEndlessSpoolGate(s, LoadGate(s, t)) ELSE {}
           failed   == {Fail(s) : s \in {x \in empty : next(x) = {}}}
           spooled  == UNION {UNION {SelectTool(RemapTool({s}, t, n), t) : n \in next(s)} : s \in empty}
           all      == (selected \ empty) \cup failed \cup spooled
<1>1. t \in Gates \cup {None} /\ t # None /\ None \in Gates \cup {None}  BY GateNumbers
<1>2. selected \in SUBSET Regrouped(t)  BY <1>1, MapKeepers
<1>3. empty \in SUBSET Regrouped(t)  BY <1>2 DEF Good
<1>4. ASSUME NEW s \in empty, NEW n \in next(s)
      PROVE  n \in Gates /\ Group[n] = Group[mmu.ttg[t]]
  <2>1. n \in Gates /\ Group[n] = Group[s.ttg[t]]
    BY <1>1 DEF NextEndlessSpoolGate, Alternatives, LoadGate
  <2>2. s \in Regrouped(t)  BY <1>3
  <2> QED  BY <2>1, <2>2 DEF Regrouped
<1> HIDE DEF empty, next
<1>5. failed \in SUBSET Regrouped(t)
  <2>1. \A s \in Regrouped(t) : Fail(s) \in Regrouped(t)  BY <1>1, MapUpdates DEF Positions
  <2> QED  BY <1>3, <2>1
<1>6. ASSUME NEW m \in spooled  PROVE m \in Regrouped(t)
  <2>1. PICK s \in empty : m \in UNION {SelectTool(RemapTool({s}, t, n), t) : n \in next(s)}
    OBVIOUS
  <2>2. PICK n \in next(s) : m \in SelectTool(RemapTool({s}, t, n), t)  BY <2>1
  <2>3. n \in Gates /\ Group[n] = Group[mmu.ttg[t]]  BY <1>4
  <2>4. {s} \in SUBSET Regrouped(t)  BY <1>3
  <2>5. RemapTool({s}, t, n) \in SUBSET Regrouped(t)  BY <2>3, <2>4, RegroupedRemap
  <2>6. SelectTool(RemapTool({s}, t, n), t) \in SUBSET Regrouped(t)  BY <1>1, <2>5, MapKeepers
  <2> QED  BY <2>2, <2>6
<1>7. all \in SUBSET Regrouped(t)  BY <1>2, <1>5, <1>6
<1>8. SelectAndLoadTool(S, t) = LoadSequence(all)  BY DEF SelectAndLoadTool, empty, next
<1> HIDE DEF all
<1>9. LoadSequence(all) \in SUBSET Regrouped(t)  BY <1>1, <1>7, MapKeepers
<1> QED  BY <1>8, <1>9

LEMMA RegroupedAttempt ==
    ASSUME NEW t \in Tools, NEW S \in SUBSET Regrouped(t)
    PROVE  Attempt(S, t) \in SUBSET Regrouped(t)
<1>1. None \in Gates \cup {None}  OBVIOUS
<1>2. UnloadTool(S) \in SUBSET Regrouped(t)  BY <1>1, MapKeepers
<1> QED  BY <1>2, RegroupedLoad DEF Attempt

LEMMA RegroupedChange ==
    ASSUME NEW t \in Tools, NEW S \in SUBSET Regrouped(t)
    PROVE  ChangeTool(S, t) \in SUBSET Regrouped(t)
<1> SUFFICES ASSUME NEW r \in ChangeTool(S, t)  PROVE r \in Regrouped(t)
  OBVIOUS
<1> DEFINE once(s)  == Attempt({s}, t)
           again(s) == {[x EXCEPT !.ok = TRUE] : x \in Bad(once(s))}
           tried(s) == (IF Retry
                        THEN Good(once(s)) \cup Attempt(RecoverFilamentPos(again(s)), t)
                        ELSE {})
                       \cup (IF Retry /\ print = "printing" THEN {} ELSE once(s))
<1>1. PICK s \in S : r \in IF s.ttg[Index(t)] = s.gate /\ s.pos = "loaded"
                           THEN IF t = s.tool THEN {s} ELSE SelectTool({s}, t)
                           ELSE ContinueAfter(tried(s))
  BY DEF ChangeTool
<1>2. {s} \in SUBSET Regrouped(t)  OBVIOUS
<1>3. t \in Gates \cup {None} /\ None \in Gates \cup {None}  BY GateNumbers
<1>4. SelectTool({s}, t) \in SUBSET Regrouped(t)  BY <1>2, <1>3, MapKeepers
<1>5. once(s) \in SUBSET Regrouped(t)  BY <1>2, RegroupedAttempt
<1>6. Bad(once(s)) \in SUBSET Regrouped(t) /\ Good(once(s)) \in SUBSET Regrouped(t)
  BY <1>3, <1>5, MapKeepers
<1>7. again(s) \in SUBSET Regrouped(t)
  <2>1. \A x \in Regrouped(t) : [x EXCEPT !.ok = TRUE] \in Regrouped(t)
    BY <1>3, MapUpdates DEF Positions
  <2> QED  BY <1>6, <2>1
<1> HIDE DEF once, again
<1>8. RecoverFilamentPos(again(s)) \in SUBSET Regrouped(t)  BY <1>3, <1>7, MapKeepers
<1>9. Attempt(RecoverFilamentPos(again(s)), t) \in SUBSET Regrouped(t)  BY <1>8, RegroupedAttempt
<1>10. tried(s) \in SUBSET Regrouped(t)  BY <1>5, <1>6, <1>9
<1> HIDE DEF tried
<1>11. ContinueAfter(tried(s)) \in SUBSET Regrouped(t)  BY <1>3, <1>10, MapKeepers
<1> QED  BY <1>1, <1>2, <1>4, <1>11

(* Work on another gate does not write the map.                            *)
LEMMA MapGateWork ==
    ASSUME NEW t, NEW S \in SUBSET Regrouped(t), NEW g \in Gates
    PROVE  /\ PreloadGate(S, g) \in SUBSET Regrouped(t)
           /\ JogScan(S, g) \in SUBSET Regrouped(t)
           /\ Probed(S, g) \in SUBSET Regrouped(t)
<1>1. S \in SUBSET State /\ g \in Gates \cup {None} /\ None \in Gates \cup {None}
  BY MapKeepers
<1>2. PreloadGate(S, g) \in SUBSET Regrouped(t)
  <2>1. \A r \in PreloadGate(S, g) : r \in State /\ \E s \in S : r.ttg = s.ttg
    BY <1>1, PreloadGateResult DEF Keeps
  <2> QED  BY <2>1, SameMaps
<1>3. JogScan(S, g) \in SUBSET Regrouped(t)
  <2>1. \A r \in JogScan(S, g) : r \in State /\ \E s \in S : r.ttg = s.ttg
    BY <1>1, JogScanResult DEF Keeps
  <2> QED  BY <2>1, SameMaps
<1>4. Probed(S, g) \in SUBSET Regrouped(t)
  <2> DEFINE N  == {[s EXCEPT !.tool = None] : s \in Good(S)}
             at == SelectGate(N, g)
             R  == Regrouped(t)
  <2>1. Good(S) \in SUBSET R /\ Bad(S) \in SUBSET R  BY <1>1, MapKeepers
  <2>2. \A s \in R : /\ [s EXCEPT !.tool = None] \in R
                     /\ Marked(s, g) \in R /\ Unmarked(s, g) \in R
                     /\ At(s, "unloaded") \in R
                     /\ \A b \in BOOLEAN : [s EXCEPT !.ok = b] \in R
    <3>1. "unloaded" \in Positions  BY DEF Positions
    <3> QED  BY <1>1, <3>1, MapUpdates
  <2>3. N \in SUBSET R  BY <2>1, <2>2
  <2> HIDE DEF N
  <2>4. at \in SUBSET R  BY <1>1, <2>3, MapKeepers
  <2>5. Good(at) \in SUBSET R  BY <1>1, <2>4, MapKeepers
  <2>6. (~InPrint) \in BOOLEAN  BY DEF InPrint
  <2>7. Probed(S, g) = Bad(S) \cup {At(Unmarked(s, g), "unloaded") : s \in Good(at)}
                              \cup {[At(Marked(s, g), "unloaded") EXCEPT !.ok = ~InPrint] : s \in at}
    BY DEF Probed, N
  <2> HIDE DEF at
  <2> QED  BY <2>1, <2>2, <2>4, <2>5, <2>6, <2>7
<1> QED  BY <1>2, <1>3, <1>4

LEMMA MapGoBack ==
    ASSUME NEW t, NEW S \in SUBSET Regrouped(t), NEW g0 \in Gates \cup {None}, NEW p0
    PROVE  GoBack(S, g0, p0) \in SUBSET Regrouped(t)
<1> SUFFICES ASSUME NEW r \in GoBack(S, g0, p0)  PROVE r \in Regrouped(t)
  OBVIOUS
<1>1. CASE r \in S
  BY <1>1
<1>2. CASE r \notin S
  <2> DEFINE back(s) == IF Reselects(p0)
                        THEN SelectGate({[s EXCEPT !.ok = TRUE]}, g0) ELSE EnsureTtgMatch({s})
  <2>1. PICK s \in {x \in S : x.gate # g0} : r \in {[b EXCEPT !.ok = @ /\ s.ok] : b \in back(s)}
    BY <1>2 DEF GoBack
  <2>2. PICK b \in back(s) : r = [b EXCEPT !.ok = b.ok /\ s.ok]  BY <2>1
  <2>3. s \in Regrouped(t)  BY <2>1
  <2> DEFINE x == [s EXCEPT !.ok = TRUE]
  <2>4. x \in Regrouped(t)  BY <2>3, MapUpdates DEF Positions
  <2>5. {x} \in SUBSET Regrouped(t) /\ {s} \in SUBSET Regrouped(t)  BY <2>3, <2>4
  <2> HIDE DEF x
  <2>6. SelectGate({x}, g0) \in SUBSET Regrouped(t)  BY <2>5, MapKeepers
  <2>7. EnsureTtgMatch({s}) \in SUBSET Regrouped(t)  BY <2>5, MapKeepers
  <2>8. b \in Regrouped(t)  BY <2>2, <2>6, <2>7 DEF x
  <2>9. (b.ok /\ s.ok) \in BOOLEAN  OBVIOUS
  <2> QED  BY <2>2, <2>8, <2>9, MapUpdates DEF Positions
<1> QED  BY <1>1, <1>2

(* A command begins with the map it finds, and its end does not write it.  *)
LEMMA BeginRegrouped ==
    ASSUME TypeOK, NEW t \in Tools
    PROVE  Begin \in SUBSET Regrouped(t) /\ mmu \in Regrouped(t)
BY BeginResult DEF Regrouped, Keeps, TypeOK

Regroups == \E t \in Tools : mmu' \in Regrouped(t)

LEMMA EndRegroups ==
    ASSUME TypeOK, NEW t \in Tools, NEW STATE S, S \in SUBSET Regrouped(t), End(S)
    PROVE  Regroups
<1>1. S \in SUBSET State  BY DEF Regrouped
<1>2. mmu' \in State /\ \E s \in S : mmu'.ttg = s.ttg  BY <1>1, EndResult DEF Keeps, Stepped
<1>3. mmu' \in Regrouped(t)  BY <1>2, SameMap
<1> QED  BY <1>3 DEF Regroups

-----------------------------------------------------------------------------
LEMMA SelectingRegroups ==
    ASSUME TypeOK, Agree, mmu.tool # None, Selecting,
           did'.op = "changeGate" => mmu.gate # None
    PROVE  Regroups
<1>1. \A op, a : Does(op, a) => did'.op = op  BY DEF Does
<1>2. mmu.tool \in Tools  BY DEF TypeOK, State
<1> DEFINE R == Regrouped(mmu.tool)
<1>3. Begin \in SUBSET R  BY <1>2, BeginRegrouped
<1>4. Tools = Gates /\ None \in Gates \cup {None}  BY GateNumbers
<1>5. ASSUME NEW t \in Tools, Change(t)  PROVE Regroups
  <2>1. Begin \in SUBSET Regrouped(t)  BY BeginRegrouped
  <2>2. ChangeTool(Begin, t) \in SUBSET Regrouped(t)  BY <2>1, RegroupedChange
  <2> QED  BY <1>5, <2>2, EndRegroups DEF Change
<1>6. ASSUME NEW g \in Gates, ChangeGate(g), Does("changeGate", g)  PROVE Regroups
  <2> DEFINE mapped == {t \in Tools : mmu.ttg[t] = g}
             S      == UNION {ChangeTool(Begin, t) : t \in Lowest(mapped)}
  <2>1. mmu.ttg[mmu.tool] = mmu.gate /\ g # mmu.gate  BY <1>1, <1>6 DEF Agree, ChangeGate
  <2>2. mmu.tool \notin mapped  BY <2>1
  <2>3. End(S)  BY <1>6, <2>2 DEF ChangeGate
  <2>4. mapped \in SUBSET Tools  OBVIOUS
  <2> HIDE DEF mapped
  <2>5. \A t, u \in Lowest(mapped) : t = u /\ t \in Tools
    <3>1. mapped \in SUBSET Int  BY <2>4, ToolSelectionAssumption DEF Tools, Gates
    <3>2. ASSUME NEW t \in Lowest(mapped), NEW u \in Lowest(mapped)  PROVE t = u /\ t \in Tools
      <4>1. t \in Int /\ u \in Int /\ t \in mapped  BY <3>1 DEF Lowest
      <4>2. t <= u /\ u <= t  BY DEF Lowest
      <4>3. t = u  BY <4>1, <4>2
      <4> QED  BY <2>4, <4>1, <4>3
    <3> QED  BY <3>2
  <2>6. CASE Lowest(mapped) = {}
    <3>1. S = {}  BY <2>6
    <3> HIDE DEF S
    <3> QED  BY <1>2, <2>3, <3>1, EndRegroups
  <2>7. CASE Lowest(mapped) # {}
    <3>1. PICK t \in Lowest(mapped) : TRUE  BY <2>7
    <3>2. t \in Tools /\ S = ChangeTool(Begin, t)  BY <2>5, <3>1
    <3>3. Begin \in SUBSET Regrouped(t)  BY <3>2, BeginRegrouped
    <3> HIDE DEF S
    <3>4. S \in SUBSET Regrouped(t)  BY <3>2, <3>3, RegroupedChange
    <3> QED  BY <2>3, <3>2, <3>4, EndRegroups
  <2> QED  BY <2>6, <2>7
<1>7. ASSUME NEW t \in Tools \cup {None}, NEW g \in Gates \cup {None}, Select(t, g)
      PROVE  Regroups
  <2> DEFINE S == IF t # None THEN SelectTool(Begin, t) ELSE SelectGate(Begin, g)
  <2>1. SelectTool(Begin, t) \in SUBSET R /\ SelectGate(Begin, g) \in SUBSET R
    <3>1. SelectTool(Begin, t) \in SUBSET R  BY <1>3, <1>4, MapKeepers
    <3>2. SelectGate(Begin, g) \in SUBSET R  BY <1>3, MapKeepers
    <3> QED  BY <3>1, <3>2
  <2>2. S \in SUBSET R  BY <2>1
  <2>3. End(Matched(S))  BY <1>7 DEF Select
  <2> HIDE DEF S
  <2>4. Good(S) \in SUBSET R /\ Bad(S) \in SUBSET R  BY <1>4, <2>2, MapKeepers
  <2>5. EnsureTtgMatch(Good(S)) \in SUBSET R  BY <1>4, <2>4, MapKeepers
  <2>6. Matched(S) \in SUBSET R  BY <2>4, <2>5 DEF Matched
  <2> QED  BY <1>2, <2>3, <2>6, EndRegroups
<1>8. ASSUME NEW t \in Tools \cup {None}, NEW skip \in BOOLEAN, Home(t, skip)  PROVE Regroups
  <2> DEFINE S == IF skip /\ (mmu.homed \/ ~unit.homing) THEN Begin ELSE HomeUnit(Begin)
  <2>1. HomeUnit(Begin) \in SUBSET R  BY <1>3, <1>4, MapKeepers
  <2>2. S \in SUBSET R  BY <1>3, <2>1
  <2>3. End(SelectTool(S, t))  BY <1>8 DEF Home
  <2> HIDE DEF S
  <2>4. SelectTool(S, t) \in SUBSET R  BY <1>4, <2>2, MapKeepers
  <2> QED  BY <1>2, <2>3, <2>4, EndRegroups
<1>9. ASSUME MotorsOff  PROVE Regroups
  <2> DEFINE S == {[s EXCEPT !.homed = FALSE] : s \in Begin}
  <2>1. \A s \in R : [s EXCEPT !.homed = FALSE] \in R  BY <1>4, MapUpdates DEF Positions
  <2>2. S \in SUBSET R  BY <1>3, <2>1
  <2>3. End(S)  BY <1>9 DEF MotorsOff
  <2> HIDE DEF S
  <2> QED  BY <1>2, <2>2, <2>3, EndRegroups
<1>10. CASE \E t \in Tools : Change(t) /\ Does("change", t)
  BY <1>5, <1>10
<1>11. CASE \E g \in Gates : ChangeGate(g) /\ Does("changeGate", g)
  BY <1>6, <1>11
<1>12. CASE \/ \E t \in Tools : Select(t, None) /\ Does("select", t)
            \/ \E g \in Gates : Select(None, g) /\ Does("selectGate", g)
  BY <1>7, <1>12
<1>13. CASE \/ \E t \in Tools \cup {None} : Home(t, FALSE) /\ Does("home", t)
            \/ \E t \in Tools \cup {None} : Home(t, TRUE) /\ Does("homeIfNeeded", t)
  BY <1>8, <1>13
<1> QED  BY <1>9, <1>10, <1>11, <1>12, <1>13 DEF Selecting

LEMMA ReplaceRegroups ==
    ASSUME TypeOK, NEW t \in Tools, NEW s \in Regrouped(t), s.tool = t,
           NEW n \in Gates, Group[n] = Group[mmu.ttg[t]]
    PROVE  Replace(s, n) \in SUBSET Regrouped(t)
<1> DEFINE away    == IF unit.waste # None THEN SelectGate({s}, unit.waste) ELSE {s}
           ejected == EjectFromGate(UnloadTool(away))
           free    == SelectGate(ejected, n)
           all     == Bad(free) \cup RemapTool(Good(free), t, n)
           loaded  == SelectAndLoadTool(all, t)
           R       == Regrouped(t)
<1>1. unit.waste \in Gates \cup {None} /\ None \in Gates \cup {None}
  BY ToolSelectionAssumption DEF TypeOK, UnitType
<1>2. {s} \in SUBSET R  OBVIOUS
<1>3. SelectGate({s}, unit.waste) \in SUBSET R  BY <1>1, <1>2, MapKeepers
<1>4. away \in SUBSET R  BY <1>2, <1>3
<1> HIDE DEF away
<1>5. UnloadTool(away) \in SUBSET R  BY <1>1, <1>4, MapKeepers
<1>6. ejected \in SUBSET R  BY <1>1, <1>5, MapKeepers
<1> HIDE DEF ejected
<1>7. free \in SUBSET R  BY <1>1, <1>6, MapKeepers
<1> HIDE DEF free
<1>8. Good(free) \in SUBSET R /\ Bad(free) \in SUBSET R  BY <1>1, <1>7, MapKeepers
<1>9. RemapTool(Good(free), t, n) \in SUBSET R  BY <1>8, RegroupedRemap
<1>10. all \in SUBSET R  BY <1>8, <1>9
<1> HIDE DEF all
<1>11. loaded \in SUBSET R  BY <1>10, RegroupedLoad
<1>12. Replace(s, n) = ContinueAfter(loaded)
  BY DEF Replace, loaded, all, free, ejected, away
<1> HIDE DEF loaded
<1>13. ContinueAfter(loaded) \in SUBSET R  BY <1>1, <1>11, MapKeepers
<1> QED  BY <1>12, <1>13

LEMMA RunoutRegroups ==
    ASSUME TypeOK, Agree, mmu.tool # None, mmu.gate # None, Runout
    PROVE  Regroups
<1> DEFINE t       == mmu.tool
           R       == Regrouped(t)
           noted   == {[s EXCEPT !.handling = TRUE] : s \in Begin}
           spent   == {Marked(s, s.gate) : s \in noted}
           next(s) == NextEndlessSpoolGate(s, Index(s.gate))
           stuck   == {Fail(s) : s \in {x \in spent : next(x) = {}}}
           renewed == UNION {UNION {Replace(s, n) : n \in next(s)} : s \in spent}
<1>1. t \in Tools /\ mmu.ttg[t] = mmu.gate  BY DEF TypeOK, State, Agree
<1>2. \A s \in R : /\ Fail(s) \in R
                   /\ \A g \in Gates \cup {None} : Marked(s, g) \in R
  BY MapUpdates DEF Positions
<1>3. ASSUME NEW s \in noted  PROVE s \in R /\ s.tool = t /\ s.gate = mmu.gate
  <2>1. PICK b \in Begin : s = [b EXCEPT !.handling = TRUE]  OBVIOUS
  <2>2. b \in R /\ b.tool = t /\ b.gate = mmu.gate
    BY <1>1, BeginRegrouped, BeginResult DEF Keeps
  <2>3. s \in R  BY <2>1, <2>2, MapUpdates DEF Positions
  <2>4. b \in State  BY <2>2 DEF Regrouped
  <2>5. s.tool = b.tool /\ s.gate = b.gate  BY <2>1, <2>4, ZenonT(30) DEF State
  <2> QED  BY <2>2, <2>3, <2>5
<1> HIDE DEF noted
<1>4. ASSUME NEW s \in spent  PROVE s \in R /\ s.tool = t /\ s.gate = mmu.gate
  <2>1. PICK b \in noted : s = Marked(b, b.gate)  OBVIOUS
  <2>2. b \in R /\ b \in State /\ b.gate \in Gates \cup {None}  BY <1>3 DEF Regrouped, State
  <2>3. s \in R  BY <1>2, <2>1, <2>2
  <2>4. s.tool = b.tool /\ s.gate = b.gate  BY <2>1, <2>2, MarkedState
  <2> QED  BY <1>3, <2>3, <2>4
<1> HIDE DEF spent
<1>5. Failed(noted) \in SUBSET R /\ stuck \in SUBSET R  BY <1>2, <1>3, <1>4 DEF Failed
<1>6. ASSUME NEW m \in renewed  PROVE m \in R
  <2>1. PICK s \in spent : m \in UNION {Replace(s, n) : n \in next(s)}  OBVIOUS
  <2>2. PICK n \in next(s) : m \in Replace(s, n)  BY <2>1
  <2>3. s \in R /\ s.tool = t /\ s.gate = mmu.gate  BY <1>4
  <2>4. n \in Gates /\ Group[n] = Group[mmu.ttg[t]]
    BY <1>1, <2>2, <2>3 DEF NextEndlessSpoolGate, Alternatives, Index
  <2> QED  BY <1>1, <2>2, <2>3, <2>4, ReplaceRegroups
<1>7. End(Failed(noted)) \/ End(stuck \cup renewed)  BY DEF Runout, spent, noted
<1>8. stuck \cup renewed \in SUBSET R  BY <1>5, <1>6
<1> HIDE DEF stuck, renewed
<1> QED  BY <1>1, <1>5, <1>7, <1>8, EndRegroups

LEMMA MovingRegroups ==
    ASSUME TypeOK, Agree, mmu.tool # None, Moving,
           did'.op = "runout" => mmu.gate # None
    PROVE  Regroups
<1> DEFINE t == mmu.tool
           R == Regrouped(t)
<1>1. \A op, a : Does(op, a) => did'.op = op  BY DEF Does
<1>2. t \in Tools  BY DEF TypeOK, State
<1>3. Begin \in SUBSET R  BY <1>2, BeginRegrouped
<1>4. t \in Gates \cup {None} /\ None \in Gates \cup {None} /\ mmu.gate \in Gates \cup {None}
      /\ mmu.pos \in Positions
  BY <1>2, GateNumbers DEF TypeOK, State
<1>5. Good(Begin) \in SUBSET R /\ Bad(Begin) \in SUBSET R  BY <1>3, <1>4, MapKeepers
<1>6. UnloadTool(Begin) \in SUBSET R  BY <1>3, <1>4, MapKeepers
<1>7. ContinueAfter(UnloadTool(Begin)) \in SUBSET R  BY <1>4, <1>6, MapKeepers
<1>8. ASSUME Load  PROVE Regroups
  <2>1. SelectAndLoadTool(Begin, t) \in SUBSET R  BY <1>2, <1>3, RegroupedLoad
  <2>2. ContinueAfter(SelectAndLoadTool(Begin, t)) \in SUBSET R  BY <1>4, <2>1, MapKeepers
  <2> QED  BY <1>2, <1>8, <2>2, EndRegroups DEF Load
<1>9. ASSUME Unload  PROVE Regroups
  BY <1>2, <1>7, <1>9, EndRegroups DEF Unload
<1>10. ASSUME Clog  PROVE Regroups
  <2> DEFINE S == {[Fail(s) EXCEPT !.handling = FALSE] : s \in Begin}
  <2>1. ASSUME NEW s \in R  PROVE [Fail(s) EXCEPT !.handling = FALSE] \in R
    <3>1. Fail(s) \in R  BY <1>4, MapUpdates
    <3> QED  BY <1>4, <3>1, MapUpdates
  <2>2. S \in SUBSET R  BY <1>3, <2>1
  <2>3. End(S)  BY <1>10 DEF Clog
  <2> HIDE DEF S
  <2> QED  BY <1>2, <2>2, <2>3, EndRegroups
<1>11. ASSUME NEW g \in Gates, NEW force \in BOOLEAN, EjectGate(g, force)  PROVE Regroups
  <2> DEFINE here    == g = mmu.gate
             entire  == mmu.pos = "unloaded" \/ force \/ ~here
             cleared == IF here /\ mmu.pos # "unloaded" THEN ContinueAfter(UnloadTool(Begin)) ELSE Begin
             reached == IF here THEN Good(cleared) ELSE SelectGate(Good(cleared), g)
             ejected == EjectFromGate(reached)
             back    == GoBack(ejected, mmu.gate, mmu.pos)
             S       == IF entire THEN Bad(cleared) \cup back ELSE cleared
  <2>1. cleared \in SUBSET R  BY <1>3, <1>7
  <2>2. End(S)  BY <1>11 DEF EjectGate
  <2> HIDE DEF cleared
  <2>3. Good(cleared) \in SUBSET R /\ Bad(cleared) \in SUBSET R  BY <1>4, <2>1, MapKeepers
  <2>4. SelectGate(Good(cleared), g) \in SUBSET R  BY <2>3, MapKeepers
  <2>5. reached \in SUBSET R  BY <2>3, <2>4
  <2> HIDE DEF reached
  <2>6. ejected \in SUBSET R  BY <1>4, <2>5, MapKeepers
  <2> HIDE DEF ejected
  <2>7. back \in SUBSET R  BY <1>4, <2>6, MapGoBack
  <2> HIDE DEF back
  <2>8. S \in SUBSET R  BY <2>1, <2>3, <2>7
  <2> HIDE DEF S
  <2> QED  BY <1>2, <2>2, <2>8, EndRegroups
<1>12. ASSUME NEW g \in Gates, Preload(g) \/ Scan(g)  PROVE Regroups
  <2> DEFINE selected  == Selected(g)
             preloaded == PreloadGate(Good(selected), g)
             parked    == GoBack(preloaded, mmu.gate, mmu.pos)
             handed    == IF g = mmu.gate THEN parked ELSE Restored(parked)
             scanned   == GoBack(JogScan(Good(selected), g), mmu.gate, mmu.pos)
  <2>1. SelectGate(Begin, g) \in SUBSET R  BY <1>3, MapKeepers
  <2>2. selected \in SUBSET R  BY <1>3, <2>1 DEF Selected
  <2>3. End(Bad(selected) \cup handed) \/ End(Bad(selected) \cup scanned)
    BY <1>12 DEF Preload, Scan
  <2> HIDE DEF selected
  <2>4. Good(selected) \in SUBSET R /\ Bad(selected) \in SUBSET R  BY <1>4, <2>2, MapKeepers
  <2>5. preloaded \in SUBSET R /\ JogScan(Good(selected), g) \in SUBSET R
    BY <2>4, MapGateWork
  <2>6. scanned \in SUBSET R  BY <1>4, <2>5, MapGoBack
  <2> HIDE DEF preloaded, scanned
  <2>7. parked \in SUBSET R  BY <1>4, <2>5, MapGoBack
  <2> HIDE DEF parked
  <2>8. handed \in SUBSET R
    <3>1. \A s \in R : At(s, mmu.pos) \in R  BY <1>4, MapUpdates
    <3> QED  BY <2>7, <3>1 DEF Restored
  <2> HIDE DEF handed
  <2>9. Bad(selected) \cup handed \in SUBSET R /\ Bad(selected) \cup scanned \in SUBSET R
    BY <2>4, <2>6, <2>8
  <2> QED  BY <1>2, <2>3, <2>9, EndRegroups
<1>13. ASSUME NEW g \in Gates, CheckGate(g)  PROVE Regroups
  <2> DEFINE cleared == IF mmu.pos = "unloaded" THEN Begin ELSE ContinueAfter(UnloadTool(Begin))
             reload  == print # "printing" /\ mmu.pos = "loaded" /\ mmu.tool # None
             probed  == Probed(cleared, g)
             loaded  == SelectAndLoadTool(probed, t)
             checked == IF reload THEN ContinueAfter(loaded) ELSE SelectTool(probed, t)
             present == {Unmarked(s, g) : s \in Begin}
  <2>1. cleared \in SUBSET R  BY <1>3, <1>7
  <2>2. End(present) \/ End(checked)  BY <1>13 DEF CheckGate
  <2> HIDE DEF cleared
  <2>3. probed \in SUBSET R  BY <2>1, MapGateWork
  <2> HIDE DEF probed
  <2>4. loaded \in SUBSET R  BY <1>2, <2>3, RegroupedLoad
  <2> HIDE DEF loaded
  <2>5. ContinueAfter(loaded) \in SUBSET R  BY <1>4, <2>4, MapKeepers
  <2>6. SelectTool(probed, t) \in SUBSET R  BY <1>4, <2>3, MapKeepers
  <2>7. checked \in SUBSET R  BY <2>5, <2>6
  <2>8. present \in SUBSET R
    <3>1. \A s \in R : Unmarked(s, g) \in R  BY <1>4, MapUpdates
    <3> QED  BY <1>3, <3>1
  <2> HIDE DEF checked, present
  <2> QED  BY <1>2, <2>2, <2>7, <2>8, EndRegroups
<1>14. CASE Runout /\ Does("runout", None)
  BY <1>1, <1>14, RunoutRegroups
<1>15. CASE \/ \E g \in Gates : Preload(g) /\ Does("preload", g)
            \/ \E g \in Gates : Scan(g) /\ Does("scan", g)
  BY <1>12, <1>15
<1>16. CASE \/ \E g \in Gates, force \in BOOLEAN : EjectGate(g, force) /\ Does("eject", g)
            \/ \E g \in Gates : CheckGate(g) /\ Does("check", g)
  BY <1>11, <1>13, <1>16
<1> QED  BY <1>8, <1>9, <1>10, <1>14, <1>15, <1>16 DEF Moving

LEMMA MappingRegroups ==
    ASSUME TypeOK, mmu.tool # None, Mapping, did'.op \notin {"remap", "reset", "bulk"}
    PROVE  Regroups
<1> DEFINE R == Regrouped(mmu.tool)
<1>1. \A op, a : Does(op, a) => did'.op = op  BY DEF Does
<1>2. mmu.tool \in Tools  BY DEF TypeOK, State
<1>3. Begin \in SUBSET R  BY <1>2, BeginRegrouped
<1>4. Tools = Gates /\ None \in Gates \cup {None}  BY GateNumbers
<1>5. ASSUME NEW STATE S, S \in SUBSET R, NEW l  PROVE Recovered(S, l) \in SUBSET R
  <2>1. RecoverFilamentPos(S) \in SUBSET R  BY <1>4, <1>5, MapKeepers
  <2>2. \A s \in R, p \in Positions : At(s, p) \in R  BY <1>4, MapUpdates
  <2>3. (IF l = 1 THEN "loaded" ELSE "unloaded") \in Positions  BY DEF Positions
  <2> QED  BY <1>5, <2>1, <2>2, <2>3 DEF Recovered
<1>6. ASSUME NEW g \in Gates, NEW l, RecoverGate(g, l)  PROVE Regroups
  <2> DEFINE N == {[s EXCEPT !.gate = g] : s \in Begin}
  <2>1. \A s \in R : [s EXCEPT !.gate = g] \in R  BY MapUpdates DEF Positions
  <2>2. N \in SUBSET R  BY <1>3, <2>1
  <2>3. End(Recovered(EnsureTtgMatch(N), l))  BY <1>6 DEF RecoverGate
  <2> HIDE DEF N
  <2>4. EnsureTtgMatch(N) \in SUBSET R  BY <1>4, <2>2, MapKeepers
  <2>5. Recovered(EnsureTtgMatch(N), l) \in SUBSET R  BY <1>5, <2>4
  <2> QED  BY <1>2, <2>3, <2>5, EndRegroups
<1>7. ASSUME NEW l, RecoverPos(l)  PROVE Regroups
  <2>1. Recovered(Begin, l) \in SUBSET R  BY <1>3, <1>5
  <2> QED  BY <1>2, <1>7, <2>1, EndRegroups DEF RecoverPos
<1>8. ASSUME NEW g \in Gates, GateStatus(g)  PROVE Regroups
  <2> DEFINE S == {IF g \in s.empty THEN Unmarked(s, g) ELSE Marked(s, g) : s \in Begin}
  <2>1. \A s \in R : Unmarked(s, g) \in R /\ Marked(s, g) \in R  BY MapUpdates DEF Positions
  <2>2. S \in SUBSET R  BY <1>3, <2>1
  <2>3. End(S)  BY <1>8 DEF GateStatus
  <2> HIDE DEF S
  <2> QED  BY <1>2, <2>2, <2>3, EndRegroups
<1>9. \A a : ~Does("remap", a) /\ ~Does("reset", a) /\ ~Does("bulk", a)  BY <1>1
<1>10. \/ \E g \in Gates, l \in {-1, 0, 1} : RecoverGate(g, l)
       \/ \E l \in {-1, 0, 1} : RecoverPos(l)
       \/ \E g \in Gates : GateStatus(g)
  BY <1>9, Zenon DEF Mapping
<1> QED  BY <1>6, <1>7, <1>8, <1>10

LEMMA JobRegroups ==
    ASSUME TypeOK, mmu.tool # None, Job
    PROVE  Regroups
<1> DEFINE R        == Regrouped(mmu.tool)
           checked  == {[s EXCEPT !.ok = TRUE] : s \in AutoHomed(Verified(Persisted))}
           selected == UNION {IF s.gate = None THEN {s} ELSE MoveSelector({s}, s.gate) : s \in checked}
           ready    == {[s EXCEPT !.ok = TRUE] : s \in selected}
<1>1. mmu.tool \in Tools /\ mmu.gate \in Gates \cup {None}  BY DEF TypeOK, State
<1>2. R \subseteq State /\ Begin \in SUBSET R  BY <1>1, BeginRegrouped DEF Regrouped
<1>3. 0 \in Gates /\ None \in Gates \cup {None} /\ Gates \subseteq Gates \cup {None}
  BY GateNumbers
<1>4. \A s \in R : /\ \A g \in Gates \cup {None} : [s EXCEPT !.gate = g] \in R
                   /\ [s EXCEPT !.tool = None] \in R
                   /\ [s EXCEPT !.ok = TRUE] \in R /\ [s EXCEPT !.handling = FALSE] \in R
  BY <1>3, MapUpdates DEF Positions
<1>5. \A s \in R, p \in Positions : At(s, p) \in R  BY <1>3, MapUpdates
<1>6. Handled \in SUBSET R  BY <1>2, <1>4 DEF Handled
<1>7. Persisted \in SUBSET R
  <2> DEFINE gate    == IF mmu.gate = None /\ unit.multigear THEN 0 ELSE mmu.gate
             dropped == {[s EXCEPT !.gate = None, !.tool = None] : s \in Handled}
             kept    == {[s EXCEPT !.gate = gate] : s \in Handled}
  <2>1. gate \in Gates \cup {None}  BY <1>1, <1>3
  <2>2. Persisted = EnsureTtgMatch(dropped) \/ Persisted = EnsureTtgMatch(kept)
    BY DEF Persisted
  <2> HIDE DEF gate
  <2>3. kept \in SUBSET R  BY <1>4, <1>6, <2>1
  <2>4. ASSUME NEW m \in dropped  PROVE m \in R
    <3>1. PICK s \in Handled : m = [s EXCEPT !.gate = None, !.tool = None]  OBVIOUS
    <3>2. s \in R /\ s \in State  BY <1>2, <1>6
    <3>3. m \in State /\ m.ttg = s.ttg
      BY <3>1, <3>2, <1>3, ZenonT(30) DEF State
    <3> QED  BY <3>2, <3>3, SameMap
  <2>5. dropped \in SUBSET R  BY <2>4
  <2> HIDE DEF dropped, kept
  <2>6. EnsureTtgMatch(dropped) \in SUBSET R  BY <1>3, <2>5, MapKeepers
  <2>7. EnsureTtgMatch(kept) \in SUBSET R  BY <1>3, <2>3, MapKeepers
  <2> QED  BY <2>2, <2>6, <2>7
<1>8. Verified(Persisted) \in SUBSET R
  <2> DEFINE named == IF unit.shared THEN {} ELSE Gates
             options(s, p) == {[At(s, p) EXCEPT !.gate = g] : g \in {s.gate} \cup named}
  <2>1. Verified(Persisted) = UNION {options(s, p) : s \in Persisted, p \in Positions}
    BY DEF Verified
  <2>2. named \subseteq Gates  OBVIOUS
  <2> HIDE DEF named
  <2>3. ASSUME NEW s \in Persisted, NEW p \in Positions, NEW r \in options(s, p)
        PROVE  r \in R
    <3>1. PICK g \in {s.gate} \cup named : r = [At(s, p) EXCEPT !.gate = g]  OBVIOUS
    <3>2. s \in R /\ s \in State  BY <1>2, <1>7
    <3>3. g \in Gates \cup {None}  BY <2>2, <3>2 DEF State
    <3> QED  BY <1>4, <1>5, <3>1, <3>2, <3>3
  <2> HIDE DEF options
  <2>4. ASSUME NEW r \in Verified(Persisted)  PROVE r \in R
    <3>1. PICK s \in Persisted, p \in Positions : r \in options(s, p)  BY <2>1
    <3> QED  BY <2>3, <3>1
  <2> QED  BY <2>4
<1>9. ASSUME NEW r \in AutoHomed(Verified(Persisted)), r \notin Verified(Persisted)
      PROVE  r \in R
  <2>1. PICK s \in Verified(Persisted) :
          r \in SelectGate(HomeUnit({s}), IF s.gate = None THEN 0 ELSE s.gate)
    BY <1>9 DEF AutoHomed
  <2>2. s \in R /\ s \in State  BY <1>2, <1>8
  <2>3. (IF s.gate = None THEN 0 ELSE s.gate) \in Gates \cup {None}  BY <1>3, <2>2 DEF State
  <2>4. {s} \in SUBSET R  BY <2>2
  <2>5. HomeUnit({s}) \in SUBSET R  BY <1>3, <2>4, MapKeepers
  <2>6. SelectGate(HomeUnit({s}), IF s.gate = None THEN 0 ELSE s.gate) \in SUBSET R
    BY <2>3, <2>5, MapKeepers
  <2> QED  BY <2>1, <2>6
<1>10. checked \in SUBSET R  BY <1>4, <1>8, <1>9
<1> HIDE DEF checked
<1>11. ASSUME NEW r \in selected  PROVE r \in R
  <2>1. PICK s \in checked : r \in IF s.gate = None THEN {s} ELSE MoveSelector({s}, s.gate)
    OBVIOUS
  <2>2. s \in R /\ s \in State  BY <1>2, <1>10
  <2>3. {s} \in SUBSET R /\ s.gate \in Gates \cup {None}  BY <2>2 DEF State
  <2>4. MoveSelector({s}, s.gate) \in SUBSET R  BY <2>3, MapKeepers
  <2> QED  BY <2>1, <2>2, <2>4
<1> HIDE DEF selected
<1>12. ready \in SUBSET R  BY <1>4, <1>11
<1>13. Restart => mmu' \in EnsureTtgMatch(ready)  BY DEF Restart, checked, selected
<1> HIDE DEF ready
<1>14. EnsureTtgMatch(ready) \in SUBSET R  BY <1>3, <1>12, MapKeepers
<1>15. CASE PrintStart \/ Pause \/ Resume \/ PrintEnd
  BY <1>1, <1>2, <1>6, <1>15 DEF PrintStart, Pause, Resume, PrintEnd, PrintGoes, Regroups
<1>16. CASE Restart
  BY <1>1, <1>13, <1>14, <1>16 DEF Regroups
<1> QED  BY <1>15, <1>16 DEF Job

(* From a selection that agrees, whatever a command runs into, it sends at *)
(* most one tool to another gate, and within the group of its gate; unless *)
(* the user remaps, or no gate is selected to begin with.                  *)
THEOREM EndlessSpoolKeepsGroups == Spec => RemapsWithinGroup
<1> DEFINE Asked == /\ Agree /\ mmu.tool # None
                    /\ did'.op \notin {"remap", "reset", "bulk"}
                    /\ did'.op \in {"runout", "changeGate"} => mmu.gate # None
           Within == /\ \A t, u \in Remapped : t = u
                     /\ \A t \in Remapped : Group[mmu'.ttg[t]] = Group[mmu.ttg[t]]
<1>1. ASSUME TypeOK, Next, Asked  PROVE Within
  <2>1. Regroups
    BY <1>1, SelectingRegroups, MovingRegroups, MappingRegroups, JobRegroups DEF Next
  <2>2. PICK t \in Tools : mmu' \in Regrouped(t)  BY <2>1 DEF Regroups
  <2>3. \A u \in Remapped : u = t  BY <2>2 DEF Remapped, Regrouped
  <2>4. Group[mmu'.ttg[t]] = Group[mmu.ttg[t]]  BY <2>2 DEF Regrouped
  <2> QED  BY <2>3, <2>4
<1>2. TypeOK /\ [Next]_vars => [Asked => Within]_vars  BY <1>1
<1> QED  BY <1>2, TypeCorrect, PTL DEF Spec, RemapsWithinGroup
=============================================================================

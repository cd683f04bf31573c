--------------------------- MODULE MCToolSelection ---------------------------
(* Instances of ToolSelection for TLC: three gates, two of them in one       *)
(* EndlessSpool group, on a linear selector with one gear motor and on a     *)
(* unit without a selector, with a gear and a sensor for every gate.         *)
EXTENDS ToolSelection

Groups == [g \in Gates |-> (g + 1) \div 2]

Linear  == [homing |-> TRUE,  crossload |-> FALSE, multigear |-> FALSE, shared |-> TRUE,  waste |-> 0]
Virtual == [homing |-> FALSE, crossload |-> TRUE,  multigear |-> TRUE,  shared |-> FALSE, waste |-> None]

BothUnits  == {Linear, Virtual}
LinearUnit == {Linear}

NoPairs       == {}
ThirdToFirst  == {<<2, 0>>}
NoMaps         == {}
ThirdForSecond == {[t \in Tools |-> IF t = 1 THEN 2 ELSE t]}
=============================================================================

---------------------------- MODULE MCSensorEvents ----------------------------
(* Instances of SensorEvents for TLC: two units of one gate, one unit of two *)
(* gates, and the sensors each run needs.                                    *)
EXTENDS SensorEvents

OneUnit  == [g \in {0, 1} |-> 0]
TwoUnits == [g \in {0, 1} |-> g]

At(kind, n) == [kind |-> kind, at |-> n]

(* The sensor every unit shares and one of unit 0, for the arming of two     *)
(* units; a gate and its unit's shared exit, for events; the exits of both.  *)
ArmedSensors == {At("extruder", 0), At("buffer", 0)}
LaneSensors  == {At("entry", 0), At("shared_exit", 0)}
SharedExits  == {At("shared_exit", 0), At("shared_exit", 1)}
=============================================================================

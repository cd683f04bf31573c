------------------------------ MODULE MCGearSync ------------------------------
(* Machines of two gates for GearSync: a unit that grips the filament and    *)
(* has a drive for each gate (type B), a unit with one drive and a servo     *)
(* (type A), that syncs in a print or does not, and two units of one gate,   *)
(* one of each kind.                                                         *)
EXTENDS GearSync, TLC

CONSTANTS g1, g2, u1, u2

Layout(second, shared, gripped, synced) ==
    [unit    |-> (g1 :> u1) @@ (g2 :> second),
     drive   |-> (g1 :> g1) @@ (g2 :> IF shared THEN g1 ELSE g2),
     gripped |-> gripped, synced |-> synced]

Machines ==
    { Layout(u1, FALSE, {u1}, {u1}), Layout(u1, TRUE, {}, {u1}), Layout(u1, TRUE, {}, {}),
      Layout(u2, FALSE, {u1}, {u1, u2}) }
=============================================================================

---------------------------- MODULE MCFilamentPath ----------------------------
(* The layouts of FilamentPath that TLC explores: every combination of      *)
(* sensors and parking there is.                                            *)
EXTENDS FilamentPath

AllFits  == {f \in FitType : (~f.bowden => f.es) /\ (f.force => f.es /\ f.ts)}
=============================================================================

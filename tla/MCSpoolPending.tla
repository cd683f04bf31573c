---------------------------- MODULE MCSpoolPending ----------------------------
(* Values for TLC: one tag is registered to a spool, another is not.       *)
EXTENDS SpoolPending

CONSTANTS t1, t2, s1, s2

MCTags    == {t1, t2}
MCKnown   == {t1}
MCSpools  == {s1, s2}
MCSpoolOf == [t \in MCKnown |-> s1]
===============================================================================

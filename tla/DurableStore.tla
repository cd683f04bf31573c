----------------------------- MODULE DurableStore -----------------------------
(***************************************************************************)
(* What SaveVariableManager (mmu_utils.py) promises its callers: a map     *)
(* that reads back what was last written to it, over a disk that follows.  *)
(* A key is `dirty' from the moment it is written until the manager knows  *)
(* its value is on disk; a restart loses the writes of dirty keys only.    *)
(***************************************************************************)
CONSTANTS
    Keys,       \* the persisted variables
    Contents    \* what a key can hold, its absence included

VARIABLES
    value,      \* what get() returns for each key
    disk,       \* what the file holds
    dirty,      \* keys whose value may not be on disk
    started     \* the process has finished starting

vars == <<value, disk, dirty, started>>

Maps == [Keys -> Contents]

AgreeOff(K, f, g) == \A k \in Keys \ K : f[k] = g[k]

Init ==
    /\ disk \in Maps
    /\ value = disk
    /\ dirty = {}
    /\ started = FALSE

(* Some keys are written, all at once. *)
Update ==
    \E K \in SUBSET Keys :
        /\ value' \in Maps /\ AgreeOff(K, value, value')
        /\ dirty' = dirty \cup K
        /\ UNCHANGED <<disk, started>>

(* The file is written: only dirty keys can change on disk. *)
Write ==
    /\ disk' \in Maps /\ AgreeOff(dirty, disk, disk')
    /\ UNCHANGED <<value, dirty, started>>

(* Keys whose value is on disk are known to be. *)
Confirm ==
    /\ dirty' \subseteq dirty
    /\ \A k \in dirty \ dirty' : disk[k] = value[k]
    /\ UNCHANGED <<value, disk, started>>

(* The process ends, perhaps with a last write, and starts from the file. *)
Restart ==
    /\ disk' \in Maps /\ AgreeOff(dirty, disk, disk')
    /\ value' = disk'
    /\ dirty' = {}
    /\ started' = FALSE

Start == started' = TRUE /\ UNCHANGED <<value, disk, dirty>>

Next == Update \/ Write \/ Confirm \/ Restart \/ Start

Spec == Init /\ [][Next]_vars

(* A key the manager no longer journals is on disk. *)
CleanOnDisk == \A k \in Keys \ dirty : disk[k] = value[k]
===============================================================================

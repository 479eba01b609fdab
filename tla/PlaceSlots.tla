----------------------------- MODULE PlaceSlots ------------------------------
(***************************************************************************)
(* place with the slots of the computer it is called on: placeCmd          *)
(* (apps/orchd/main.go) hands it what cad collected of that machine.       *)
(***************************************************************************)
EXTENDS Place, Capacity

(* Each call's slots are those of its machine.                             *)
ASSUME SlotsAssumption ==
    \A i \in Inputs : i.machine \in Machine /\ i.slots = Collected(i.machine)

(* The slots place goes by are those the computer has room for, whatever   *)
(* cgroup cad is in and however close the numbers are to a limit: as many  *)
(* tasks fit beside the reserve, and not one more.  A negative reserve,    *)
(* which loadPolicy lets through, says nothing in a cgroup: free memory    *)
(* below zero counts as zero before the reserve is taken from it.          *)
SlotsExact ==
    in.machine.gate.reserve >= 0 \/ in.machine.memoryMax = NoLimit =>
        Exact(in.slots, in.machine)
=============================================================================

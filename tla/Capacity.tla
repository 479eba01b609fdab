------------------------------- MODULE Capacity -------------------------------
(***************************************************************************)
(* The slots of the computer cad runs on (apps/cad/capacity.go): how many  *)
(* tasks of the policy's gate it has room for, which is all place asks of  *)
(* the capacity topic.  Arithmetic only; where the numbers are read from   *)
(* is not modelled, nor is the load, which decides nothing.                *)
(* Memory is in MB, but in Units a MB for a cgroup, whose files are in     *)
(* bytes; the gate's cpus, a float, are in tenths.  NoLimit stands for a   *)
(* missing file, "max", a nil maxSlots, and a CAD_SLOTS unset or invalid.  *)
(***************************************************************************)
EXTENDS Integers

CONSTANT NoLimit

ASSUME CapacityAssumption == NoLimit \notin Int

Units == 2
Gate == [memory : Int, cpus : Int, reserve : Int, maxSlots : Int \cup {NoLimit}]
Machine == [free : Nat, cpus : Nat, memoryMax : Nat \cup {NoLimit}, memoryCurrent : Nat,
            quota : Nat \cup {NoLimit}, period : Nat \ {0}, override : Int \cup {NoLimit},
            gate : Gate]

Least(a, b) == IF b # NoLimit /\ b < a THEN b ELSE a

(* How often b goes into a, rounded down, also below zero.                 *)
(* Mutant: a task begun counts.                                            *)
Begun(a, b) == -((-a) \div b)
Whole(a, b) == a \div b

(* applyCgroup: the cgroup's limits, if it has any; a cpu begun is a cpu.  *)
FreeMB(m) ==
    IF m.memoryMax = NoLimit THEN m.free
    ELSE LET left == Least(m.free, Whole(m.memoryMax - m.memoryCurrent, Units))
         IN IF left < 0 THEN 0 ELSE left
Cpus(m) == IF m.quota = NoLimit THEN m.cpus ELSE Least(m.cpus, -Whole(-m.quota, m.period))

(* slots.                                                                  *)
Fitting(free, cpus, g) ==
    Least(Least(Whole(free - g.reserve, g.memory), Whole(10 * cpus, g.cpus)), g.maxSlots)
Slots(free, cpus, g, override) ==
    CASE override # NoLimit /\ override < 0 -> 0
      [] override # NoLimit /\ override >= 0 -> override
      [] override = NoLimit /\ (g.memory <= 0 \/ g.cpus <= 0) -> 0
      [] OTHER -> IF Fitting(free, cpus, g) < 0 THEN 0 ELSE Fitting(free, cpus, g)

(* collectCapacity.                                                        *)
Collected(m) == Slots(FreeMB(m), Cpus(m), m.gate, m.override)

-----------------------------------------------------------------------------
(* The reference: there is room for n tasks when all of them leave the     *)
(* reserve alone, on the host and in the cgroup, when the cpus suffice, if *)
(* some of the last one the quota touches may be used, and when the policy *)
(* allows so many.                                                         *)
Room(n, m) ==
    LET need == n * m.gate.memory + m.gate.reserve IN
      /\ need <= m.free
      /\ m.memoryMax # NoLimit => Units * need + m.memoryCurrent <= m.memoryMax
      /\ n * m.gate.cpus <= 10 * m.cpus
      /\ \A c \in 0 .. m.cpus :
           m.quota # NoLimit /\ c * m.period >= m.quota => n * m.gate.cpus <= 10 * c
      /\ m.gate.maxSlots # NoLimit => n <= m.gate.maxSlots

(* The slots are the tasks there is room for, and one more has none.       *)
Exact(slots, m) ==
    \/ m.override # NoLimit /\ slots = IF m.override < 0 THEN 0 ELSE m.override
    \/ /\ m.override = NoLimit
       /\ IF m.gate.memory <= 0 \/ m.gate.cpus <= 0 THEN slots = 0
          ELSE /\ slots \in Nat
               /\ slots > 0 => Room(slots, m)
               /\ ~Room(slots + 1, m)
=============================================================================

---------------------------- MODULE MCOutboxSync ----------------------------
(* Instances of OutboxSync small enough for TLC. *)
EXTENDS OutboxSync, TLC

CONSTANTS i1, k1, k2

(* Both operations acknowledge the same incident. *)
SameTarget == [o \in Op |-> i1]

SlotSymmetry == Permutations(Slot)
=============================================================================

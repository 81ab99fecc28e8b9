------------------------- MODULE MCInventoryLedger --------------------------
(* Instances of InventoryLedger small enough for TLC. *)
EXTENDS InventoryLedger, TLC

CONSTANTS s1, s2

(* A lot on order, and one partly reserved and damaged. *)
TwoLots ==
    {[onHand |-> 0, reserved |-> 0, quarantined |-> 0, damaged |-> 0, status |-> "ON_ORDER"],
     [onHand |-> 2, reserved |-> 1, quarantined |-> 0, damaged |-> 1, status |-> "RESERVED"]}

SessionSymmetry == Permutations(Session)
=============================================================================

------------------------- MODULE MCAssetMaintenance -------------------------
(* Instances of AssetMaintenance small enough for TLC. *)
EXTENDS AssetMaintenance, TLC

CONSTANTS s1, s2, o1, o2, o3

(* An asset in use at the base. *)
InUse == {[status |-> "IN_USE", location |-> "base"]}

Symmetry == Permutations(Session) \cup Permutations(Order)
=============================================================================

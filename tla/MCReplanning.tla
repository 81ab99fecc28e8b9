---------------------------- MODULE MCReplanning ----------------------------
(* Instances of ReplanningHistory small enough for TLC. *)
EXTENDS ReplanningHistory, TLC

CONSTANTS p1, r1, r2, s1, s2

(* Two recommendations compete on one replan: a reassignment with two        *)
(* domain commits and an asset swap with none.                               *)
OneReplan == [r \in {r1, r2} |-> p1]
TwoActions == (r1 :> "REASSIGN_PERSONNEL") @@ (r2 :> "REASSIGN_ASSET")

SessionSymmetry == Permutations(Session)
=============================================================================

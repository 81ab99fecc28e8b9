---------------------------- MODULE MCTimeline ----------------------------
(* An instance of Timeline small enough for TLC. *)
EXTENDS Timeline

CONSTANTS l1, c1, i1

OnLeg == [l \in Leg |-> Consignment]
Disrupted == [i \in Incident |-> l1]
=============================================================================

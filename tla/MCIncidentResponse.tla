------------------------- MODULE MCIncidentResponse --------------------------
(* Instances of IncidentResponse small enough for TLC. *)
EXTENDS IncidentResponse, TLC

CONSTANTS plain, annotated, i1, s1, s2, location, asset, lot, consignment, leg

KindOf ==
    [t \in Target |->
        CASE t = location    -> "LOCATION"
          [] t = asset       -> "ASSET"
          [] t = lot         -> "INVENTORY_STOCK_LOT"
          [] t = consignment -> "CARGO_CONSIGNMENT"
          [] t = leg         -> "TRANSPORT_LEG"]

(* The lot is to be quarantined beyond what it has, the leg delayed by an hour. *)
WantedOf == [t \in Target |-> IF t = lot THEN 2 ELSE IF t = leg THEN 1 ELSE 0]

Symmetry == Permutations(Session) \cup Permutations(Metadata)
=============================================================================

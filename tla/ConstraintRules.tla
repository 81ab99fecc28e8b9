-------------------------- MODULE ConstraintRules ---------------------------
(***************************************************************************)
(* The evaluators of operational constraints (services/constraints): for   *)
(* every constraint, a rule that reads the records it is about and answers *)
(* SATISFIED, VIOLATED or NOT_EVALUABLE.                                   *)
(*                                                                         *)
(* The rules also read records that other components write: assets, cargo, *)
(* stock lots, documents and transport legs.  These are kept in supply,    *)
(* which the other components' operations may change at any time.          *)
(***************************************************************************)
EXTENDS Campaign, Sequences, FiniteSetsExt

CONSTANTS
    Asset, Cargo, Lot, Document, Leg,   \* the supplies there may be
    SupplyRows,                         \* [Supply -> the rows a supply may have]
    Constraint,                         \* the constraints on record
    ConstraintRow,                      \* [Constraint -> the row of the constraint]
    Dependencies                        \* the tables of dependencies there may be

Supply == Asset \cup Cargo \cup Lot \cup Document \cup Leg

VARIABLES
    supply,     \* [Supply -> its row]
    deps        \* the table of dependencies: a sequence of edges, never written

ConstraintState == {"SATISFIED", "VIOLATED", "NOT_EVALUABLE"}

AssetStatus == DOMAIN ALLOWED_ASSET_TRANSITIONS

(* The statuses the rules take for unserviceable.  None of them is a status *)
(* an asset can have.                                                       *)
UnserviceableStatus == {"DAMAGED", "LOST", "IN_MAINTENANCE", "DECOMMISSIONED", "UNAVAILABLE"}

SupplyExists(s) == supply[s] # NoRow

-----------------------------------------------------------------------------
(* The dependencies of a record. *)
Outgoing(r, relationship) ==
    {i \in DOMAIN deps : deps[i].from = r /\ deps[i].rel = relationship}

Required(m) == {deps[i].to : i \in Outgoing(m, "REQUIRES")}

Windows(subject) == {w \in Window : Exists(w) /\ rows[w].subject = subject}

(* The deadline of the mission against the windows it has; the deadline is *)
(* the one of the mission object the request holds.                        *)
EvaluateMissionRequiredBy(c, deadline) ==
    LET late == \E w \in Windows(c.subject) : rows[w].closeAt > deadline
    IN  {IF ~Exists(c.subject) THEN "NOT_EVALUABLE"
         ELSE IF deadline # NoDeadline /\ late THEN "VIOLATED" ELSE "SATISFIED"}

Unserviceable(a) == SupplyExists(a) /\ supply[a].status \in UnserviceableStatus

(* The asset the constraint names and all that the mission requires. *)
EvaluateMissionResourceRequired(c) ==
    LET needs == Required(c.subject)
        named == c.asset # None /\ (~SupplyExists(c.asset) \/ Unserviceable(c.asset))
        unmet == \E a \in needs \cap Asset : Unserviceable(a)
        unknown == \/ \E a \in needs \cap Asset : ~SupplyExists(a)
                   \/ \E t \in needs \cap Team : ~Exists(t)
    IN  {IF named \/ unmet THEN "VIOLATED" ELSE IF unknown THEN "NOT_EVALUABLE" ELSE "SATISFIED"}

MembersOf(t) == {p \in Person : Exists(p) /\ rows[p].team = t}

EvaluatePersonnelStaffing(c) ==
    LET members == MembersOf(c.subject)
        roles == {rows[p].role : p \in members}
    IN  {IF \/ Cardinality(members) < c.floor
            \/ \E p \in members : rows[p].readiness \in {"UNAVAILABLE", "NOT_CLEARED"}
            \/ ~(c.roles \subseteq roles)
         THEN "VIOLATED" ELSE "SATISFIED"}

EvaluateCargoEtaDeadline(c) ==
    LET row == supply[c.subject]
        latest == IF c.deadline # NoDeadline THEN c.deadline ELSE row.requiredBy
    IN  {IF ~SupplyExists(c.subject) \/ row.eta = NoDeadline \/ latest = NoDeadline
         THEN "NOT_EVALUABLE"
         ELSE IF row.eta > latest THEN "VIOLATED" ELSE "SATISFIED"}

EvaluateAssetAvailability(c) ==
    {IF ~SupplyExists(c.subject) THEN "NOT_EVALUABLE"
     ELSE IF Unserviceable(c.subject) \/ (c.maxHours # 0 /\ c.hours > c.maxHours)
     THEN "VIOLATED" ELSE "SATISFIED"}

(* What the lots of a stock have left in all. *)
Unreserved(stock, lots) ==
    MapThenSumSet(LAMBDA l : stock[l].onHand - stock[l].reserved, lots)

(* The stock of a place, or anywhere, of an item, or of any; what is quarantined *)
(* or damaged counts as available.                                              *)
EvaluateInventoryAvailability(c) ==
    LET lots == {l \in Lot : /\ SupplyExists(l)
                             /\ c.subject \in {None, supply[l].at}
                             /\ c.item \in {None, supply[l].item}}
    IN  {IF lots = {} THEN "NOT_EVALUABLE"
         ELSE IF Unreserved(supply, lots) < c.floor THEN "VIOLATED" ELSE "SATISFIED"}

EvaluateDocumentValidity(c) ==
    {IF c.document = None THEN "SATISFIED"
     ELSE IF /\ SupplyExists(c.document)
             /\ supply[c.document].status \in {"APPROVED", "RATIFIED", "VALID", "ACTIVE"}
     THEN "SATISFIED" ELSE "VIOLATED"}

(* Whatever the leg carries, its capacity is not looked at. *)
EvaluateTransportCapacity(c) == {"NOT_EVALUABLE"}

(* The first window of the subject that the database returns, in no order. *)
EvaluateFirstWindow(c) ==
    IF Windows(c.subject) = {} THEN {"NOT_EVALUABLE"}
    ELSE {IF rows[w].status = "OPEN" THEN "SATISFIED" ELSE "VIOLATED" : w \in Windows(c.subject)}

EvaluateLocationAccess(c) == EvaluateFirstWindow(c)

EvaluateTimeWindow(c) == EvaluateFirstWindow(c)

EvaluateResourceRunwayHorizon(c) ==
    {IF ~SupplyExists(c.subject) \/ supply[c.subject].runway = "NO_CONSUMPTION_OBSERVED"
     THEN "NOT_EVALUABLE"
     ELSE IF supply[c.subject].runway \in {"RESUPPLY_GAP", "AT_RISK", "NO_INBOUND_SCHEDULED"}
     THEN "VIOLATED" ELSE "SATISFIED"}

(* RULE_REGISTRY: the answers the rule of a constraint may give. *)
EvaluateConstraint(id, deadline) ==
    LET c == ConstraintRow[id] IN
    CASE c.rule = "MISSION_REQUIRED_BY"       -> EvaluateMissionRequiredBy(c, deadline)
      [] c.rule = "MISSION_RESOURCE_REQUIRED" -> EvaluateMissionResourceRequired(c)
      [] c.rule = "PERSONNEL_STAFFING"        -> EvaluatePersonnelStaffing(c)
      [] c.rule = "CARGO_ETA_DEADLINE"        -> EvaluateCargoEtaDeadline(c)
      [] c.rule = "ASSET_AVAILABILITY"        -> EvaluateAssetAvailability(c)
      [] c.rule = "INVENTORY_AVAILABILITY"    -> EvaluateInventoryAvailability(c)
      [] c.rule = "DOCUMENT_VALIDITY"         -> EvaluateDocumentValidity(c)
      [] c.rule = "TRANSPORT_CAPACITY"        -> EvaluateTransportCapacity(c)
      [] c.rule = "LOCATION_ACCESS"           -> EvaluateLocationAccess(c)
      [] c.rule = "TIME_WINDOW"               -> EvaluateTimeWindow(c)
      [] c.rule = "RESOURCE_RUNWAY_HORIZON"   -> EvaluateResourceRunwayHorizon(c)
      [] OTHER                                -> {"NOT_EVALUABLE"}

(* The active constraints about an entity. *)
ConstraintsFor(subject) ==
    {id \in Constraint : ConstraintRow[id].active /\ ConstraintRow[id].subject = subject}
=============================================================================

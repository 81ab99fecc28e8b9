-------------------------- MODULE IncidentResponse ---------------------------
(***************************************************************************)
(* Incidents, the propagation of their impact to the domain records they   *)
(* reference, and their escalation into replans (backend domains           *)
(* incidents and control_tower/incident_escalation), under concurrent      *)
(* requests.                                                               *)
(*                                                                         *)
(* A propagation is not one transaction: the domain service it calls for a *)
(* reference commits by itself, and the propagation records are written    *)
(* and committed after the last reference.  An escalation propagates first *)
(* and looks for an active replan twice before it inserts one.  Each       *)
(* request runs in a session of its own and may die between any two        *)
(* commits.  The read and the commit of one domain service call are one    *)
(* step here; InventoryLedger takes them apart.                            *)
(***************************************************************************)
EXTENDS Naturals, FiniteSets, Sequences, DomainTransitions

CONSTANTS
    Incident,
    Target,          \* the domain records incidents may reference
    Kind,            \* [Target -> IncidentReferenceType]
    Wanted,          \* [Target -> Nat]: "quantity" or "delay_hours" of a reference, 0: none
    Session,         \* concurrent requests
    Severity,        \* the severities incidents have
    Metadata,        \* what the operational_metadata of an incident may hold
    Requested,       \* the statuses transitions are requested to
    OperatorStatus,  \* the statuses operators give to targets meanwhile
    MaxReferences,   \* bound: what an incident references
    MaxStock,        \* bound: the available quantity of a lot
    MaxRequests,     \* bound: requests served
    MaxReplans       \* bound: replans that exist when an escalation starts

VARIABLES
    incident,    \* [Incident -> status, severity, timestamps that are set, metadata]
    closings,    \* [Incident -> the IncidentClosed events, each with its audit, on file]
    references,  \* [Incident -> the targets it references]
    status,      \* [Target -> the status of the domain record]
    available,   \* [Target -> the available quantity of a lot]
    records,     \* [Incident -> its propagation records]
    replans,     \* the replans incidents were escalated to, in order of creation
    request,     \* [Session -> the request served in it]
    effects,     \* history: [Incident -> [Target -> domain changes made for it]]
    overlapped,  \* history: a request has started while another was served
    served       \* history: the number of requests that have started

history == <<overlapped, served>>
domain  == <<status, available, effects>>
vars    == <<incident, closings, references, status, available, records, replans,
             request, effects, overlapped, served>>

-----------------------------------------------------------------------------
IncidentSeverity == {"LOW", "MEDIUM", "HIGH", "CRITICAL"}

IncidentReferenceType == {"LOCATION", "ASSET", "INVENTORY_STOCK_LOT", "CARGO_CONSIGNMENT",
                          "TRANSPORT_LEG"}

PropagationStatus == {"APPLIED", "SKIPPED", "REJECTED", "REQUIRES_OPERATOR_ACTION"}

PropagationAction == {"RESTRICT_LOCATION", "ISOLATE_LOCATION", "MAINTENANCE_ASSET",
                      "QUARANTINE_ASSET", "QUARANTINE_STOCK", "DELAY_TRANSPORT", "REVIEW_CARGO"}

ASSUME ConstantsAssumption ==
    /\ Kind \in [Target -> IncidentReferenceType] /\ Wanted \in [Target -> Nat]
    /\ Severity \subseteq IncidentSeverity /\ Requested \subseteq IncidentStatus
    /\ MaxReferences \in Nat
    /\ MaxStock \in Nat /\ MaxRequests \in Nat /\ MaxReplans \in Nat

ASSUME SessionAssumption == IsFiniteSet(Session)

Stamps == {"ACKNOWLEDGED", "RESOLVED", "CLOSED"}
(* updated_at, which every write sets, is left out. *)
IncidentRow == [status : IncidentStatus, severity : Severity, stamped : SUBSET Stamps,
                metadata : Metadata]

(* A propagation's result for a reference, and the record made of it. *)
Result == [target : Target, action : PropagationAction, status : PropagationStatus]

(* referenced: history, whether the incident had references when escalated. *)
Replan == [incident : Incident, active : BOOLEAN, referenced : BOOLEAN]

Idle == [step |-> "idle"]
Writing == [step : {"write"}, incident : Incident, read : IncidentRow, write : IncidentRow]
Propagating == [step : {"propagate"}, incident : Incident, severity : Severity,
                pending : SUBSET Target, results : SUBSET Result,
                escalating : BOOLEAN, referenced : BOOLEAN]
Escalating == [step : {"assess", "create"}, incident : Incident, referenced : BOOLEAN]

(* The status a target has before anything happens to it. *)
Initially == [LOCATION |-> "AVAILABLE", ASSET |-> "IN_USE", INVENTORY_STOCK_LOT |-> "AVAILABLE",
              CARGO_CONSIGNMENT |-> "IN_TRANSIT", TRANSPORT_LEG |-> "READY"]

ALLOWED ==
    [LOCATION |-> ALLOWED_LOCATION_TRANSITIONS, ASSET |-> ALLOWED_ASSET_TRANSITIONS,
     TRANSPORT_LEG |-> ALLOWED_TRANSPORT_TRANSITIONS]

Allowed(t, new) == Kind[t] \in DOMAIN ALLOWED /\ new \in ALLOWED[Kind[t]][status[t]]

Request == {Idle} \cup Writing \cup Propagating \cup Escalating

TypeOK ==
    /\ incident \in [Incident -> IncidentRow] /\ closings \in [Incident -> Nat]
    /\ references \in [Incident -> SUBSET Target]
    /\ DOMAIN status = Target
    /\ \A t \in Target : Kind[t] \in DOMAIN ALLOWED => status[t] \in DOMAIN ALLOWED[Kind[t]]
    /\ available \in [Target -> 0..MaxStock]
    /\ records \in [Incident -> SUBSET Result]
    /\ replans \in Seq(Replan)
    /\ request \in [Session -> Request]
    /\ effects \in [Incident -> [Target -> Nat]]
    /\ overlapped \in BOOLEAN /\ served \in 0..MaxRequests

-----------------------------------------------------------------------------
Init ==
    /\ incident \in [Incident -> [status : {"OPEN"}, severity : Severity, stamped : {{}},
                                  metadata : Metadata]]
    /\ closings = [i \in Incident |-> 0]
    /\ references = [i \in Incident |-> {}]
    /\ status = [t \in Target |-> Initially[Kind[t]]]
    /\ available = [t \in Target |-> IF Kind[t] = "INVENTORY_STOCK_LOT" THEN MaxStock ELSE 0]
    /\ records = [i \in Incident |-> {}]
    /\ replans = <<>>
    /\ request = [k \in Session |-> Idle]
    /\ effects = [i \in Incident |-> [t \in Target |-> 0]]
    /\ overlapped = FALSE /\ served = 0

Busy == \E k \in Session : request[k] # Idle

(* A request starts in session k. *)
Begin(k, r) ==
    /\ request[k] = Idle
    /\ request' = [request EXCEPT ![k] = r]
    /\ overlapped' = (overlapped \/ Busy)
    /\ served < MaxRequests /\ served' = served + 1

-----------------------------------------------------------------------------
(* Incident lifecycle.  A session writes the columns it changed. *)

(* Mutant of Changed: the timestamps are forgotten. *)
Changed_Status(row, read, write) == [row EXCEPT !.status = write.status]

(* Each timestamp is a column of its own, and is set once; the metadata is  *)
(* one column, whatever was merged into it.                                 *)
Changed(row, read, write) ==
    [status   |-> IF write.status = read.status THEN row.status ELSE write.status,
     severity |-> IF write.severity = read.severity THEN row.severity ELSE write.severity,
     stamped  |-> row.stamped \cup (write.stamped \ read.stamped),
     metadata |-> IF write.metadata = read.metadata THEN row.metadata ELSE write.metadata]

(* Mutant of MayBecome: any transition is fine. *)
MayBecome_Any(old, new) == TRUE

(* validate_incident_transition: the status an incident has may be asked for. *)
MayBecome(old, new) == old = new \/ new \in INCIDENT_ALLOWED_TRANSITIONS[old]

(* metadata: what the one on record and the one of the request merge to. *)
BeginTransition(k, i, target, metadata) ==
    /\ MayBecome(incident[i].status, target)
    /\ Begin(k, [step |-> "write", incident |-> i, read |-> incident[i],
                 write |-> [status |-> target, severity |-> incident[i].severity,
                            stamped |-> incident[i].stamped \cup ({target} \cap Stamps),
                            metadata |-> metadata]])
    /\ UNCHANGED <<incident, closings, references, domain, records, replans>>

BeginUpdate(k, i, severity, metadata) ==
    /\ incident[i].status # "CLOSED"
    /\ Begin(k, [step |-> "write", incident |-> i, read |-> incident[i],
                 write |-> [incident[i] EXCEPT !.severity = severity, !.metadata = metadata]])
    /\ UNCHANGED <<incident, closings, references, domain, records, replans>>

(* A transition that asks for CLOSED, of an incident that is closed already *)
(* too, is filed as a closing; an update never is.                          *)
CommitIncident(k) ==
    LET r == request[k] IN
        /\ r.step = "write"
        /\ incident' = [incident EXCEPT ![r.incident] = Changed(@, r.read, r.write)]
        /\ closings' = [closings EXCEPT ![r.incident] =
                           IF r.write.status = "CLOSED" THEN @ + 1 ELSE @]
        /\ request' = [request EXCEPT ![k] = Idle]
        /\ UNCHANGED <<references, domain, records, replans, history>>

AddReference(i, t) ==
    /\ incident[i].status # "CLOSED" /\ t \notin references[i]
    /\ Cardinality(references[i]) < MaxReferences
    /\ references' = [references EXCEPT ![i] = @ \cup {t}]
    /\ overlapped' = (overlapped \/ Busy)
    /\ UNCHANGED <<incident, closings, domain, records, replans, request, served>>

-----------------------------------------------------------------------------
(* Propagation. *)

ACTIVE_PROPAGATION_STATUSES == {"OPEN", "ACKNOWLEDGED", "MITIGATING"}

Severe(severity) == severity \in {"HIGH", "CRITICAL"}

(* What the severity of an incident asks of a location or an asset. *)
TargetStatus(t, severity) ==
    IF Kind[t] = "LOCATION" THEN IF severity = "CRITICAL" THEN "INACCESSIBLE" ELSE "RESTRICTED"
    ELSE IF Kind[t] = "ASSET" THEN IF severity = "CRITICAL" THEN "QUARANTINED" ELSE "MAINTENANCE"
    ELSE "DELAYED"

(* The action a result is filed under. *)
ActionOn(t, severity) ==
    IF Kind[t] = "LOCATION" THEN
        IF severity = "CRITICAL" THEN "ISOLATE_LOCATION" ELSE "RESTRICT_LOCATION"
    ELSE IF Kind[t] = "ASSET" THEN
        IF severity = "CRITICAL" /\ status[t] # "RETIRED" THEN "QUARANTINE_ASSET"
        ELSE "MAINTENANCE_ASSET"
    ELSE IF Kind[t] = "INVENTORY_STOCK_LOT" THEN "QUARANTINE_STOCK"
    ELSE IF Kind[t] = "CARGO_CONSIGNMENT" THEN "REVIEW_CARGO"
    ELSE "DELAY_TRANSPORT"

(* _propagate_location; a retired asset, which no transition leaves, is      *)
(* rejected before the severity is looked at.                                *)
StatusVerdict(t, severity) ==
    IF status[t] = "RETIRED" THEN "REJECTED"
    ELSE IF ~Severe(severity) \/ status[t] = TargetStatus(t, severity) THEN "SKIPPED"
    ELSE IF Allowed(t, TargetStatus(t, severity)) THEN "APPLIED" ELSE "REJECTED"

AlreadyApplied(i, t) == \E r \in records[i] : r.target = t /\ r.status = "APPLIED"

StockVerdict(i, t, severity) ==
    IF ~AlreadyApplied(i, t) /\ Severe(severity) /\ available[t] > 0 THEN "APPLIED"
    ELSE "SKIPPED"

DelayVerdict(t) ==
    IF status[t] \in {"CLOSED", "CANCELLED", "ARRIVED"} THEN "REJECTED"
    ELSE IF Wanted[t] = 0 THEN "REQUIRES_OPERATOR_ACTION"
    ELSE IF Allowed(t, "DELAYED") THEN "APPLIED" ELSE "REJECTED"

(* _propagate_single_reference: the handler of the target's kind decides. *)
Verdict(i, t, severity) ==
    IF Kind[t] \in {"LOCATION", "ASSET"} THEN StatusVerdict(t, severity)
    ELSE IF Kind[t] = "INVENTORY_STOCK_LOT" THEN StockVerdict(i, t, severity)
    ELSE IF Kind[t] = "CARGO_CONSIGNMENT" THEN "REQUIRES_OPERATOR_ACTION"
    ELSE DelayVerdict(t)

(* Mutant of Quantity: whatever the reference asks for. *)
Quantity_Wanted(t) == Wanted[t]

(* The quantity quarantined: what the reference asks for, if there is as much. *)
Quantity(t) == IF Wanted[t] \in 1..available[t] THEN Wanted[t] ELSE available[t]

Propagation(i, escalating) ==
    [step |-> "propagate", incident |-> i, severity |-> incident[i].severity,
     pending |-> references[i], results |-> {}, escalating |-> escalating,
     referenced |-> references[i] # {}]

BeginPropagation(k, i) ==
    /\ incident[i].status \in ACTIVE_PROPAGATION_STATUSES
    /\ Begin(k, Propagation(i, FALSE))
    /\ UNCHANGED <<incident, closings, references, domain, records, replans>>

(* The request r when the reference to t has been handled: the result is   *)
(* kept until all have been, severity is that of the incident as last read. *)
Handled(r, t, severity, outcome) ==
    [step |-> "propagate", incident |-> r.incident, severity |-> severity,
     pending |-> r.pending \ {t},
     results |-> r.results \cup
         {[target |-> t, action |-> ActionOn(t, r.severity), status |-> outcome]},
     escalating |-> r.escalating, referenced |-> r.referenced]

(* A handler that calls no domain service writes nothing. *)
SkipReference(k, t) ==
    LET r == request[k] IN
        /\ r.step = "propagate" /\ t \in r.pending
        /\ Verdict(r.incident, t, r.severity) # "APPLIED"
        /\ request' = [request EXCEPT ![k] =
              Handled(r, t, r.severity, Verdict(r.incident, t, r.severity))]
        /\ UNCHANGED <<incident, closings, references, domain, records, replans, history>>

(* The domain service changes the record and commits; the commit expires the *)
(* session's objects, so the incident is read anew for the next reference.   *)
ApplyReference(k, t) ==
    LET r == request[k]
        i == r.incident
    IN  /\ r.step = "propagate" /\ t \in r.pending
        /\ Verdict(i, t, r.severity) = "APPLIED"
        /\ \/ /\ Kind[t] = "INVENTORY_STOCK_LOT"
              /\ available' = [available EXCEPT ![t] = @ - Quantity(t)]
              /\ UNCHANGED status
           \/ /\ Kind[t] # "INVENTORY_STOCK_LOT"
              /\ status' = [status EXCEPT ![t] = TargetStatus(t, r.severity)]
              /\ UNCHANGED available
        /\ effects' = [effects EXCEPT ![i][t] = @ + 1]
        /\ request' = [request EXCEPT ![k] = Handled(r, t, incident[i].severity, "APPLIED")]
        /\ UNCHANGED <<incident, closings, references, records, replans, history>>

(* Mutant of Filed: every result is filed as applied. *)
Filed_Applied(old, results) == old \cup {[r EXCEPT !.status = "APPLIED"] : r \in results}

(* _persist_propagation_record: one record for a target and an action, the   *)
(* last result of which replaces the one before.                             *)
Filed(old, results) ==
    {o \in old : \A r \in results : r.target # o.target \/ r.action # o.action} \cup results

FinishPropagation(k) ==
    LET r == request[k] IN
        /\ r.step = "propagate" /\ r.pending = {}
        /\ records' = [records EXCEPT ![r.incident] = Filed(@, r.results)]
        /\ request' = [request EXCEPT ![k] =
              IF r.escalating THEN [step |-> "assess", incident |-> r.incident,
                                    referenced |-> r.referenced]
              ELSE Idle]
        /\ UNCHANGED <<incident, closings, references, domain, replans, history>>

-----------------------------------------------------------------------------
(* Escalation. *)

(* Mutant of HasActiveReplan: the terminal replans are looked up instead. *)
HasActiveReplan_Terminal(i) ==
    \E n \in DOMAIN replans : replans[n].incident = i /\ ~replans[n].active

HasActiveReplan(i) == \E n \in DOMAIN replans : replans[n].incident = i /\ replans[n].active

(* Mutant of NeedsPropagation: a severity that triggers nothing is not propagated. *)
NeedsPropagation_Severe(i) ==
    references[i] # {} /\ records[i] = {} /\ Severe(incident[i].severity)

NeedsPropagation(i) == references[i] # {} /\ records[i] = {}

(* escalate_incident up to the propagation it may start with; with an active *)
(* replan it answers that one and changes nothing.                           *)
BeginEscalation(k, i) ==
    /\ incident[i].status \in ACTIVE_PROPAGATION_STATUSES
    /\ ~HasActiveReplan(i)
    /\ Len(replans) < MaxReplans
    /\ Begin(k, IF NeedsPropagation(i) THEN Propagation(i, TRUE)
                ELSE [step |-> "assess", incident |-> i, referenced |-> references[i] # {}])
    /\ UNCHANGED <<incident, closings, references, domain, records, replans>>

(* The impact has been assessed; create_replan_request looks once more. *)
CheckReplan(k) ==
    LET r == request[k] IN
        /\ r.step = "assess"
        /\ request' = [request EXCEPT ![k] =
              IF HasActiveReplan(r.incident) THEN Idle
              ELSE [step |-> "create", incident |-> r.incident, referenced |-> r.referenced]]
        /\ UNCHANGED <<incident, closings, references, domain, records, replans, history>>

(* The replan's code is one more than the number of replans, counted when it *)
(* is inserted; the unique key sends whoever counted too early to Abort.     *)
RequestReplan(k) ==
    LET r == request[k] IN
        /\ r.step = "create"
        /\ replans' = Append(replans, [incident |-> r.incident, active |-> TRUE,
                                       referenced |-> r.referenced])
        /\ request' = [request EXCEPT ![k] = Idle]
        /\ UNCHANGED <<incident, closings, references, domain, records, history>>

-----------------------------------------------------------------------------
(* An error, an impact analysis that fails, a worker that dies: what has     *)
(* been committed stays, the rest is rolled back.                            *)
Abort(k) ==
    /\ request[k] # Idle
    /\ request' = [request EXCEPT ![k] = Idle]
    /\ UNCHANGED <<incident, closings, references, domain, records, replans, history>>

(* Operators change a record through its own service. *)
OperatorChanges(t) ==
    /\ \/ \E new \in OperatorStatus : 
              /\ Allowed(t, new) /\ new # status[t]
              /\ status' = [status EXCEPT ![t] = new]
              /\ UNCHANGED available
       \/ /\ Kind[t] = "INVENTORY_STOCK_LOT" /\ available[t] < MaxStock
          /\ available' = [available EXCEPT ![t] = @ + 1]
          /\ UNCHANGED status
    /\ overlapped' = (overlapped \/ Busy)
    /\ UNCHANGED <<incident, closings, references, records, replans, request, effects, served>>

(* Replanning ends a replan, and may take it up again (module Replanning). *)
ReplanMoves(n) ==
    /\ replans' = [replans EXCEPT ![n].active = ~@]
    /\ overlapped' = (overlapped \/ Busy)
    /\ UNCHANGED <<incident, closings, references, domain, records, request, served>>

Next ==
    \/ \E k \in Session, i \in Incident :
          \/ \E metadata \in Metadata :
                \/ \E target \in Requested : BeginTransition(k, i, target, metadata)
                \/ \E severity \in Severity : BeginUpdate(k, i, severity, metadata)
          \/ BeginPropagation(k, i) \/ BeginEscalation(k, i)
    \/ \E k \in Session :
          \/ CommitIncident(k) \/ FinishPropagation(k) \/ CheckReplan(k)
          \/ RequestReplan(k) \/ Abort(k)
          \/ \E t \in Target : SkipReference(k, t) \/ ApplyReference(k, t)
    \/ \E i \in Incident, t \in Target : AddReference(i, t)
    \/ \E t \in Target : OperatorChanges(t)
    \/ \E n \in DOMAIN replans : ReplanMoves(n)

Spec == Init /\ [][Next]_vars

-----------------------------------------------------------------------------
(* However transitions overwrite each other, an incident that is             *)
(* acknowledged, resolved or closed carries the time of that step            *)
(* (transition_incident_status).                                             *)
StampedStatus ==
    \A i \in Incident : incident[i].status \in Stamps => incident[i].status \in incident[i].stamped

(* A propagation record that says APPLIED rests on a committed change of the *)
(* target, one for every such record, whatever failed in between             *)
(* (propagate_incident_impact).                                              *)
AppliedIsTruthful ==
    \A i \in Incident, t \in Target :
        LET applied == {r.action : r \in {s \in records[i] : s.target = t /\ s.status = "APPLIED"}}
        IN  Cardinality(applied) <= effects[i][t]

(* A replan of an incident with references rests on a propagation that was   *)
(* carried through (escalate_incident, steps 5 and 9).                       *)
ReplanRestsOnPropagation ==
    \A n \in DOMAIN replans : replans[n].referenced => records[replans[n].incident] # {}

(* Requests served one after the other: an escalation adds no replan while   *)
(* the incident has an active one (escalate_incident, step 4).               *)
NoSecondEscalation ==
    [][Len(replans') > Len(replans) /\ ~overlapped =>
            \A n \in DOMAIN replans :
                ~(replans[n].active /\ replans[n].incident = replans'[Len(replans')].incident)]_vars

(* The write differs from what was read in its metadata alone. *)
Annotates(read, write) == write = [read EXCEPT !.metadata = write.metadata]

(* Requests served one after the other: a closed incident keeps its status,  *)
(* severity, timestamps and references, and nothing more is done for it or   *)
(* propagated.  Its metadata may still change, but only with one more        *)
(* IncidentClosed on file: transition_incident_status lets a closed incident *)
(* be closed again.                                                          *)
ClosedIsFinal ==
    [][\A i \in Incident : incident[i].status = "CLOSED" /\ ~overlapped =>
            /\ Annotates(incident[i], incident'[i])
            /\ incident'[i] # incident[i] => closings'[i] = closings[i] + 1
            /\ references'[i] = references[i]
            /\ effects'[i] = effects[i] /\ records'[i] = records[i]]_vars

-----------------------------------------------------------------------------
(* What the repository says and the code does not do. *)

(* propagate_incident_impact "guarantees idempotency": a transport leg is     *)
(* put back by the hours its reference asks for once, however often the       *)
(* incident is propagated.                                                    *)
DelayedOnce ==
    \A i \in Incident, t \in Target : Kind[t] = "TRANSPORT_LEG" => effects[i][t] <= 1
=============================================================================

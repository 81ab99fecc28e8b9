----------------------- MODULE IncidentResponse_proofs -----------------------
(* Proofs about IncidentResponse, for any incidents, targets and bounds and *)
(* any finite set of sessions.                                              *)
EXTENDS IncidentResponse, FiniteSetTheorems, SequenceTheorems, TLAPS

(* The actions of the records of a target that say APPLIED. *)
AppliedActions(filed, t) ==
    {r.action : r \in {s \in filed : s.target = t /\ s.status = "APPLIED"}}

(* The sessions that propagate incident i and have applied it to t. *)
Appliers(requests, i, t) ==
    {k \in Session :
        /\ requests[k].step = "propagate" /\ requests[k].incident = i
        /\ \E x \in requests[k].results : x.target = t /\ x.status = "APPLIED"}

(* What was filed as applied, and what will be, rests on domain changes. *)
Backed ==
    \A i \in Incident, t \in Target :
        /\ IsFiniteSet(AppliedActions(records[i], t))
        /\ Cardinality(AppliedActions(records[i], t)) + Cardinality(Appliers(request, i, t))
              <= effects[i][t]

(* A write keeps the timestamps, sets that of the status it enters, and changes *)
(* no more of a closed incident than its metadata; the row has every timestamp  *)
(* the request read.                                                            *)
SoundWrite(r, row) ==
    /\ r.read.stamped \subseteq row.stamped
    /\ r.read.stamped \subseteq r.write.stamped
    /\ r.write.status # r.read.status /\ r.write.status \in Stamps =>
          r.write.status \in r.write.stamped
    /\ r.read.status = "CLOSED" => Annotates(r.read, r.write)

(* A propagation has one result for a reference it has handled, none for one *)
(* it has still to handle.                                                   *)
SoundPropagation(r) ==
    /\ \A x, y \in r.results : x.target = y.target => x = y
    /\ \A x \in r.results : x.target \notin r.pending
    /\ r.referenced => r.pending # {} \/ r.results # {}

Sound(r, rows, filed) ==
    /\ r.step = "write" => SoundWrite(r, rows[r.incident])
    /\ r.step = "propagate" => SoundPropagation(r)
    /\ r.step \in {"assess", "create"} /\ r.referenced => filed[r.incident] # {}

Escalated(i, plans) == \E n \in DOMAIN plans : plans[n].incident = i /\ plans[n].active

(* What a request has read of its incident still holds. *)
Current(r, rows, plans) ==
    /\ r.step = "write" => rows[r.incident] = r.read
    /\ r.step = "propagate" => rows[r.incident].status # "CLOSED"
    /\ r.step = "create" => ~Escalated(r.incident, plans)

(* Until requests overlap, one at most is served, on current data. *)
Serial ==
    ~overlapped =>
        \A k \in Session : request[k] # Idle =>
            /\ \A j \in Session : j # k => request[j] = Idle
            /\ Current(request[k], incident, replans)

(* The inductive invariant. *)
ResponseInv ==
    /\ TypeOK
    /\ StampedStatus
    /\ \A k \in Session : Sound(request[k], incident, records)
    /\ Backed
    /\ ReplanRestsOnPropagation
    /\ Serial

-----------------------------------------------------------------------------
(* A request is known by its step. *)
LEMMA Steps ==
    ASSUME NEW r \in Request
    PROVE  /\ r = Idle \/ r \in Writing \/ r \in Propagating \/ r \in Escalating
           /\ r.step \in {"idle", "write", "propagate", "assess", "create"}
           /\ r.step = "idle" <=> r = Idle
           /\ r.step = "write" <=> r \in Writing
           /\ r.step = "propagate" <=> r \in Propagating
           /\ r.step \in {"assess", "create"} <=> r \in Escalating
<1>1. r = Idle \/ r \in Writing \/ r \in Propagating \/ r \in Escalating
  BY DEF Request
<1>2. Idle.step = "idle"
  BY DEF Idle
<1>3. r \in Writing => r.step = "write"
  BY DEF Writing
<1>4. r \in Propagating => r.step = "propagate"
  BY DEF Propagating
<1>5. r \in Escalating => r.step \in {"assess", "create"}
  BY DEF Escalating
<1> QED BY <1>1, <1>2, <1>3, <1>4, <1>5

(* The status an incident gives to a target is one such targets have. *)
LEMMA TargetStatusIsAStatus ==
    ASSUME NEW t \in Target, NEW severity, Kind[t] \in DOMAIN ALLOWED
    PROVE  TargetStatus(t, severity) \in DOMAIN ALLOWED[Kind[t]]
<1>1. DOMAIN ALLOWED = {"LOCATION", "ASSET", "TRANSPORT_LEG"}
  BY DEF ALLOWED
<1>2. CASE Kind[t] = "LOCATION"
  <2>1. ALLOWED[Kind[t]] = ALLOWED_LOCATION_TRANSITIONS
    BY <1>2 DEF ALLOWED
  <2>2. {"INACCESSIBLE", "RESTRICTED"} \subseteq DOMAIN ALLOWED_LOCATION_TRANSITIONS
    BY DEF ALLOWED_LOCATION_TRANSITIONS
  <2> QED BY <1>2, <2>1, <2>2 DEF TargetStatus
<1>3. CASE Kind[t] = "ASSET"
  <2>1. ALLOWED[Kind[t]] = ALLOWED_ASSET_TRANSITIONS
    BY <1>3 DEF ALLOWED
  <2>2. {"QUARANTINED", "MAINTENANCE"} \subseteq DOMAIN ALLOWED_ASSET_TRANSITIONS
    BY DEF ALLOWED_ASSET_TRANSITIONS
  <2> QED BY <1>3, <2>1, <2>2 DEF TargetStatus
<1>4. CASE Kind[t] = "TRANSPORT_LEG"
  <2>1. ALLOWED[Kind[t]] = ALLOWED_TRANSPORT_TRANSITIONS
    BY <1>4 DEF ALLOWED
  <2>2. "DELAYED" \in DOMAIN ALLOWED_TRANSPORT_TRANSITIONS
    BY DEF ALLOWED_TRANSPORT_TRANSITIONS
  <2> QED BY <1>4, <2>1, <2>2 DEF TargetStatus
<1> QED BY <1>1, <1>2, <1>3, <1>4

LEMMA InitialStatuses ==
    ASSUME NEW t \in Target, Kind[t] \in DOMAIN ALLOWED
    PROVE  Initially[Kind[t]] \in DOMAIN ALLOWED[Kind[t]]
<1>1. DOMAIN ALLOWED = {"LOCATION", "ASSET", "TRANSPORT_LEG"}
  BY DEF ALLOWED
<1>2. CASE Kind[t] = "LOCATION"
  <2>1. ALLOWED[Kind[t]] = ALLOWED_LOCATION_TRANSITIONS /\ Initially[Kind[t]] = "AVAILABLE"
    BY <1>2 DEF ALLOWED, Initially
  <2> QED BY <2>1 DEF ALLOWED_LOCATION_TRANSITIONS
<1>3. CASE Kind[t] = "ASSET"
  <2>1. ALLOWED[Kind[t]] = ALLOWED_ASSET_TRANSITIONS /\ Initially[Kind[t]] = "IN_USE"
    BY <1>3 DEF ALLOWED, Initially
  <2> QED BY <2>1 DEF ALLOWED_ASSET_TRANSITIONS
<1>4. CASE Kind[t] = "TRANSPORT_LEG"
  <2>1. ALLOWED[Kind[t]] = ALLOWED_TRANSPORT_TRANSITIONS /\ Initially[Kind[t]] = "READY"
    BY <1>4 DEF ALLOWED, Initially
  <2> QED BY <2>1 DEF ALLOWED_TRANSPORT_TRANSITIONS
<1> QED BY <1>1, <1>2, <1>3, <1>4

(* Transitions stay within the statuses of a kind. *)
LEMMA AllowedIsAStatus ==
    ASSUME NEW t \in Target, NEW new, TypeOK, Allowed(t, new)
    PROVE  /\ Kind[t] \in DOMAIN ALLOWED
           /\ new \in DOMAIN ALLOWED[Kind[t]]
<1>1. DOMAIN ALLOWED = {"LOCATION", "ASSET", "TRANSPORT_LEG"}
  BY DEF ALLOWED
<1>2. Kind[t] \in DOMAIN ALLOWED /\ new \in ALLOWED[Kind[t]][status[t]]
  BY DEF Allowed
<1>3. status[t] \in DOMAIN ALLOWED[Kind[t]]
  BY <1>2 DEF TypeOK
<1>4. CASE Kind[t] = "LOCATION"
  <2>1. ALLOWED[Kind[t]] = ALLOWED_LOCATION_TRANSITIONS
    BY <1>4 DEF ALLOWED
  <2>2. \A s \in DOMAIN ALLOWED_LOCATION_TRANSITIONS :
           ALLOWED_LOCATION_TRANSITIONS[s] \subseteq DOMAIN ALLOWED_LOCATION_TRANSITIONS
    BY DEF ALLOWED_LOCATION_TRANSITIONS
  <2> QED BY <1>2, <1>3, <2>1, <2>2
<1>5. CASE Kind[t] = "ASSET"
  <2>1. ALLOWED[Kind[t]] = ALLOWED_ASSET_TRANSITIONS
    BY <1>5 DEF ALLOWED
  <2>2. \A s \in DOMAIN ALLOWED_ASSET_TRANSITIONS :
           ALLOWED_ASSET_TRANSITIONS[s] \subseteq DOMAIN ALLOWED_ASSET_TRANSITIONS
    BY DEF ALLOWED_ASSET_TRANSITIONS
  <2> QED BY <1>2, <1>3, <2>1, <2>2
<1>6. CASE Kind[t] = "TRANSPORT_LEG"
  <2>1. ALLOWED[Kind[t]] = ALLOWED_TRANSPORT_TRANSITIONS
    BY <1>6 DEF ALLOWED
  <2>2. \A s \in DOMAIN ALLOWED_TRANSPORT_TRANSITIONS :
           ALLOWED_TRANSPORT_TRANSITIONS[s] \subseteq DOMAIN ALLOWED_TRANSPORT_TRANSITIONS
    BY DEF ALLOWED_TRANSPORT_TRANSITIONS
  <2> QED BY <1>2, <1>3, <2>1, <2>2
<1> QED BY <1>1, <1>2, <1>4, <1>5, <1>6

(* What a handler answers, and the action it files it under. *)
LEMMA VerdictIsAStatus ==
    ASSUME NEW i, NEW t \in Target, NEW severity
    PROVE  Verdict(i, t, severity) \in PropagationStatus /\ ActionOn(t, severity) \in PropagationAction
<1>1. StatusVerdict(t, severity) \in PropagationStatus
  BY DEF StatusVerdict, PropagationStatus
<1>2. StockVerdict(i, t, severity) \in PropagationStatus
  BY DEF StockVerdict, PropagationStatus
<1>3. DelayVerdict(t) \in PropagationStatus
  BY DEF DelayVerdict, PropagationStatus
<1>4. ActionOn(t, severity) \in PropagationAction
  BY DEF ActionOn, PropagationAction
<1> QED BY <1>1, <1>2, <1>3, <1>4 DEF Verdict, PropagationStatus

(* Stock that is quarantined is there. *)
LEMMA QuantityIsThere ==
    ASSUME NEW i, NEW t \in Target, NEW severity, TypeOK, Kind[t] = "INVENTORY_STOCK_LOT",
           Verdict(i, t, severity) = "APPLIED"
    PROVE  available[t] - Quantity(t) \in 0..MaxStock
<1>1. StockVerdict(i, t, severity) = "APPLIED"
  BY DEF Verdict
<1>2. available[t] > 0
  BY <1>1 DEF StockVerdict
<1>3. available[t] \in 0..MaxStock /\ MaxStock \in Nat /\ Wanted[t] \in Nat
  BY ConstantsAssumption DEF TypeOK
<1> QED BY <1>2, <1>3 DEF Quantity

(* Fewer sessions apply a change than before, or the same. *)
LEMMA FewerAppliers ==
    ASSUME NEW before, NEW after, NEW i, NEW t,
           Appliers(after, i, t) \subseteq Appliers(before, i, t)
    PROVE  /\ Cardinality(Appliers(before, i, t)) \in Nat
           /\ Cardinality(Appliers(after, i, t)) \in Nat
           /\ Cardinality(Appliers(after, i, t)) <= Cardinality(Appliers(before, i, t))
<1>1. Appliers(before, i, t) \subseteq Session
  BY DEF Appliers
<1>2. IsFiniteSet(Appliers(before, i, t))
  BY <1>1, SessionAssumption, FS_Subset
<1>3. /\ IsFiniteSet(Appliers(after, i, t))
      /\ Cardinality(Appliers(after, i, t)) <= Cardinality(Appliers(before, i, t))
  BY <1>2, FS_Subset
<1> QED BY <1>2, <1>3, FS_CardinalityType

(* The last result of a propagation replaces or adds one action at most. *)
LEMMA FiledActions ==
    ASSUME NEW old, NEW results, NEW t,
           \A x, y \in results : x.target = y.target => x = y
    PROVE  /\ (\A x \in results : ~(x.target = t /\ x.status = "APPLIED")) =>
                 AppliedActions(Filed(old, results), t) \subseteq AppliedActions(old, t)
           /\ \A x \in results : x.target = t /\ x.status = "APPLIED" =>
                 AppliedActions(Filed(old, results), t)
                    \subseteq AppliedActions(old, t) \cup {x.action}
  BY DEF Filed, AppliedActions

-----------------------------------------------------------------------------
LEMMA InitResponse == Init => ResponseInv
<1> SUFFICES ASSUME Init PROVE ResponseInv
  OBVIOUS
<1>1. \A k \in Session : request[k] = Idle /\ request[k].step = "idle"
  BY DEF Init, Idle
<1>2. \A i \in Incident : incident[i] \in IncidentRow /\ incident[i].status = "OPEN"
  BY DEF Init, IncidentRow, IncidentStatus, INCIDENT_ALLOWED_TRANSITIONS
<1>3. TypeOK
  <2>1. incident \in [Incident -> IncidentRow]
    BY <1>2 DEF Init
  <2>2. /\ DOMAIN status = Target
        /\ \A t \in Target : Kind[t] \in DOMAIN ALLOWED => status[t] \in DOMAIN ALLOWED[Kind[t]]
    BY InitialStatuses DEF Init
  <2>3. available \in [Target -> 0..MaxStock]
    BY ConstantsAssumption DEF Init
  <2>4. replans \in Seq(Replan) /\ served \in 0..MaxRequests
    BY ConstantsAssumption DEF Init
  <2>5. request \in [Session -> Request]
    BY DEF Init, Request
  <2> QED BY <2>1, <2>2, <2>3, <2>4, <2>5 DEF Init, TypeOK
<1>4. StampedStatus
  BY <1>2 DEF StampedStatus, Stamps
<1>5. \A k \in Session : Sound(request[k], incident, records)
  BY <1>1 DEF Sound
<1>6. Backed
  <2> SUFFICES ASSUME NEW i \in Incident, NEW t \in Target
               PROVE  /\ IsFiniteSet(AppliedActions(records[i], t))
                      /\ Cardinality(AppliedActions(records[i], t))
                            + Cardinality(Appliers(request, i, t)) <= effects[i][t]
    BY DEF Backed
  <2>1. AppliedActions(records[i], t) = {} /\ Appliers(request, i, t) = {}
    BY <1>1 DEF Init, AppliedActions, Appliers
  <2>2. effects[i][t] = 0
    BY DEF Init
  <2> QED BY <2>1, <2>2, FS_EmptySet
<1>7. ReplanRestsOnPropagation
  BY DEF ReplanRestsOnPropagation, Init
<1>8. Serial
  BY <1>1 DEF Serial
<1> QED BY <1>3, <1>4, <1>5, <1>6, <1>7, <1>8 DEF ResponseInv

(* A request that starts with nothing done keeps the invariant. *)
LEMMA BeginKeeps ==
    ASSUME ResponseInv, NEW k \in Session, NEW r \in Request, Begin(k, r), r # Idle,
           UNCHANGED <<incident, closings, references, domain, records, replans>>,
           Sound(r, incident, records), Current(r, incident, replans),
           r.step = "propagate" => r.results = {}
    PROVE  ResponseInv'
<1>1. /\ request' = [request EXCEPT ![k] = r] /\ request[k] = Idle
      /\ request \in [Session -> Request]
  BY DEF Begin, ResponseInv, TypeOK
<1>2. /\ request'[k] = r
      /\ \A j \in Session : j # k => request'[j] = request[j]
      /\ request' \in [Session -> Request]
  BY <1>1
<1>3. TypeOK'
  <2>1. served' \in 0..MaxRequests /\ overlapped' \in BOOLEAN
    BY ConstantsAssumption DEF Begin, ResponseInv, TypeOK, Busy
  <2> QED BY <1>2, <2>1 DEF ResponseInv, TypeOK, domain
<1>4. \A j \in Session : Sound(request'[j], incident', records')
  BY <1>2 DEF ResponseInv
<1>5. Backed'
  <2> SUFFICES ASSUME NEW i \in Incident, NEW t \in Target
               PROVE  /\ IsFiniteSet(AppliedActions(records[i], t))
                      /\ Cardinality(AppliedActions(records[i], t))
                            + Cardinality(Appliers(request', i, t)) <= effects[i][t]
    BY DEF Backed, domain
  <2>1. Appliers(request', i, t) \subseteq Appliers(request, i, t)
    BY <1>2 DEF Appliers
  <2>2. /\ IsFiniteSet(AppliedActions(records[i], t))
        /\ Cardinality(AppliedActions(records[i], t))
              + Cardinality(Appliers(request, i, t)) <= effects[i][t]
        /\ effects[i][t] \in Nat
    BY DEF ResponseInv, Backed, TypeOK
  <2>3. Cardinality(AppliedActions(records[i], t)) \in Nat
    BY <2>2, FS_CardinalityType
  <2>4. /\ Cardinality(Appliers(request, i, t)) \in Nat
        /\ Cardinality(Appliers(request', i, t)) \in Nat
        /\ Cardinality(Appliers(request', i, t)) <= Cardinality(Appliers(request, i, t))
    BY <2>1, FewerAppliers
  <2> QED BY <2>2, <2>3, <2>4
<1>6. Serial'
  <2>1. overlapped' = (overlapped \/ Busy)
    BY DEF Begin
  <2>2. ~overlapped' => \A j \in Session : request[j] = Idle
    BY <2>1 DEF Busy, ResponseInv, TypeOK
  <2> QED BY <1>2, <2>2 DEF Serial
<1>7. StampedStatus' /\ ReplanRestsOnPropagation'
  BY DEF ResponseInv, StampedStatus, ReplanRestsOnPropagation
<1> QED BY <1>3, <1>4, <1>5, <1>6, <1>7 DEF ResponseInv

(* A request that goes on, or ends, and changes nothing else. *)
LEMMA MoveKeeps ==
    ASSUME ResponseInv, NEW k \in Session, NEW r \in Request,
           request' = [request EXCEPT ![k] = r], request[k] # Idle,
           UNCHANGED <<incident, closings, references, domain, records, replans, history>>,
           Sound(r, incident, records),
           ~overlapped => Current(r, incident, replans),
           \A i \in Incident, t \in Target : 
              Appliers(request', i, t) \subseteq Appliers(request, i, t)
    PROVE  ResponseInv'
<1>1. /\ request'[k] = r
      /\ \A j \in Session : j # k => request'[j] = request[j]
      /\ request' \in [Session -> Request]
  BY DEF ResponseInv, TypeOK
<1>2. TypeOK'
  BY <1>1 DEF ResponseInv, TypeOK, domain, history
<1>3. \A j \in Session : Sound(request'[j], incident', records')
  BY <1>1 DEF ResponseInv
<1>4. Backed'
  <2> SUFFICES ASSUME NEW i \in Incident, NEW t \in Target
               PROVE  /\ IsFiniteSet(AppliedActions(records[i], t))
                      /\ Cardinality(AppliedActions(records[i], t))
                            + Cardinality(Appliers(request', i, t)) <= effects[i][t]
    BY DEF Backed, domain
  <2>1. Appliers(request', i, t) \subseteq Appliers(request, i, t)
    OBVIOUS
  <2>2. /\ IsFiniteSet(AppliedActions(records[i], t))
        /\ Cardinality(AppliedActions(records[i], t))
              + Cardinality(Appliers(request, i, t)) <= effects[i][t]
        /\ effects[i][t] \in Nat
    BY DEF ResponseInv, Backed, TypeOK
  <2>3. Cardinality(AppliedActions(records[i], t)) \in Nat
    BY <2>2, FS_CardinalityType
  <2>4. /\ Cardinality(Appliers(request, i, t)) \in Nat
        /\ Cardinality(Appliers(request', i, t)) \in Nat
        /\ Cardinality(Appliers(request', i, t)) <= Cardinality(Appliers(request, i, t))
    BY <2>1, FewerAppliers
  <2> QED BY <2>2, <2>3, <2>4
<1>5. Serial'
  BY <1>1 DEF Serial, ResponseInv, history
<1>6. StampedStatus' /\ ReplanRestsOnPropagation'
  BY DEF ResponseInv, StampedStatus, ReplanRestsOnPropagation
<1> QED BY <1>2, <1>3, <1>4, <1>5, <1>6 DEF ResponseInv

-----------------------------------------------------------------------------
LEMMA TransitionBegins ==
    ASSUME ResponseInv, NEW k \in Session, NEW i \in Incident, NEW target \in Requested,
           NEW metadata \in Metadata, BeginTransition(k, i, target, metadata)
    PROVE  ResponseInv'
<1> DEFINE row == incident[i]
           new == [status |-> target, severity |-> row.severity,
                   stamped |-> row.stamped \cup ({target} \cap Stamps), metadata |-> metadata]
           r   == [step |-> "write", incident |-> i, read |-> row, write |-> new]
<1>1. /\ MayBecome(row.status, target) /\ Begin(k, r)
      /\ UNCHANGED <<incident, closings, references, domain, records, replans>>
  BY DEF BeginTransition
<1>2. row \in IncidentRow
  BY DEF ResponseInv, TypeOK
<1>3. new \in IncidentRow
  BY <1>2, ConstantsAssumption DEF IncidentRow
<1>4. r \in Writing
  BY <1>2, <1>3 DEF Writing
<1>5. row.status = "CLOSED" => Annotates(row, new)
  <2> SUFFICES ASSUME row.status = "CLOSED" PROVE new = [row EXCEPT !.metadata = new.metadata]
    BY DEF Annotates
  <2>1. target = "CLOSED"
    BY <1>1 DEF MayBecome, INCIDENT_ALLOWED_TRANSITIONS
  <2>2. "CLOSED" \in row.stamped
    BY DEF ResponseInv, StampedStatus, Stamps
  <2>3. row = [status |-> row.status, severity |-> row.severity, stamped |-> row.stamped,
                metadata |-> row.metadata]
    BY <1>2 DEF IncidentRow
  <2> QED BY <2>1, <2>2, <2>3
<1>6. SoundWrite(r, row)
  BY <1>5 DEF SoundWrite
<1>7. Sound(r, incident, records) /\ Current(r, incident, replans)
  BY <1>6 DEF Sound, Current
<1>8. r # Idle /\ r \in Request /\ r.step = "write"
  BY <1>4, Steps DEF Request, Idle
<1> HIDE DEF r
<1> QED BY <1>1, <1>7, <1>8, BeginKeeps

LEMMA UpdateBegins ==
    ASSUME ResponseInv, NEW k \in Session, NEW i \in Incident, NEW severity \in Severity,
           NEW metadata \in Metadata, BeginUpdate(k, i, severity, metadata)
    PROVE  ResponseInv'
<1> DEFINE row == incident[i]
           new == [row EXCEPT !.severity = severity, !.metadata = metadata]
           r   == [step |-> "write", incident |-> i, read |-> row, write |-> new]
<1>1. /\ row.status # "CLOSED" /\ Begin(k, r)
      /\ UNCHANGED <<incident, closings, references, domain, records, replans>>
  BY DEF BeginUpdate
<1>2. row \in IncidentRow
  BY DEF ResponseInv, TypeOK
<1>3. new \in IncidentRow /\ new.status = row.status /\ new.stamped = row.stamped
  BY <1>2 DEF IncidentRow
<1>4. r \in Writing
  BY <1>2, <1>3 DEF Writing
<1>5. SoundWrite(r, row)
  BY <1>1, <1>3 DEF SoundWrite
<1>6. Sound(r, incident, records) /\ Current(r, incident, replans)
  BY <1>5 DEF Sound, Current
<1>7. r # Idle /\ r \in Request /\ r.step = "write"
  BY <1>4, Steps DEF Request, Idle
<1> HIDE DEF r
<1> QED BY <1>1, <1>6, <1>7, BeginKeeps

(* The request a propagation starts with. *)
LEMMA PropagationIsSound ==
    ASSUME TypeOK, NEW i \in Incident, NEW escalating \in BOOLEAN,
           incident[i].status \in ACTIVE_PROPAGATION_STATUSES
    PROVE  LET r == Propagation(i, escalating) IN
           /\ r \in Propagating /\ r \in Request /\ r # Idle
           /\ Sound(r, incident, records) /\ Current(r, incident, replans)
           /\ r.results = {}
<1> DEFINE r == Propagation(i, escalating)
<1>1. incident[i].severity \in Severity /\ references[i] \subseteq Target
  BY DEF TypeOK, IncidentRow
<1>2. r \in Propagating
  BY <1>1 DEF Propagation, Propagating
<1>3. r # Idle /\ r \in Request /\ r.step = "propagate"
  BY <1>2, Steps DEF Request, Idle
<1>4. SoundPropagation(r)
  BY DEF SoundPropagation, Propagation
<1>5. Sound(r, incident, records)
  BY <1>3, <1>4 DEF Sound
<1>6. Current(r, incident, replans)
  BY <1>3 DEF Current, Propagation, ACTIVE_PROPAGATION_STATUSES
<1>7. r.results = {}
  BY DEF Propagation
<1> QED BY <1>2, <1>3, <1>5, <1>6, <1>7

LEMMA PropagationBegins ==
    ASSUME ResponseInv, NEW k \in Session, NEW i \in Incident, BeginPropagation(k, i)
    PROVE  ResponseInv'
<1>1. /\ incident[i].status \in ACTIVE_PROPAGATION_STATUSES
      /\ Begin(k, Propagation(i, FALSE))
      /\ UNCHANGED <<incident, closings, references, domain, records, replans>>
  BY DEF BeginPropagation
<1> QED BY <1>1, PropagationIsSound, BeginKeeps DEF ResponseInv

LEMMA EscalationBegins ==
    ASSUME ResponseInv, NEW k \in Session, NEW i \in Incident, BeginEscalation(k, i)
    PROVE  ResponseInv'
<1> DEFINE a == [step |-> "assess", incident |-> i, referenced |-> references[i] # {}]
<1>1. /\ incident[i].status \in ACTIVE_PROPAGATION_STATUSES
      /\ Begin(k, IF NeedsPropagation(i) THEN Propagation(i, TRUE) ELSE a)
      /\ UNCHANGED <<incident, closings, references, domain, records, replans>>
  BY DEF BeginEscalation
<1>2. CASE NeedsPropagation(i)
  BY <1>1, <1>2, PropagationIsSound, BeginKeeps DEF ResponseInv
<1>3. CASE ~NeedsPropagation(i)
  <2>1. a \in Escalating /\ a \in Request /\ a # Idle
    BY DEF Escalating, Request, Idle
  <2>2. Sound(a, incident, records) /\ Current(a, incident, replans)
    BY <1>3 DEF Sound, Current, NeedsPropagation
  <2>3. a.step # "propagate" /\ Begin(k, a)
    BY <1>1, <1>3
  <2> HIDE DEF a
  <2> QED BY <1>1, <2>1, <2>2, <2>3, BeginKeeps
<1> QED BY <1>2, <1>3

LEMMA RequestAborts ==
    ASSUME ResponseInv, NEW k \in Session, Abort(k)
    PROVE  ResponseInv'
<1>1. /\ request[k] # Idle /\ request' = [request EXCEPT ![k] = Idle]
      /\ UNCHANGED <<incident, closings, references, domain, records, replans, history>>
  BY DEF Abort
<1>2. request'[k] = Idle /\ \A j \in Session : j # k => request'[j] = request[j]
  BY <1>1 DEF ResponseInv, TypeOK
<1>3. Idle \in Request /\ Idle.step = "idle"
  BY DEF Request, Idle
<1>4. Sound(Idle, incident, records) /\ Current(Idle, incident, replans)
  BY <1>3 DEF Sound, Current
<1>5. \A i \in Incident, t \in Target : Appliers(request', i, t) \subseteq Appliers(request, i, t)
  BY <1>2, <1>3 DEF Appliers
<1> QED BY <1>1, <1>3, <1>4, <1>5, MoveKeeps

LEMMA ReplanIsChecked ==
    ASSUME ResponseInv, NEW k \in Session, CheckReplan(k)
    PROVE  ResponseInv'
<1> DEFINE r == request[k]
           c == [step |-> "create", incident |-> r.incident, referenced |-> r.referenced]
<1>1. /\ r.step = "assess"
      /\ request' = [request EXCEPT ![k] = IF HasActiveReplan(r.incident) THEN Idle ELSE c]
      /\ UNCHANGED <<incident, closings, references, domain, records, replans, history>>
  BY DEF CheckReplan
<1>2. r \in Escalating /\ r # Idle
  BY <1>1, Steps DEF ResponseInv, TypeOK, Idle
<1>3. CASE HasActiveReplan(r.incident)
  BY <1>1, <1>2, <1>3, RequestAborts DEF Abort
<1>4. CASE ~HasActiveReplan(r.incident)
  <2>1. c \in Request
    BY <1>2 DEF Escalating, Request
  <2>2. Sound(c, incident, records)
    BY <1>1 DEF ResponseInv, Sound
  <2>3. Current(c, incident, replans)
    BY <1>4 DEF Current, HasActiveReplan, Escalated
  <2>4. request'[k] = c /\ \A j \in Session : j # k => request'[j] = request[j]
    BY <1>1, <1>4 DEF ResponseInv, TypeOK
  <2>5. \A i \in Incident, t \in Target : Appliers(request', i, t) \subseteq Appliers(request, i, t)
    BY <2>4 DEF Appliers
  <2>6. request' = [request EXCEPT ![k] = c]
    BY <1>1, <1>4
  <2> HIDE DEF c
  <2> QED BY <1>1, <1>2, <2>1, <2>2, <2>3, <2>5, <2>6, MoveKeeps
<1> QED BY <1>3, <1>4

(* A handler that has answered for t: its result is kept. *)
LEMMA HandledIsSound ==
    ASSUME ResponseInv, NEW k \in Session, NEW t \in Target, NEW severity \in Severity,
           NEW outcome \in PropagationStatus,
           request[k].step = "propagate", t \in request[k].pending,
           NEW h, h = Handled(request[k], t, severity, outcome)
    PROVE  /\ h \in Propagating /\ h \in Request /\ h # Idle
           /\ h.incident = request[k].incident
           /\ Sound(h, incident, records)
           /\ ~overlapped => Current(h, incident, replans)
           /\ \A x \in h.results : x \in request[k].results \/ (x.target = t /\ x.status = outcome)
           /\ \A x \in request[k].results : x.target # t
<1> DEFINE r == request[k]
           x == [target |-> t, action |-> ActionOn(t, r.severity), status |-> outcome]
<1>1. r \in Propagating /\ r # Idle
  BY Steps DEF ResponseInv, TypeOK, Idle
<1>2. x \in Result /\ x.target = t /\ x.status = outcome
  BY VerdictIsAStatus DEF Result
<1>3. /\ h.step = "propagate" /\ h.incident = r.incident /\ h.pending = r.pending \ {t}
      /\ h.results = r.results \cup {x} /\ h.referenced = r.referenced
  BY DEF Handled
<1>4. h \in Propagating
  BY <1>1, <1>2 DEF Handled, Propagating
<1>5. h \in Request /\ h # Idle
  BY <1>4, Steps, <1>3 DEF Request, Idle
<1>6. SoundPropagation(r)
  BY DEF ResponseInv, Sound
<1> HIDE DEF x
<1>7. SoundPropagation(h)
  BY <1>2, <1>3, <1>6 DEF SoundPropagation
<1>8. Sound(h, incident, records)
  BY <1>3, <1>7 DEF Sound
<1>9. ~overlapped => Current(h, incident, replans)
  BY <1>1, <1>3 DEF ResponseInv, Serial, Current
<1>10. \A y \in r.results : y.target # t
  BY <1>6 DEF SoundPropagation
<1> QED BY <1>2, <1>3, <1>4, <1>5, <1>8, <1>9, <1>10

LEMMA ReferenceIsSkipped ==
    ASSUME ResponseInv, NEW k \in Session, NEW t \in Target, SkipReference(k, t)
    PROVE  ResponseInv'
<1> DEFINE r == request[k]
           outcome == Verdict(r.incident, t, r.severity)
           h == Handled(r, t, r.severity, outcome)
<1>1. /\ r.step = "propagate" /\ t \in r.pending /\ outcome # "APPLIED"
      /\ request' = [request EXCEPT ![k] = h]
      /\ UNCHANGED <<incident, closings, references, domain, records, replans, history>>
  BY DEF SkipReference
<1>2. r \in Propagating /\ r # Idle /\ r.severity \in Severity
  BY <1>1, Steps DEF ResponseInv, TypeOK, Idle, Propagating
<1>3. outcome \in PropagationStatus
  BY VerdictIsAStatus
<1> HIDE DEF outcome
<1>4. /\ h \in Request /\ h.incident = r.incident
      /\ Sound(h, incident, records)
      /\ ~overlapped => Current(h, incident, replans)
      /\ \A x \in h.results : x \in r.results \/ x.status = outcome
  BY <1>1, <1>2, <1>3, HandledIsSound
<1> HIDE DEF h
<1>5. request'[k] = h /\ \A j \in Session : j # k => request'[j] = request[j]
  BY <1>1 DEF ResponseInv, TypeOK
<1>6. \A i \in Incident, u \in Target : Appliers(request', i, u) \subseteq Appliers(request, i, u)
  BY <1>1, <1>4, <1>5 DEF Appliers
<1> QED BY <1>1, <1>2, <1>4, <1>6, MoveKeeps

(* A commit that only touches its own incident and ends its request. *)
LEMMA IncidentIsCommitted ==
    ASSUME ResponseInv, NEW k \in Session, CommitIncident(k)
    PROVE  ResponseInv'
<1> DEFINE r == request[k]
           i == r.incident
           row == incident[i]
           new == Changed(row, r.read, r.write)
<1>1. /\ r.step = "write" /\ incident' = [incident EXCEPT ![i] = new]
      /\ closings' = [closings EXCEPT ![i] = IF r.write.status = "CLOSED" THEN @ + 1 ELSE @]
      /\ request' = [request EXCEPT ![k] = Idle]
      /\ UNCHANGED <<references, domain, records, replans, history>>
  BY DEF CommitIncident
<1>2. r \in Writing /\ r # Idle
  BY <1>1, Steps DEF ResponseInv, TypeOK, Idle
<1>3. i \in Incident /\ r.read \in IncidentRow /\ r.write \in IncidentRow /\ row \in IncidentRow
  BY <1>2 DEF Writing, ResponseInv, TypeOK
<1>4. SoundWrite(r, row)
  BY <1>1 DEF ResponseInv, Sound
<1>5. /\ new \in IncidentRow
      /\ row.stamped \subseteq new.stamped
  BY <1>3 DEF Changed, IncidentRow
<1>6. new.status \in Stamps => new.status \in new.stamped
  <2>1. row.status \in Stamps => row.status \in row.stamped
    BY <1>3 DEF ResponseInv, StampedStatus
  <2>2. CASE r.write.status = r.read.status
    BY <1>5, <2>1, <2>2 DEF Changed
  <2>3. CASE r.write.status # r.read.status
    <3>1. new.status = r.write.status
      BY <2>3 DEF Changed
    <3>2. r.write.stamped \subseteq new.stamped
      BY <1>4 DEF Changed, SoundWrite
    <3> QED BY <1>4, <2>3, <3>1, <3>2 DEF SoundWrite
  <2> QED BY <2>2, <2>3
<1> HIDE DEF new
<1>7. /\ incident' \in [Incident -> IncidentRow] /\ incident'[i] = new
      /\ \A j \in Incident : j # i => incident'[j] = incident[j]
      /\ \A j \in Incident : incident[j].stamped \subseteq incident'[j].stamped
  BY <1>1, <1>3, <1>5 DEF ResponseInv, TypeOK
<1>8. /\ request'[k] = Idle /\ Idle.step = "idle"
      /\ \A j \in Session : j # k => request'[j] = request[j]
      /\ request' \in [Session -> Request]
  BY <1>1 DEF ResponseInv, TypeOK, Request, Idle
<1>9. TypeOK'
  <2>1. closings \in [Incident -> Nat] /\ closings[i] + 1 \in Nat
    BY <1>3 DEF ResponseInv, TypeOK
  <2> HIDE DEF r, i
  <2>2. closings' \in [Incident -> Nat]
    BY <1>1, <2>1
  <2> QED BY <1>1, <1>7, <1>8, <2>2 DEF ResponseInv, TypeOK, domain, history
<1>10. StampedStatus'
  BY <1>6, <1>7 DEF ResponseInv, StampedStatus
<1>11. \A j \in Session : Sound(request'[j], incident', records')
  <2> SUFFICES ASSUME NEW j \in Session PROVE Sound(request'[j], incident', records)
    BY <1>1
  <2>1. CASE j = k
    BY <1>8, <2>1 DEF Sound
  <2>2. CASE j # k
    <3>1. request'[j] = request[j] /\ Sound(request[j], incident, records)
      BY <1>8, <2>2 DEF ResponseInv
    <3>2. request[j].step = "write" => request[j].incident \in Incident
      BY Steps DEF ResponseInv, TypeOK, Writing
    <3> QED BY <1>7, <3>1, <3>2 DEF Sound, SoundWrite
  <2> QED BY <2>1, <2>2
<1>12. Backed'
  <2> SUFFICES ASSUME NEW a \in Incident, NEW t \in Target
               PROVE  /\ IsFiniteSet(AppliedActions(records[a], t))
                      /\ Cardinality(AppliedActions(records[a], t))
                            + Cardinality(Appliers(request', a, t)) <= effects[a][t]
    BY <1>1 DEF Backed, domain
  <2>1. Appliers(request', a, t) \subseteq Appliers(request, a, t)
    BY <1>8 DEF Appliers
  <2>2. /\ IsFiniteSet(AppliedActions(records[a], t))
        /\ Cardinality(AppliedActions(records[a], t))
              + Cardinality(Appliers(request, a, t)) <= effects[a][t]
        /\ effects[a][t] \in Nat
    BY DEF ResponseInv, Backed, TypeOK
  <2>3. Cardinality(AppliedActions(records[a], t)) \in Nat
    BY <2>2, FS_CardinalityType
  <2>4. /\ Cardinality(Appliers(request, a, t)) \in Nat
        /\ Cardinality(Appliers(request', a, t)) \in Nat
        /\ Cardinality(Appliers(request', a, t)) <= Cardinality(Appliers(request, a, t))
    BY <2>1, FewerAppliers
  <2> QED BY <2>2, <2>3, <2>4
<1>13. ReplanRestsOnPropagation'
  BY <1>1 DEF ResponseInv, ReplanRestsOnPropagation
<1>14. Serial'
  <2>1. ~overlapped => \A j \in Session : request'[j] = Idle
    BY <1>2, <1>8 DEF ResponseInv, Serial
  <2> QED BY <1>1, <2>1 DEF Serial, history
<1> QED BY <1>9, <1>10, <1>11, <1>12, <1>13, <1>14 DEF ResponseInv

(* Changes from outside that keep rows, requests and records. *)
LEMMA OutsideKeeps ==
    ASSUME ResponseInv, TypeOK', ReplanRestsOnPropagation',
           overlapped' = (overlapped \/ Busy),
           UNCHANGED <<incident, records, request, effects>>
    PROVE  ResponseInv'
<1>1. StampedStatus'
  BY DEF ResponseInv, StampedStatus
<1>2. \A k \in Session : Sound(request'[k], incident', records')
  BY DEF ResponseInv
<1>3. Backed'
  BY DEF ResponseInv, Backed
<1>4. Serial'
  BY DEF Serial, Busy
<1> QED BY <1>1, <1>2, <1>3, <1>4 DEF ResponseInv

LEMMA ReferenceIsAdded ==
    ASSUME ResponseInv, NEW i \in Incident, NEW t \in Target, AddReference(i, t)
    PROVE  ResponseInv'
<1>1. /\ references' = [references EXCEPT ![i] = @ \cup {t}]
      /\ overlapped' = (overlapped \/ Busy)
      /\ UNCHANGED <<incident, closings, domain, records, replans, request, served>>
  BY DEF AddReference
<1>2. TypeOK'
  BY <1>1 DEF ResponseInv, TypeOK, domain, Busy
<1>3. ReplanRestsOnPropagation'
  BY <1>1 DEF ResponseInv, ReplanRestsOnPropagation
<1> QED BY <1>1, <1>2, <1>3, OutsideKeeps DEF domain

LEMMA OperatorKeeps ==
    ASSUME ResponseInv, NEW t \in Target, OperatorChanges(t)
    PROVE  ResponseInv'
<1>1. /\ overlapped' = (overlapped \/ Busy)
      /\ UNCHANGED <<incident, closings, references, records, replans, request, effects, served>>
  BY DEF OperatorChanges
<1>2. TypeOK'
  <2>1. CASE /\ Kind[t] = "INVENTORY_STOCK_LOT" /\ available[t] < MaxStock
             /\ available' = [available EXCEPT ![t] = @ + 1] /\ UNCHANGED status
    <3>1. available' \in [Target -> 0..MaxStock]
      BY <2>1, ConstantsAssumption DEF ResponseInv, TypeOK
    <3> QED BY <1>1, <2>1, <3>1 DEF ResponseInv, TypeOK, Busy
  <2>2. ASSUME NEW new \in OperatorStatus, Allowed(t, new),
               status' = [status EXCEPT ![t] = new], UNCHANGED available
        PROVE  TypeOK'
    <3>1. new \in DOMAIN ALLOWED[Kind[t]]
      BY <2>2, AllowedIsAStatus DEF ResponseInv
    <3>2. /\ DOMAIN status' = Target /\ status'[t] = new
          /\ \A u \in Target : u # t => status'[u] = status[u]
      BY <2>2 DEF ResponseInv, TypeOK
    <3>3. \A u \in Target :
             Kind[u] \in DOMAIN ALLOWED => status'[u] \in DOMAIN ALLOWED[Kind[u]]
      BY <3>1, <3>2 DEF ResponseInv, TypeOK
    <3> QED BY <1>1, <2>2, <3>2, <3>3 DEF ResponseInv, TypeOK, Busy
  <2> QED BY <2>1, <2>2 DEF OperatorChanges
<1>3. ReplanRestsOnPropagation'
  BY <1>1 DEF ResponseInv, ReplanRestsOnPropagation
<1> QED BY <1>1, <1>2, <1>3, OutsideKeeps

LEMMA ReplanIsMoved ==
    ASSUME ResponseInv, NEW n \in DOMAIN replans, ReplanMoves(n)
    PROVE  ResponseInv'
<1> DEFINE new == [replans[n] EXCEPT !.active = ~@]
<1>1. /\ replans' = [replans EXCEPT ![n] = new]
      /\ overlapped' = (overlapped \/ Busy)
      /\ UNCHANGED <<incident, closings, references, domain, records, request, served>>
  BY DEF ReplanMoves
<1>2. replans \in Seq(Replan) /\ n \in 1..Len(replans)
  BY DEF ResponseInv, TypeOK
<1>3. replans[n] \in Replan
  BY <1>2
<1>4. new \in Replan /\ new.incident = replans[n].incident /\ new.referenced = replans[n].referenced
  BY <1>3 DEF Replan
<1> HIDE DEF new
<1>5. /\ replans' \in Seq(Replan) /\ DOMAIN replans' = DOMAIN replans /\ replans'[n] = new
      /\ \A m \in DOMAIN replans : m # n => replans'[m] = replans[m]
  BY <1>1, <1>2, <1>4, ExceptSeq
<1>6. TypeOK'
  BY <1>1, <1>5 DEF ResponseInv, TypeOK, domain, Busy
<1>7. ReplanRestsOnPropagation'
  BY <1>1, <1>4, <1>5 DEF ResponseInv, ReplanRestsOnPropagation
<1> QED BY <1>1, <1>6, <1>7, OutsideKeeps DEF domain

LEMMA ReplanIsRequested ==
    ASSUME ResponseInv, NEW k \in Session, RequestReplan(k)
    PROVE  ResponseInv'
<1> DEFINE r == request[k]
           new == [incident |-> r.incident, active |-> TRUE, referenced |-> r.referenced]
<1>1. /\ r.step = "create" /\ replans' = Append(replans, new)
      /\ request' = [request EXCEPT ![k] = Idle]
      /\ UNCHANGED <<incident, closings, references, domain, records, history>>
  BY DEF RequestReplan
<1>2. r \in Escalating /\ r # Idle
  BY <1>1, Steps DEF ResponseInv, TypeOK, Idle
<1>3. new \in Replan /\ new.incident = r.incident /\ new.referenced = r.referenced
  BY <1>2 DEF Escalating, Replan
<1>4. r.referenced => records[r.incident] # {}
  BY <1>1 DEF ResponseInv, Sound
<1> HIDE DEF new
<1>5. /\ replans' \in Seq(Replan)
      /\ DOMAIN replans' = 1..(Len(replans) + 1)
      /\ replans'[Len(replans) + 1] = new
      /\ \A n \in 1..Len(replans) : replans'[n] = replans[n]
      /\ DOMAIN replans = 1..Len(replans) /\ Len(replans) \in Nat
  BY <1>1, <1>3 DEF ResponseInv, TypeOK
<1>6. /\ request'[k] = Idle /\ Idle.step = "idle"
      /\ \A j \in Session : j # k => request'[j] = request[j]
      /\ request' \in [Session -> Request]
  BY <1>1 DEF ResponseInv, TypeOK, Request, Idle
<1>7. TypeOK'
  BY <1>1, <1>5, <1>6 DEF ResponseInv, TypeOK, domain, history
<1>8. ReplanRestsOnPropagation'
  <2> SUFFICES ASSUME NEW n \in DOMAIN replans', replans'[n].referenced
               PROVE  records[replans'[n].incident] # {}
    BY <1>1 DEF ReplanRestsOnPropagation
  <2>1. CASE n = Len(replans) + 1
    BY <1>3, <1>4, <1>5, <2>1
  <2>2. CASE n # Len(replans) + 1
    <3>1. n \in DOMAIN replans /\ replans'[n] = replans[n]
      BY <1>5, <2>2
    <3> QED BY <3>1 DEF ResponseInv, ReplanRestsOnPropagation
  <2> QED BY <2>1, <2>2
<1>9. \A j \in Session : Sound(request'[j], incident', records')
  BY <1>1, <1>6 DEF ResponseInv, Sound
<1>10. Backed'
  <2> SUFFICES ASSUME NEW a \in Incident, NEW t \in Target
               PROVE  /\ IsFiniteSet(AppliedActions(records[a], t))
                      /\ Cardinality(AppliedActions(records[a], t))
                            + Cardinality(Appliers(request', a, t)) <= effects[a][t]
    BY <1>1 DEF Backed, domain
  <2>1. Appliers(request', a, t) = Appliers(request, a, t)
    BY <1>1, <1>6 DEF Appliers
  <2> QED BY <2>1 DEF ResponseInv, Backed
<1>11. Serial'
  <2>1. ~overlapped => \A j \in Session : request'[j] = Idle
    BY <1>2, <1>6 DEF ResponseInv, Serial
  <2> QED BY <1>1, <2>1 DEF Serial, history
<1>12. StampedStatus'
  BY <1>1 DEF ResponseInv, StampedStatus
<1> QED BY <1>7, <1>8, <1>9, <1>10, <1>11, <1>12 DEF ResponseInv

(* The results of a propagation become records: the change made for a target *)
(* moves from what is in flight to what is filed.                            *)
LEMMA PropagationIsFinished ==
    ASSUME ResponseInv, NEW k \in Session, FinishPropagation(k)
    PROVE  ResponseInv'
<1> DEFINE r == request[k]
           i == r.incident
           a == [step |-> "assess", incident |-> i, referenced |-> r.referenced]
           next == IF r.escalating THEN a ELSE Idle
           new == Filed(records[i], r.results)
<1>1. /\ r.step = "propagate" /\ r.pending = {}
      /\ records' = [records EXCEPT ![i] = new]
      /\ request' = [request EXCEPT ![k] = next]
      /\ UNCHANGED <<incident, closings, references, domain, replans, history>>
  BY DEF FinishPropagation
<1>2. r \in Propagating /\ r # Idle
  BY <1>1, Steps DEF ResponseInv, TypeOK, Idle
<1>3. i \in Incident /\ r.results \subseteq Result /\ r.referenced \in BOOLEAN
  BY <1>2 DEF Propagating
<1>4. SoundPropagation(r)
  BY <1>1 DEF ResponseInv, Sound
<1>5. new \subseteq Result /\ r.results \subseteq new
  BY <1>3 DEF Filed, ResponseInv, TypeOK
<1>6. records[i] # {} => new # {}
  BY DEF Filed
<1>7. r.referenced => new # {}
  BY <1>1, <1>4, <1>5 DEF SoundPropagation
<1> HIDE DEF new
<1>8. /\ records' \in [Incident -> SUBSET Result] /\ records'[i] = new
      /\ \A j \in Incident : j # i => records'[j] = records[j]
      /\ \A j \in Incident : records[j] # {} => records'[j] # {}
  BY <1>1, <1>3, <1>5, <1>6 DEF ResponseInv, TypeOK
<1>9. next \in Request /\ next.step \in {"idle", "assess"}
  BY <1>3 DEF Request, Escalating, Idle
<1>10. next.step = "assess" => next.incident = i /\ next.referenced = r.referenced
  BY DEF Idle
<1> HIDE DEF next
<1>11. /\ request'[k] = next
       /\ \A j \in Session : j # k => request'[j] = request[j]
       /\ request' \in [Session -> Request]
  BY <1>1, <1>9 DEF ResponseInv, TypeOK
<1>12. TypeOK'
  BY <1>1, <1>8, <1>11 DEF ResponseInv, TypeOK, domain, history
<1>13. \A j \in Session : Sound(request'[j], incident', records')
  <2> SUFFICES ASSUME NEW j \in Session PROVE Sound(request'[j], incident, records')
    BY <1>1
  <2>1. CASE j = k
    BY <1>7, <1>8, <1>9, <1>10, <1>11, <2>1 DEF Sound
  <2>2. CASE j # k
    <3>1. request'[j] = request[j] /\ Sound(request[j], incident, records)
      BY <1>11, <2>2 DEF ResponseInv
    <3>2. request[j].step \in {"assess", "create"} => request[j].incident \in Incident
      BY Steps DEF ResponseInv, TypeOK, Escalating
    <3> QED BY <1>8, <3>1, <3>2 DEF Sound
  <2> QED BY <2>1, <2>2
<1>14. Backed'
  <2> SUFFICES ASSUME NEW j \in Incident, NEW t \in Target
               PROVE  /\ IsFiniteSet(AppliedActions(records'[j], t))
                      /\ Cardinality(AppliedActions(records'[j], t))
                            + Cardinality(Appliers(request', j, t)) <= effects[j][t]
    BY <1>1 DEF Backed, domain
  <2> DEFINE old   == AppliedActions(records[j], t)
             filed == AppliedActions(records'[j], t)
  <2>1. /\ IsFiniteSet(old)
        /\ Cardinality(old) + Cardinality(Appliers(request, j, t)) <= effects[j][t]
        /\ effects[j][t] \in Nat
    BY DEF ResponseInv, Backed, TypeOK
  <2>2. Cardinality(old) \in Nat
    BY <2>1, FS_CardinalityType
  <2>3. Appliers(request', j, t) \subseteq Appliers(request, j, t)
    BY <1>9, <1>11 DEF Appliers
  <2>4. /\ Cardinality(Appliers(request, j, t)) \in Nat
        /\ Cardinality(Appliers(request', j, t)) \in Nat
        /\ Cardinality(Appliers(request', j, t)) <= Cardinality(Appliers(request, j, t))
    BY <2>3, FewerAppliers
  <2>5. CASE j = i /\ \E x \in r.results : x.target = t /\ x.status = "APPLIED"
    <3>1. PICK x \in r.results : x.target = t /\ x.status = "APPLIED"
      BY <2>5
    <3>2. filed \subseteq old \cup {x.action}
      BY <1>4, <1>8, <2>5, <3>1, FiledActions DEF new, SoundPropagation
    <3>3. /\ IsFiniteSet(old \cup {x.action})
          /\ Cardinality(old \cup {x.action}) \in {Cardinality(old), Cardinality(old) + 1}
      BY <2>1, FS_AddElement
    <3>4. IsFiniteSet(filed) /\ Cardinality(filed) <= Cardinality(old \cup {x.action})
      BY <3>2, <3>3, FS_Subset
    <3>5. Cardinality(filed) \in Nat
      BY <3>4, FS_CardinalityType
    <3>6. k \in Appliers(request, j, t)
      BY <1>1, <2>5 DEF Appliers
    <3>7. Appliers(request', j, t) = Appliers(request, j, t) \ {k}
      BY <1>9, <1>11 DEF Appliers
    <3>8. IsFiniteSet(Appliers(request, j, t))
      <4>1. Appliers(request, j, t) \subseteq Session
        BY DEF Appliers
      <4> QED BY <4>1, SessionAssumption, FS_Subset
    <3>9. Cardinality(Appliers(request', j, t)) = Cardinality(Appliers(request, j, t)) - 1
      BY <3>6, <3>7, <3>8, FS_RemoveElement
    <3> HIDE DEF old, filed
    <3> QED BY <2>1, <2>2, <2>4, <3>3, <3>4, <3>5, <3>9 DEF old, filed
  <2>6. CASE ~(j = i /\ \E x \in r.results : x.target = t /\ x.status = "APPLIED")
    <3>1. filed \subseteq old
      <4>1. CASE j = i
        BY <1>4, <1>8, <2>6, <4>1, FiledActions DEF new, SoundPropagation
      <4>2. CASE j # i
        BY <1>8, <4>2
      <4> QED BY <4>1, <4>2
    <3>2. IsFiniteSet(filed) /\ Cardinality(filed) <= Cardinality(old)
      BY <2>1, <3>1, FS_Subset
    <3>3. Cardinality(filed) \in Nat
      BY <3>2, FS_CardinalityType
    <3> HIDE DEF old, filed
    <3> QED BY <2>1, <2>2, <2>4, <3>2, <3>3 DEF old, filed
  <2> QED BY <2>5, <2>6
<1>15. ReplanRestsOnPropagation'
  <2>1. \A n \in DOMAIN replans : replans[n].incident \in Incident
    <3>1. replans \in Seq(Replan)
      BY DEF ResponseInv, TypeOK
    <3>2. \A n \in DOMAIN replans : replans[n] \in Replan
      BY <3>1
    <3> QED BY <3>2 DEF Replan
  <2> QED BY <1>1, <1>8, <2>1 DEF ResponseInv, ReplanRestsOnPropagation
<1>16. Serial'
  <2>1. ~overlapped => \A j \in Session : j # k => request'[j] = Idle
    BY <1>2, <1>11 DEF ResponseInv, Serial
  <2>2. Current(next, incident, replans)
    BY <1>9 DEF Current
  <2> QED BY <1>1, <1>11, <2>1, <2>2 DEF Serial, history
<1>17. StampedStatus'
  BY <1>1 DEF ResponseInv, StampedStatus
<1> QED BY <1>12, <1>13, <1>14, <1>15, <1>16, <1>17 DEF ResponseInv

(* A domain service changes the record of t: the session that called it is   *)
(* one more applier, and the change is counted.                              *)
LEMMA ReferenceIsApplied ==
    ASSUME ResponseInv, NEW k \in Session, NEW t \in Target, ApplyReference(k, t)
    PROVE  ResponseInv'
<1> DEFINE r == request[k]
           i == r.incident
           h == Handled(r, t, incident[i].severity, "APPLIED")
<1>1. /\ r.step = "propagate" /\ t \in r.pending
      /\ Verdict(i, t, r.severity) = "APPLIED"
      /\ effects' = [effects EXCEPT ![i][t] = @ + 1]
      /\ request' = [request EXCEPT ![k] = h]
      /\ UNCHANGED <<incident, closings, references, records, replans, history>>
  BY DEF ApplyReference
<1>2. r \in Propagating /\ r # Idle
  BY <1>1, Steps DEF ResponseInv, TypeOK, Idle
<1>3. i \in Incident /\ incident[i].severity \in Severity /\ "APPLIED" \in PropagationStatus
  BY <1>2 DEF Propagating, ResponseInv, TypeOK, IncidentRow, PropagationStatus
<1>4. /\ h \in Request /\ h # Idle /\ h.incident = i
      /\ Sound(h, incident, records)
      /\ ~overlapped => Current(h, incident, replans)
      /\ \A x \in h.results : x \in r.results \/ (x.target = t /\ x.status = "APPLIED")
      /\ \A x \in r.results : x.target # t
  BY <1>1, <1>3, HandledIsSound
<1> HIDE DEF h
<1>5. /\ request'[k] = h
      /\ \A j \in Session : j # k => request'[j] = request[j]
      /\ request' \in [Session -> Request]
  BY <1>1, <1>4 DEF ResponseInv, TypeOK
<1>6. /\ effects' \in [Incident -> [Target -> Nat]]
      /\ effects'[i][t] = effects[i][t] + 1
      /\ \A j \in Incident, u \in Target : j # i \/ u # t => effects'[j][u] = effects[j][u]
  BY <1>1, <1>3 DEF ResponseInv, TypeOK
<1>7. TypeOK'
  <2>1. CASE /\ Kind[t] = "INVENTORY_STOCK_LOT"
             /\ available' = [available EXCEPT ![t] = @ - Quantity(t)] /\ UNCHANGED status
    <3>1. available[t] - Quantity(t) \in 0..MaxStock
      BY <1>1, <2>1, QuantityIsThere DEF ResponseInv
    <3>2. available' \in [Target -> 0..MaxStock]
      BY <2>1, <3>1 DEF ResponseInv, TypeOK
    <3> QED BY <1>1, <1>5, <1>6, <2>1, <3>2 DEF ResponseInv, TypeOK, history
  <2>2. CASE /\ Kind[t] # "INVENTORY_STOCK_LOT"
             /\ status' = [status EXCEPT ![t] = TargetStatus(t, r.severity)]
             /\ UNCHANGED available
    <3>1. /\ DOMAIN status' = Target /\ status'[t] = TargetStatus(t, r.severity)
          /\ \A u \in Target : u # t => status'[u] = status[u]
      BY <2>2 DEF ResponseInv, TypeOK
    <3>2. \A u \in Target :
             Kind[u] \in DOMAIN ALLOWED => status'[u] \in DOMAIN ALLOWED[Kind[u]]
      <4>1. Kind[t] \in DOMAIN ALLOWED => status'[t] \in DOMAIN ALLOWED[Kind[t]]
        BY <3>1, TargetStatusIsAStatus
      <4> QED BY <3>1, <4>1 DEF ResponseInv, TypeOK
    <3> QED BY <1>1, <1>5, <1>6, <2>2, <3>1, <3>2 DEF ResponseInv, TypeOK, history
  <2> QED BY <2>1, <2>2 DEF ApplyReference
<1>8. \A j \in Session : Sound(request'[j], incident', records')
  BY <1>1, <1>4, <1>5 DEF ResponseInv
<1>9. Backed'
  <2> SUFFICES ASSUME NEW j \in Incident, NEW u \in Target
               PROVE  /\ IsFiniteSet(AppliedActions(records[j], u))
                      /\ Cardinality(AppliedActions(records[j], u))
                            + Cardinality(Appliers(request', j, u)) <= effects'[j][u]
    BY <1>1 DEF Backed
  <2>1. /\ IsFiniteSet(AppliedActions(records[j], u))
        /\ Cardinality(AppliedActions(records[j], u))
              + Cardinality(Appliers(request, j, u)) <= effects[j][u]
        /\ effects[j][u] \in Nat
    BY DEF ResponseInv, Backed, TypeOK
  <2>2. Cardinality(AppliedActions(records[j], u)) \in Nat
    BY <2>1, FS_CardinalityType
  <2>3. CASE j = i /\ u = t
    <3>1. Appliers(request', j, u) \subseteq Appliers(request, j, u) \cup {k}
      BY <1>5 DEF Appliers
    <3>2. IsFiniteSet(Appliers(request, j, u))
      <4>1. Appliers(request, j, u) \subseteq Session
        BY DEF Appliers
      <4> QED BY <4>1, SessionAssumption, FS_Subset
    <3>3. /\ IsFiniteSet(Appliers(request, j, u) \cup {k})
          /\ Cardinality(Appliers(request, j, u) \cup {k})
                \in {Cardinality(Appliers(request, j, u)), Cardinality(Appliers(request, j, u)) + 1}
      BY <3>2, FS_AddElement
    <3>4. /\ IsFiniteSet(Appliers(request', j, u))
          /\ Cardinality(Appliers(request', j, u))
                <= Cardinality(Appliers(request, j, u) \cup {k})
      BY <3>1, <3>3, FS_Subset
    <3>5. /\ Cardinality(Appliers(request, j, u)) \in Nat
          /\ Cardinality(Appliers(request', j, u)) \in Nat
      BY <3>2, <3>4, FS_CardinalityType
    <3>6. effects'[j][u] = effects[j][u] + 1
      BY <1>6, <2>3
    <3> QED BY <2>1, <2>2, <3>3, <3>4, <3>5, <3>6
  <2>4. CASE ~(j = i /\ u = t)
    <3>1. Appliers(request', j, u) \subseteq Appliers(request, j, u)
      BY <1>1, <1>4, <1>5, <2>4 DEF Appliers
    <3>2. /\ Cardinality(Appliers(request, j, u)) \in Nat
          /\ Cardinality(Appliers(request', j, u)) \in Nat
          /\ Cardinality(Appliers(request', j, u)) <= Cardinality(Appliers(request, j, u))
      BY <3>1, FewerAppliers
    <3>3. effects'[j][u] = effects[j][u]
      BY <1>6, <2>4
    <3> QED BY <2>1, <2>2, <3>2, <3>3
  <2> QED BY <2>3, <2>4
<1>10. Serial'
  BY <1>1, <1>2, <1>4, <1>5 DEF ResponseInv, Serial, history
<1>11. StampedStatus' /\ ReplanRestsOnPropagation'
  BY <1>1 DEF ResponseInv, StampedStatus, ReplanRestsOnPropagation
<1> QED BY <1>7, <1>8, <1>9, <1>10, <1>11 DEF ResponseInv

-----------------------------------------------------------------------------
LEMMA NextResponse ==
    ASSUME ResponseInv, [Next]_vars
    PROVE  ResponseInv'
<1>1. ASSUME NEW k \in Session, NEW i \in Incident,
             \/ \E metadata \in Metadata :
                   \/ \E target \in Requested : BeginTransition(k, i, target, metadata)
                   \/ \E severity \in Severity : BeginUpdate(k, i, severity, metadata)
             \/ BeginPropagation(k, i) \/ BeginEscalation(k, i)
      PROVE  ResponseInv'
  BY <1>1, TransitionBegins, UpdateBegins, PropagationBegins, EscalationBegins
<1>2. ASSUME NEW k \in Session, NEW t \in Target, SkipReference(k, t) \/ ApplyReference(k, t)
      PROVE  ResponseInv'
  BY <1>2, ReferenceIsSkipped, ReferenceIsApplied
<1>3. ASSUME NEW k \in Session,
             \/ CommitIncident(k) \/ FinishPropagation(k) \/ CheckReplan(k)
             \/ RequestReplan(k) \/ Abort(k)
      PROVE  ResponseInv'
  BY <1>3, IncidentIsCommitted, PropagationIsFinished, ReplanIsChecked, ReplanIsRequested,
     RequestAborts
<1>4. ASSUME NEW i \in Incident, NEW t \in Target, AddReference(i, t)
      PROVE  ResponseInv'
  BY <1>4, ReferenceIsAdded
<1>5. ASSUME NEW t \in Target, OperatorChanges(t)
      PROVE  ResponseInv'
  BY <1>5, OperatorKeeps
<1>6. ASSUME NEW n \in DOMAIN replans, ReplanMoves(n)
      PROVE  ResponseInv'
  BY <1>6, ReplanIsMoved
<1>7. CASE UNCHANGED vars
  BY <1>7 DEF vars, ResponseInv, TypeOK, StampedStatus, Backed, ReplanRestsOnPropagation, Serial
<1> QED BY <1>1, <1>2, <1>3, <1>4, <1>5, <1>6, <1>7 DEF Next

(* The inductive invariant holds however requests interleave and die. *)
THEOREM ResponseInvariant == Spec => []ResponseInv
<1>1. ResponseInv /\ [Next]_vars => ResponseInv'
  BY NextResponse
<1> QED BY <1>1, InitResponse, PTL DEF Spec

(* Incidents, domain records, propagation records and replans are well       *)
(* formed: a propagation puts no target in a status of another kind and      *)
(* quarantines no more stock than is available (_propagate_inventory).       *)
THEOREM TypeCorrect == Spec => []TypeOK
<1>1. ResponseInv => TypeOK
  BY DEF ResponseInv
<1> QED BY <1>1, ResponseInvariant, PTL

(* transition_incident_status sets the timestamp of a status with the status; *)
(* no transition that overwrites another takes a timestamp away.              *)
THEOREM StatusIsStamped == Spec => []StampedStatus
<1>1. ResponseInv => StampedStatus
  BY DEF ResponseInv
<1> QED BY <1>1, ResponseInvariant, PTL

(* propagate_incident_impact files its results after the domain services have *)
(* committed: whatever dies in between, each record that says APPLIED has a   *)
(* domain change of its own behind it.                                        *)
THEOREM AppliedIsBacked == Spec => []AppliedIsTruthful
<1>1. ResponseInv => AppliedIsTruthful
  <2> SUFFICES ASSUME ResponseInv, NEW i \in Incident, NEW t \in Target
               PROVE  Cardinality(AppliedActions(records[i], t)) <= effects[i][t]
    BY DEF AppliedIsTruthful, AppliedActions
  <2>1. /\ IsFiniteSet(AppliedActions(records[i], t))
        /\ Cardinality(AppliedActions(records[i], t))
              + Cardinality(Appliers(request, i, t)) <= effects[i][t]
        /\ effects[i][t] \in Nat
    BY DEF ResponseInv, Backed, TypeOK
  <2>2. Cardinality(AppliedActions(records[i], t)) \in Nat
    BY <2>1, FS_CardinalityType
  <2>3. Cardinality(Appliers(request, i, t)) \in Nat
    BY FewerAppliers
  <2> QED BY <2>1, <2>2, <2>3
<1> QED BY <1>1, ResponseInvariant, PTL

(* escalate_incident propagates before it plans: a replan of an incident with *)
(* references finds records of a propagation, even when the request that      *)
(* filed them died.                                                           *)
THEOREM ReplanIsFounded == Spec => []ReplanRestsOnPropagation
<1>1. ResponseInv => ReplanRestsOnPropagation
  BY DEF ResponseInv
<1> QED BY <1>1, ResponseInvariant, PTL

(* Only RequestReplan adds a replan. *)
LEMMA ReplansGrow ==
    ASSUME ResponseInv, [Next]_vars, Len(replans') > Len(replans)
    PROVE  \E k \in Session : RequestReplan(k)
<1>1. replans \in Seq(Replan) /\ Len(replans) \in Nat
  BY DEF ResponseInv, TypeOK
<1>2. replans' # replans
  BY <1>1
<1>3. ASSUME NEW n \in DOMAIN replans, ReplanMoves(n) PROVE FALSE
  <2>1. /\ replans' = [replans EXCEPT ![n] = [replans[n] EXCEPT !.active = ~@]]
        /\ n \in 1..Len(replans)
    BY <1>1, <1>3 DEF ReplanMoves
  <2>2. replans[n] \in Replan
    BY <1>1, <2>1
  <2>3. [replans[n] EXCEPT !.active = ~@] \in Replan
    BY <2>2 DEF Replan
  <2>4. Len(replans') = Len(replans)
    BY <1>1, <2>1, <2>3, ExceptSeq
  <2> QED BY <1>1, <2>4
<1>4. ASSUME NEW k \in Session, NEW i \in Incident
      PROVE  /\ \A target \in Requested, metadata \in Metadata :
                   ~BeginTransition(k, i, target, metadata)
             /\ \A severity \in Severity, metadata \in Metadata :
                   ~BeginUpdate(k, i, severity, metadata)
             /\ ~BeginPropagation(k, i) /\ ~BeginEscalation(k, i)
  BY <1>2 DEF BeginTransition, BeginUpdate, BeginPropagation, BeginEscalation
<1>5. ASSUME NEW k \in Session
      PROVE  /\ ~CommitIncident(k) /\ ~FinishPropagation(k) /\ ~CheckReplan(k) /\ ~Abort(k)
             /\ \A t \in Target : ~SkipReference(k, t) /\ ~ApplyReference(k, t)
  BY <1>2 DEF CommitIncident, FinishPropagation, CheckReplan, Abort, SkipReference, ApplyReference
<1>6. /\ \A i \in Incident, t \in Target : ~AddReference(i, t)
      /\ \A t \in Target : ~OperatorChanges(t)
      /\ ~UNCHANGED vars
  BY <1>2 DEF AddReference, OperatorChanges, vars
<1> QED BY <1>3, <1>4, <1>5, <1>6 DEF Next

(* Served one after the other, two escalations of an incident do not both     *)
(* plan: create_replan_request looks for the active replan of the first.      *)
THEOREM EscalationIsIdempotent == Spec => NoSecondEscalation
<1>1. ResponseInv /\ [Next]_vars =>
         [Len(replans') > Len(replans) /\ ~overlapped =>
            \A n \in DOMAIN replans :
                ~(replans[n].active /\ replans[n].incident = replans'[Len(replans')].incident)]_vars
  <2> SUFFICES ASSUME ResponseInv, [Next]_vars,
                      Len(replans') > Len(replans), ~overlapped, NEW n \in DOMAIN replans
               PROVE  ~(replans[n].active
                          /\ replans[n].incident = replans'[Len(replans')].incident)
    OBVIOUS
  <2>1. PICK k \in Session : RequestReplan(k)
    BY ReplansGrow
  <2> DEFINE r == request[k]
             new == [incident |-> r.incident, active |-> TRUE, referenced |-> r.referenced]
  <2>2. r.step = "create" /\ replans' = Append(replans, new)
    BY <2>1 DEF RequestReplan
  <2>3. r # Idle
    BY <2>2 DEF Idle
  <2>4. ~Escalated(r.incident, replans)
    BY <2>2, <2>3 DEF ResponseInv, Serial, Current
  <2>5. new \in Replan /\ new.incident = r.incident
    <3>1. r \in Escalating
      BY <2>2, Steps DEF ResponseInv, TypeOK
    <3> QED BY <3>1 DEF Escalating, Replan
  <2>6. replans \in Seq(Replan)
    BY DEF ResponseInv, TypeOK
  <2> HIDE DEF new
  <2>7. replans'[Len(replans')] = new
    BY <2>2, <2>5, <2>6
  <2> QED BY <2>4, <2>5, <2>7 DEF Escalated
<1> QED BY <1>1, ResponseInvariant, PTL DEF Spec, NoSecondEscalation

(* What differs from the row in its metadata is written as it is. *)
LEMMA WriteOfMetadata ==
    ASSUME NEW row \in IncidentRow, NEW write \in IncidentRow, Annotates(row, write)
    PROVE  Changed(row, row, write) = write
<1>1. /\ write.status = row.status /\ write.severity = row.severity
      /\ write.stamped = row.stamped
  BY DEF Annotates, IncidentRow
<1>2. write = [status |-> write.status, severity |-> write.severity,
               stamped |-> write.stamped, metadata |-> write.metadata]
  BY DEF IncidentRow
<1> QED BY <1>1, <1>2 DEF Changed

(* Served one after the other, requests leave a closed incident alone but for *)
(* its metadata, and file that: propagate_incident_impact, add_reference and  *)
(* update_incident refuse it; transition_incident_status knows no way out of  *)
(* CLOSED, and files each request to close the incident again as a closing.   *)
THEOREM ClosedStays == Spec => ClosedIsFinal
<1>1. ResponseInv /\ [Next]_vars =>
         [\A i \in Incident : incident[i].status = "CLOSED" /\ ~overlapped =>
            /\ Annotates(incident[i], incident'[i])
            /\ incident'[i] # incident[i] => closings'[i] = closings[i] + 1
            /\ references'[i] = references[i]
            /\ effects'[i] = effects[i] /\ records'[i] = records[i]]_vars
  <2> SUFFICES ASSUME ResponseInv, [Next]_vars,
                      NEW i \in Incident, incident[i].status = "CLOSED", ~overlapped
               PROVE  /\ Annotates(incident[i], incident'[i])
                      /\ incident'[i] # incident[i] => closings'[i] = closings[i] + 1
                      /\ references'[i] = references[i]
                      /\ effects'[i] = effects[i] /\ records'[i] = records[i]
    OBVIOUS
  <2> DEFINE Row   == /\ Annotates(incident[i], incident'[i])
                      /\ incident'[i] # incident[i] => closings'[i] = closings[i] + 1
             Stays == /\ Row /\ references'[i] = references[i]
                      /\ effects'[i] = effects[i] /\ records'[i] = records[i]
  <2> SUFFICES Stays
    OBVIOUS
  <2>0. incident'[i] = incident[i] => Row
    BY DEF ResponseInv, TypeOK, IncidentRow, Annotates
  <2> HIDE DEF Row
  <2>1. ASSUME NEW k \in Session, CommitIncident(k) PROVE Stays
    <3> DEFINE r == request[k]
    <3>1. /\ r.step = "write"
          /\ incident' = [incident EXCEPT ![r.incident] = Changed(@, r.read, r.write)]
          /\ closings' = [closings EXCEPT ![r.incident] =
                             IF r.write.status = "CLOSED" THEN @ + 1 ELSE @]
          /\ UNCHANGED <<references, domain, records>>
      BY <2>1 DEF CommitIncident
    <3>2. CASE r.incident = i
      <4>1. r # Idle /\ r \in Writing
        BY <3>1, Steps DEF Idle, ResponseInv, TypeOK
      <4>2. r.read = incident[i] /\ r.write \in IncidentRow
        BY <3>1, <3>2, <4>1 DEF ResponseInv, Serial, Current, Writing
      <4>3. Annotates(incident[i], r.write)
        BY <3>1, <3>2, <4>2 DEF ResponseInv, Sound, SoundWrite
      <4>4. incident[i] \in IncidentRow /\ incident \in [Incident -> IncidentRow]
        BY DEF ResponseInv, TypeOK
      <4>5. incident'[i] = r.write
        <5>1. Changed(incident[i], r.read, r.write) = r.write
          BY <4>2, <4>3, <4>4, WriteOfMetadata
        <5> QED BY <3>1, <3>2, <4>4, <5>1
      <4>6. closings'[i] = closings[i] + 1
        <5>1. r.write.status = "CLOSED"
          BY <4>2, <4>3, <4>4 DEF Annotates, IncidentRow
        <5> QED BY <3>1, <3>2, <5>1 DEF ResponseInv, TypeOK
      <4>7. Row
        BY <4>3, <4>5, <4>6 DEF Row
      <4> QED BY <3>1, <4>7 DEF domain
    <3>3. CASE r.incident # i
      BY <2>0, <3>1, <3>3 DEF ResponseInv, TypeOK, domain
    <3> QED BY <3>2, <3>3
  <2>2. ASSUME NEW k \in Session, request[k].step = "propagate" PROVE request[k].incident # i
    BY <2>2 DEF ResponseInv, Serial, Current, Idle
  <2>3. ASSUME NEW k \in Session, FinishPropagation(k) PROVE Stays
    BY <2>0, <2>2, <2>3 DEF FinishPropagation, domain, ResponseInv, TypeOK
  <2>4. ASSUME NEW k \in Session, NEW t \in Target, ApplyReference(k, t) PROVE Stays
    BY <2>0, <2>2, <2>4 DEF ApplyReference, ResponseInv, TypeOK
  <2>5. ASSUME NEW j \in Incident, NEW t \in Target, AddReference(j, t) PROVE Stays
    BY <2>0, <2>5 DEF AddReference, domain, ResponseInv, TypeOK
  <2>6. ASSUME NEW k \in Session, NEW j \in Incident,
               \/ \E metadata \in Metadata :
                     \/ \E target \in Requested : BeginTransition(k, j, target, metadata)
                     \/ \E severity \in Severity : BeginUpdate(k, j, severity, metadata)
               \/ BeginPropagation(k, j) \/ BeginEscalation(k, j)
        PROVE  Stays
    BY <2>0, <2>6 DEF BeginTransition, BeginUpdate, BeginPropagation, BeginEscalation, domain
  <2>7. ASSUME NEW k \in Session,
               \/ CheckReplan(k) \/ RequestReplan(k) \/ Abort(k)
               \/ \E t \in Target : SkipReference(k, t)
        PROVE  Stays
    BY <2>0, <2>7 DEF CheckReplan, RequestReplan, Abort, SkipReference, domain
  <2>8. ASSUME NEW t \in Target, OperatorChanges(t) PROVE Stays
    BY <2>0, <2>8 DEF OperatorChanges
  <2>9. ASSUME NEW n \in DOMAIN replans, ReplanMoves(n) PROVE Stays
    BY <2>0, <2>9 DEF ReplanMoves, domain
  <2>10. CASE UNCHANGED vars
    BY <2>0, <2>10 DEF vars
  <2> HIDE DEF Stays
  <2>11. CASE Next
    <3>1. CASE \E k \in Session, j \in Incident :
                  \/ \E metadata \in Metadata :
                        \/ \E target \in Requested : BeginTransition(k, j, target, metadata)
                        \/ \E severity \in Severity : BeginUpdate(k, j, severity, metadata)
                  \/ BeginPropagation(k, j) \/ BeginEscalation(k, j)
      BY <3>1, <2>6
    <3>2. CASE \E k \in Session :
                  \/ CommitIncident(k) \/ FinishPropagation(k) \/ CheckReplan(k)
                  \/ RequestReplan(k) \/ Abort(k)
                  \/ \E t \in Target : SkipReference(k, t) \/ ApplyReference(k, t)
      BY <3>2, <2>1, <2>3, <2>4, <2>7
    <3>3. CASE \/ \E j \in Incident, t \in Target : AddReference(j, t)
               \/ \E t \in Target : OperatorChanges(t)
               \/ \E n \in DOMAIN replans : ReplanMoves(n)
      BY <3>3, <2>5, <2>8, <2>9
    <3> QED BY <2>11, <3>1, <3>2, <3>3 DEF Next
  <2> QED BY <2>10, <2>11
<1> QED BY <1>1, ResponseInvariant, PTL DEF Spec, ClosedIsFinal
=============================================================================

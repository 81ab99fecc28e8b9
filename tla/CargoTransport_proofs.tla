----------------------- MODULE CargoTransport_proofs -----------------------
(* Proofs about CargoTransport, for any requests, legs, consignments, days  *)
(* and statuses asked for.                                                  *)
EXTENDS CargoTransport, TLAPS

Settled == {"DAMAGED", "LOST", "REJECTED"}

(* calculate_cargo_risk always answers with a level. *)
LEMMA RiskLevel ==
    ASSUME NEW s, NEW e \in Day \cup {Unknown}, NEW d \in Day
    PROVE  CargoRisk(s, e, d) \in CargoRiskLevel
<1>0. d \in Int /\ e \in Int
  BY DayAssumption DEF Unknown
<1>1. CASE s \in Settled
  BY <1>1 DEF CargoRisk, CargoRiskLevel, Settled
<1>2. CASE s \notin Settled /\ e = Unknown
  BY <1>2 DEF CargoRisk, CargoRiskLevel, Settled
<1>3. CASE s \notin Settled /\ e # Unknown
  <2>1. CASE d - e < 0
    BY <1>3, <2>1 DEF CargoRisk, CargoRiskLevel, Settled
  <2>2. CASE ~(d - e < 0) /\ d - e < 2
    BY <1>3, <2>2 DEF CargoRisk, CargoRiskLevel, Settled
  <2>3. CASE ~(d - e < 0) /\ ~(d - e < 2)
    BY <1>3, <2>3 DEF CargoRisk, CargoRiskLevel, Settled
  <2> QED BY <2>1, <2>2, <2>3
<1> QED BY <1>1, <1>2, <1>3

(* It does not tell apart the statuses of consignments that may still arrive. *)
LEMMA RiskIgnoresStatus ==
    ASSUME NEW s, NEW t, NEW e, NEW d, s \notin Settled, t \notin Settled
    PROVE  CargoRisk(s, e, d) = CargoRisk(t, e, d)
BY DEF CargoRisk, Settled

(* Such a consignment is CRITICAL only if it comes after its deadline. *)
LEMMA CriticalIsLate ==
    ASSUME NEW s, s \notin Settled, NEW e \in Day, NEW d \in Day,
           CargoRisk(s, e, d) = "CRITICAL"
    PROVE  e > d
<1>1. e \in Nat /\ d \in Nat /\ e # Unknown
  BY DayAssumption DEF Unknown
<1>2. CASE d - e < 0
  BY <1>1, <1>2
<1>3. CASE ~(d - e < 0) /\ d - e < 2
  BY <1>1, <1>3 DEF CargoRisk, Settled
<1>4. CASE ~(d - e < 0) /\ ~(d - e < 2)
  BY <1>1, <1>4 DEF CargoRisk, Settled
<1> QED BY <1>2, <1>3, <1>4

LEMMA RowShape ==
    ASSUME NEW row \in CargoRow
    PROVE  DOMAIN row = {"status", "eta", "requiredBy", "risk"}
BY DEF CargoRow

(* A session writes a row back well formed, and as it wants it if nobody has *)
(* changed the row since.                                                    *)
LEMMA CargoWritten ==
    ASSUME NEW row \in CargoRow, NEW read \in CargoRow, NEW write \in CargoRow
    PROVE  /\ Written(row, read, write) \in CargoRow
           /\ row = read => Written(row, read, write) = write
BY RowShape DEF Written, CargoRow

LEMMA LegWritten ==
    ASSUME NEW row \in LegRow, NEW read \in LegRow, NEW write \in LegRow
    PROVE  /\ Written(row, read, write) \in LegRow
           /\ row = read => Written(row, read, write) = write
BY DEF Written, LegRow

LEMMA Statuses ==
    /\ "DELAYED" \in TransportStatus
    /\ "DELAYED" \in CargoStatus
    /\ "DELAYED" \notin Settled
    /\ \A s \in {"IN_TRANSIT", "READY", "DISPATCHED"} : s \notin Settled
    /\ \A s \in Settled : ALLOWED_CONSIGNMENT_TRANSITIONS[s] = {s}
BY DEF TransportStatus, CargoStatus, Settled, ALLOWED_TRANSPORT_TRANSITIONS,
       ALLOWED_CONSIGNMENT_TRANSITIONS

-----------------------------------------------------------------------------
(* What the update of a consignment is about to write: a risk that fits, and *)
(* a status that may follow the one it has read.                             *)
Coherent(r) ==
    r.op = "cargo" =>
        /\ r.row.risk = CargoRisk(r.row.status, r.row.eta, r.row.requiredBy)
        /\ r.row.status \in {r.was.status} \cup ALLOWED_CONSIGNMENT_TRANSITIONS[r.was.status]

CargoInv ==
    /\ TypeOK
    /\ \A k \in Session : Coherent(request[k])
    /\ RiskIsCurrent

(* The operation tells what a request carries. *)
LEMMA RequestKind ==
    ASSUME NEW r \in Request
    PROVE  /\ r.op = "delay" => r \in DelayRequest
           /\ r.op = "leg" => r \in LegRequest
           /\ r.op = "cargo" => r \in CargoRequest
           /\ r.op = "assign" => r \in AssignRequest
BY DEF Request, NoRequest, DelayRequest, LegRequest, CargoRequest, AssignRequest

(* Reading what a request needs keeps the invariant. *)
LEMMA ServeKeeps ==
    ASSUME CargoInv, NEW k \in Session, NEW r \in Request, Coherent(r), Serve(k, r)
    PROVE  CargoInv'
<1>1. TypeOK'
  BY DEF Serve, CargoInv, TypeOK
<1>2. \A j \in Session : Coherent(request[j])'
  BY DEF Serve, CargoInv, Coherent, TypeOK
<1>3. RiskIsCurrent'
  BY DEF Serve, CargoInv, RiskIsCurrent
<1> QED BY <1>1, <1>2, <1>3 DEF CargoInv

LEMMA BeginDelayKeeps ==
    ASSUME CargoInv, NEW k \in Session, NEW l \in Leg, NEW eta \in Day, BeginDelay(k, l, eta)
    PROVE  CargoInv'
<1> DEFINE seen == [c \in {} |-> cargo[c]]
           r == [op |-> "delay", leg |-> l, eta |-> eta, was |-> legs[l],
                 seen |-> seen, phase |-> "reading"]
<1>1. seen \in UNION {[C -> CargoRow] : C \in SUBSET Consignment}
  <2>1. seen \in [{} -> CargoRow]
    OBVIOUS
  <2> QED BY <2>1
<1>2. r \in Request
  BY <1>1 DEF Request, DelayRequest, CargoInv, TypeOK
<1>3. Coherent(r)
  BY DEF Coherent
<1>4. Serve(k, r)
  BY DEF BeginDelay
<1> QED BY <1>2, <1>3, <1>4, ServeKeeps

LEMMA BeginLegKeeps ==
    ASSUME CargoInv, NEW k \in Session, NEW l \in Leg,
           NEW status \in LegTarget \cup {legs[l].status}, NEW eta \in Day \cup {legs[l].eta},
           BeginLeg(k, l, status, eta)
    PROVE  CargoInv'
<1> DEFINE row == [status |-> status, eta |-> eta]
           r == [op |-> "leg", leg |-> l, was |-> legs[l], row |-> row]
<1>1. legs[l] \in LegRow
  BY DEF CargoInv, TypeOK
<1>2. row \in LegRow
  BY <1>1, StatusAssumption DEF LegRow
<1>3. r \in Request
  BY <1>1, <1>2 DEF Request, LegRequest
<1>4. Coherent(r)
  BY DEF Coherent
<1>5. Serve(k, r)
  BY DEF BeginLeg
<1> QED BY <1>3, <1>4, <1>5, ServeKeeps

LEMMA BeginCargoKeeps ==
    ASSUME CargoInv, NEW k \in Session, NEW c \in Consignment,
           NEW status \in CargoTarget \cup {cargo[c].status},
           NEW eta \in Day \cup {cargo[c].eta}, NEW requiredBy \in Day,
           BeginCargo(k, c, status, eta, requiredBy)
    PROVE  CargoInv'
<1> DEFINE row == Updated(cargo[c], status, eta, requiredBy)
           r == [op |-> "cargo", cargo |-> c, was |-> cargo[c], row |-> row]
<1>1. cargo[c] \in CargoRow
  BY DEF CargoInv, TypeOK
<1>2. eta \in Day \cup {Unknown} /\ status \in CargoStatus
  BY <1>1, StatusAssumption DEF CargoRow
<1>3. row \in CargoRow
  BY <1>2, RiskLevel DEF CargoRow, Updated
<1>4. r \in Request
  BY <1>1, <1>3 DEF Request, CargoRequest
<1>5. Coherent(r)
  BY DEF Coherent, BeginCargo, Updated
<1>6. Serve(k, r)
  BY DEF BeginCargo
<1> QED BY <1>4, <1>5, <1>6, ServeKeeps

LEMMA BeginAssignKeeps ==
    ASSUME CargoInv, NEW k \in Session, NEW l \in Leg, NEW c \in Consignment,
           BeginAssign(k, l, c)
    PROVE  CargoInv'
<1> DEFINE r == [op |-> "assign", leg |-> l, cargo |-> c]
<1>1. r \in Request /\ Coherent(r)
  BY DEF Request, AssignRequest, Coherent
<1>2. Serve(k, r)
  BY DEF BeginAssign
<1> QED BY <1>1, <1>2, ServeKeeps

LEMMA ListCargoKeeps ==
    ASSUME CargoInv, NEW k \in Session, ListCargo(k)
    PROVE  CargoInv'
<1> DEFINE d == request[k]
           seen == [c \in Manifested(d.leg) |-> cargo[c]]
           r == [op |-> "delay", leg |-> d.leg, eta |-> d.eta, was |-> d.was,
                 seen |-> seen, phase |-> "ready"]
<1>1. d \in DelayRequest
  BY RequestKind DEF ListCargo, CargoInv, TypeOK
<1>2. seen \in UNION {[C -> CargoRow] : C \in SUBSET Consignment}
  <2>1. Manifested(d.leg) \in SUBSET Consignment
    BY DEF Manifested
  <2>2. seen \in [Manifested(d.leg) -> CargoRow]
    BY <2>1 DEF CargoInv, TypeOK
  <2> QED BY <2>1, <2>2
<1>3. r \in Request
  BY <1>1, <1>2 DEF Request, DelayRequest
<1>4. Coherent(r)
  BY DEF Coherent
<1>5. Serve(k, r)
  BY DEF ListCargo
<1> QED BY <1>3, <1>4, <1>5, ServeKeeps

LEMMA AbortKeeps ==
    ASSUME CargoInv, NEW k \in Session, Abort(k)
    PROVE  CargoInv'
<1>1. NoRequest \in Request /\ Coherent(NoRequest)
  BY DEF Request, NoRequest, Coherent
<1> QED BY <1>1, ServeKeeps DEF Abort

-----------------------------------------------------------------------------
(* A request that ends leaves the others as they were. *)
LEMMA EndKeepsRequests ==
    ASSUME CargoInv, NEW k \in Session, request' = [request EXCEPT ![k] = NoRequest]
    PROVE  /\ request' \in [Session -> Request]
           /\ \A j \in Session : Coherent(request'[j])
BY DEF CargoInv, TypeOK, Request, Coherent, NoRequest

(* apply_transport_delay leaves a well-formed row with a risk that fits. *)
LEMMA DelayedRow ==
    ASSUME NEW c \in CargoRow, NEW eta \in Day
    PROVE  /\ Delayed(c, eta) \in CargoRow
           /\ LET d == Delayed(c, eta) IN d.risk = CargoRisk(d.status, d.eta, d.requiredBy)
           /\ Delayed(c, eta).eta = eta
           /\ c.status \in Settled => Delayed(c, eta).status = c.status
           /\ Delayed(c, eta).status # c.status => eta > Delayed(c, eta).requiredBy
<1> DEFINE risk == CargoRisk(c.status, eta, c.requiredBy)
           d == Delayed(c, eta)
<1>1. risk \in CargoRiskLevel /\ c.status \in CargoStatus /\ c.requiredBy \in Day
  BY RiskLevel DEF CargoRow
<1>2. d.eta = eta /\ d.requiredBy = c.requiredBy /\ d.risk = risk
  BY DEF Delayed
<1>3. CASE d.status = c.status
  BY <1>1, <1>2, <1>3 DEF Delayed, CargoRow
<1>4. CASE d.status # c.status
  <2>1. /\ d.status = "DELAYED"
        /\ risk = "CRITICAL" \/ eta > c.requiredBy
        /\ c.status \notin Settled
    BY <1>4, Statuses DEF Delayed
  <2>2. eta > c.requiredBy
    BY <1>1, <2>1, CriticalIsLate
  <2>3. risk = CargoRisk(d.status, eta, c.requiredBy)
    BY <2>1, Statuses, RiskIgnoresStatus
  <2>4. d \in CargoRow
    BY <1>1, <2>1, Statuses DEF Delayed, CargoRow
  <2> QED BY <1>2, <2>1, <2>2, <2>3, <2>4
<1> QED BY <1>3, <1>4

LEMMA CommitLegKeeps ==
    ASSUME CargoInv, NEW k \in Session, CommitLeg(k)
    PROVE  CargoInv'
<1>1. request[k] \in LegRequest
  BY RequestKind DEF CommitLeg, CargoInv, TypeOK
<1>2. legs' \in [Leg -> LegRow]
  <2>1. Written(legs[request[k].leg], request[k].was, request[k].row) \in LegRow
    BY <1>1, LegWritten DEF LegRequest, CargoInv, TypeOK
  <2> QED BY <2>1 DEF CommitLeg, CargoInv, TypeOK
<1>3. stale' \in BOOLEAN /\ (~stale' => ~stale)
  BY DEF CommitLeg, CargoInv, TypeOK
<1> QED BY <1>2, <1>3, EndKeepsRequests DEF CommitLeg, CargoInv, TypeOK, RiskIsCurrent

LEMMA CommitAssignKeeps ==
    ASSUME CargoInv, NEW k \in Session, CommitAssign(k)
    PROVE  CargoInv'
<1>1. request[k] \in AssignRequest
  BY RequestKind DEF CommitAssign, CargoInv, TypeOK
<1>2. manifest' \subseteq Leg \X Consignment
  BY <1>1 DEF CommitAssign, AssignRequest, CargoInv, TypeOK
<1> QED BY <1>2, EndKeepsRequests DEF CommitAssign, CargoInv, TypeOK, RiskIsCurrent

(* What the update of a consignment leaves, if nobody was in between. *)
LEMMA CommitCargoWrites ==
    ASSUME CargoInv, NEW k \in Session, CommitCargo(k)
    PROVE  LET r == request[k] IN
           /\ r \in CargoRequest
           /\ Written(cargo[r.cargo], r.was, r.row) \in CargoRow
           /\ ~stale' => ~stale /\ r.was = cargo[r.cargo] /\ cargo'[r.cargo] = r.row
           /\ \A c \in Consignment \ {r.cargo} : cargo'[c] = cargo[c]
<1>1. request[k] \in CargoRequest
  BY RequestKind DEF CommitCargo, CargoInv, TypeOK
<1>2. /\ request[k].cargo \in Consignment
      /\ request[k].was \in CargoRow
      /\ request[k].row \in CargoRow
      /\ cargo[request[k].cargo] \in CargoRow
  BY <1>1 DEF CargoRequest, CargoInv, TypeOK
<1> QED BY <1>1, <1>2, CargoWritten DEF CommitCargo, CargoInv, TypeOK

LEMMA CommitCargoKeeps ==
    ASSUME CargoInv, NEW k \in Session, CommitCargo(k)
    PROVE  CargoInv'
<1>1. cargo' \in [Consignment -> CargoRow] /\ stale' \in BOOLEAN
  BY CommitCargoWrites DEF CommitCargo, CargoInv, TypeOK
<1>2. ASSUME ~stale', NEW c \in Consignment
      PROVE  cargo'[c].risk = CargoRisk(cargo'[c].status, cargo'[c].eta, cargo'[c].requiredBy)
  <2>1. CASE c = request[k].cargo
    BY <1>2, <2>1, CommitCargoWrites DEF CommitCargo, CargoInv, Coherent
  <2>2. CASE c # request[k].cargo
    BY <1>2, <2>2, CommitCargoWrites DEF CargoInv, RiskIsCurrent
  <2> QED BY <2>1, <2>2
<1> QED BY <1>1, <1>2, EndKeepsRequests DEF CommitCargo, CargoInv, TypeOK, RiskIsCurrent

(* What a delay leaves of each consignment. *)
LEMMA CommitDelayWrites ==
    ASSUME CargoInv, NEW k \in Session, CommitDelay(k)
    PROVE  LET r == request[k] IN
           /\ r \in DelayRequest
           /\ legs' \in [Leg -> LegRow]
           /\ cargo' \in [Consignment -> CargoRow]
           /\ ~stale' => /\ ~stale
                         /\ legs'[r.leg].eta = r.eta
                         /\ \A c \in Consignment : cargo'[c] =
                               IF c \in Manifested(r.leg) THEN Delayed(cargo[c], r.eta) ELSE cargo[c]
<1> DEFINE r == request[k]
<1>1. r \in DelayRequest
  BY RequestKind DEF CommitDelay, CargoInv, TypeOK
<1>2. /\ r.leg \in Leg /\ r.eta \in Day /\ r.was \in LegRow
      /\ \A c \in DOMAIN r.seen : r.seen[c] \in CargoRow
  BY <1>1 DEF DelayRequest
<1>3. /\ [status |-> "DELAYED", eta |-> r.eta] \in LegRow
      /\ legs[r.leg] \in LegRow
  BY <1>2, Statuses DEF LegRow, CargoInv, TypeOK
<1>4. legs' \in [Leg -> LegRow] /\ (~stale' => legs'[r.leg].eta = r.eta)
  <2> DEFINE row == [status |-> "DELAYED", eta |-> r.eta]
             after == Written(legs[r.leg], r.was, row)
  <2>1. after \in LegRow /\ (legs[r.leg] = r.was => after = row)
    BY <1>2, <1>3, LegWritten
  <2>2. legs' = [legs EXCEPT ![r.leg] = after]
    BY DEF CommitDelay
  <2>3. ~stale' => legs[r.leg] = r.was
    BY DEF CommitDelay
  <2>4. legs'[r.leg] = after
    BY <1>2, <2>2 DEF CargoInv, TypeOK
  <2> HIDE DEF after
  <2> QED BY <1>2, <2>1, <2>2, <2>3, <2>4 DEF CargoInv, TypeOK
<1>5. \A c \in Consignment : cargo'[c] \in CargoRow
  <2> SUFFICES ASSUME NEW c \in Consignment PROVE cargo'[c] \in CargoRow
    OBVIOUS
  <2>1. cargo[c] \in CargoRow
    BY DEF CargoInv, TypeOK
  <2>2. CASE c \in DOMAIN r.seen
    <3>1. r.seen[c] \in CargoRow /\ Delayed(r.seen[c], r.eta) \in CargoRow
      BY <1>2, <2>2, DelayedRow
    <3>2. cargo'[c] = Written(cargo[c], r.seen[c], Delayed(r.seen[c], r.eta))
      BY <2>2 DEF CommitDelay
    <3> QED BY <2>1, <3>1, <3>2, CargoWritten
  <2>3. CASE c \notin DOMAIN r.seen
    BY <2>1, <2>3 DEF CommitDelay
  <2> QED BY <2>2, <2>3
<1>6. cargo' \in [Consignment -> CargoRow]
  BY <1>5 DEF CommitDelay
<1>7. ASSUME ~stale', NEW c \in Consignment
      PROVE  cargo'[c] =
                IF c \in Manifested(r.leg) THEN Delayed(cargo[c], r.eta) ELSE cargo[c]
  <2>1. r.seen = [d \in Manifested(r.leg) |-> cargo[d]]
    BY <1>7 DEF CommitDelay
  <2>2. DOMAIN r.seen = Manifested(r.leg)
    BY <2>1
  <2>3. CASE c \in Manifested(r.leg)
    <3>1. r.seen[c] = cargo[c] /\ cargo[c] \in CargoRow
      BY <2>1, <2>3 DEF CargoInv, TypeOK
    <3>2. Delayed(cargo[c], r.eta) \in CargoRow
      BY <1>2, <3>1, DelayedRow
    <3>3. cargo'[c] = Written(cargo[c], cargo[c], Delayed(cargo[c], r.eta))
      BY <2>2, <2>3, <3>1 DEF CommitDelay
    <3> QED BY <2>3, <3>1, <3>2, <3>3, CargoWritten
  <2>4. CASE c \notin Manifested(r.leg)
    BY <2>2, <2>4 DEF CommitDelay
  <2> QED BY <2>3, <2>4
<1>8. ~stale' => ~stale
  BY DEF CommitDelay
<1> QED BY <1>1, <1>4, <1>6, <1>7, <1>8

LEMMA CommitDelayKeeps ==
    ASSUME CargoInv, NEW k \in Session, CommitDelay(k)
    PROVE  CargoInv'
<1>1. ASSUME ~stale', NEW c \in Consignment
      PROVE  cargo'[c].risk = CargoRisk(cargo'[c].status, cargo'[c].eta, cargo'[c].requiredBy)
  <2>1. cargo[c] \in CargoRow /\ request[k].eta \in Day
    BY CommitDelayWrites DEF DelayRequest, CargoInv, TypeOK
  <2>2. CASE c \in Manifested(request[k].leg)
    <3>1. cargo'[c] = Delayed(cargo[c], request[k].eta)
      BY <1>1, <2>2, CommitDelayWrites
    <3> QED BY <2>1, <3>1, DelayedRow
  <2>3. CASE c \notin Manifested(request[k].leg)
    BY <1>1, <2>3, CommitDelayWrites DEF CargoInv, RiskIsCurrent
  <2> QED BY <2>2, <2>3
<1>2. stale' \in BOOLEAN
  <2> DEFINE outdated == \/ legs[request[k].leg] # request[k].was
                         \/ request[k].seen # [c \in Manifested(request[k].leg) |-> cargo[c]]
  <2>1. stale' = (stale \/ outdated)
    BY DEF CommitDelay
  <2> HIDE DEF outdated
  <2> QED BY <2>1
<1> QED
  BY <1>1, <1>2, CommitDelayWrites, EndKeepsRequests
     DEF CommitDelay, CargoInv, TypeOK, RiskIsCurrent

-----------------------------------------------------------------------------
LEMMA InitCargo == Init => CargoInv
<1> SUFFICES ASSUME Init PROVE CargoInv
  OBVIOUS
<1>1. TypeOK
  BY DEF Init, TypeOK, NewConsignment, Request
<1>2. RiskIsCurrent
  BY DEF Init, NewConsignment, RiskIsCurrent
<1> QED BY <1>1, <1>2 DEF Init, CargoInv, Coherent, NoRequest

LEMMA NextCargo == CargoInv /\ [Next]_vars => CargoInv'
<1> SUFFICES ASSUME CargoInv, [Next]_vars PROVE CargoInv'
  OBVIOUS
<1>1. CASE UNCHANGED vars
  BY <1>1 DEF vars, CargoInv, TypeOK, Coherent, RiskIsCurrent
<1>2. ASSUME NEW k \in Session, NEW l \in Leg, NEW eta \in Day, BeginDelay(k, l, eta)
      PROVE  CargoInv'
  BY <1>2, BeginDelayKeeps
<1>3. ASSUME NEW k \in Session, NEW l \in Leg,
             NEW status \in LegTarget \cup {legs[l].status},
             NEW eta \in Day \cup {legs[l].eta}, BeginLeg(k, l, status, eta)
      PROVE  CargoInv'
  BY <1>3, BeginLegKeeps
<1>4. ASSUME NEW k \in Session, NEW c \in Consignment,
             NEW status \in CargoTarget \cup {cargo[c].status},
             NEW eta \in Day \cup {cargo[c].eta}, NEW requiredBy \in Day,
             BeginCargo(k, c, status, eta, requiredBy)
      PROVE  CargoInv'
  BY <1>4, BeginCargoKeeps
<1>5. ASSUME NEW k \in Session, NEW l \in Leg, NEW c \in Consignment, BeginAssign(k, l, c)
      PROVE  CargoInv'
  BY <1>5, BeginAssignKeeps
<1>6. ASSUME NEW k \in Session,
             \/ ListCargo(k) \/ CommitDelay(k) \/ CommitLeg(k) \/ CommitCargo(k)
             \/ CommitAssign(k) \/ Abort(k)
      PROVE  CargoInv'
  BY <1>6, ListCargoKeeps, CommitDelayKeeps, CommitLegKeeps, CommitCargoKeeps,
     CommitAssignKeeps, AbortKeeps
<1> QED BY <1>1, <1>2, <1>3, <1>4, <1>5, <1>6 DEF Next

(* The inductive invariant of transport and cargo: well-formed rows, updates *)
(* in flight that are coherent, and risks that fit (domains/cargo/service).  *)
THEOREM CargoInvariant == Spec => []CargoInv
BY InitCargo, NextCargo, PTL DEF Spec

(* Rows and requests of legs and consignments are well formed, whatever      *)
(* requests overwrite each other's columns (update_consignment, ...).        *)
THEOREM TypeCorrect == Spec => []TypeOK
BY CargoInvariant, PTL DEF CargoInv

(* As long as nobody writes on an outdated read, calculate_cargo_risk has    *)
(* been called with the columns the consignment shows.                       *)
THEOREM RiskCurrent == Spec => []RiskIsCurrent
BY CargoInvariant, PTL DEF CargoInv

-----------------------------------------------------------------------------
LEMMA SettledStep ==
    ASSUME CargoInv, [Next]_vars, ~stale', NEW c \in Consignment, cargo[c].status \in Settled
    PROVE  cargo'[c].status = cargo[c].status
<1>1. CASE UNCHANGED cargo
  BY <1>1
<1>2. ASSUME NEW k \in Session, CommitCargo(k)
      PROVE  cargo'[c].status = cargo[c].status
  <2>1. CASE c = request[k].cargo
    <3>1. request[k].was = cargo[c] /\ cargo'[c] = request[k].row
      BY <1>2, <2>1, CommitCargoWrites
    <3>2. request[k].row.status \in
            {request[k].was.status} \cup ALLOWED_CONSIGNMENT_TRANSITIONS[request[k].was.status]
      <4>1. request[k].op = "cargo" /\ Coherent(request[k])
        BY <1>2 DEF CommitCargo, CargoInv
      <4> QED BY <4>1 DEF Coherent
    <3>3. ALLOWED_CONSIGNMENT_TRANSITIONS[cargo[c].status] = {cargo[c].status}
      BY Statuses
    <3> QED BY <3>1, <3>2, <3>3
  <2>2. CASE c # request[k].cargo
    BY <1>2, <2>2, CommitCargoWrites
  <2> QED BY <2>1, <2>2
<1>3. ASSUME NEW k \in Session, CommitDelay(k)
      PROVE  cargo'[c].status = cargo[c].status
  <2>1. cargo[c] \in CargoRow /\ request[k].eta \in Day
    BY <1>3, CommitDelayWrites DEF DelayRequest, CargoInv, TypeOK
  <2> QED BY <1>3, <2>1, CommitDelayWrites, DelayedRow
<1> QED
  BY <1>1, <1>2, <1>3 DEF Next, vars, Serve, BeginDelay, BeginLeg, BeginCargo, BeginAssign,
     ListCargo, CommitLeg, CommitAssign, Abort

(* Damaged, lost and rejected consignments stay so, whatever delays befall   *)
(* the legs they are on (apply_transport_delay, validate_cargo_transition).  *)
THEOREM SettledFinal == Spec => SettledCargoIsFinal
<1>1. CargoInv /\ [Next]_vars =>
        [~stale' => \A c \in Consignment :
            cargo[c].status \in {"DAMAGED", "LOST", "REJECTED"} =>
               cargo'[c].status = cargo[c].status]_vars
  BY SettledStep DEF Settled
<1> QED BY <1>1, CargoInvariant, PTL DEF Spec, SettledCargoIsFinal

LEMMA DelayStep ==
    ASSUME CargoInv, NEW k \in Session, CommitDelay(k), ~stale',
           NEW c \in Manifested(request[k].leg)
    PROVE  /\ cargo'[c].eta = legs'[request[k].leg].eta
           /\ cargo'[c].status # cargo[c].status => cargo'[c].eta > cargo'[c].requiredBy
<1>1. c \in Consignment
  BY DEF Manifested
<1>2. cargo[c] \in CargoRow /\ request[k].eta \in Day
  BY <1>1, CommitDelayWrites DEF DelayRequest, CargoInv, TypeOK
<1>3. /\ cargo'[c] = Delayed(cargo[c], request[k].eta)
      /\ legs'[request[k].leg].eta = request[k].eta
  BY <1>1, CommitDelayWrites
<1> QED BY <1>2, <1>3, DelayedRow

(* A delay recorded on current data reaches all that is on the leg, and      *)
(* marks as DELAYED only what misses its deadline (record_transport_delay).  *)
THEOREM DelayReaches == Spec => DelayReachesManifest
<1>1. CargoInv /\ [Next]_vars =>
        [\A k \in Session : CommitDelay(k) /\ ~stale' =>
            \A c \in Manifested(request[k].leg) :
               /\ cargo'[c].eta = legs'[request[k].leg].eta
               /\ cargo'[c].status # cargo[c].status =>
                     cargo'[c].eta > cargo'[c].requiredBy]_vars
  BY DelayStep
<1> QED BY <1>1, CargoInvariant, PTL DEF Spec, DelayReachesManifest
=============================================================================

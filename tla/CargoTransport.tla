--------------------------- MODULE CargoTransport ---------------------------
(***************************************************************************)
(* Transport legs and the cargo consignments that move on them (backend    *)
(* domains/transport and domains/cargo), under concurrent requests.        *)
(*                                                                         *)
(* A delay of a leg is one transaction: the leg is written, which locks    *)
(* its row until the commit; the consignments manifested on it are read;   *)
(* each gets the new time of arrival, a new risk and, when it will be      *)
(* late, the status DELAYED.  The other operations read what they change   *)
(* and commit it, without a lock between the two.                          *)
(***************************************************************************)
EXTENDS Integers, DomainTransitions, Rows

CONSTANTS
    Session,    \* concurrent requests
    Leg, Consignment,
    Day,        \* the times of arrival and deadlines that requests give, in days
    LegOpening, \* the statuses legs and consignments may be created with
    CargoOpening,
    LegTarget,  \* the statuses that updates of them ask for
    CargoTarget

TransportStatus == DOMAIN ALLOWED_TRANSPORT_TRANSITIONS

CargoStatus == DOMAIN ALLOWED_CONSIGNMENT_TRANSITIONS

ASSUME DayAssumption == Day \subseteq Nat
ASSUME StatusAssumption ==
    /\ LegOpening \cup LegTarget \subseteq TransportStatus
    /\ CargoOpening \cup CargoTarget \subseteq CargoStatus

VARIABLES
    legs,       \* [Leg -> status and estimated arrival]
    cargo,      \* [Consignment -> status, estimated arrival, deadline, risk]
    manifest,   \* the pairs of a leg and a consignment assigned to it
    request,    \* [Session -> the request served in it]
    stale       \* history: a request has committed on an outdated read

vars == <<legs, cargo, manifest, request, stale>>

-----------------------------------------------------------------------------
CargoRiskLevel == {"NOMINAL", "MODERATE", "ELEVATED", "CRITICAL"}

(* A time of arrival nobody has estimated yet. *)
Unknown == -1

(* calculate_cargo_risk: a margin below 48 hours is ELEVATED, below 120       *)
(* hours MODERATE.                                                            *)
CargoRisk(status, eta, requiredBy) ==
    LET margin == requiredBy - eta
    IN  IF status \in {"DAMAGED", "LOST", "REJECTED"} THEN "CRITICAL"
        ELSE IF eta = Unknown THEN "MODERATE"
        ELSE IF margin < 0 THEN "CRITICAL"
        ELSE IF margin < 2 THEN "ELEVATED"
        ELSE IF margin < 5 THEN "MODERATE" ELSE "NOMINAL"

LegRow == [status : TransportStatus, eta : Day \cup {Unknown}]

CargoRow == [status : CargoStatus, eta : Day \cup {Unknown}, requiredBy : Day,
             risk : CargoRiskLevel]

NoRequest == [op |-> "idle"]

(* A delay, an update of a leg, an update of a consignment, an assignment.   *)
(* seen holds the rows of the consignments it has read.                      *)
DelayRequest ==
    [op : {"delay"}, leg : Leg, eta : Day, was : LegRow,
     seen : UNION {[C -> CargoRow] : C \in SUBSET Consignment}, phase : {"reading", "ready"}]
LegRequest == [op : {"leg"}, leg : Leg, was : LegRow, row : LegRow]
CargoRequest == [op : {"cargo"}, cargo : Consignment, was : CargoRow, row : CargoRow]
AssignRequest == [op : {"assign"}, leg : Leg, cargo : Consignment]

Request == {NoRequest} \cup DelayRequest \cup LegRequest \cup CargoRequest \cup AssignRequest

(* The rows and the requests are well formed, whichever requests overwrite   *)
(* each other's columns.                                                     *)
TypeOK ==
    /\ legs \in [Leg -> LegRow]
    /\ cargo \in [Consignment -> CargoRow]
    /\ manifest \subseteq Leg \X Consignment
    /\ request \in [Session -> Request]
    /\ stale \in BOOLEAN

Manifested(l) == {c \in Consignment : <<l, c>> \in manifest}

-----------------------------------------------------------------------------
(* create_transport_leg and create_consignment. *)
NewConsignment ==
    {c \in CargoRow : c.status \in CargoOpening
                      /\ c.risk = CargoRisk(c.status, c.eta, c.requiredBy)}

Init ==
    /\ legs \in [Leg -> {l \in LegRow : l.status \in LegOpening}]
    /\ cargo \in [Consignment -> NewConsignment]
    /\ manifest = {}
    /\ request = [k \in Session |-> NoRequest]
    /\ stale = FALSE

Serve(k, r) ==
    /\ request' = [request EXCEPT ![k] = r]
    /\ UNCHANGED <<legs, cargo, manifest, stale>>

(* update_transport_leg: a status, a time of arrival, or both; asking for the *)
(* status or time a leg has leaves that alone.                                *)
BeginLeg(k, l, status, eta) ==
    /\ request[k] = NoRequest
    /\ status # legs[l].status => status \in ALLOWED_TRANSPORT_TRANSITIONS[legs[l].status]
    /\ Serve(k, [op |-> "leg", leg |-> l, was |-> legs[l],
                 row |-> [status |-> status, eta |-> eta]])

(* Mutant of Updated: the risk follows the time of arrival only. *)
Updated_EtaOnly(c, status, eta, requiredBy) ==
    [status |-> status, eta |-> eta, requiredBy |-> requiredBy,
     risk |-> IF eta # c.eta THEN CargoRisk(status, eta, requiredBy) ELSE c.risk]

(* A consignment as update_consignment writes it. *)
Updated(c, status, eta, requiredBy) ==
    [status |-> status, eta |-> eta, requiredBy |-> requiredBy,
     risk |-> CargoRisk(status, eta, requiredBy)]

BeginCargo(k, c, status, eta, requiredBy) ==
    /\ request[k] = NoRequest
    /\ status # cargo[c].status => status \in ALLOWED_CONSIGNMENT_TRANSITIONS[cargo[c].status]
    /\ Serve(k, [op |-> "cargo", cargo |-> c, was |-> cargo[c],
                 row |-> Updated(cargo[c], status, eta, requiredBy)])

(* assign_cargo_to_transport. *)
BeginAssign(k, l, c) ==
    /\ request[k] = NoRequest
    /\ <<l, c>> \notin manifest
    /\ Serve(k, [op |-> "assign", leg |-> l, cargo |-> c])

(* record_transport_delay: the leg is read and checked ... *)
BeginDelay(k, l, eta) ==
    /\ request[k] = NoRequest
    /\ "DELAYED" \in ALLOWED_TRANSPORT_TRANSITIONS[legs[l].status]
    /\ Serve(k, [op |-> "delay", leg |-> l, eta |-> eta, was |-> legs[l],
                 seen |-> [c \in {} |-> cargo[c]], phase |-> "reading"])

(* A delay has written the leg and not committed: others that write it wait. *)
Locked(l) ==
    \E k \in Session : request[k] # NoRequest /\ request[k].op = "delay"
                       /\ request[k].phase = "ready" /\ request[k].leg = l

(* ... and written, and the consignments on it are read ... *)
ListCargo(k) ==
    LET r == request[k] IN
        /\ r # NoRequest /\ r.op = "delay" /\ r.phase = "reading"
        /\ ~Locked(r.leg)
        /\ Serve(k, [op |-> "delay", leg |-> r.leg, eta |-> r.eta, was |-> r.was,
                     seen |-> [c \in Manifested(r.leg) |-> cargo[c]], phase |-> "ready"])

(* Mutant of Delayed: whatever is on the leg is marked as delayed. *)
Delayed_All(c, eta) ==
    [status |-> "DELAYED", eta |-> eta, requiredBy |-> c.requiredBy,
     risk |-> CargoRisk(c.status, eta, c.requiredBy)]

(* apply_transport_delay: what becomes of a consignment that will arrive at eta. *)
Delayed(c, eta) ==
    LET risk == CargoRisk(c.status, eta, c.requiredBy)
        late == risk = "CRITICAL" \/ eta > c.requiredBy
    IN  [status |-> IF late /\ c.status \in {"IN_TRANSIT", "READY", "DISPATCHED"}
                    THEN "DELAYED" ELSE c.status,
         eta |-> eta, requiredBy |-> c.requiredBy, risk |-> risk]

(* ... and each of them written, and everything committed. *)
CommitDelay(k) ==
    LET r == request[k] IN
        /\ r # NoRequest /\ r.op = "delay" /\ r.phase = "ready"
        /\ legs' = [legs EXCEPT ![r.leg] =
              Written(legs[r.leg], r.was, [status |-> "DELAYED", eta |-> r.eta])]
        /\ cargo' = [c \in Consignment |->
              IF c \in DOMAIN r.seen THEN Written(cargo[c], r.seen[c], Delayed(r.seen[c], r.eta))
              ELSE cargo[c]]
        /\ stale' = (stale \/ legs[r.leg] # r.was
                     \/ r.seen # [c \in Manifested(r.leg) |-> cargo[c]])
        /\ request' = [request EXCEPT ![k] = NoRequest]
        /\ UNCHANGED manifest

CommitLeg(k) ==
    LET r == request[k] IN
        /\ r # NoRequest /\ r.op = "leg"
        /\ ~Locked(r.leg)
        /\ legs' = [legs EXCEPT ![r.leg] = Written(legs[r.leg], r.was, r.row)]
        /\ stale' = (stale \/ legs[r.leg] # r.was)
        /\ request' = [request EXCEPT ![k] = NoRequest]
        /\ UNCHANGED <<cargo, manifest>>

CommitCargo(k) ==
    LET r == request[k] IN
        /\ r # NoRequest /\ r.op = "cargo"
        /\ cargo' = [cargo EXCEPT ![r.cargo] = Written(cargo[r.cargo], r.was, r.row)]
        /\ stale' = (stale \/ cargo[r.cargo] # r.was)
        /\ request' = [request EXCEPT ![k] = NoRequest]
        /\ UNCHANGED <<legs, manifest>>

(* uq_transport_cargo refuses the second of two equal assignments. *)
CommitAssign(k) ==
    LET r == request[k] IN
        /\ r # NoRequest /\ r.op = "assign"
        /\ <<r.leg, r.cargo>> \notin manifest
        /\ manifest' = manifest \cup {<<r.leg, r.cargo>>}
        /\ request' = [request EXCEPT ![k] = NoRequest]
        /\ UNCHANGED <<legs, cargo, stale>>

Abort(k) ==
    /\ request[k] # NoRequest
    /\ Serve(k, NoRequest)

Next ==
    \E k \in Session :
        \/ \E l \in Leg, eta \in Day : BeginDelay(k, l, eta)
        \/ \E l \in Leg : \E status \in LegTarget \cup {legs[l].status},
              eta \in Day \cup {legs[l].eta} : BeginLeg(k, l, status, eta)
        \/ \E c \in Consignment : \E status \in CargoTarget \cup {cargo[c].status},
              eta \in Day \cup {cargo[c].eta}, requiredBy \in Day :
              BeginCargo(k, c, status, eta, requiredBy)
        \/ \E l \in Leg, c \in Consignment : BeginAssign(k, l, c)
        \/ ListCargo(k) \/ CommitDelay(k) \/ CommitLeg(k) \/ CommitCargo(k) \/ CommitAssign(k)
        \/ Abort(k)

Spec == Init /\ [][Next]_vars

-----------------------------------------------------------------------------
(* Without an outdated write, the risk shown for a consignment is the one its *)
(* status, time of arrival and deadline give, whichever of them was changed   *)
(* last and by whom: no late consignment is shown as anything but CRITICAL.   *)
RiskIsCurrent ==
    ~stale => \A c \in Consignment :
                 cargo[c].risk = CargoRisk(cargo[c].status, cargo[c].eta, cargo[c].requiredBy)

(* Without an outdated write, a consignment that is damaged, lost or rejected *)
(* stays so, whatever delays befall the legs it is still manifested on.       *)
SettledCargoIsFinal ==
    [][~stale' => \A c \in Consignment :
          cargo[c].status \in {"DAMAGED", "LOST", "REJECTED"} =>
             cargo'[c].status = cargo[c].status]_vars

(* A delay reaches everything that was on the leg when it was recorded, and  *)
(* holds up only what will be late: unless something it has read is outdated *)
(* by then, the consignments on the leg arrive with it, and those that become *)
(* DELAYED miss their deadline.                                              *)
DelayReachesManifest ==
    [][\A k \in Session : CommitDelay(k) /\ ~stale' =>
          \A c \in Manifested(request[k].leg) :
             /\ cargo'[c].eta = legs'[request[k].leg].eta
             /\ cargo'[c].status # cargo[c].status => cargo'[c].eta > cargo'[c].requiredBy]_vars
=============================================================================

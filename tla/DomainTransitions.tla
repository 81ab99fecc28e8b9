------------------------- MODULE DomainTransitions --------------------------
(***************************************************************************)
(* The lifecycle tables of the domain records other components act on:     *)
(* for every status, the statuses a transition may lead to.                *)
(***************************************************************************)

IncidentStatus == {"OPEN", "ACKNOWLEDGED", "MITIGATING", "RESOLVED", "CLOSED"}

INCIDENT_ALLOWED_TRANSITIONS ==
    [OPEN         |-> {"ACKNOWLEDGED", "RESOLVED", "CLOSED"},
     ACKNOWLEDGED |-> {"MITIGATING", "RESOLVED", "CLOSED"},
     MITIGATING   |-> {"RESOLVED"},
     RESOLVED     |-> {"CLOSED"},
     CLOSED       |-> {}]

ALLOWED_LOCATION_TRANSITIONS ==
    [AVAILABLE    |-> {"AVAILABLE", "RESTRICTED", "INACCESSIBLE", "CLOSED"},
     RESTRICTED   |-> {"RESTRICTED", "AVAILABLE", "INACCESSIBLE", "CLOSED"},
     INACCESSIBLE |-> {"INACCESSIBLE", "RESTRICTED", "AVAILABLE", "CLOSED"},
     CLOSED       |-> {"CLOSED", "AVAILABLE", "RESTRICTED"}]

ALLOWED_ASSET_TRANSITIONS ==
    [AVAILABLE   |-> {"AVAILABLE", "RESERVED", "IN_USE", "MAINTENANCE", "QUARANTINED", "RETIRED"},
     RESERVED    |-> {"RESERVED", "AVAILABLE", "IN_USE", "QUARANTINED", "RETIRED"},
     IN_USE      |-> {"IN_USE", "AVAILABLE", "MAINTENANCE", "QUARANTINED", "RETIRED"},
     MAINTENANCE |-> {"MAINTENANCE", "AVAILABLE", "QUARANTINED", "RETIRED"},
     QUARANTINED |-> {"QUARANTINED", "AVAILABLE", "MAINTENANCE", "RETIRED"},
     RETIRED     |-> {}]

ALLOWED_TRANSPORT_TRANSITIONS ==
    [PLANNED    |-> {"PLANNED", "BOOKED", "CANCELLED"},
     BOOKED     |-> {"BOOKED", "READY", "DELAYED", "CANCELLED"},
     READY      |-> {"READY", "DEPARTED", "DELAYED", "CANCELLED"},
     DEPARTED   |-> {"DEPARTED", "IN_TRANSIT", "DELAYED", "DIVERTED"},
     IN_TRANSIT |-> {"IN_TRANSIT", "ARRIVED", "DELAYED", "DIVERTED"},
     DELAYED    |-> {"DELAYED", "READY", "DEPARTED", "IN_TRANSIT", "ARRIVED", "DIVERTED",
                     "CANCELLED"},
     DIVERTED   |-> {"DIVERTED", "ARRIVED", "DELAYED", "CANCELLED"},
     ARRIVED    |-> {"ARRIVED", "CLOSED"},
     CLOSED     |-> {"CLOSED"},
     CANCELLED  |-> {"CANCELLED"}]

ALLOWED_CONSIGNMENT_TRANSITIONS ==
    [REQUESTED  |-> {"REQUESTED", "DECLARED", "REJECTED"},
     DECLARED   |-> {"DECLARED", "APPROVED", "REJECTED"},
     APPROVED   |-> {"APPROVED", "PACKED", "READY", "REJECTED"},
     PACKED     |-> {"PACKED", "READY", "HELD"},
     READY      |-> {"READY", "DISPATCHED", "DELAYED", "HELD"},
     DISPATCHED |-> {"DISPATCHED", "IN_TRANSIT", "DELAYED", "HELD"},
     IN_TRANSIT |-> {"IN_TRANSIT", "ARRIVED", "DELAYED", "HELD", "DAMAGED", "LOST"},
     DELAYED    |-> {"DELAYED", "READY", "DISPATCHED", "IN_TRANSIT", "ARRIVED", "HELD", "LOST"},
     HELD       |-> {"HELD", "APPROVED", "PACKED", "READY", "DISPATCHED", "IN_TRANSIT",
                     "REJECTED"},
     ARRIVED    |-> {"ARRIVED", "RECEIVED", "DAMAGED"},
     RECEIVED   |-> {"RECEIVED", "DAMAGED"},
     DAMAGED    |-> {"DAMAGED"},
     LOST       |-> {"LOST"},
     REJECTED   |-> {"REJECTED"}]

ALLOWED_READINESS_TRANSITIONS ==
    [NOMINATED         |-> {"CLEARANCE_PENDING", "UNAVAILABLE"},
     CLEARANCE_PENDING |-> {"READY", "NOT_CLEARED", "UNAVAILABLE"},
     READY             |-> {"CLEARANCE_PENDING", "UNAVAILABLE"},
     NOT_CLEARED       |-> {"CLEARANCE_PENDING", "UNAVAILABLE"},
     UNAVAILABLE       |-> {"NOMINATED", "CLEARANCE_PENDING"}]

ALLOWED_MOVEMENT_TRANSITIONS ==
    [NOT_DEPLOYED |-> {"IN_TRANSIT"},
     IN_TRANSIT   |-> {"AT_STATION", "NOT_DEPLOYED"},
     AT_STATION   |-> {"FIELD", "RETURNING", "IN_TRANSIT"},
     FIELD        |-> {"AT_STATION", "RETURNING"},
     RETURNING    |-> {"AT_STATION", "RETURNED"},
     RETURNED     |-> {"NOT_DEPLOYED", "IN_TRANSIT"}]

ALLOWED_TEAM_TRANSITIONS ==
    [FORMING  |-> {"READY"},
     READY    |-> {"DEPLOYED", "FORMING"},
     DEPLOYED |-> {"FIELD", "RETURNED", "READY"},
     FIELD    |-> {"DEPLOYED", "RETURNED"},
     RETURNED |-> {"FORMING", "READY"}]

ALLOWED_MISSION_TRANSITIONS ==
    [PROPOSED    |-> {"APPROVED", "CANCELLED"},
     APPROVED    |-> {"READY", "BLOCKED", "DEFERRED", "CANCELLED"},
     READY       |-> {"SCHEDULED", "BLOCKED", "DEFERRED", "CANCELLED"},
     SCHEDULED   |-> {"IN_PROGRESS", "BLOCKED", "DEFERRED", "CANCELLED"},
     IN_PROGRESS |-> {"COMPLETED", "BLOCKED", "CANCELLED"},
     BLOCKED     |-> {"READY", "SCHEDULED", "CANCELLED"},
     DEFERRED    |-> {"APPROVED", "READY", "CANCELLED"},
     COMPLETED   |-> {},
     CANCELLED   |-> {}]

ALLOWED_EXPEDITION_TRANSITIONS ==
    [DRAFT        |-> {"PLANNED"},
     PLANNED      |-> {"MOBILIZATION", "ON_HOLD"},
     MOBILIZATION |-> {"ACTIVE", "PLANNED", "ON_HOLD"},
     ACTIVE       |-> {"CLOSEOUT", "ON_HOLD"},
     ON_HOLD      |-> {"PLANNED", "MOBILIZATION", "ACTIVE", "ARCHIVED"},
     CLOSEOUT     |-> {"ARCHIVED"},
     ARCHIVED     |-> {}]
=============================================================================

-------------------------- MODULE AssetMaintenance --------------------------
(***************************************************************************)
(* One asset of the inventory of capital goods (backend domains/assets)    *)
(* and its maintenance orders, under concurrent requests.                  *)
(*                                                                         *)
(* Every operation of AssetService reads the asset, the order, or both,    *)
(* checks the request against what it has read, and commits what it        *)
(* changed in one transaction.  Only schedule_maintenance locks anything:  *)
(* the active orders it finds, and it goes on only if there are none.      *)
(***************************************************************************)
EXTENDS FiniteSets, Integers, DomainTransitions, Rows

CONSTANTS
    Session,    \* concurrent requests
    Order,      \* the maintenance orders that may ever be created
    Location,   \* where the asset may be moved to
    Opening,    \* the rows an asset may be created as
    Target      \* the statuses and the places requests ask for

AssetStatus == DOMAIN ALLOWED_ASSET_TRANSITIONS

MaintenanceStatus == {"SCHEDULED", "IN_PROGRESS", "COMPLETED", "CANCELLED", "OVERDUE"}

AssetRow == [status : AssetStatus, location : Location]

ASSUME OpeningAssumption == Opening \subseteq AssetRow
ASSUME TargetAssumption  == Target \subseteq AssetStatus \cup Location
ASSUME SessionAssumption == IsFiniteSet(Session)
ASSUME NoneAssumption    == "none" \notin Order \cup Location

VARIABLES
    asset,      \* the row: its status and its place
    orders,     \* [Order -> the row of the order]
    request,    \* [Session -> the request served in it]
    stale       \* history: a request has committed on an outdated read

vars == <<asset, orders, request, stale>>

-----------------------------------------------------------------------------
ALLOWED_MAINTENANCE_TRANSITIONS ==
    [SCHEDULED   |-> {"SCHEDULED", "IN_PROGRESS", "CANCELLED", "OVERDUE"},
     IN_PROGRESS |-> {"IN_PROGRESS", "COMPLETED", "CANCELLED"},
     OVERDUE     |-> {"OVERDUE", "IN_PROGRESS", "CANCELLED"},
     COMPLETED   |-> {},
     CANCELLED   |-> {}]

OrderRow == [status : MaintenanceStatus, startedAt : BOOLEAN, completedAt : BOOLEAN]

NoOrder == [status |-> "none", startedAt |-> FALSE, completedAt |-> FALSE]

NewOrder == [status |-> "SCHEDULED", startedAt |-> FALSE, completedAt |-> FALSE]

NoRequest == [op |-> "idle"]

Unread == [status |-> "unread"]

(* A request for an order or the asset; target is the status or the place it *)
(* asks for, "none" if it leaves the asset alone.  was and seen are the rows *)
(* it has read; it may write once it is "ready".                             *)
Request ==
    [op : {"schedule", "start", "complete", "cancel", "transition", "move"},
     order : Order \cup {"none"}, target : AssetStatus \cup Location \cup {"none"},
     was : OrderRow \cup {NoOrder}, seen : AssetRow \cup {Unread},
     phase : {"reading", "ready"}]

TypeOK ==
    /\ asset \in AssetRow
    /\ orders \in [Order -> OrderRow \cup {NoOrder}]
    /\ request \in [Session -> Request \cup {NoRequest}]
    /\ stale \in BOOLEAN

(* Mutant of Active: only an order that is being worked on counts. *)
Active_InProgress == {o \in Order : orders[o].status = "IN_PROGRESS"}

(* get_active_maintenance_for_asset. *)
Active == {o \in Order : orders[o].status \in {"SCHEDULED", "IN_PROGRESS"}}

-----------------------------------------------------------------------------
MayBecome(status, target) == target \in ALLOWED_ASSET_TRANSITIONS[status]

(* start_maintenance moves the asset only if it is not in maintenance yet. *)
MovesAsset(r) == r.target # "none" /\ ~(r.op = "start" /\ r.seen.status = "MAINTENANCE")

(* Mutant of Accepted: a retired asset may be moved and maintained. *)
Accepted_Retired(r) ==
    /\ r.op \in {"start", "complete", "transition"} /\ MovesAsset(r) =>
          MayBecome(r.seen.status, r.target)
    /\ r.op = "start"    => "IN_PROGRESS" \in ALLOWED_MAINTENANCE_TRANSITIONS[r.was.status]
    /\ r.op = "complete" => "COMPLETED" \in ALLOWED_MAINTENANCE_TRANSITIONS[r.was.status]
    /\ r.op = "cancel"   => "CANCELLED" \in ALLOWED_MAINTENANCE_TRANSITIONS[r.was.status]

(* The checks of an operation on the rows it has read. *)
Accepted(r) ==
    /\ r.op \notin {"complete", "cancel"} => r.seen.status # "RETIRED"
    /\ r.op \in {"start", "complete", "transition"} /\ MovesAsset(r) =>
          MayBecome(r.seen.status, r.target)
    /\ r.op = "start"    => "IN_PROGRESS" \in ALLOWED_MAINTENANCE_TRANSITIONS[r.was.status]
    /\ r.op = "complete" => "COMPLETED" \in ALLOWED_MAINTENANCE_TRANSITIONS[r.was.status]
    /\ r.op = "cancel"   => "CANCELLED" \in ALLOWED_MAINTENANCE_TRANSITIONS[r.was.status]

(* Mutant of AssetAfter: the asset gets the status of the order it is under. *)
AssetAfter_Order(r) ==
    IF r.op = "start" THEN [r.seen EXCEPT !.status = "IN_PROGRESS"] ELSE r.seen

(* The asset as the request writes it. *)
AssetAfter(r) ==
    IF r.op = "move" THEN [r.seen EXCEPT !.location = r.target]
    ELSE IF r.op \in {"start", "complete", "transition"} /\ MovesAsset(r)
    THEN [r.seen EXCEPT !.status = r.target] ELSE r.seen

(* Mutant of OrderAfter: the start of the work is not dated. *)
OrderAfter_Undated(r) ==
    IF r.op = "start" THEN [r.was EXCEPT !.status = "IN_PROGRESS"] ELSE
    IF r.op = "complete" THEN [status |-> "COMPLETED", startedAt |-> r.was.startedAt,
                               completedAt |-> TRUE] ELSE
    IF r.op = "schedule" THEN NewOrder ELSE
    IF r.op = "cancel" THEN [r.was EXCEPT !.status = "CANCELLED"] ELSE r.was

(* The order as the request writes it. *)
OrderAfter(r) ==
    IF r.op = "schedule" THEN NewOrder ELSE
    IF r.op = "start" THEN [status |-> "IN_PROGRESS", startedAt |-> TRUE,
                            completedAt |-> r.was.completedAt] ELSE
    IF r.op = "complete" THEN [status |-> "COMPLETED", startedAt |-> r.was.startedAt,
                               completedAt |-> TRUE] ELSE
    IF r.op = "cancel" THEN [r.was EXCEPT !.status = "CANCELLED"] ELSE r.was

Init ==
    /\ asset \in Opening
    /\ orders = [o \in Order |-> NoOrder]
    /\ request = [k \in Session |-> NoRequest]
    /\ stale = FALSE

Serve(k, r) ==
    /\ request' = [request EXCEPT ![k] = r]
    /\ UNCHANGED <<asset, orders, stale>>

(* transition_asset_status and move_asset: one read of the asset. *)
BeginAsset(k, op, target) ==
    LET r == [op |-> op, order |-> "none", target |-> target, was |-> NoOrder,
              seen |-> asset, phase |-> "ready"]
    IN  /\ request[k] = NoRequest
        /\ \/ op = "transition" /\ target \in AssetStatus
           \/ op = "move" /\ target \in Location
        /\ Accepted(r)
        /\ Serve(k, r)

(* schedule_maintenance: the asset first ... *)
BeginSchedule(k, o) ==
    LET r == [op |-> "schedule", order |-> o, target |-> "none", was |-> NoOrder,
              seen |-> asset, phase |-> "reading"]
    IN  /\ request[k] = NoRequest
        /\ orders[o] = NoOrder
        /\ \A j \in Session : request[j] # NoRequest => request[j].order # o
        /\ Accepted(r)
        /\ Serve(k, r)

(* ... then the search for an active order, SELECT ... FOR UPDATE. *)
CheckActive(k) ==
    /\ request[k] # NoRequest /\ request[k].op = "schedule" /\ request[k].phase = "reading"
    /\ Active = {}
    /\ request' = [request EXCEPT ![k].phase = "ready"]
    /\ UNCHANGED <<asset, orders, stale>>

(* start_, complete_ and cancel_maintenance: the order first ... *)
BeginOrder(k, o, op, target) ==
    /\ request[k] = NoRequest
    /\ orders[o] # NoOrder
    /\ \/ op = "start" /\ target \in {"none", "MAINTENANCE"}
       \/ op = "complete" /\ target \in AssetStatus \cup {"none"}
       \/ op = "cancel" /\ target = "none"
    /\ Serve(k, [op |-> op, order |-> o, target |-> target, was |-> orders[o],
                 seen |-> Unread, phase |-> "reading"])

(* ... then the asset, and the checks of both. *)
ReadAsset(k) ==
    LET m == [request[k] EXCEPT !.seen = asset]
        r == [m EXCEPT !.phase = "ready"]
    IN  /\ request[k] # NoRequest /\ request[k].seen = Unread
        /\ Accepted(r)
        /\ Serve(k, r)

(* Something a request has read is no longer so. *)
Outdated(r) ==
    \/ r.seen # asset
    \/ r.op = "schedule" /\ Active # {}
    \/ r.op \in {"start", "complete", "cancel"} /\ r.was # orders[r.order]

(* The flushes and the commit of a request. *)
Commit(k) ==
    LET r == request[k] IN
        /\ r # NoRequest /\ r.phase = "ready"
        /\ asset' = Written(asset, r.seen, AssetAfter(r))
        /\ orders' = [o \in Order |-> IF o = r.order
                                      THEN Written(orders[o], r.was, OrderAfter(r))
                                      ELSE orders[o]]
        /\ stale' = (stale \/ Outdated(r))
        /\ request' = [request EXCEPT ![k] = NoRequest]

(* A check that fails, a lost connection, a dying worker: rollback. *)
Abort(k) ==
    /\ request[k] # NoRequest
    /\ Serve(k, NoRequest)

Next ==
    \E k \in Session :
        \/ \E op \in {"transition", "move"}, target \in Target : BeginAsset(k, op, target)
        \/ \E o \in Order : BeginSchedule(k, o)
        \/ \E o \in Order, op \in {"start", "complete", "cancel"},
              target \in Target \cup {"none", "MAINTENANCE"} : BeginOrder(k, o, op, target)
        \/ CheckActive(k) \/ ReadAsset(k) \/ Commit(k) \/ Abort(k)

Spec == Init /\ [][Next]_vars

-----------------------------------------------------------------------------
(* However requests overlap, an order that is COMPLETED carries the dates of *)
(* its start and its end: work that never began is never recorded as done.   *)
CompletedWasDone ==
    \A o \in Order : orders[o].status = "COMPLETED" => orders[o].startedAt /\ orders[o].completedAt

(* The search for active orders does not exclude overlapping orders, but it  *)
(* bounds them: there are never more than requests served at a time.         *)
OverlapBounded == Cardinality(Active) <= Cardinality(Session)

(* Without an outdated write, an asset has one active order at most.         *)
NoOverlapUnlessStale == ~stale => Cardinality(Active) <= 1

(* Without an outdated write, a retired asset neither returns to service nor *)
(* moves, and an order that is completed or cancelled stays so.              *)
EndsAreFinal ==
    [][~stale' =>
          /\ asset.status = "RETIRED" =>
                asset'.status = "RETIRED" /\ asset'.location = asset.location
          /\ \A o \in Order : orders[o].status \in {"COMPLETED", "CANCELLED"} =>
                orders'[o] = orders[o]]_vars

=============================================================================

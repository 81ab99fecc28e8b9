---------------------- MODULE AssetMaintenance_proofs ----------------------
(* Proofs about AssetMaintenance, for any finite set of sessions and any    *)
(* orders, places, opening rows and requests.                               *)
EXTENDS AssetMaintenance, FiniteSetTheorems, TLAPS

(* The statuses of an order that is active. *)
InProgress == {"SCHEDULED", "IN_PROGRESS"}

(* An order is dated as far as its status says, and nothing is ever OVERDUE. *)
Dated(row) ==
    /\ row.status \in {"IN_PROGRESS", "COMPLETED"} => row.startedAt
    /\ row.status = "COMPLETED" => row.completedAt
    /\ row.status # "OVERDUE"

OnOrder(r) == r.op \in {"start", "complete", "cancel"}

(* What a request asks for fits its operation, and once it is ready it has    *)
(* passed its checks on what it has read.                                     *)
Checked(r) ==
    /\ Dated(r.was)
    /\ r.phase = "ready" => Accepted(r) /\ r.seen # Unread
    /\ r.op \in {"transition", "move"} =>
          r.order = "none" /\ r.was = NoOrder /\ r.phase = "ready"
    /\ r.op = "transition" => r.target \in AssetStatus
    /\ r.op = "move" => r.target \in Location
    /\ r.op = "schedule" =>
          r.was = NoOrder /\ r.seen # Unread /\ r.seen.status # "RETIRED"
    /\ r.op \in {"schedule", "cancel"} => r.target = "none"
    /\ r.op = "start" => r.target \in {"none", "MAINTENANCE"}
    /\ r.op = "complete" => r.target \in AssetStatus \cup {"none"}

(* The order it is about: a new one for a schedule; otherwise one that is    *)
(* there, and that has kept every date the request has read.                 *)
Backed(r, rows) ==
    /\ r.op = "schedule" => r.order \in Order /\ rows[r.order] = NoOrder
    /\ OnOrder(r) =>
          /\ r.order \in Order /\ rows[r.order] # NoOrder /\ r.was # NoOrder
          /\ r.was.startedAt => rows[r.order].startedAt
          /\ r.was.completedAt => rows[r.order].completedAt

(* Two requests never schedule or update an order that one of them is about  *)
(* to schedule.                                                              *)
Exclusive ==
    \A j, k \in Session :
       j # k /\ request[j].op = "schedule" /\ request[k] # NoRequest =>
          request[k].order # request[j].order

(* A request that may make its order active. *)
Activates(r) ==
    \/ r.op = "schedule" /\ r.phase = "ready"
    \/ r.op = "start" /\ r.was.status \in InProgress

Activators == {k \in Session : request[k] # NoRequest /\ Activates(request[k])}

(* The orders that are active or may become so by requests in flight. *)
Impending == Active \cup {request[k].order : k \in Activators}

ImpendingBounded == IsFiniteSet(Impending) /\ Cardinality(Impending) <= Cardinality(Session)

OneActive == ~stale => \A o, p \in Active : o = p

(* The inductive invariant. *)
AssetInv ==
    /\ TypeOK
    /\ \A o \in Order : Dated(orders[o])
    /\ \A k \in Session : request[k] # NoRequest =>
          Checked(request[k]) /\ Backed(request[k], orders)
    /\ Exclusive
    /\ OneActive
    /\ ImpendingBounded

-----------------------------------------------------------------------------
OrderLike == [status : MaintenanceStatus \cup {"none"}, startedAt : BOOLEAN,
              completedAt : BOOLEAN]

LEMMA OrderRows ==
    /\ OrderRow \cup {NoOrder} \subseteq OrderLike
    /\ \A row \in OrderLike : row.status # "none" => row \in OrderRow
    /\ \A row \in OrderRow : row # NoOrder
<1>1. OrderRow \cup {NoOrder} \subseteq OrderLike
  <2>1. NoOrder \in OrderLike
    BY DEF NoOrder, OrderLike
  <2>2. ASSUME NEW row \in OrderRow PROVE row \in OrderLike
    BY DEF OrderRow, OrderLike
  <2> QED BY <2>1, <2>2
<1>2. \A row \in OrderLike : row.status # "none" => row \in OrderRow
  BY DEF OrderRow, OrderLike
<1>3. \A row \in OrderRow : row # NoOrder
  BY DEF OrderRow, NoOrder, MaintenanceStatus
<1> QED BY <1>1, <1>2, <1>3

(* Writing an order back changes the columns that the session changes. *)
LEMMA OrderWritten ==
    ASSUME NEW row \in OrderLike, NEW read \in OrderLike, NEW write \in OrderLike
    PROVE  LET w == Written(row, read, write) IN
           /\ w \in OrderLike
           /\ w.status = IF write.status = read.status THEN row.status ELSE write.status
           /\ w.startedAt = IF write.startedAt = read.startedAt THEN row.startedAt
                            ELSE write.startedAt
           /\ w.completedAt = IF write.completedAt = read.completedAt THEN row.completedAt
                              ELSE write.completedAt
           /\ write = read => w = row
           /\ row = read => w = write
<1> DEFINE w == Written(row, read, write)
<1>1. DOMAIN row = {"status", "startedAt", "completedAt"}
  BY DEF OrderLike
<1>2. w = [c \in {"status", "startedAt", "completedAt"} |->
              IF write[c] = read[c] THEN row[c] ELSE write[c]]
  BY <1>1 DEF Written
<1>3. w = [status      |-> w.status, startedAt |-> w.startedAt, completedAt |-> w.completedAt]
  BY <1>2
<1>4. /\ w.status = IF write.status = read.status THEN row.status ELSE write.status
      /\ w.startedAt = IF write.startedAt = read.startedAt THEN row.startedAt
                       ELSE write.startedAt
      /\ w.completedAt = IF write.completedAt = read.completedAt THEN row.completedAt
                         ELSE write.completedAt
  BY <1>2
<1>5. w \in OrderLike
  BY <1>3, <1>4 DEF OrderLike
<1>6. write = read => w = row
  BY <1>2, <1>1 DEF OrderLike
<1>7. row = read => w = write
  BY <1>2, <1>1 DEF OrderLike
<1> QED BY <1>4, <1>5, <1>6, <1>7

LEMMA AssetWritten ==
    ASSUME NEW row \in AssetRow, NEW read \in AssetRow, NEW write \in AssetRow
    PROVE  /\ Written(row, read, write) \in AssetRow
           /\ row = read => Written(row, read, write) = write
BY DEF Written, AssetRow

LEMMA Statuses ==
    /\ "none" \notin AssetStatus
    /\ "unread" \notin AssetStatus
    /\ "RETIRED" \in AssetStatus /\ "MAINTENANCE" \in AssetStatus
    /\ ALLOWED_ASSET_TRANSITIONS["RETIRED"] = {}
    /\ \A s \in AssetStatus : ALLOWED_ASSET_TRANSITIONS[s] \subseteq AssetStatus
BY DEF AssetStatus, ALLOWED_ASSET_TRANSITIONS

(* An asset that has been read is not the row of one that has not. *)
LEMMA ReadIsARow ==
    ASSUME NEW row \in AssetRow
    PROVE  row # Unread
BY Statuses DEF AssetRow, Unread

LEMMA NoRequestIsNone ==
    ASSUME NEW r \in Request
    PROVE  r # NoRequest
BY DEF Request, NoRequest

(* All that a new order asks of its asset is that it is not retired. *)
LEMMA SeenInService ==
    ASSUME NEW r, r.op = "schedule", r.seen.status # "RETIRED"
    PROVE  Accepted(r)
BY DEF Accepted, MovesAsset

-----------------------------------------------------------------------------
LEMMA InitAsset == Init => AssetInv
<1> SUFFICES ASSUME Init PROVE AssetInv
  OBVIOUS
<1>1. TypeOK
  BY OpeningAssumption DEF Init, TypeOK
<1>2. \A o \in Order : Dated(orders[o])
  BY DEF Init, Dated, NoOrder
<1>3. \A k \in Session : request[k] = NoRequest
  BY DEF Init
<1>4. Exclusive
  BY <1>3 DEF Exclusive
<1>5. Active = {}
  BY DEF Init, Active, NoOrder
<1>6. Activators = {}
  BY <1>3 DEF Activators
<1>7. ImpendingBounded
  <2>1. Impending = {}
    BY <1>5, <1>6 DEF Impending
  <2> QED BY <2>1, SessionAssumption, FS_EmptySet, FS_CardinalityType DEF ImpendingBounded
<1> QED BY <1>1, <1>2, <1>3, <1>4, <1>5, <1>7 DEF AssetInv, OneActive

(* The bound holds on as long as nothing new may become active. *)
LEMMA FewerImpending ==
    ASSUME ImpendingBounded, Impending' \subseteq Impending
    PROVE  ImpendingBounded'
<1>1. Impending' \in SUBSET Impending /\ IsFiniteSet(Impending)
  BY DEF ImpendingBounded
<1>2. IsFiniteSet(Impending') /\ Cardinality(Impending') <= Cardinality(Impending)
  BY <1>1, FS_Subset
<1>3. /\ Cardinality(Impending) \in Nat /\ Cardinality(Impending') \in Nat
      /\ Cardinality(Session) \in Nat
  BY <1>1, <1>2, FS_CardinalityType, SessionAssumption
<1> QED BY <1>2, <1>3 DEF ImpendingBounded

(* Reading for a request, or giving it up: what has to be shown of it. *)
LEMMA ServeKeeps ==
    ASSUME AssetInv, NEW k \in Session, NEW r \in Request \cup {NoRequest}, Serve(k, r),
           r # NoRequest => Checked(r) /\ Backed(r, orders),
           \A j \in Session \ {k} : r # NoRequest /\ request[j] # NoRequest
              /\ (r.op = "schedule" \/ request[j].op = "schedule") => r.order # request[j].order,
           ImpendingBounded'
    PROVE  AssetInv'
<1>1. /\ \A j \in Session \ {k} : request'[j] = request[j]
      /\ request'[k] = r
      /\ UNCHANGED <<asset, orders, stale>>
  BY DEF Serve, AssetInv, TypeOK
<1>2. TypeOK'
  BY DEF Serve, AssetInv, TypeOK
<1>3. (\A o \in Order : Dated(orders[o]))'
  BY <1>1 DEF AssetInv
<1>4. (\A j \in Session : request[j] # NoRequest => Checked(request[j]) /\ Backed(request[j], orders))'
  BY <1>1 DEF AssetInv
<1>5. Exclusive'
  <2> SUFFICES ASSUME NEW i \in Session, NEW j \in Session, i # j,
                      request'[i].op = "schedule", request'[j] # NoRequest
               PROVE  request'[j].order # request'[i].order
    BY DEF Exclusive
  <2>1. request'[i] # NoRequest
    BY DEF NoRequest
  <2> QED BY <1>1, <2>1 DEF AssetInv, Exclusive
<1>6. OneActive'
  BY <1>1 DEF AssetInv, OneActive, Active
<1> QED BY <1>2, <1>3, <1>4, <1>5, <1>6 DEF AssetInv

(* What a request leaves impending when it is the only one that changes. *)
LEMMA ServeImpending ==
    ASSUME AssetInv, NEW k \in Session, NEW r \in Request \cup {NoRequest}, Serve(k, r),
           r # NoRequest /\ Activates(r) => r.order \in Impending
    PROVE  ImpendingBounded'
<1>1. /\ \A j \in Session \ {k} : request'[j] = request[j]
      /\ request'[k] = r
      /\ Active' = Active
  BY DEF Serve, AssetInv, TypeOK, Active
<1>2. \A j \in Activators' : request'[j].order \in Impending
  BY <1>1 DEF Activators, Impending
<1>3. Impending' \subseteq Impending
  BY <1>1, <1>2 DEF Impending
<1> QED BY <1>3, FewerImpending DEF AssetInv

LEMMA BeginAssetKeeps ==
    ASSUME AssetInv, NEW k \in Session, NEW op \in {"transition", "move"}, NEW target \in Target,
           BeginAsset(k, op, target)
    PROVE  AssetInv'
<1> DEFINE r == [op |-> op, order |-> "none", target |-> target, was |-> NoOrder,
                 seen |-> asset, phase |-> "ready"]
<1>1. /\ Accepted(r) /\ Serve(k, r)
      /\ op = "transition" => target \in AssetStatus
      /\ op = "move" => target \in Location
  BY DEF BeginAsset
<1>2. asset \in AssetRow
  BY DEF AssetInv, TypeOK
<1>3. r \in Request
  BY <1>1, <1>2, TargetAssumption DEF Request
<1>4. Checked(r)
  BY <1>1, <1>2, ReadIsARow DEF Checked, Dated, NoOrder
<1>5. Backed(r, orders) /\ ~Activates(r)
  BY DEF Backed, OnOrder, Activates
<1>6. ASSUME NEW j \in Session \ {k}, request[j] # NoRequest, request[j].op = "schedule"
      PROVE  r.order # request[j].order
  <2>1. request[j].order \in Order
    BY <1>6 DEF AssetInv, Backed
  <2> QED BY <2>1, NoneAssumption
<1>7. ImpendingBounded'
  <2> HIDE DEF r
  <2> QED BY <1>1, <1>3, <1>5, ServeImpending
<1>8. r.op # "schedule"
  OBVIOUS
<1> HIDE DEF r
<1> QED BY <1>1, <1>3, <1>4, <1>5, <1>6, <1>7, <1>8, ServeKeeps

LEMMA BeginScheduleKeeps ==
    ASSUME AssetInv, NEW k \in Session, NEW o \in Order, BeginSchedule(k, o)
    PROVE  AssetInv'
<1> DEFINE r == [op |-> "schedule", order |-> o, target |-> "none", was |-> NoOrder,
                 seen |-> asset, phase |-> "reading"]
<1>1. /\ Serve(k, r) /\ orders[o] = NoOrder
      /\ \A j \in Session : request[j] # NoRequest => request[j].order # o
  BY DEF BeginSchedule
<1>2. asset \in AssetRow
  BY DEF AssetInv, TypeOK
<1>3. r \in Request
  BY <1>2 DEF Request
<1>4. Checked(r)
  <2>1. asset.status # "RETIRED"
    BY DEF BeginSchedule, Accepted
  <2> QED BY <1>2, <2>1, ReadIsARow DEF Checked, Dated, NoOrder
<1>5. Backed(r, orders) /\ ~Activates(r)
  BY <1>1 DEF Backed, OnOrder, Activates
<1>6. \A j \in Session \ {k} : request[j] # NoRequest => r.order # request[j].order
  BY <1>1
<1> HIDE DEF r
<1>7. ImpendingBounded'
  BY <1>1, <1>3, <1>5, ServeImpending
<1> QED BY <1>1, <1>3, <1>4, <1>5, <1>6, <1>7, ServeKeeps

LEMMA BeginOrderKeeps ==
    ASSUME AssetInv, NEW k \in Session, NEW o \in Order, NEW op \in {"start", "complete", "cancel"},
           NEW target \in Target \cup {"none", "MAINTENANCE"}, BeginOrder(k, o, op, target)
    PROVE  AssetInv'
<1> DEFINE r == [op |-> op, order |-> o, target |-> target, was |-> orders[o],
                 seen |-> Unread, phase |-> "reading"]
<1>1. /\ Serve(k, r) /\ orders[o] # NoOrder
      /\ op = "start" => target \in {"none", "MAINTENANCE"}
      /\ op = "complete" => target \in AssetStatus \cup {"none"}
      /\ op = "cancel" => target = "none"
  BY DEF BeginOrder
<1>2. orders[o] \in OrderRow /\ Dated(orders[o])
  BY <1>1 DEF AssetInv, TypeOK
<1>3. r \in Request
  BY <1>1, <1>2, Statuses DEF Request
<1>4. Checked(r)
  BY <1>1, <1>2 DEF Checked
<1>5. Backed(r, orders)
  BY <1>1 DEF Backed, OnOrder
<1>6. ASSUME NEW j \in Session \ {k}, request[j] # NoRequest, request[j].op = "schedule"
      PROVE  r.order # request[j].order
  <2>1. orders[request[j].order] = NoOrder
    BY <1>6 DEF AssetInv, Backed
  <2> QED BY <2>1, <1>1
<1>7. Activates(r) => r.order \in Impending
  BY DEF Activates, Impending, Active, InProgress
<1>8. r.op # "schedule"
  OBVIOUS
<1> HIDE DEF r
<1>9. ImpendingBounded'
  BY <1>1, <1>3, <1>7, ServeImpending
<1> QED BY <1>1, <1>3, <1>4, <1>5, <1>6, <1>8, <1>9, ServeKeeps

(* The search for active orders finds none: what is impending afterwards are *)
(* orders of requests in flight, one per session at most.                    *)
LEMMA CheckActiveKeeps ==
    ASSUME AssetInv, NEW k \in Session, CheckActive(k)
    PROVE  AssetInv'
<1> DEFINE r == [request[k] EXCEPT !.phase = "ready"]
<1>1. /\ request[k] # NoRequest /\ request[k].op = "schedule" /\ Active = {}
      /\ request' = [request EXCEPT ![k].phase = "ready"]
      /\ UNCHANGED <<asset, orders, stale>>
  BY DEF CheckActive
<1>2. request[k] \in Request /\ Checked(request[k]) /\ Backed(request[k], orders)
  BY <1>1 DEF AssetInv, TypeOK
<1>3. Serve(k, r)
  BY <1>1 DEF Serve, AssetInv, TypeOK
<1>4. /\ r.op = "schedule" /\ r.order = request[k].order /\ r.was = request[k].was
      /\ r.seen = request[k].seen /\ r.target = request[k].target /\ r.phase = "ready"
      /\ r \in Request
  BY <1>1, <1>2 DEF Request
<1> HIDE DEF r
<1>5. request[k].seen \in AssetRow /\ Backed(r, orders)
  BY <1>1, <1>2, <1>4 DEF Request, Checked, Backed, OnOrder
<1>6. Checked(r)
  BY <1>1, <1>2, <1>4, SeenInService DEF Checked
<1>7. ASSUME NEW j \in Session \ {k}, request[j] # NoRequest
      PROVE  r.order # request[j].order
  BY <1>1, <1>4, <1>7 DEF AssetInv, Exclusive
<1>8. ImpendingBounded'
  <2> DEFINE f == [j \in Activators' |-> request'[j].order]
             image == {request'[j].order : j \in Activators'}
  <2>1. Impending' = image
    BY <1>1 DEF Impending, Active
  <2>2. f \in Surjection(Activators', image)
    BY DEF Surjection
  <2>3. Activators' \in SUBSET Session
    BY DEF Activators
  <2>4. IsFiniteSet(Activators') /\ Cardinality(Activators') <= Cardinality(Session)
    BY <2>3, SessionAssumption, FS_Subset
  <2> HIDE DEF f, image
  <2>5. IsFiniteSet(image) /\ Cardinality(image) <= Cardinality(Activators')
    BY <2>2, <2>4, FS_Surjection
  <2>6. /\ Cardinality(image) \in Nat /\ Cardinality(Activators') \in Nat
        /\ Cardinality(Session) \in Nat
    BY <2>4, <2>5, FS_CardinalityType, SessionAssumption
  <2> QED BY <2>1, <2>4, <2>5, <2>6 DEF ImpendingBounded
<1> QED BY <1>3, <1>4, <1>5, <1>6, <1>7, <1>8, ServeKeeps

LEMMA ReadAssetKeeps ==
    ASSUME AssetInv, NEW k \in Session, ReadAsset(k)
    PROVE  AssetInv'
<1> DEFINE q == request[k]
           r == [[q EXCEPT !.seen = asset] EXCEPT !.phase = "ready"]
<1>1. /\ q # NoRequest /\ q.seen = Unread /\ Accepted(r) /\ Serve(k, r)
  BY DEF ReadAsset
<1>2. /\ q \in Request /\ Checked(q) /\ Backed(q, orders) /\ asset \in AssetRow
  BY <1>1 DEF AssetInv, TypeOK
<1>3. /\ r.op = q.op /\ r.order = q.order /\ r.was = q.was /\ r.target = q.target
      /\ r.seen = asset /\ r.phase = "ready" /\ r \in Request
  BY <1>2 DEF Request
<1> HIDE DEF r
<1>4. Checked(r) /\ Backed(r, orders)
  <2>1. Checked(r)
    BY <1>1, <1>2, <1>3, ReadIsARow DEF Checked
  <2>2. Backed(r, orders)
    BY <1>2, <1>3 DEF Backed, OnOrder
  <2> QED BY <2>1, <2>2
<1>5. q.op # "schedule"
  BY <1>1, <1>2 DEF Checked
<1>6. ASSUME NEW j \in Session \ {k}, request[j] # NoRequest, request[j].op = "schedule"
      PROVE  r.order # request[j].order
  BY <1>1, <1>3, <1>6 DEF AssetInv, Exclusive
<1>7. Activates(r) => r.order \in Impending
  <2>1. Activates(r) => Activates(q)
    BY <1>3, <1>5 DEF Activates
  <2> QED BY <1>1, <1>3, <2>1 DEF Impending, Activators
<1>8. ImpendingBounded'
  BY <1>1, <1>3, <1>7, ServeImpending
<1> QED BY <1>1, <1>3, <1>4, <1>5, <1>6, <1>8, ServeKeeps

LEMMA AbortKeeps ==
    ASSUME AssetInv, NEW k \in Session, Abort(k)
    PROVE  AssetInv'
<1>1. Serve(k, NoRequest)
  BY DEF Abort
<1>2. ImpendingBounded'
  BY <1>1, ServeImpending
<1> QED BY <1>1, <1>2, ServeKeeps

-----------------------------------------------------------------------------
(* What the commit of each operation does to the orders: it leaves all but   *)
(* its own alone, and that one well dated, with every date it had before.    *)
LEMMA CommitOrder ==
    ASSUME AssetInv, NEW k \in Session, Commit(k)
    PROVE  LET r == request[k]
               o == r.order
           IN  /\ \A p \in Order : p # o => orders'[p] = orders[p]
               /\ orders' \in [Order -> OrderRow \cup {NoOrder}]
               /\ r.op \in {"transition", "move"} => orders' = orders
               /\ r.op = "schedule" => o \in Order /\ orders'[o] = NewOrder
               /\ OnOrder(r) =>
                     /\ o \in Order /\ orders'[o] \in OrderRow /\ Dated(orders'[o])
                     /\ orders[o].startedAt => orders'[o].startedAt
                     /\ orders[o].completedAt => orders'[o].completedAt
                     /\ orders'[o].status \in InProgress =>
                           \/ orders[o].status \in InProgress
                           \/ Activates(r)
<1> DEFINE r == request[k]
           o == r.order
           after == OrderAfter(r)
           w == Written(orders[o], r.was, after)
<1>1. /\ r # NoRequest /\ r.phase = "ready"
      /\ orders' = [p \in Order |-> IF p = o THEN Written(orders[p], r.was, after) ELSE orders[p]]
  BY DEF Commit
<1>2. /\ r \in Request /\ Checked(r) /\ Backed(r, orders)
      /\ orders \in [Order -> OrderRow \cup {NoOrder}]
      /\ \A p \in Order : Dated(orders[p])
  BY <1>1 DEF AssetInv, TypeOK
<1>3. /\ r.was \in OrderLike
      /\ \A p \in Order : orders[p] \in OrderLike
  BY <1>2, OrderRows DEF Request
<1>4. \A p \in Order : p # o => orders'[p] = orders[p]
  BY <1>1
<1>5. o \in Order => orders'[o] = w
  BY <1>1
<1> HIDE DEF w, after
<1>6. CASE r.op \in {"transition", "move"}
  <2>1. o \notin Order
    BY <1>2, <1>6, NoneAssumption DEF Checked
  <2>2. orders' = orders
    BY <1>1, <1>2, <2>1
  <2> QED BY <1>2, <1>4, <1>6, <2>2 DEF OnOrder
<1>7. CASE r.op = "schedule"
  <2>1. o \in Order /\ orders[o] = NoOrder /\ r.was = NoOrder
    BY <1>2, <1>7 DEF Checked, Backed
  <2>2. after = NewOrder /\ NewOrder \in OrderLike
    BY <1>7 DEF after, OrderAfter, NewOrder, OrderLike, MaintenanceStatus
  <2>3. w = NewOrder
    BY <1>3, <2>1, <2>2, OrderWritten DEF w
  <2>4. NewOrder \in OrderRow
    BY DEF NewOrder, OrderRow, MaintenanceStatus
  <2>5. orders' \in [Order -> OrderRow \cup {NoOrder}]
    BY <1>1, <1>2, <1>4, <1>5, <2>3, <2>4
  <2> QED BY <1>4, <1>5, <1>7, <2>1, <2>3, <2>5 DEF OnOrder
<1>8. CASE OnOrder(r)
  <2>1. /\ o \in Order /\ orders[o] \in OrderRow /\ r.was \in OrderRow
        /\ r.was.startedAt => orders[o].startedAt
        /\ r.was.completedAt => orders[o].completedAt
        /\ Accepted(r) /\ Dated(r.was) /\ Dated(orders[o])
    BY <1>1, <1>2, <1>8 DEF Checked, Backed, Request
  <2> DEFINE x == orders[o]
  <2>2. /\ after \in OrderLike
        /\ after.status = IF r.op = "start" THEN "IN_PROGRESS"
                          ELSE IF r.op = "complete" THEN "COMPLETED" ELSE "CANCELLED"
        /\ after.startedAt = (r.op = "start" \/ r.was.startedAt)
        /\ after.completedAt = (r.op = "complete" \/ r.was.completedAt)
    <3>1. CASE r.op = "start"
      BY <2>1, <3>1 DEF after, OrderAfter, OrderLike, OrderRow, MaintenanceStatus
    <3>2. CASE r.op = "complete"
      BY <2>1, <3>2 DEF after, OrderAfter, OrderLike, OrderRow, MaintenanceStatus
    <3>3. CASE r.op = "cancel"
      BY <2>1, <3>3 DEF after, OrderAfter, OrderLike, OrderRow, MaintenanceStatus
    <3> QED BY <1>8, <3>1, <3>2, <3>3 DEF OnOrder
  <2>3. /\ w \in OrderLike
        /\ w.status = IF after.status = r.was.status THEN x.status ELSE after.status
        /\ w.startedAt = IF after.startedAt = r.was.startedAt THEN x.startedAt
                         ELSE after.startedAt
        /\ w.completedAt = IF after.completedAt = r.was.completedAt THEN x.completedAt
                           ELSE after.completedAt
    BY <1>3, <2>1, <2>2, OrderWritten DEF w
  <2>4. /\ r.op = "start" => r.was.status \in InProgress
        /\ r.op = "complete" => r.was.status = "IN_PROGRESS"
    BY <2>1 DEF Accepted, Dated, ALLOWED_MAINTENANCE_TRANSITIONS, OrderRow, MaintenanceStatus,
       InProgress
  <2>5. w \in OrderRow
    BY <2>1, <2>2, <2>3, OrderRows DEF OrderRow, MaintenanceStatus
  <2>6. /\ x.startedAt => w.startedAt
        /\ x.completedAt => w.completedAt
        /\ r.op = "start" => w.startedAt
        /\ r.op = "complete" => w.startedAt /\ w.completedAt
    BY <1>8, <2>1, <2>2, <2>3, <2>4 DEF Dated, OrderRow, OnOrder
  <2>7. Dated(w)
    <3>1. CASE r.op = "start"
      BY <2>1, <2>2, <2>3, <2>6, <3>1 DEF Dated
    <3>2. CASE r.op = "complete"
      BY <2>1, <2>2, <2>3, <2>4, <2>6, <3>2 DEF Dated
    <3>3. CASE r.op = "cancel"
      BY <2>1, <2>2, <2>3, <2>6, <3>3 DEF Dated
    <3> QED BY <1>8, <3>1, <3>2, <3>3 DEF OnOrder
  <2>8. w.status \in InProgress => x.status \in InProgress \/ Activates(r)
    BY <1>8, <2>2, <2>3, <2>4 DEF OnOrder, Activates, InProgress
  <2>9. orders' \in [Order -> OrderRow \cup {NoOrder}]
    BY <1>1, <1>2, <1>4, <1>5, <2>1, <2>5
  <2> QED BY <1>4, <1>5, <1>8, <2>1, <2>5, <2>6, <2>7, <2>8, <2>9 DEF OnOrder
<1>9. r.op \in {"transition", "move", "schedule"} \/ OnOrder(r)
  BY <1>2 DEF Request, OnOrder
<1> QED BY <1>6, <1>7, <1>8, <1>9

(* The asset is written back well formed, and a request that has read a      *)
(* retired asset leaves it as it is.                                         *)
LEMMA CommitAsset ==
    ASSUME AssetInv, NEW k \in Session, Commit(k)
    PROVE  LET r == request[k] IN
           /\ asset' \in AssetRow
           /\ r.seen = asset /\ asset.status = "RETIRED" => asset' = asset
<1> DEFINE r == request[k]
           after == AssetAfter(r)
<1>1. /\ r # NoRequest /\ r.phase = "ready" /\ asset' = Written(asset, r.seen, after)
  BY DEF Commit
<1>2. /\ r \in Request /\ Checked(r) /\ asset \in AssetRow
  BY <1>1 DEF AssetInv, TypeOK
<1>3. r.seen \in AssetRow /\ Accepted(r)
  BY <1>1, <1>2 DEF Checked, Request
<1>4. after \in AssetRow
  <2>1. CASE r.op = "move"
    BY <1>2, <1>3, <2>1 DEF AssetAfter, AssetRow, Checked
  <2>2. CASE r.op \in {"start", "complete", "transition"} /\ MovesAsset(r)
    <3>1. r.target \in AssetStatus
      BY <1>2, <2>2, Statuses DEF Checked, MovesAsset
    <3> QED BY <1>3, <2>2, <3>1 DEF AssetAfter, AssetRow
  <2>3. CASE r.op # "move" /\ ~(r.op \in {"start", "complete", "transition"} /\ MovesAsset(r))
    BY <1>3, <2>3 DEF AssetAfter
  <2> QED BY <2>1, <2>2, <2>3
<1>5. r.seen.status = "RETIRED" => after = r.seen
  BY <1>2, <1>3, Statuses DEF Accepted, AssetAfter, MayBecome, Checked, Request
<1> HIDE DEF after
<1>6. Written(asset, r.seen, after) \in AssetRow
  BY <1>2, <1>3, <1>4, AssetWritten
<1>7. r.seen = asset => Written(asset, r.seen, after) = after
  BY <1>2, <1>3, <1>4, AssetWritten
<1> QED BY <1>1, <1>5, <1>6, <1>7

(* A commit makes active what was impending only, and nothing new unless it  *)
(* has found no active order.                                                *)
LEMMA CommitActive ==
    ASSUME AssetInv, NEW k \in Session, Commit(k)
    PROVE  LET r == request[k] IN
           /\ Active' \subseteq Active \cup (IF Activates(r) THEN {r.order} ELSE {})
           /\ ~stale' => Active' \subseteq Active \/ Active' \subseteq {r.order}
<1> DEFINE r == request[k]
<1>1. /\ r # NoRequest /\ stale' = (stale \/ Outdated(r)) /\ r.phase = "ready"
  BY DEF Commit
<1>2. r \in Request /\ Checked(r)
  BY <1>1 DEF AssetInv, TypeOK
<1>3. CASE r.op \in {"transition", "move"}
  BY <1>3, CommitOrder DEF Active
<1>4. CASE r.op = "schedule"
  <2>1. Active' \subseteq Active \cup {r.order}
    BY <1>4, CommitOrder DEF Active
  <2>2. ~stale' => Active = {}
    BY <1>1, <1>4 DEF Outdated
  <2> QED BY <1>1, <1>4, <2>1, <2>2 DEF Activates
<1>5. CASE OnOrder(r)
  <2>1. \A p \in Active' : p \in Active \/ (p = r.order /\ Activates(r))
    BY <1>5, CommitOrder DEF Active, InProgress
  <2>2. ~stale' => r.was = orders[r.order]
    BY <1>1, <1>5 DEF Outdated, OnOrder
  <2>3. ~stale' /\ Activates(r) => r.order \in Active
    <3>1. r.order \in Order
      BY <1>5, CommitOrder
    <3> QED BY <1>5, <2>2, <3>1 DEF Activates, OnOrder, Active, InProgress
  <2> QED BY <2>1, <2>3
<1>6. r.op \in {"transition", "move", "schedule"} \/ OnOrder(r)
  BY <1>2 DEF Request, OnOrder
<1> QED BY <1>3, <1>4, <1>5, <1>6

LEMMA CommitKeeps ==
    ASSUME AssetInv, NEW k \in Session, Commit(k)
    PROVE  AssetInv'
<1> DEFINE r == request[k]
           o == r.order
<1>1. /\ r # NoRequest
      /\ request' = [request EXCEPT ![k] = NoRequest]
      /\ stale' = (stale \/ Outdated(r))
  BY DEF Commit
<1>2. /\ \A j \in Session \ {k} : request'[j] = request[j]
      /\ request'[k] = NoRequest
      /\ request' \in [Session -> Request \cup {NoRequest}]
  BY <1>1 DEF AssetInv, TypeOK
<1>3. r \in Request /\ Checked(r) /\ Backed(r, orders)
  BY <1>1 DEF AssetInv, TypeOK
<1>4. r.op \in {"transition", "move", "schedule"} \/ OnOrder(r)
  BY <1>3 DEF Request, OnOrder
<1>5. TypeOK'
  <2>1. stale' \in BOOLEAN
    BY <1>1 DEF AssetInv, TypeOK, Outdated
  <2> QED BY <1>2, <2>1, CommitOrder, CommitAsset DEF TypeOK
<1>6. \A p \in Order : Dated(orders'[p])
  <2>1. Dated(NewOrder)
    BY DEF Dated, NewOrder
  <2>2. \A p \in Order : Dated(orders[p])
    BY DEF AssetInv
  <2> QED BY <1>4, <2>1, <2>2, CommitOrder
<1>7. ASSUME NEW j \in Session, request'[j] # NoRequest
      PROVE  Checked(request'[j]) /\ Backed(request'[j], orders')
  <2>1. /\ j # k /\ request'[j] = request[j]
        /\ Checked(request[j]) /\ Backed(request[j], orders)
    BY <1>2, <1>7 DEF AssetInv
  <2> DEFINE q == request[j]
  <2>2. q.op = "schedule" => q.order # o
    BY <1>1, <1>2, <1>7, <2>1 DEF AssetInv, Exclusive
  <2>3. r.op = "schedule" => q.order # o
    BY <1>2, <1>7, <2>1 DEF AssetInv, Exclusive
  <2>4. CASE q.order # o
    <3>1. q.order \in Order => orders'[q.order] = orders[q.order]
      BY <2>4, CommitOrder
    <3> QED BY <2>1, <3>1 DEF Backed
  <2>5. CASE q.order = o /\ r.op \in {"transition", "move"}
    BY <2>1, <2>5, CommitOrder
  <2>6. CASE q.order = o /\ OnOrder(r)
    <3>1. /\ orders'[o] # NoOrder
          /\ orders[o].startedAt => orders'[o].startedAt
          /\ orders[o].completedAt => orders'[o].completedAt
      BY <2>6, CommitOrder, OrderRows
    <3> QED BY <2>1, <2>2, <2>6, <3>1 DEF Backed
  <2> QED BY <1>4, <2>1, <2>3, <2>4, <2>5, <2>6
<1>8. Exclusive'
  <2> SUFFICES ASSUME NEW i \in Session, NEW j \in Session, i # j,
                      request'[i].op = "schedule", request'[j] # NoRequest
               PROVE  request'[j].order # request'[i].order
    BY DEF Exclusive
  <2>1. request'[i] # NoRequest
    BY DEF NoRequest
  <2> QED BY <1>2, <2>1 DEF AssetInv, Exclusive
<1>9. OneActive'
  BY <1>1, CommitActive DEF AssetInv, OneActive
<1>10. ImpendingBounded'
  <2>1. Activates(r) => o \in Impending
    BY <1>1 DEF Impending, Activators
  <2>2. \A j \in Activators' : j \in Activators /\ request'[j].order = request[j].order
    BY <1>2 DEF Activators
  <2>3. Impending' \subseteq Impending
    BY <2>1, <2>2, CommitActive DEF Impending
  <2> QED BY <2>3, FewerImpending DEF AssetInv
<1> QED BY <1>5, <1>6, <1>7, <1>8, <1>9, <1>10 DEF AssetInv

-----------------------------------------------------------------------------
LEMMA NextAsset == AssetInv /\ [Next]_vars => AssetInv'
<1> SUFFICES ASSUME AssetInv, [Next]_vars PROVE AssetInv'
  OBVIOUS
<1>1. CASE UNCHANGED vars
  BY <1>1 DEF vars, AssetInv, TypeOK, Exclusive, OneActive, ImpendingBounded, Impending,
     Active, Activators
<1>2. CASE Next
  BY <1>2, BeginAssetKeeps, BeginScheduleKeeps, BeginOrderKeeps, CheckActiveKeeps,
     ReadAssetKeeps, CommitKeeps, AbortKeeps DEF Next
<1> QED BY <1>1, <1>2

(* The inductive invariant of an asset and its orders holds of every         *)
(* reachable state, whichever requests overlap (domains/assets/service).     *)
THEOREM AssetInvariant == Spec => []AssetInv
BY InitAsset, NextAsset, PTL DEF Spec

(* The rows of the asset and of its orders, and the requests in flight, are  *)
(* well formed, whatever requests overwrite each other's columns.            *)
THEOREM TypeCorrect == Spec => []TypeOK
BY AssetInvariant, PTL DEF AssetInv

(* An order is COMPLETED only with the dates of its start and its end        *)
(* (start_maintenance, complete_maintenance).                                *)
THEOREM CompletedIsDone == Spec => []CompletedWasDone
<1>1. AssetInv => CompletedWasDone
  BY DEF AssetInv, CompletedWasDone, Dated
<1> QED BY <1>1, AssetInvariant, PTL

(* Overlapping orders never outnumber the requests served at a time: what    *)
(* becomes active after a search without result was in flight then           *)
(* (get_active_maintenance_for_asset, schedule_maintenance).                 *)
THEOREM OverlapIsBounded == Spec => []OverlapBounded
<1>1. AssetInv => OverlapBounded
  <2> SUFFICES ASSUME AssetInv PROVE Cardinality(Active) <= Cardinality(Session)
    BY DEF OverlapBounded
  <2>1. IsFiniteSet(Impending) /\ Active \in SUBSET Impending
    BY DEF AssetInv, ImpendingBounded, Impending
  <2>2. IsFiniteSet(Active) /\ Cardinality(Active) <= Cardinality(Impending)
    BY <2>1, FS_Subset
  <2>3. /\ Cardinality(Active) \in Nat /\ Cardinality(Impending) \in Nat
        /\ Cardinality(Session) \in Nat
    BY <2>1, <2>2, FS_CardinalityType, SessionAssumption
  <2> QED BY <2>2, <2>3 DEF AssetInv, ImpendingBounded
<1> QED BY <1>1, AssetInvariant, PTL

(* As long as nobody writes on an outdated read, an asset has one active     *)
(* order at most (schedule_maintenance).                                     *)
THEOREM OverlapNeedsStale == Spec => []NoOverlapUnlessStale
<1>1. AssetInv => NoOverlapUnlessStale
  <2> SUFFICES ASSUME AssetInv, ~stale PROVE Cardinality(Active) <= 1
    BY DEF NoOverlapUnlessStale
  <2>1. CASE Active = {}
    BY <2>1, FS_EmptySet
  <2>2. CASE Active # {}
    <3>1. PICK o \in Active : TRUE
      BY <2>2
    <3>2. Active = {o}
      BY <3>1 DEF AssetInv, OneActive
    <3> QED BY <3>2, FS_Singleton
  <2> QED BY <2>1, <2>2
<1> QED BY <1>1, AssetInvariant, PTL

LEMMA EndsStep ==
    ASSUME AssetInv, [Next]_vars, ~stale'
    PROVE  /\ asset.status = "RETIRED" =>
                 asset'.status = "RETIRED" /\ asset'.location = asset.location
           /\ \A o \in Order : orders[o].status \in {"COMPLETED", "CANCELLED"} =>
                 orders'[o] = orders[o]
<1>1. CASE UNCHANGED <<asset, orders>>
  BY <1>1
<1>2. ASSUME NEW k \in Session, Commit(k)
      PROVE  /\ asset.status = "RETIRED" => asset' = asset
             /\ \A o \in Order : orders[o].status \in {"COMPLETED", "CANCELLED"} =>
                   orders'[o] = orders[o]
  <2> DEFINE r == request[k]
  <2>1. /\ r # NoRequest /\ r.phase = "ready" /\ ~Outdated(r)
    BY <1>2 DEF Commit
  <2>2. r \in Request /\ Checked(r) /\ Backed(r, orders)
    BY <2>1 DEF AssetInv, TypeOK
  <2>3. asset.status = "RETIRED" => asset' = asset
    BY <1>2, <2>1, CommitAsset DEF Outdated
  <2>4. ASSUME NEW o \in Order, orders[o].status \in {"COMPLETED", "CANCELLED"}
        PROVE  orders'[o] = orders[o]
    <3>1. CASE o # r.order
      BY <1>2, <3>1, CommitOrder
    <3>2. CASE r.op \in {"transition", "move"}
      BY <1>2, <3>2, CommitOrder
    <3>3. CASE o = r.order /\ r.op = "schedule"
      BY <2>2, <2>4, <3>3 DEF Backed, NoOrder
    <3>4. CASE o = r.order /\ OnOrder(r)
      <4>1. r.was.status \in {"COMPLETED", "CANCELLED"} /\ Accepted(r)
        BY <2>1, <2>2, <2>4, <3>4 DEF Outdated, OnOrder, Checked
      <4> QED BY <3>4, <4>1 DEF Accepted, ALLOWED_MAINTENANCE_TRANSITIONS, OnOrder
    <3>5. r.op \in {"transition", "move", "schedule"} \/ OnOrder(r)
      BY <2>2 DEF Request, OnOrder
    <3> QED BY <3>1, <3>2, <3>3, <3>4, <3>5
  <2> QED BY <2>3, <2>4
<1> QED
  BY <1>1, <1>2 DEF Next, vars, Serve, BeginAsset, BeginSchedule, CheckActive, BeginOrder,
     ReadAsset, Abort

(* As long as nobody writes on an outdated read, a retired asset neither     *)
(* returns nor moves, and an order that has ended stays as it is             *)
(* (validate_asset_transition, validate_maintenance_transition).             *)
THEOREM EndsStay == Spec => EndsAreFinal
<1>1. AssetInv /\ [Next]_vars =>
        [~stale' =>
            /\ asset.status = "RETIRED" =>
                  asset'.status = "RETIRED" /\ asset'.location = asset.location
            /\ \A o \in Order : orders[o].status \in {"COMPLETED", "CANCELLED"} =>
                  orders'[o] = orders[o]]_vars
  BY EndsStep
<1> QED BY <1>1, AssetInvariant, PTL DEF Spec, EndsAreFinal
=============================================================================

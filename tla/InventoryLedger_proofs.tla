------------------------ MODULE InventoryLedger_proofs ------------------------
(***************************************************************************)
(* Proofs about InventoryLedger for any number of concurrent requests, any *)
(* quantities and any rows a lot may be created as: its type invariant,    *)
(* that the row is what the ledger adds up to, that no stock appears from  *)
(* nowhere, and that the service's checks imply the table's.               *)
(***************************************************************************)
EXTENDS InventoryLedger, TLAPS

LEMMA LotFields ==
    ASSUME NEW l \in Lot
    PROVE  /\ l.onHand \in Nat /\ l.reserved \in Nat
           /\ l.quarantined \in Nat /\ l.damaged \in Nat
           /\ l.status \in InventoryStatus
           /\ DOMAIN l = {"onHand", "reserved", "quarantined", "damaged", "status"}
BY DEF Lot

(* The row after an UPDATE is a lot, and each quantity is the one written or *)
(* the one that was there.                                                   *)
LEMMA UpdateIsLot ==
    ASSUME lot \in Lot, NEW read \in Lot, NEW write \in Lot
    PROVE  LET row == Update(read, write) IN
           /\ row \in Lot
           /\ row.onHand = IF write.onHand = read.onHand THEN lot.onHand ELSE write.onHand
           /\ row.reserved = IF write.reserved = read.reserved THEN lot.reserved
                             ELSE write.reserved
           /\ row.quarantined = IF write.quarantined = read.quarantined THEN lot.quarantined
                                ELSE write.quarantined
           /\ row.damaged = IF write.damaged = read.damaged THEN lot.damaged ELSE write.damaged
<1> DEFINE row == Update(read, write)
<1>1. row = [onHand |-> row.onHand, reserved |-> row.reserved, quarantined |-> row.quarantined,
             damaged |-> row.damaged, status |-> row.status]
  BY LotFields DEF Update
<1>2. /\ row.onHand = IF write.onHand = read.onHand THEN lot.onHand ELSE write.onHand
      /\ row.reserved = IF write.reserved = read.reserved THEN lot.reserved ELSE write.reserved
      /\ row.quarantined = IF write.quarantined = read.quarantined THEN lot.quarantined
                           ELSE write.quarantined
      /\ row.damaged = IF write.damaged = read.damaged THEN lot.damaged ELSE write.damaged
      /\ row.status = IF write.status = read.status THEN lot.status ELSE write.status
  BY LotFields DEF Update
<1>3. /\ row.onHand \in Nat /\ row.reserved \in Nat /\ row.quarantined \in Nat
      /\ row.damaged \in Nat /\ row.status \in InventoryStatus
  BY <1>2, LotFields
<1>4. row \in Lot
  <2> HIDE DEF row
  <2> QED BY <1>1, <1>3 DEF Lot
<1> QED BY <1>2, <1>4

(* What a movement adds to a quantity: q if c holds, nothing otherwise. *)
OnlyIf(c, q) == IF c THEN q ELSE 0

(* What an operation makes of a lot is a lot, and how its quantities move. *)
LEMMA BookedIsLot ==
    ASSUME NEW l \in Lot, NEW type \in InventoryTransactionType, NEW q \in Nat \ {0},
           Accepts(type, l, q)
    PROVE  LET w == Booked(type, l, q) IN
           /\ w \in Lot /\ w.damaged = l.damaged
           /\ w.onHand + OnlyIf(type = "ISSUE", q) = l.onHand + OnlyIf(type = "RECEIPT", q)
           /\ w.reserved + OnlyIf(type = "RELEASE", q) + OnlyIf(type = "ISSUE", Drawn(l, q))
                = l.reserved + OnlyIf(type = "RESERVATION", q)
           /\ w.quarantined = l.quarantined + OnlyIf(type = "QUARANTINE", q)
<1> USE LotFields DEF OnlyIf
<1>1. CASE type = "RECEIPT"
  <2> DEFINE m == [l EXCEPT !.onHand = l.onHand + q]
  <2>1. /\ m \in Lot /\ m.onHand = l.onHand + q /\ m.reserved = l.reserved
        /\ m.quarantined = l.quarantined /\ m.damaged = l.damaged
    BY DEF Lot
  <2>2. LET n == [m EXCEPT !.status = "AVAILABLE"]
        IN  n \in Lot /\ n.onHand = m.onHand /\ n.reserved = m.reserved
            /\ n.quarantined = m.quarantined /\ n.damaged = m.damaged
    BY <2>1 DEF Lot, InventoryStatus
  <2>3. Booked(type, l, q) \in {m, [m EXCEPT !.status = "AVAILABLE"]}
    BY <1>1 DEF Booked, Received
  <2> HIDE DEF m
  <2> QED BY <1>1, <2>1, <2>2, <2>3
<1>2. CASE type = "RESERVATION"
  BY <1>2 DEF Booked, Reserved, Lot
<1>3. CASE type = "RELEASE"
  BY <1>3 DEF Booked, Released, Accepts, Lot
<1>4. CASE type = "ISSUE"
  <2> DEFINE m == [l EXCEPT !.reserved = Minus(l.reserved, q)]
             n == [m EXCEPT !.onHand = l.onHand - q]
  <2>1. /\ Minus(l.reserved, q) \in Nat /\ Drawn(l, q) \in Nat
        /\ Minus(l.reserved, q) + Drawn(l, q) = l.reserved
    BY DEF Minus, Drawn
  <2>2. /\ m \in Lot /\ m.onHand = l.onHand /\ m.reserved + Drawn(l, q) = l.reserved
        /\ m.quarantined = l.quarantined /\ m.damaged = l.damaged
    BY <2>1 DEF Lot
  <2>3. l.onHand - q \in Nat
    BY <1>4 DEF Accepts, Usable
  <2>4. /\ n \in Lot /\ n.onHand = l.onHand - q /\ n.reserved = m.reserved
        /\ n.quarantined = m.quarantined /\ n.damaged = m.damaged
    <3> HIDE DEF m
    <3> QED BY <2>2, <2>3 DEF Lot
  <2>5. LET o == [n EXCEPT !.status = "CONSUMED"]
        IN  o \in Lot /\ o.onHand = n.onHand /\ o.reserved = n.reserved
            /\ o.quarantined = n.quarantined /\ o.damaged = n.damaged
    <3> HIDE DEF n
    <3> QED BY <2>4 DEF Lot, InventoryStatus
  <2>6. Booked(type, l, q) \in {n, [n EXCEPT !.status = "CONSUMED"]}
    BY <1>4 DEF Booked, Issued
  <2> HIDE DEF m, n
  <2> QED BY <1>4, <2>1, <2>2, <2>3, <2>4, <2>5, <2>6
<1>5. CASE type = "QUARANTINE"
  <2> DEFINE m == [l EXCEPT !.quarantined = l.quarantined + q]
  <2>1. /\ m \in Lot /\ m.onHand = l.onHand /\ m.reserved = l.reserved
        /\ m.quarantined = l.quarantined + q /\ m.damaged = l.damaged
    BY DEF Lot
  <2>2. LET n == [m EXCEPT !.status = "QUARANTINED"]
        IN  n \in Lot /\ n.onHand = m.onHand /\ n.reserved = m.reserved
            /\ n.quarantined = m.quarantined /\ n.damaged = m.damaged
    BY <2>1 DEF Lot, InventoryStatus
  <2>3. Booked(type, l, q) \in {m, [m EXCEPT !.status = "QUARANTINED"]}
    BY <1>5 DEF Booked, Quarantined
  <2> HIDE DEF m
  <2> QED BY <1>5, <2>1, <2>2, <2>3
<1> QED BY <1>1, <1>2, <1>3, <1>4, <1>5 DEF InventoryTransactionType

(* The service's checks imply the table's. *)
LEMMA BookedFits ==
    ASSUME NEW l \in Lot, NEW type \in InventoryTransactionType, NEW q \in Nat \ {0},
           Accepts(type, l, q), Fits(l)
    PROVE  Fits(Booked(type, l, q))
<1> DEFINE w == Booked(type, l, q)
<1>1. /\ w \in Lot /\ w.damaged = l.damaged
      /\ w.onHand + OnlyIf(type = "ISSUE", q) = l.onHand + OnlyIf(type = "RECEIPT", q)
      /\ w.reserved + OnlyIf(type = "RELEASE", q) + OnlyIf(type = "ISSUE", Drawn(l, q))
           = l.reserved + OnlyIf(type = "RESERVATION", q)
      /\ w.quarantined = l.quarantined + OnlyIf(type = "QUARANTINE", q)
  BY BookedIsLot
<1>2. /\ w.onHand \in Nat /\ w.reserved \in Nat /\ w.quarantined \in Nat /\ w.damaged \in Nat
      /\ l.onHand \in Nat /\ l.reserved \in Nat /\ l.quarantined \in Nat /\ l.damaged \in Nat
  BY <1>1, LotFields
<1> SUFFICES Fits(w)
  OBVIOUS
<1> HIDE DEF w
<1>3. CASE type \in {"RECEIPT", "RELEASE"}
  BY <1>1, <1>2, <1>3 DEF Fits, OnlyIf
<1>4. CASE type \in {"RESERVATION", "QUARANTINE"}
  <2>1. l.reserved + l.quarantined + l.damaged + q <= l.onHand
    <3>1. q <= Available(l)
      BY <1>4 DEF Accepts
    <3> QED BY <1>2, <3>1 DEF Available
  <2> QED BY <1>1, <1>2, <1>4, <2>1 DEF Fits, OnlyIf
<1>5. CASE type = "ISSUE"
  <2>1. q <= l.onHand - (l.quarantined + l.damaged)
    BY <1>5 DEF Accepts, Usable
  <2> QED BY <1>1, <1>2, <1>5, <2>1 DEF Fits, OnlyIf, Drawn
<1> QED BY <1>3, <1>4, <1>5 DEF InventoryTransactionType

-----------------------------------------------------------------------------
LEMMA RequestKinds ==
    ASSUME TypeOK, NEW k \in Session
    PROVE  /\ request[k] # NoRequest => /\ request[k].read \in Lot /\ request[k].write \in Lot
                                       /\ request[k] \in Booking \cup Transition
           /\ request[k].type \in InventoryTransactionType =>
                 request[k] \in Booking /\ request[k].quantity \in Nat \ {0}
           /\ request[k].type = "TRANSITION" => request[k] \in Transition
<1>1. request[k] \in {NoRequest} \cup Booking \cup Transition
  BY DEF TypeOK
<1>2. NoRequest.type \notin InventoryTransactionType /\ NoRequest.type # "TRANSITION"
  BY DEF NoRequest, InventoryTransactionType
<1>3. ASSUME NEW r \in Booking
      PROVE  /\ r.type \in InventoryTransactionType /\ r.quantity \in Nat \ {0}
             /\ r.read \in Lot /\ r.write \in Lot
  BY AmountAssumption DEF Booking
<1>4. ASSUME NEW r \in Transition
      PROVE  r.type = "TRANSITION" /\ r.read \in Lot /\ r.write \in Lot
  BY DEF Transition
<1>5. "TRANSITION" \notin InventoryTransactionType
  BY DEF InventoryTransactionType
<1> QED BY <1>1, <1>2, <1>3, <1>4, <1>5

LEMMA InitTypeOK == Init => TypeOK
<1> SUFFICES ASSUME Init PROVE TypeOK
  OBVIOUS
<1>1. opening \in Lot /\ lot \in Lot
  BY OpeningAssumption DEF Init
<1>2. ledger \in [InventoryTransactionType -> Nat]
  BY <1>1, LotFields DEF Init, OpeningLedger
<1> QED BY <1>1, <1>2 DEF Init, TypeOK

LEMMA NextTypeOK == TypeOK /\ [Next]_vars => TypeOK'
<1> SUFFICES ASSUME TypeOK, [Next]_vars PROVE TypeOK'
  OBVIOUS
<1>1. ASSUME NEW k \in Session, NEW type \in InventoryTransactionType, NEW q \in Amount,
             BeginBooking(k, type, q)
      PROVE  TypeOK'
  <2>1. Booked(type, lot, q) \in Lot
    BY <1>1, BookedIsLot, AmountAssumption DEF TypeOK, BeginBooking
  <2>2. [type |-> type, quantity |-> q, read |-> lot, write |-> Booked(type, lot, q)] \in Booking
    BY <2>1 DEF TypeOK, Booking
  <2> QED BY <1>1, <2>2 DEF TypeOK, BeginBooking
<1>2. ASSUME NEW k \in Session, NEW target \in Target, BeginTransition(k, target)
      PROVE  TypeOK'
  <2>1. [lot EXCEPT !.status = target] \in Lot
    BY OpeningAssumption DEF TypeOK, Lot
  <2>2. [type |-> "TRANSITION", read |-> lot, write |-> [lot EXCEPT !.status = target]]
          \in Transition
    BY <2>1 DEF TypeOK, Transition
  <2> QED BY <1>2, <2>2 DEF TypeOK, BeginTransition
<1>3. ASSUME NEW k \in Session, CommitBooking(k) PROVE TypeOK'
  <2> DEFINE r == request[k]
  <2>1. /\ r \in Booking /\ r.quantity \in Nat /\ r.type \in InventoryTransactionType
        /\ r.read \in Lot /\ r.write \in Lot
    BY <1>3, RequestKinds DEF CommitBooking, Booking
  <2>2. Update(r.read, r.write) \in Lot
    BY <2>1, UpdateIsLot DEF TypeOK
  <2>3. Drawn(r.read, r.quantity) \in Nat
    BY <2>1, LotFields DEF Drawn
  <2> QED BY <1>3, <2>1, <2>2, <2>3 DEF TypeOK, CommitBooking
<1>4. ASSUME NEW k \in Session, CommitTransition(k) PROVE TypeOK'
  <2>1. Update(request[k].read, request[k].write) \in Lot
    BY <1>4, RequestKinds, UpdateIsLot DEF TypeOK, CommitTransition, Transition
  <2> QED BY <1>4, <2>1 DEF TypeOK, CommitTransition
<1>5. ASSUME NEW k \in Session, Abort(k) PROVE TypeOK'
  BY <1>5 DEF TypeOK, Abort
<1>6. CASE UNCHANGED vars
  BY <1>6 DEF vars, TypeOK
<1> QED BY <1>1, <1>2, <1>3, <1>4, <1>5, <1>6 DEF Next

(* The row and the ledger are well formed in every reachable state.          *)
THEOREM TypeCorrect == Spec => []TypeOK
BY InitTypeOK, NextTypeOK, PTL DEF Spec

-----------------------------------------------------------------------------
(* The inductive invariant.  A request in flight keeps what it has read, and  *)
(* that may be outdated by the time it writes; what makes its write harmless  *)
(* for the table is that whatever it has read stays backed by the ledger.     *)

(* A row none of whose quantities is larger than its entries account for. *)
Backed(l) ==
    /\ l.onHand <= ledger["RECEIPT"]
    /\ l.reserved <= opening.reserved + ledger["RESERVATION"]
    /\ l.quarantined >= opening.quarantined
    /\ l.quarantined <= opening.quarantined + ledger["QUARANTINE"]

SameQuantities(l, m) ==
    /\ l.onHand = m.onHand /\ l.reserved = m.reserved
    /\ l.quarantined = m.quarantined /\ l.damaged = m.damaged

(* What a request in flight will write follows from what it has read. *)
SoundBooking(r) ==
    /\ Accepts(r.type, r.read, r.quantity)
    /\ r.write = Booked(r.type, r.read, r.quantity)
    /\ Fits(r.read) /\ Backed(r.read)

SoundTransition(r) == Fits(r.read) /\ SameQuantities(r.write, r.read)

Sound(r) ==
    /\ r \in Booking => SoundBooking(r)
    /\ r \in Transition => SoundTransition(r)

IInv ==
    /\ TypeOK
    /\ Fits(lot) /\ NoPhantomStock /\ LedgerBalanced
    /\ \A k \in Session : Sound(request[k])

LEMMA InitIInv == Init => IInv
<1> SUFFICES ASSUME Init PROVE IInv
  OBVIOUS
<1>1. TypeOK
  BY InitTypeOK
<1>2. /\ lot.onHand \in Nat /\ lot.reserved \in Nat /\ lot.quarantined \in Nat
      /\ lot = opening
  BY <1>1, LotFields DEF Init, TypeOK
<1>3. /\ ledger["RECEIPT"] = lot.onHand /\ ledger["ISSUE"] = 0 /\ ledger["RELEASE"] = 0
      /\ ledger["RESERVATION"] = 0 /\ ledger["QUARANTINE"] = 0
  BY DEF Init, OpeningLedger, InventoryTransactionType
<1>4. NoPhantomStock /\ LedgerBalanced
  BY <1>2, <1>3 DEF Init, NoPhantomStock, LedgerBalanced
<1>5. ASSUME NEW k \in Session PROVE Sound(request[k])
  <2>1. NoRequest \notin Booking \cup Transition
    BY DEF NoRequest, Booking, Transition, InventoryTransactionType
  <2> QED BY <2>1 DEF Init, Sound
<1> QED BY <1>1, <1>4, <1>5 DEF Init, IInv

(* The entries of the ledger are never taken back, so a read that was backed *)
(* stays so, and a request in flight stays sound whatever others commit.     *)
LEMMA SoundStays ==
    ASSUME TypeOK, TypeOK', UNCHANGED opening,
           \A t \in InventoryTransactionType : ledger[t] <= ledger'[t],
           NEW j \in Session, Sound(request[j]), request'[j] = request[j]
    PROVE  Sound(request[j])'
<1>1. ASSUME NEW l \in Lot, Backed(l)
      PROVE  Backed(l)'
  <2>1. /\ l.onHand \in Nat /\ l.reserved \in Nat /\ l.quarantined \in Nat
        /\ opening.reserved \in Nat /\ opening.quarantined \in Nat
        /\ opening' = opening
    BY LotFields DEF TypeOK
  <2>2. \A t \in InventoryTransactionType :
           ledger[t] \in Nat /\ ledger'[t] \in Nat /\ ledger[t] <= ledger'[t]
    BY DEF TypeOK
  <2>3. {"RECEIPT", "RESERVATION", "QUARANTINE"} \subseteq InventoryTransactionType
    BY DEF InventoryTransactionType
  <2> QED BY <1>1, <2>1, <2>2, <2>3 DEF Backed
<1>2. PICK r : r = request[j] /\ r = request'[j]
  OBVIOUS
<1>3. r \in Booking => r.read \in Lot
  BY DEF Booking
<1>4. Sound(r)
  BY <1>2
<1>5. r \in Booking => Backed(r.read)'
  BY <1>1, <1>3, <1>4 DEF Sound, SoundBooking
<1> QED BY <1>2, <1>4, <1>5 DEF Sound, SoundBooking, SoundTransition, Backed

(* A request that has just read the lot is sound, because the lot is. *)
LEMMA BeginIsSound ==
    ASSUME IInv, TypeOK', NEW k \in Session,
           \/ \E type \in InventoryTransactionType, q \in Amount : BeginBooking(k, type, q)
           \/ \E target \in Target : BeginTransition(k, target)
    PROVE  IInv'
<1>0. TypeOK /\ TypeOK' /\ UNCHANGED <<lot, ledger, opening, drawn, stale>>
  BY DEF IInv, BeginBooking, BeginTransition
<1>1. /\ Fits(lot)' /\ NoPhantomStock' /\ LedgerBalanced'
  BY <1>0 DEF IInv, Fits, NoPhantomStock, LedgerBalanced
<1>2. \A t \in InventoryTransactionType : ledger[t] <= ledger'[t]
  BY <1>0 DEF TypeOK
<1>3. ASSUME NEW j \in Session, j # k PROVE Sound(request[j])'
  <2>1. PICK r : request' = [request EXCEPT ![k] = r]
    BY Zenon DEF BeginBooking, BeginTransition
  <2>2. request'[j] = request[j]
    BY <1>0, <1>3, <2>1 DEF TypeOK
  <2> QED BY <1>0, <1>2, <2>2, SoundStays DEF IInv
<1>4. ASSUME NEW type \in InventoryTransactionType, NEW q \in Amount, BeginBooking(k, type, q)
      PROVE  Sound(request[k])'
  <2>1. PICK r : r = [type |-> type, quantity |-> q, read |-> lot,
                      write |-> Booked(type, lot, q)]
    OBVIOUS
  <2>2. request'[k] = r
    BY <1>0, <1>4, <2>1 DEF BeginBooking, TypeOK
  <2>3. Accepts(type, lot, q) /\ Fits(lot) /\ Backed(lot)
    BY <1>4 DEF BeginBooking, IInv, NoPhantomStock, Backed
  <2>4. Backed(r.read)'
    BY <1>0, <2>1, <2>3 DEF Backed
  <2>5. r \notin Transition
    BY <2>1 DEF Transition, InventoryTransactionType
  <2> QED BY <2>1, <2>2, <2>3, <2>4, <2>5 DEF Sound, SoundBooking, Backed
<1>5. ASSUME NEW target \in Target, BeginTransition(k, target)
      PROVE  Sound(request[k])'
  <2>0. PICK w : w = [lot EXCEPT !.status = target]
    OBVIOUS
  <2>1. PICK r : r = [type |-> "TRANSITION", read |-> lot, write |-> w]
    OBVIOUS
  <2>2. request'[k] = r
    <3>1. request' = [request EXCEPT ![k] = r]
      BY <1>5, <2>0, <2>1, Zenon DEF BeginTransition
    <3> QED BY <1>0, <3>1 DEF TypeOK
  <2>3. r \notin Booking
    BY <2>1 DEF Booking, InventoryTransactionType
  <2>4. SoundTransition(r)
    <3>1. SameQuantities(w, lot)
      BY <1>0, <2>0 DEF TypeOK, SameQuantities, Lot
    <3> QED BY <2>1, <3>1 DEF IInv, SoundTransition
  <2> QED BY <2>2, <2>3, <2>4 DEF Sound, SoundTransition
<1> QED BY <1>0, <1>1, <1>3, <1>4, <1>5 DEF IInv

(* What a booking makes of the row: backed by the ledger it has added to, and *)
(* balanced if the row is still the one it has read.                          *)
LEMMA CommitIsBacked ==
    ASSUME IInv, TypeOK', NEW k \in Session, CommitBooking(k)
    PROVE  NoPhantomStock' /\ LedgerBalanced'
<1>1. PICK r : r = request[k]
  OBVIOUS
<1>2. /\ r \in Booking /\ r.type \in InventoryTransactionType /\ r.quantity \in Nat \ {0}
      /\ r.read \in Lot /\ r.write \in Lot
  BY <1>1, RequestKinds DEF IInv, CommitBooking, Booking
<1>3. Accepts(r.type, r.read, r.quantity) /\ r.write = Booked(r.type, r.read, r.quantity)
      /\ Backed(r.read)
  BY <1>1, <1>2 DEF IInv, Sound, SoundBooking
<1> DEFINE type == r.type
           q == r.quantity
           l == r.read
           w == r.write
           n == Drawn(l, q)
<1>4. /\ w.onHand + OnlyIf(type = "ISSUE", q) = l.onHand + OnlyIf(type = "RECEIPT", q)
      /\ w.reserved + OnlyIf(type = "RELEASE", q) + OnlyIf(type = "ISSUE", n)
           = l.reserved + OnlyIf(type = "RESERVATION", q)
      /\ w.quarantined = l.quarantined + OnlyIf(type = "QUARANTINE", q)
  BY <1>2, <1>3, BookedIsLot
<1>5. /\ lot'.onHand = IF w.onHand = l.onHand THEN lot.onHand ELSE w.onHand
      /\ lot'.reserved = IF w.reserved = l.reserved THEN lot.reserved ELSE w.reserved
      /\ lot'.quarantined = IF w.quarantined = l.quarantined THEN lot.quarantined
                            ELSE w.quarantined
  BY <1>1, <1>2, UpdateIsLot DEF IInv, TypeOK, CommitBooking
<1>6. /\ ledger' = [ledger EXCEPT ![type] = ledger[type] + q]
      /\ drawn' = drawn + OnlyIf(type = "ISSUE", n)
      /\ stale' = (stale \/ lot # l) /\ opening' = opening
  BY <1>1 DEF CommitBooking, IInv, TypeOK, OnlyIf
<1>7. ledger \in [InventoryTransactionType -> Nat] /\ drawn \in Nat
  BY DEF IInv, TypeOK
<1>8. /\ lot.onHand \in Nat /\ lot.reserved \in Nat /\ lot.quarantined \in Nat
      /\ opening.reserved \in Nat /\ opening.quarantined \in Nat
      /\ l.onHand \in Nat /\ l.reserved \in Nat /\ l.quarantined \in Nat
      /\ w.onHand \in Nat /\ w.reserved \in Nat /\ w.quarantined \in Nat
      /\ q \in Nat \ {0} /\ n \in Nat /\ type \in InventoryTransactionType
  <2>1. lot \in Lot /\ opening \in Lot
    BY DEF IInv, TypeOK
  <2> QED BY <1>2, <2>1, LotFields DEF Drawn
<1> HIDE DEF type, q, l, w, n
<1>9. /\ ledger'["RECEIPT"] = ledger["RECEIPT"] + OnlyIf(type = "RECEIPT", q)
      /\ ledger'["ISSUE"] = ledger["ISSUE"] + OnlyIf(type = "ISSUE", q)
      /\ ledger'["RESERVATION"] = ledger["RESERVATION"] + OnlyIf(type = "RESERVATION", q)
      /\ ledger'["RELEASE"] = ledger["RELEASE"] + OnlyIf(type = "RELEASE", q)
      /\ ledger'["QUARANTINE"] = ledger["QUARANTINE"] + OnlyIf(type = "QUARANTINE", q)
  BY <1>6, <1>7, <1>8 DEF OnlyIf, InventoryTransactionType
<1>10. /\ ledger["RECEIPT"] \in Nat /\ ledger["ISSUE"] \in Nat /\ ledger["RESERVATION"] \in Nat
       /\ ledger["RELEASE"] \in Nat /\ ledger["QUARANTINE"] \in Nat
  BY <1>7 DEF InventoryTransactionType
<1>11. Backed(l)
  BY <1>3 DEF l
<1>12. NoPhantomStock'
  <2>1. lot'.onHand <= ledger'["RECEIPT"]
    BY <1>4, <1>5, <1>8, <1>9, <1>10, <1>11 DEF Backed, IInv, NoPhantomStock, OnlyIf
  <2>2. lot'.reserved <= opening.reserved + ledger'["RESERVATION"]
    BY <1>4, <1>5, <1>8, <1>9, <1>10, <1>11 DEF Backed, IInv, NoPhantomStock, OnlyIf
  <2>3. /\ lot'.quarantined >= opening.quarantined
        /\ lot'.quarantined <= opening.quarantined + ledger'["QUARANTINE"]
    BY <1>4, <1>5, <1>8, <1>9, <1>10, <1>11 DEF Backed, IInv, NoPhantomStock, OnlyIf
  <2> QED BY <1>6, <2>1, <2>2, <2>3 DEF NoPhantomStock
<1>13. LedgerBalanced'
  <2>0. SUFFICES ASSUME ~stale'
                 PROVE  /\ lot'.onHand = ledger'["RECEIPT"] - ledger'["ISSUE"]
                        /\ lot'.reserved + ledger'["RELEASE"] + drawn'
                              = opening.reserved + ledger'["RESERVATION"]
                        /\ lot'.quarantined = opening.quarantined + ledger'["QUARANTINE"]
    BY <1>6 DEF LedgerBalanced
  <2>1. ~stale /\ lot = l
    BY <1>6, <2>0
  <2>2. lot'.onHand = w.onHand /\ lot'.reserved = w.reserved /\ lot'.quarantined = w.quarantined
    BY <1>5, <2>1
  <2>3. /\ l.onHand = ledger["RECEIPT"] - ledger["ISSUE"]
        /\ l.reserved + ledger["RELEASE"] + drawn = opening.reserved + ledger["RESERVATION"]
        /\ l.quarantined = opening.quarantined + ledger["QUARANTINE"]
    BY <2>1 DEF IInv, LedgerBalanced
  <2>4. lot'.onHand = ledger'["RECEIPT"] - ledger'["ISSUE"]
    <3>1. CASE type = "RECEIPT"
      BY <1>4, <1>8, <1>9, <1>10, <2>2, <2>3, <3>1 DEF OnlyIf
    <3>2. CASE type = "ISSUE"
      BY <1>4, <1>8, <1>9, <1>10, <2>2, <2>3, <3>2 DEF OnlyIf
    <3>3. CASE type \notin {"RECEIPT", "ISSUE"}
      BY <1>4, <1>8, <1>9, <1>10, <2>2, <2>3, <3>3 DEF OnlyIf
    <3> QED BY <3>1, <3>2, <3>3
  <2>5. lot'.reserved + ledger'["RELEASE"] + drawn' = opening.reserved + ledger'["RESERVATION"]
    <3>1. CASE type = "RESERVATION"
      BY <1>4, <1>6, <1>7, <1>8, <1>9, <1>10, <2>2, <2>3, <3>1 DEF OnlyIf
    <3>2. CASE type = "RELEASE"
      BY <1>4, <1>6, <1>7, <1>8, <1>9, <1>10, <2>2, <2>3, <3>2 DEF OnlyIf
    <3>3. CASE type = "ISSUE"
      BY <1>4, <1>6, <1>7, <1>8, <1>9, <1>10, <2>2, <2>3, <3>3 DEF OnlyIf
    <3>4. CASE type \notin {"RESERVATION", "RELEASE", "ISSUE"}
      BY <1>4, <1>6, <1>7, <1>8, <1>9, <1>10, <2>2, <2>3, <3>4 DEF OnlyIf
    <3> QED BY <3>1, <3>2, <3>3, <3>4
  <2>6. lot'.quarantined = opening.quarantined + ledger'["QUARANTINE"]
    BY <1>4, <1>8, <1>9, <1>10, <2>2, <2>3 DEF OnlyIf
  <2> QED BY <2>4, <2>5, <2>6
<1> QED BY <1>12, <1>13

(* No request is in flight in a session that has just ended one. *)
LEMMA EndedIsSound ==
    ASSUME IInv, TypeOK', NEW k \in Session,
           request' = [request EXCEPT ![k] = NoRequest], UNCHANGED opening,
           \A t \in InventoryTransactionType : ledger[t] <= ledger'[t]
    PROVE  \A j \in Session : Sound(request[j])'
<1>1. ASSUME NEW j \in Session, j # k PROVE Sound(request[j])'
  BY <1>1, SoundStays DEF IInv, TypeOK
<1>2. Sound(request[k])'
  <2>1. request'[k] = NoRequest
    BY DEF IInv, TypeOK
  <2>2. NoRequest \notin Booking \cup Transition
    BY DEF NoRequest, Booking, Transition, InventoryTransactionType
  <2> QED BY <2>1, <2>2 DEF Sound
<1> QED BY <1>1, <1>2

LEMMA NextIInv == IInv /\ [Next]_vars => IInv'
<1> SUFFICES ASSUME IInv, [Next]_vars PROVE IInv'
  OBVIOUS
<1>0. TypeOK /\ TypeOK'
  BY NextTypeOK DEF IInv
<1>1. ASSUME NEW k \in Session, NEW type \in InventoryTransactionType, NEW q \in Amount,
             BeginBooking(k, type, q)
      PROVE  IInv'
  BY <1>0, <1>1, BeginIsSound, Zenon
<1>2. ASSUME NEW k \in Session, NEW target \in Target, BeginTransition(k, target)
      PROVE  IInv'
  BY <1>0, <1>2, BeginIsSound, Zenon
<1>3. ASSUME NEW k \in Session, CommitBooking(k) PROVE IInv'
  <2>1. NoPhantomStock' /\ LedgerBalanced'
    BY <1>0, <1>3, CommitIsBacked
  <2>2. Fits(lot)'
    BY <1>3 DEF CommitBooking, Fits
  <2>3. \A t \in InventoryTransactionType : ledger[t] <= ledger'[t]
    <3>1. request[k].type \in InventoryTransactionType /\ request[k].quantity \in Nat
      BY <1>0, <1>3, RequestKinds DEF CommitBooking
    <3> QED BY <1>0, <1>3, <3>1 DEF CommitBooking, TypeOK
  <2>4. \A j \in Session : Sound(request[j])'
    BY <1>0, <1>3, <2>3, EndedIsSound DEF CommitBooking
  <2> QED BY <1>0, <2>1, <2>2, <2>4 DEF IInv
<1>4. ASSUME NEW k \in Session, CommitTransition(k) PROVE IInv'
  <2>1. PICK r : r = request[k]
    OBVIOUS
  <2>2. r \in Transition /\ r.read \in Lot /\ r.write \in Lot
    BY <1>0, <1>4, <2>1, RequestKinds DEF CommitTransition, Transition
  <2>3. SameQuantities(r.write, r.read)
    BY <2>1, <2>2 DEF IInv, Sound, SoundTransition
  <2>4. SameQuantities(lot, lot')
    BY <1>0, <1>4, <2>1, <2>2, <2>3, UpdateIsLot DEF TypeOK, CommitTransition, SameQuantities
  <2>5. /\ UNCHANGED <<ledger, opening, drawn>> /\ (stale => stale')
        /\ request' = [request EXCEPT ![k] = NoRequest]
    BY <1>4 DEF CommitTransition
  <2>6. Fits(lot)' /\ NoPhantomStock' /\ LedgerBalanced'
    BY <2>4, <2>5 DEF IInv, SameQuantities, Fits, NoPhantomStock, LedgerBalanced
  <2>7. \A j \in Session : Sound(request[j])'
    <3>1. \A t \in InventoryTransactionType : ledger[t] <= ledger'[t]
      BY <1>0, <2>5 DEF TypeOK
    <3> QED BY <1>0, <2>5, <3>1, EndedIsSound
  <2> QED BY <1>0, <2>6, <2>7 DEF IInv
<1>5. ASSUME NEW k \in Session, Abort(k) PROVE IInv'
  <2>1. /\ UNCHANGED <<lot, ledger, opening, drawn, stale>>
        /\ request' = [request EXCEPT ![k] = NoRequest]
    BY <1>5 DEF Abort
  <2>2. \A j \in Session : Sound(request[j])'
    <3>1. \A t \in InventoryTransactionType : ledger[t] <= ledger'[t]
      BY <1>0, <2>1 DEF TypeOK
    <3> QED BY <1>0, <2>1, <3>1, EndedIsSound
  <2> QED BY <1>0, <2>1, <2>2 DEF IInv, Fits, NoPhantomStock, LedgerBalanced
<1>6. CASE UNCHANGED vars
  BY <1>6 DEF vars, IInv, TypeOK, Fits, NoPhantomStock, LedgerBalanced, Sound, SoundBooking,
              SoundTransition, Backed
<1> QED BY <1>1, <1>2, <1>3, <1>4, <1>5, <1>6 DEF Next

LEMMA Invariance == Spec => []IInv
BY InitIInv, NextIInv, PTL DEF Spec

(* Whatever requests overwrite each other, the row of a lot never shows stock *)
(* that its receipts, reservations and quarantines do not account for.        *)
THEOREM PhantomFree == Spec => []NoPhantomStock
<1>1. IInv => NoPhantomStock
  BY DEF IInv
<1> QED BY <1>1, Invariance, PTL

(* As long as every request writes on a current read, the row is what the     *)
(* entries of its ledger add up to.                                           *)
THEOREM Balanced == Spec => []LedgerBalanced
<1>1. IInv => LedgerBalanced
  BY DEF IInv
<1> QED BY <1>1, Invariance, PTL

(* A request whose read is current passes the CHECK constraints of the table: *)
(* what the service accepts, the database accepts.                            *)
THEOREM ChecksSuffice == Spec => []NoNeedlessRefusal
<1>1. ASSUME IInv, NEW k \in Session, request[k] # NoRequest
      PROVE  Fits(request[k].write)
  <2>1. PICK r : r = request[k]
    OBVIOUS
  <2>2. r \in Booking \cup Transition /\ Sound(r)
    BY <1>1, <2>1, RequestKinds DEF IInv
  <2>3. CASE r \in Booking
    <3>1. /\ r.read \in Lot /\ r.type \in InventoryTransactionType
          /\ r.quantity \in Nat \ {0}
      BY <2>3, AmountAssumption DEF Booking
    <3> QED BY <2>1, <2>2, <2>3, <3>1, BookedFits DEF Sound, SoundBooking
  <2>4. CASE r \in Transition
    BY <2>1, <2>2, <2>4 DEF Sound, SoundTransition, SameQuantities, Fits
  <2> QED BY <2>2, <2>3, <2>4
<1>2. IInv => NoNeedlessRefusal
  BY <1>1 DEF NoNeedlessRefusal
<1> QED BY <1>2, Invariance, PTL
=============================================================================

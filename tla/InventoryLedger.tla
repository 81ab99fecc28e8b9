--------------------------- MODULE InventoryLedger ---------------------------
(***************************************************************************)
(* One stock lot of the inventory (backend domains/inventory) and the      *)
(* ledger of its transactions, under concurrent requests.                  *)
(*                                                                         *)
(* Every operation of InventoryService reads the lot, checks the request   *)
(* against what it read, and writes the columns it changed together with a *)
(* ledger entry in one transaction.  Nothing locks the row between the     *)
(* read and the write; the UPDATE itself is serialised by the database,    *)
(* which applies the table's CHECK constraints to the resulting row.       *)
(***************************************************************************)
EXTENDS Integers

CONSTANTS
    Session,    \* concurrent requests
    Amount,     \* the quantities requests ask for
    Opening,    \* the rows a lot may be created as
    Target,     \* the statuses transition requests ask for
    MaxTotal    \* bound: what requests add to the ledger, for each type

ASSUME AmountAssumption == Amount \subseteq Nat \ {0}
ASSUME TotalAssumption  == MaxTotal \in Nat

VARIABLES
    lot,        \* the row: four quantities and a status
    ledger,     \* [transaction type -> quantity of all its entries]
    request,    \* [Session -> the request served in it]
    opening,    \* history: the row as it was created
    drawn,      \* history: what issues took out of reservations
    stale       \* history: a request has committed on an outdated read

vars == <<lot, ledger, request, opening, drawn, stale>>

-----------------------------------------------------------------------------
InventoryStatus == {"ON_ORDER", "INBOUND", "AVAILABLE", "RESERVED", "ISSUED",
                    "CONSUMED", "TRANSFERRED", "QUARANTINED", "DISPOSED"}

InventoryTransactionType == {"RECEIPT", "RESERVATION", "RELEASE", "ISSUE", "QUARANTINE"}

Lot == [onHand : Nat, reserved : Nat, quarantined : Nat, damaged : Nat,
        status : InventoryStatus]

ASSUME OpeningAssumption == Opening \subseteq Lot /\ Target \subseteq InventoryStatus

ALLOWED_INVENTORY_TRANSITIONS ==
    [ON_ORDER    |-> {"ON_ORDER", "INBOUND", "QUARANTINED", "DISPOSED"},
     INBOUND     |-> {"INBOUND", "AVAILABLE", "QUARANTINED", "DISPOSED"},
     AVAILABLE   |-> {"AVAILABLE", "RESERVED", "ISSUED", "CONSUMED", "TRANSFERRED",
                      "QUARANTINED", "DISPOSED"},
     RESERVED    |-> {"RESERVED", "AVAILABLE", "ISSUED", "CONSUMED", "TRANSFERRED",
                      "QUARANTINED"},
     ISSUED      |-> {"ISSUED", "CONSUMED", "AVAILABLE", "QUARANTINED", "DISPOSED"},
     TRANSFERRED |-> {"TRANSFERRED", "INBOUND", "AVAILABLE", "DISPOSED"},
     QUARANTINED |-> {"QUARANTINED", "AVAILABLE", "DISPOSED"},
     CONSUMED    |-> {"CONSUMED"},
     DISPOSED    |-> {"DISPOSED"}]

(* The CHECK constraints of inventory_stock_lots. *)
Fits(l) == l.reserved + l.quarantined + l.damaged <= l.onHand

(* Mutant of Available: what is damaged counts as available. *)
Available_Damaged(l) ==
    LET unavailable == l.reserved + l.quarantined
    IN  IF l.onHand > unavailable THEN l.onHand - unavailable ELSE 0

(* calculate_lot_availability. *)
Available(l) ==
    LET unavailable == l.reserved + l.quarantined + l.damaged
    IN  IF l.onHand > unavailable THEN l.onHand - unavailable ELSE 0

(* What issue_stock may hand out: reserved stock included. *)
Usable(l) == l.onHand - (l.quarantined + l.damaged)

(* Mutant of Minus: a reservation can be drawn below zero. *)
Minus_Unfloored(a, b) == a - b

(* An issue takes from the reserved quantity what it can. *)
Minus(a, b) == IF a > b THEN a - b ELSE 0

(* The part of an issue that is taken out of a reservation. *)
Drawn(l, q) == IF q <= l.reserved THEN q ELSE l.reserved

-----------------------------------------------------------------------------
(* What each operation makes of the lot it has read; the guard first. *)

Received(l, q) ==
    LET m == [l EXCEPT !.onHand = l.onHand + q]
    IN  IF l.status \in {"ON_ORDER", "INBOUND"} THEN [m EXCEPT !.status = "AVAILABLE"] ELSE m

Reserved(l, q) == [l EXCEPT !.reserved = l.reserved + q]

(* Mutant of Released: released stock is put back on hand. *)
Released_OnHand(l, q) == [l EXCEPT !.reserved = l.reserved - q, !.onHand = l.onHand + q]

Released(l, q) == [l EXCEPT !.reserved = l.reserved - q]

(* Mutant of Issued: an issue ends the whole reservation. *)
Issued_All(l, q) == [l EXCEPT !.onHand = l.onHand - q, !.reserved = 0]

Issued(l, q) ==
    LET m == [l EXCEPT !.reserved = Minus(l.reserved, q)]
        n == [m EXCEPT !.onHand = l.onHand - q]
    IN  IF n.onHand = 0 THEN [n EXCEPT !.status = "CONSUMED"] ELSE n

Quarantined(l, q) ==
    LET m == [l EXCEPT !.quarantined = l.quarantined + q]
    IN  IF m.quarantined >= l.onHand THEN [m EXCEPT !.status = "QUARANTINED"] ELSE m

Accepts(type, l, q) ==
    CASE type = "RECEIPT"     -> TRUE
      [] type = "RESERVATION" -> q <= Available(l)
      [] type = "RELEASE"     -> q <= l.reserved
      [] type = "ISSUE"       -> q <= Usable(l)
      [] type = "QUARANTINE"  -> q <= Available(l)

Booked(type, l, q) ==
    CASE type = "RECEIPT"     -> Received(l, q)
      [] type = "RESERVATION" -> Reserved(l, q)
      [] type = "RELEASE"     -> Released(l, q)
      [] type = "ISSUE"       -> Issued(l, q)
      [] type = "QUARANTINE"  -> Quarantined(l, q)

NoRequest == [type |-> "idle"]

(* A request has read the lot; it knows what it will write. *)
Booking == [type : InventoryTransactionType, quantity : Amount, read : Lot, write : Lot]

(* transition_status writes the status only. *)
Transition == [type : {"TRANSITION"}, read : Lot, write : Lot]

(* The row after an UPDATE of the columns in which write differs from read. *)
Update(read, write) ==
    [c \in DOMAIN lot |-> IF write[c] = read[c] THEN lot[c] ELSE write[c]]

TypeOK ==
    /\ lot \in Lot /\ opening \in Lot
    /\ ledger \in [InventoryTransactionType -> Nat]
    /\ request \in [Session -> {NoRequest} \cup Booking \cup Transition]
    /\ drawn \in Nat /\ stale \in BOOLEAN

-----------------------------------------------------------------------------
(* create_stock_lot books the stock on hand as an opening receipt. *)
OpeningLedger(l) ==
    [t \in InventoryTransactionType |-> IF t = "RECEIPT" THEN l.onHand ELSE 0]

Init ==
    /\ opening \in Opening /\ Fits(opening)
    /\ lot = opening
    /\ ledger = OpeningLedger(opening)
    /\ request = [k \in Session |-> NoRequest]
    /\ drawn = 0 /\ stale = FALSE

(* receive_stock, reserve_stock, release_reservation, issue_stock and        *)
(* quarantine_stock up to the flush: a request refused here changes nothing. *)
BeginBooking(k, type, q) ==
    /\ request[k] = NoRequest
    /\ ledger[type] + q <= OpeningLedger(opening)[type] + MaxTotal
    /\ Accepts(type, lot, q)
    /\ request' = [request EXCEPT ![k] =
          [type |-> type, quantity |-> q, read |-> lot, write |-> Booked(type, lot, q)]]
    /\ UNCHANGED <<lot, ledger, opening, drawn, stale>>

BeginTransition(k, target) ==
    /\ request[k] = NoRequest
    /\ target \in ALLOWED_INVENTORY_TRANSITIONS[lot.status]
    /\ request' = [request EXCEPT ![k] =
          [type |-> "TRANSITION", read |-> lot, write |-> [lot EXCEPT !.status = target]]]
    /\ UNCHANGED <<lot, ledger, opening, drawn, stale>>

(* The flush and the commit: the row, the ledger entry, or neither. *)
CommitBooking(k) ==
    LET r == request[k] IN
        /\ r.type \in InventoryTransactionType
        /\ Fits(Update(r.read, r.write))
        /\ lot' = Update(r.read, r.write)
        /\ ledger' = [ledger EXCEPT ![r.type] = ledger[r.type] + r.quantity]
        /\ drawn' = IF r.type = "ISSUE" THEN drawn + Drawn(r.read, r.quantity) ELSE drawn
        /\ stale' = (stale \/ lot # r.read)
        /\ request' = [request EXCEPT ![k] = NoRequest]
        /\ UNCHANGED opening

CommitTransition(k) ==
    LET r == request[k] IN
        /\ r.type = "TRANSITION"
        /\ lot' = Update(r.read, r.write)
        /\ stale' = (stale \/ lot # r.read)
        /\ request' = [request EXCEPT ![k] = NoRequest]
        /\ UNCHANGED <<ledger, opening, drawn>>

(* A violated CHECK constraint, a lost connection, a dying worker: rollback. *)
Abort(k) ==
    /\ request[k] # NoRequest
    /\ request' = [request EXCEPT ![k] = NoRequest]
    /\ UNCHANGED <<lot, ledger, opening, drawn, stale>>

Next ==
    \E k \in Session :
        \/ \E type \in InventoryTransactionType, q \in Amount : BeginBooking(k, type, q)
        \/ \E target \in Target : BeginTransition(k, target)
        \/ CommitBooking(k) \/ CommitTransition(k) \/ Abort(k)

Spec == Init /\ [][Next]_vars

-----------------------------------------------------------------------------
(* Unless a request has committed on an outdated read, the row is what the   *)
(* ledger adds up to: every movement is booked once, in the row and in the   *)
(* ledger, whatever else is served, refused or rolled back meanwhile.        *)
LedgerBalanced ==
    ~stale =>
        /\ lot.onHand = ledger["RECEIPT"] - ledger["ISSUE"]
        /\ lot.reserved + ledger["RELEASE"] + drawn = opening.reserved + ledger["RESERVATION"]
        /\ lot.quarantined = opening.quarantined + ledger["QUARANTINE"]

(* However requests overwrite each other, no stock appears that was not      *)
(* received and nothing is reserved or quarantined that was not booked so.   *)
NoPhantomStock ==
    /\ lot.onHand <= ledger["RECEIPT"]
    /\ lot.reserved <= opening.reserved + ledger["RESERVATION"]
    /\ lot.quarantined >= opening.quarantined
    /\ lot.quarantined <= opening.quarantined + ledger["QUARANTINE"]

(* The service's own checks are strong enough: a request whose read is still *)
(* current never fails at the database's CHECK constraints.                  *)
NoNeedlessRefusal ==
    \A k \in Session :
        request[k] # NoRequest /\ request[k].read = lot => Fits(request[k].write)

-----------------------------------------------------------------------------
(* What the repository says and the code does not do. *)

(* What has been reserved and neither released nor issued. *)
Outstanding == opening.reserved + ledger["RESERVATION"] - (ledger["RELEASE"] + drawn)

(* reserve_stock "ensures reservation cannot exceed uncommitted available    *)
(* stock".                                                                   *)
ReservationsCovered ==
    Outstanding <= lot.onHand - (lot.quarantined + lot.damaged)
=============================================================================

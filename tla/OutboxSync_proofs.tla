------------------------- MODULE OutboxSync_proofs --------------------------
(* Proofs about OutboxSync, for any finite set of operations, any number of *)
(* replays in flight and any limit on the length of a batch.                *)
EXTENDS OutboxSync, WellFoundedInduction, TLAPS

Gathering == {"idle", "start", "gather"}

Settling == {"acknowledge", "patch", "settle"}

(* A replay has nothing before it has gathered; from then on it has an       *)
(* operation at hand, one of those it picked up, until it ends.              *)
Shaped(r) ==
    /\ r.pc \in Gathering => r.ops = {} /\ r.rest = {}
    /\ r.pc \notin Gathering => r.rest # {} /\ r.rest \subseteq r.ops

(* Operation o is on the server, given the server's records. *)
Known(o, records) == records[o] # "NONE"

(* What the server has taken of a batch that is waited for it has recorded   *)
(* or refused; what the client believes to be registered is recorded, and it *)
(* acknowledges and settles nothing else.                                    *)
Informed(r, b, records) ==
    /\ r.pc = "wait" /\ b.busy => \A o \in r.rest \ (b.todo \cup b.refused) : Known(o, records)
    /\ r.pc \in Settling \cup {"get", "fail"} => \A o \in r.rest \ r.refused : Known(o, records)
    /\ r.pc \in Settling => Oldest(r.rest) \notin r.refused

(* A raised flag has a replay behind it that will lower it, or it is jammed. *)
FlagHeld == syncing => jammed \/ \E k \in Slot : replay[k].pc \notin Gathering

(* The inductive invariant. *)
OutboxInv ==
    /\ TypeOK
    /\ NoOperationLost
    /\ FlagHeld
    /\ \A k \in Slot : Shaped(replay[k])
    /\ \A k \in Slot : batch[k].absent => batch[k].todo # {}
    /\ \A k \in Slot : Informed(replay[k], batch[k], record)

(* No record of an operation is taken back. *)
Grows == \A o \in Op : Known(o, record) => Known(o, record')

(* What a step does not do to the operations in SYNCING: leave one that the *)
(* replay in k held, or let go of one that stays in SYNCING.                *)
Settles(k, r) ==
    \A o \in Op : outbox'[o] = "SYNCING" /\ o \notin HeldBy(r) =>
        outbox[o] = "SYNCING" /\ o \notin HeldBy(replay[k])

(* The flag is up after the step with the replay in k as its holder, or it   *)
(* was up before without it.                                                 *)
KeepsFlag(k, r) ==
    syncing' => \/ jammed' \/ r.pc \notin Gathering
                \/ syncing /\ (jammed => jammed') /\ replay[k].pc \in Gathering

StoreTyped == outbox \in [Op -> LocalSyncStatus] /\ lastError \in [Op -> BOOLEAN]
              /\ abandoned \subseteq Op

FlagTyped == syncing \in BOOLEAN /\ jammed \in BOOLEAN

NoneStranded == \A o \in Op : Stranded(o)' => Stranded(o)

-----------------------------------------------------------------------------
(* The order of the naturals is well founded. *)
LEMMA NaturalOrder ==
    \E R : IsWellFoundedOn(R, Nat) /\ \A x, y \in Nat : y < x => <<y, x>> \in R
<1> WITNESS OpToRel(<, Nat)
<1>1. \A x, y \in Nat : y < x => <<y, x>> \in OpToRel(<, Nat)
  BY DEF OpToRel
<1> QED BY <1>1, NatLessThanWellFounded

(* A loop with operations left to visit has one at hand. *)
LEMMA OldestIsThere ==
    ASSUME NEW S \in SUBSET Op, S # {}
    PROVE  Oldest(S) \in S
<1>1. S \subseteq Nat
  BY OpAssumption
<1>2. PICK R : IsWellFoundedOn(R, Nat) /\ \A x, y \in Nat : y < x => <<y, x>> \in R
  BY NaturalOrder
<1>3. PICK x \in S : \A y \in S : ~(<<y, x>> \in R)
  BY <1>1, <1>2, WFMin
<1>4. \A y \in S : x <= y
  <2> SUFFICES ASSUME NEW y \in S, ~(x <= y) PROVE FALSE
    OBVIOUS
  <2>1. x \in Nat /\ y \in Nat /\ y < x
    BY <1>1
  <2> QED BY <2>1, <1>2, <1>3
<1> QED BY <1>4 DEF Oldest

(* The operation at hand of a replay that has gathered. *)
LEMMA AtHand ==
    ASSUME OutboxInv, NEW k \in Slot, replay[k].pc \notin Gathering
    PROVE  Current(k) \in replay[k].rest /\ Current(k) \in Op
<1>1. replay[k].rest \in SUBSET Op /\ replay[k].rest # {}
  BY DEF OutboxInv, TypeOK, Replay, Shaped
<1> QED BY <1>1, OldestIsThere DEF Current

LEMMA TransitionsLead ==
    /\ \A s \in OfflineOperationStatus :
          /\ OFFLINE_OP_TRANSITIONS[s] \subseteq OfflineOperationStatus \ {"NONE"}
    /\ OFFLINE_OP_TRANSITIONS["NONE"] = {}
BY DEF OFFLINE_OP_TRANSITIONS, OfflineOperationStatus

LEMMA IncidentTransitionsLead ==
    \A s \in IncidentStatus : INCIDENT_ALLOWED_TRANSITIONS[s] \subseteq IncidentStatus
BY DEF INCIDENT_ALLOWED_TRANSITIONS, IncidentStatus

LEMMA InitOutbox == Init => OutboxInv
<1> SUFFICES ASSUME Init PROVE OutboxInv
  OBVIOUS
<1>1. /\ Idle \in Replay /\ NoBatch \in Batch
      /\ Idle.pc = "idle" /\ Idle.ops = {} /\ Idle.rest = {}
      /\ NoBatch.absent = FALSE
  BY DEF Idle, At, Replay, NoBatch, Batch, Pc, OfflineOperationStatus
<1>2. TypeOK
  BY <1>1 DEF Init, TypeOK, LocalSyncStatus, OfflineOperationStatus, IncidentStatus
<1>3. NoOperationLost /\ FlagHeld
  BY DEF Init, NoOperationLost, FlagHeld
<1>4. \A k \in Slot : /\ Shaped(replay[k])
                      /\ batch[k].absent = FALSE
                      /\ Informed(replay[k], batch[k], record)
  BY <1>1 DEF Init, Shaped, Informed, Gathering, Settling
<1> QED BY <1>2, <1>3, <1>4 DEF OutboxInv

(* A step of the replay or the batch in one slot: what has to be shown. *)
LEMMA SlotStep ==
    ASSUME OutboxInv, TypeOK', NoOperationLost', Grows, NEW k \in Slot,
           \A j \in Slot \ {k} : replay'[j] = replay[j] /\ batch'[j] = batch[j],
           Shaped(replay'[k]), batch'[k].absent => batch'[k].todo # {},
           Informed(replay'[k], batch'[k], record'), KeepsFlag(k, replay'[k])
    PROVE  OutboxInv' /\ (Settles(k, replay'[k]) => NoneStranded)
<1>1. \A j \in Slot : Shaped(replay'[j])
  BY DEF OutboxInv
<1>2. \A j \in Slot : batch'[j].absent => batch'[j].todo # {}
  BY DEF OutboxInv
<1>3. ASSUME NEW j \in Slot \ {k} PROVE Informed(replay'[j], batch'[j], record')
  <2>1. Informed(replay[j], batch[j], record) /\ replay[j].rest \subseteq Op
    BY DEF OutboxInv, TypeOK, Replay
  <2> QED BY <2>1 DEF Informed, Grows
<1>4. FlagHeld'
  BY DEF OutboxInv, FlagHeld, KeepsFlag
<1>5. OutboxInv'
  BY <1>1, <1>2, <1>3, <1>4 DEF OutboxInv
<1>6. ASSUME Settles(k, replay'[k]) PROVE NoneStranded
  <2> SUFFICES ASSUME NEW o \in Op, Stranded(o)' PROVE Stranded(o)
    BY DEF NoneStranded
  <2>1. outbox'[o] = "SYNCING" /\ \A j \in Slot : o \notin HeldBy(replay'[j])
    BY DEF Stranded, Held
  <2> QED BY <1>6, <2>1 DEF Stranded, Held, Settles
<1> QED BY <1>5, <1>6

(* The same for a step of a replay that leaves the server alone. *)
LEMMA ReplayMoves ==
    ASSUME OutboxInv, NEW k \in Slot, NEW r \in Replay,
           replay' = [replay EXCEPT ![k] = r], UNCHANGED server,
           StoreTyped',
           online' \in BOOLEAN, blackout' \in BOOLEAN, FlagTyped',
           NoOperationLost', Shaped(r), Informed(r, batch[k], record), KeepsFlag(k, r)
    PROVE  OutboxInv' /\ (Settles(k, r) => NoneStranded)
<1>1. /\ replay' \in [Slot -> Replay] /\ replay'[k] = r
      /\ \A j \in Slot \ {k} : replay'[j] = replay[j]
      /\ UNCHANGED <<batch, record, incident>>
  BY DEF OutboxInv, TypeOK, server
<1>2. TypeOK'
  BY <1>1 DEF OutboxInv, TypeOK, StoreTyped, FlagTyped
<1>3. Grows
  BY <1>1 DEF Grows
<1>4. batch'[k].absent => batch'[k].todo # {}
  BY <1>1 DEF OutboxInv
<1>5. Informed(replay'[k], batch'[k], record')
  BY <1>1
<1>6. Shaped(replay'[k]) /\ replay'[k] = r /\ KeepsFlag(k, replay'[k])
  BY <1>1
<1> QED BY <1>1, <1>2, <1>3, <1>4, <1>5, <1>6, SlotStep

(* updateOperationStatus changes one record, and reconciles only what the *)
(* server knows.                                                          *)
LEMMA Updated ==
    ASSUME OutboxInv, UNCHANGED server, NEW o \in Op, NEW status \in LocalSyncStatus,
           NEW error \in BOOLEAN, UpdateStatus(o, status, error),
           status \in {"APPLIED", "GONE"} => Known(o, record)
    PROVE  /\ StoreTyped'
           /\ NoOperationLost'
           /\ \A p \in Op \ {o} : outbox'[p] = outbox[p]
           /\ outbox'[o] \in {status, "GONE"}
<1>1. /\ outbox \in [Op -> LocalSyncStatus] /\ lastError \in [Op -> BOOLEAN]
      /\ abandoned \subseteq Op /\ UNCHANGED record
  BY DEF OutboxInv, TypeOK, server
<1>2. CASE outbox[o] = "GONE"
  BY <1>1, <1>2 DEF UpdateStatus, store, StoreTyped, OutboxInv, NoOperationLost
<1>3. CASE outbox[o] # "GONE"
  <2>1. /\ outbox' = [outbox EXCEPT ![o] = status]
        /\ lastError' = [lastError EXCEPT ![o] = error]
        /\ abandoned' = abandoned \ {o}
    BY <1>3 DEF UpdateStatus
  <2>2. NoOperationLost'
    BY <1>1, <2>1 DEF OutboxInv, NoOperationLost, Known
  <2> QED BY <1>1, <2>1, <2>2 DEF StoreTyped
<1> QED BY <1>2, <1>3

LEMMA StartKeeps ==
    ASSUME OutboxInv, NEW k \in Slot, NEW effective, StartReplay(k, effective),
           replay[k].pc \in Gathering, UNCHANGED <<store, flag, server>>,
           online' \in BOOLEAN, blackout' \in BOOLEAN
    PROVE  OutboxInv' /\ NoneStranded
<1>1. PICK pc \in {"idle", "gather"} : replay' = [replay EXCEPT ![k] = At(pc, {}, {})]
  BY DEF StartReplay, Idle
<1> DEFINE r == At(pc, {}, {})
<1>2. r \in Replay /\ Shaped(r) /\ Informed(r, batch[k], record)
  BY DEF At, Replay, Pc, OfflineOperationStatus, Shaped, Informed, Gathering, Settling
<1>3. Settles(k, r) /\ KeepsFlag(k, r)
  <2>1. HeldBy(replay[k]) = {} /\ UNCHANGED <<outbox, syncing, jammed>>
    BY DEF HeldBy, OutboxInv, Shaped, Gathering, store, flag
  <2> QED BY <2>1 DEF Settles, KeepsFlag
<1>4. /\ StoreTyped'
      /\ FlagTyped' /\ NoOperationLost'
  BY DEF OutboxInv, TypeOK, StoreTyped, FlagTyped, NoOperationLost, store, flag, server
<1>5. UNCHANGED server /\ replay' = [replay EXCEPT ![k] = r]
  BY <1>1
<1> HIDE DEF r
<1> QED BY <1>2, <1>3, <1>4, <1>5, ReplayMoves

LEMMA RetryKeeps ==
    ASSUME OutboxInv, NEW k \in Slot, NEW o \in Op, RetryOperation(k, o)
    PROVE  OutboxInv' /\ NoneStranded
<1> DEFINE r == [replay[k] EXCEPT !.pc = "start"]
<1>1. /\ replay[k] \in Replay /\ replay[k].pc = "idle"
      /\ UNCHANGED server /\ UpdateStatus(o, "LOCAL_QUEUED", FALSE)
      /\ UNCHANGED <<online, blackout, flag>>
      /\ replay' = [replay EXCEPT ![k] = r]
  BY DEF RetryOperation, Free, OutboxInv, TypeOK
<1>2. replay[k].ops = {} /\ replay[k].rest = {}
  BY <1>1 DEF OutboxInv, Shaped, Gathering
<1>3. r \in Replay /\ r.pc = "start" /\ r.ops = {} /\ r.rest = {}
  BY <1>1, <1>2 DEF Replay, Pc
<1> HIDE DEF r
<1>4. Shaped(r) /\ Informed(r, batch[k], record)
  BY <1>3 DEF Shaped, Informed, Gathering, Settling
<1>5. /\ StoreTyped'
      /\ NoOperationLost'
      /\ \A p \in Op \ {o} : outbox'[p] = outbox[p]
      /\ outbox'[o] \in {"LOCAL_QUEUED", "GONE"}
  BY <1>1, Updated DEF LocalSyncStatus
<1>6. Settles(k, r) /\ KeepsFlag(k, r)
  <2>1. HeldBy(replay[k]) = {} /\ UNCHANGED <<syncing, jammed>>
    BY <1>1, <1>2 DEF HeldBy, flag
  <2> QED BY <1>1, <1>5, <2>1 DEF Settles, KeepsFlag, Gathering
<1>7. online' \in BOOLEAN /\ blackout' \in BOOLEAN /\ FlagTyped'
  BY <1>1 DEF OutboxInv, TypeOK, FlagTyped, flag
<1> QED BY <1>1, <1>3, <1>4, <1>5, <1>6, <1>7, ReplayMoves

LEMMA GatherKeeps ==
    ASSUME OutboxInv, NEW k \in Slot, Gather(k)
    PROVE  OutboxInv' /\ NoneStranded
<1>1. /\ replay[k].pc = "gather" /\ replay[k].ops = {} /\ replay[k].rest = {}
      /\ UNCHANGED <<jammed, store, online, blackout>> /\ UNCHANGED server
  BY DEF Gather, OutboxInv, Shaped, Gathering
<1>2. /\ StoreTyped'
      /\ online' \in BOOLEAN /\ blackout' \in BOOLEAN /\ NoOperationLost'
  BY <1>1 DEF OutboxInv, TypeOK, StoreTyped, NoOperationLost, store, server
<1>3. QueuedOperations \in SUBSET Op
  BY DEF QueuedOperations
<1>4. \A r : Settles(k, r)
  BY <1>1 DEF Settles, HeldBy, store
<1>5. CASE QueuedOperations = {}
  <2>1. replay' = [replay EXCEPT ![k] = Idle] /\ FlagTyped' /\ KeepsFlag(k, Idle)
    BY <1>1, <1>5 DEF Gather, OutboxInv, TypeOK, FlagTyped, KeepsFlag, Gathering
  <2>2. Idle \in Replay /\ Shaped(Idle) /\ Informed(Idle, batch[k], record)
    BY DEF Idle, At, Replay, Pc, OfflineOperationStatus, Shaped, Informed, Gathering, Settling
  <2> QED BY <1>1, <1>2, <1>4, <2>1, <2>2, ReplayMoves
<1>6. CASE QueuedOperations # {}
  <2> DEFINE r == At("mark", QueuedOperations, QueuedOperations)
  <2>1. replay' = [replay EXCEPT ![k] = r] /\ FlagTyped' /\ KeepsFlag(k, r)
    BY <1>1, <1>6 DEF Gather, OutboxInv, TypeOK, FlagTyped, KeepsFlag, Gathering, At
  <2>2. r \in Replay /\ Shaped(r) /\ Informed(r, batch[k], record)
    BY <1>3, <1>6
       DEF At, Replay, Pc, OfflineOperationStatus, Shaped, Informed, Gathering, Settling
  <2> HIDE DEF r
  <2> QED BY <1>1, <1>2, <1>4, <2>1, <2>2, ReplayMoves
<1> QED BY <1>5, <1>6

LEMMA MarkSyncingKeeps ==
    ASSUME OutboxInv, NEW k \in Slot, MarkSyncing(k)
    PROVE  OutboxInv' /\ NoneStranded
<1> DEFINE o    == Current(k)
           left == replay[k].rest \ {o}
           r    == IF left = {} THEN At("post", replay[k].ops, replay[k].ops)
                   ELSE [replay[k] EXCEPT !.rest = left]
<1>1. /\ replay[k].pc = "mark" /\ replay[k] \in Replay
      /\ UNCHANGED server /\ UpdateStatus(o, "SYNCING", lastError[o])
      /\ UNCHANGED <<online, blackout, flag>>
      /\ replay' = [replay EXCEPT ![k] = r]
  BY DEF MarkSyncing, OutboxInv, TypeOK
<1>2. o \in replay[k].rest /\ o \in Op
  BY <1>1, AtHand DEF Gathering
<1>3. replay[k].rest \subseteq replay[k].ops /\ replay[k].ops \in SUBSET Op
  BY <1>1 DEF OutboxInv, Shaped, Replay
<1>4. lastError[o] \in BOOLEAN
  BY <1>2 DEF OutboxInv, TypeOK
<1> HIDE DEF o
<1>5. r \in Replay /\ HeldBy(r) = replay[k].ops /\ r.pc \in {"mark", "post"}
  BY <1>1, <1>3 DEF At, Replay, Pc, OfflineOperationStatus, HeldBy
<1>6. Shaped(r) /\ Informed(r, batch[k], record)
  <2>1. CASE left = {}
    BY <1>1, <1>2, <1>3, <2>1 DEF At, Shaped, Informed, Gathering, Settling
  <2>2. CASE left # {}
    BY <1>1, <1>2, <1>3, <2>2 DEF Replay, Shaped, Informed, Gathering, Settling
  <2> QED BY <2>1, <2>2
<1> HIDE DEF r
<1>7. /\ StoreTyped'
      /\ NoOperationLost'
      /\ \A p \in Op \ {o} : outbox'[p] = outbox[p]
  BY <1>1, <1>2, <1>4, Updated DEF LocalSyncStatus
<1>8. Settles(k, r) /\ KeepsFlag(k, r)
  <2>1. HeldBy(replay[k]) = replay[k].ops
    BY <1>1 DEF HeldBy
  <2> QED BY <1>2, <1>3, <1>5, <1>7, <2>1 DEF Settles, KeepsFlag, Gathering
<1>9. online' \in BOOLEAN /\ blackout' \in BOOLEAN /\ FlagTyped'
  BY <1>1 DEF OutboxInv, TypeOK, FlagTyped, flag
<1> QED BY <1>1, <1>5, <1>6, <1>7, <1>8, <1>9, ReplayMoves

(* The loops that settle operations: whatever they write, it is not SYNCING, *)
(* and the operation leaves the replay with it.                              *)
LEMMA LoopKeeps ==
    ASSUME OutboxInv, NEW k \in Slot, NEW pc \in {"error", "get"},
           pc = "error" => replay[k].pc = "error",
           pc = "get" => replay[k].pc \in Settling \cup {"get", "fail"},
           NEW status \in {"APPLIED", "FAILED"}, NEW error \in BOOLEAN,
           status = "APPLIED" => Known(Current(k), record),
           UpdateStatus(Current(k), status, error), NextOperation(k, pc),
           UNCHANGED <<online, blackout, server>>
    PROVE  OutboxInv' /\ NoneStranded
<1> DEFINE o    == Current(k)
           left == replay[k].rest \ {o}
           r    == IF left = {} THEN Idle ELSE Visit(replay[k], pc, left, "NONE")
<1>1. /\ replay[k] \in Replay /\ replay[k].pc \notin Gathering \cup {"mark"}
      /\ UNCHANGED server
  BY DEF OutboxInv, TypeOK, Gathering, Settling
<1>2. replay' = [replay EXCEPT ![k] = r] /\ FlagTyped' /\ KeepsFlag(k, r)
  BY DEF NextOperation, EndReplay, OutboxInv, TypeOK, FlagTyped, flag, KeepsFlag, Visit, Gathering
<1>3. o \in replay[k].rest /\ o \in Op
  BY <1>1, AtHand
<1>4. replay[k].rest \subseteq replay[k].ops /\ replay[k].ops \in SUBSET Op
  BY <1>1 DEF OutboxInv, Shaped, Replay
<1>5. \A p \in replay[k].rest \ replay[k].refused : pc = "get" => Known(p, record)
  BY DEF OutboxInv, Informed
<1>6. UpdateStatus(o, status, error) /\ (status = "APPLIED" => Known(o, record))
  OBVIOUS
<1> HIDE DEF o
<1>7. r \in Replay /\ Shaped(r) /\ HeldBy(r) = left
  BY <1>1, <1>4
     DEF Idle, At, Visit, Replay, Pc, OfflineOperationStatus, Shaped, Gathering, HeldBy
<1>8. Informed(r, batch[k], record)
  <2>1. CASE left = {}
    BY <2>1 DEF Idle, At, Informed, Settling
  <2>2. CASE left # {}
    BY <1>5, <2>2 DEF Visit, Informed, Settling
  <2> QED BY <2>1, <2>2
<1> HIDE DEF r
<1>9. /\ StoreTyped'
      /\ NoOperationLost'
      /\ \A p \in Op \ {o} : outbox'[p] = outbox[p]
      /\ outbox'[o] \in {status, "GONE"}
  BY <1>1, <1>3, <1>6, Updated DEF LocalSyncStatus
<1>10. Settles(k, r)
  <2>1. HeldBy(replay[k]) = replay[k].rest
    BY <1>1 DEF HeldBy
  <2> QED BY <1>7, <1>9, <2>1 DEF Settles
<1>11. online' \in BOOLEAN /\ blackout' \in BOOLEAN
  BY DEF OutboxInv, TypeOK
<1> QED BY <1>1, <1>2, <1>7, <1>8, <1>9, <1>10, <1>11, ReplayMoves

LEMMA MarkFailedKeeps ==
    ASSUME OutboxInv, NEW k \in Slot, MarkFailed(k)
    PROVE  OutboxInv' /\ NoneStranded
BY LoopKeeps DEF MarkFailed

LEMMA FailOperationKeeps ==
    ASSUME OutboxInv, NEW k \in Slot, FailOperation(k)
    PROVE  OutboxInv' /\ NoneStranded
BY LoopKeeps DEF FailOperation

LEMMA SettleOperationKeeps ==
    ASSUME OutboxInv, NEW k \in Slot, SettleOperation(k)
    PROVE  OutboxInv' /\ NoneStranded
<1>1. replay[k].pc = "settle"
  BY DEF SettleOperation
<1>2. Current(k) \in replay[k].rest
  BY <1>1, AtHand DEF Gathering
<1>3. Known(Current(k), record)
  BY <1>1, <1>2 DEF OutboxInv, Informed, Settling, Current
<1> QED BY <1>1, <1>3, LoopKeeps DEF SettleOperation, Settling

(* Moves from one await to the next that change the place only. *)
LEMMA PlaceKeeps ==
    ASSUME OutboxInv, NEW k \in Slot, NEW r \in Replay,
           replay' = [replay EXCEPT ![k] = r], UNCHANGED server,
           UNCHANGED <<store, online, blackout, flag>>,
           replay[k].pc \notin Gathering \cup {"mark"},
           r.pc \notin Gathering \cup {"mark"},
           r.ops = replay[k].ops, r.rest = replay[k].rest,
           Informed(r, batch[k], record)
    PROVE  OutboxInv' /\ NoneStranded
<1>1. /\ StoreTyped'
      /\ online' \in BOOLEAN /\ blackout' \in BOOLEAN /\ FlagTyped'
      /\ NoOperationLost'
  BY DEF OutboxInv, TypeOK, StoreTyped, FlagTyped, NoOperationLost, store, flag, server
<1>2. Shaped(r)
  BY DEF OutboxInv, Shaped, Gathering
<1>3. Settles(k, r) /\ KeepsFlag(k, r)
  BY DEF Settles, HeldBy, KeepsFlag, store
<1> QED BY <1>1, <1>2, <1>3, ReplayMoves

LEMMA LoseBatchKeeps ==
    ASSUME OutboxInv, NEW k \in Slot, LoseBatch(k)
    PROVE  OutboxInv' /\ NoneStranded
<1> DEFINE r == [replay[k] EXCEPT !.pc = "error"]
<1>1. /\ replay[k].pc \in {"post", "wait"} /\ replay[k] \in Replay
      /\ UNCHANGED <<store, online, blackout, flag>> /\ UNCHANGED server
      /\ replay' = [replay EXCEPT ![k] = r]
  BY DEF LoseBatch, OutboxInv, TypeOK
<1>2. r \in Replay /\ r.pc = "error" /\ r.ops = replay[k].ops /\ r.rest = replay[k].rest
  BY <1>1 DEF Replay, Pc
<1> HIDE DEF r
<1>3. Informed(r, batch[k], record)
  BY <1>2 DEF Informed, Settling
<1> QED BY <1>1, <1>2, <1>3, PlaceKeeps DEF Gathering

LEMMA GetRecordKeeps ==
    ASSUME OutboxInv, NEW k \in Slot, GetRecord(k)
    PROVE  OutboxInv' /\ NoneStranded
<1> DEFINE r == Visit(replay[k], "acknowledge", replay[k].rest, record[Current(k)])
<1>1. /\ replay[k].pc = "get" /\ replay[k] \in Replay
      /\ Current(k) \notin replay[k].refused
      /\ UNCHANGED <<store, online, blackout, flag>> /\ UNCHANGED server
      /\ replay' = [replay EXCEPT ![k] = r]
  BY DEF GetRecord, Registered, OutboxInv, TypeOK
<1>2. record[Current(k)] \in OfflineOperationStatus
  BY <1>1, AtHand DEF OutboxInv, TypeOK, Gathering
<1>3. /\ r \in Replay /\ r.pc = "acknowledge"
      /\ r.ops = replay[k].ops /\ r.rest = replay[k].rest /\ r.refused = replay[k].refused
  BY <1>1, <1>2 DEF Visit, Replay, Pc
<1> HIDE DEF r
<1>4. Informed(r, batch[k], record)
  BY <1>1, <1>3 DEF OutboxInv, Informed, Settling, Current
<1> QED BY <1>1, <1>3, <1>4, PlaceKeeps DEF Gathering

(* What a rejected request of the store leads to. *)

LEMMA RejectGatherKeeps ==
    ASSUME OutboxInv, NEW k \in Slot, RejectGather(k)
    PROVE  OutboxInv' /\ NoneStranded
<1>1. /\ StartReplay(k, FALSE) /\ replay[k].pc \in Gathering
      /\ UNCHANGED <<store, flag, server>>
      /\ online' \in BOOLEAN /\ blackout' \in BOOLEAN
  BY DEF RejectGather, StartReplay, Gathering, OutboxInv, TypeOK
<1> QED BY <1>1, StartKeeps

LEMMA RejectSettleKeeps ==
    ASSUME OutboxInv, NEW k \in Slot, RejectSettle(k)
    PROVE  OutboxInv' /\ NoneStranded
<1> DEFINE r == [replay[k] EXCEPT !.pc = "fail"]
<1>1. /\ replay[k].pc = "settle" /\ replay[k] \in Replay
      /\ UNCHANGED <<store, online, blackout, flag>> /\ UNCHANGED server
      /\ replay' = [replay EXCEPT ![k] = r]
  BY DEF RejectSettle, OutboxInv, TypeOK
<1>2. /\ r \in Replay /\ r.pc = "fail"
      /\ r.ops = replay[k].ops /\ r.rest = replay[k].rest /\ r.refused = replay[k].refused
  BY <1>1 DEF Replay, Pc
<1> HIDE DEF r
<1>3. Informed(r, batch[k], record)
  BY <1>1, <1>2 DEF OutboxInv, Informed, Settling
<1> QED BY <1>1, <1>2, <1>3, PlaceKeeps DEF Gathering

LEMMA RejectFailKeeps ==
    ASSUME OutboxInv, NEW k \in Slot, RejectFail(k)
    PROVE  OutboxInv' /\ NoneStranded
<1> DEFINE r == At("error", replay[k].ops, replay[k].ops)
<1>1. /\ replay[k].pc \in {"get", "fail"} /\ replay[k] \in Replay
      /\ replay[k].rest # {} /\ replay[k].rest \subseteq replay[k].ops
      /\ UNCHANGED <<store, online, blackout, flag>> /\ UNCHANGED server
      /\ replay' = [replay EXCEPT ![k] = r]
  BY DEF RejectFail, OutboxInv, TypeOK, Shaped, Gathering
<1>2. /\ r \in Replay /\ r.pc = "error" /\ r.ops = replay[k].ops /\ r.rest = replay[k].ops
  BY <1>1 DEF At, Replay, Pc, OfflineOperationStatus
<1> HIDE DEF r
<1>3. Shaped(r) /\ Informed(r, batch[k], record)
  BY <1>1, <1>2 DEF Shaped, Informed, Gathering, Settling
<1>4. Settles(k, r) /\ KeepsFlag(k, r)
  BY <1>1, <1>2 DEF Settles, HeldBy, KeepsFlag, Gathering, store
<1>5. /\ StoreTyped' /\ FlagTyped' /\ online' \in BOOLEAN /\ blackout' \in BOOLEAN
      /\ NoOperationLost'
  BY <1>1 DEF OutboxInv, TypeOK, StoreTyped, FlagTyped, NoOperationLost, store, flag, server
<1> QED BY <1>1, <1>2, <1>3, <1>4, <1>5, ReplayMoves

(* A replay that gives up loses nothing, whatever it strands. *)
LEMMA GiveUpKeeps ==
    ASSUME OutboxInv, NEW k \in Slot, NEW S \in SUBSET Op, Abandon(S), FlagTyped',
           syncing' => jammed', replay' = [replay EXCEPT ![k] = Idle],
           UNCHANGED <<online, blackout, server>>
    PROVE  OutboxInv'
<1>1. UNCHANGED server /\ UNCHANGED <<outbox, lastError, record, online, blackout>>
  BY DEF Abandon, server
<1>2. StoreTyped' /\ NoOperationLost'
  BY <1>1 DEF Abandon, OutboxInv, TypeOK, StoreTyped, NoOperationLost
<1>3. Idle \in Replay /\ Shaped(Idle) /\ Informed(Idle, batch[k], record)
  BY DEF Idle, At, Replay, Pc, OfflineOperationStatus, Shaped, Informed, Gathering, Settling
<1>4. KeepsFlag(k, Idle) /\ online' \in BOOLEAN /\ blackout' \in BOOLEAN
  BY <1>1 DEF KeepsFlag, OutboxInv, TypeOK
<1> QED BY <1>1, <1>2, <1>3, <1>4, ReplayMoves

LEMMA RejectMarkKeeps ==
    ASSUME OutboxInv, NEW k \in Slot, RejectMark(k)
    PROVE  OutboxInv'
<1>1. replay[k].ops \ replay[k].rest \in SUBSET Op
  BY DEF OutboxInv, TypeOK, Replay
<1>2. FlagTyped' /\ (syncing' => jammed')
  BY DEF RejectMark, FlagTyped, OutboxInv, TypeOK
<1> QED BY <1>1, <1>2, GiveUpKeeps DEF RejectMark

LEMMA RejectErrorKeeps ==
    ASSUME OutboxInv, NEW k \in Slot, RejectError(k)
    PROVE  OutboxInv'
<1>1. replay[k].rest \in SUBSET Op
  BY DEF OutboxInv, TypeOK, Replay
<1>2. FlagTyped' /\ (syncing' => jammed')
  BY DEF RejectError, EndReplay, FlagTyped
<1> QED BY <1>1, <1>2, GiveUpKeeps DEF RejectError, EndReplay

(* Posting to the server on the way: records may be added, none is taken *)
(* back, and the batch is left alone.                                    *)
LEMMA ServedKeeps ==
    ASSUME OutboxInv, NEW k \in Slot, NEW pc \in {"patch", "settle"},
           replay[k].pc \in {"acknowledge", "patch"},
           replay' = [replay EXCEPT ![k].pc = pc],
           UNCHANGED <<store, online, blackout, flag, batch>>,
           incident' \in [Incident -> IncidentStatus],
           record' \in [Op -> OfflineOperationStatus], Grows
    PROVE  OutboxInv' /\ NoneStranded
<1> DEFINE r == [replay[k] EXCEPT !.pc = pc]
<1>1. /\ replay[k] \in Replay /\ replay' = [replay EXCEPT ![k] = r]
      /\ UNCHANGED <<outbox, batch>>
  BY DEF OutboxInv, TypeOK, store
<1>2. /\ r \in Replay /\ r.pc = pc /\ r.ops = replay[k].ops /\ r.rest = replay[k].rest
      /\ r.refused = replay[k].refused
  BY <1>1 DEF Replay, Pc
<1> HIDE DEF r
<1>3. /\ replay' \in [Slot -> Replay] /\ replay'[k] = r
      /\ \A j \in Slot \ {k} : replay'[j] = replay[j] /\ batch'[j] = batch[j]
  BY <1>1, <1>2 DEF OutboxInv, TypeOK
<1>4. TypeOK'
  BY <1>3 DEF OutboxInv, TypeOK, store, flag
<1>5. NoOperationLost'
  BY <1>1 DEF OutboxInv, NoOperationLost, Grows, Known
<1>6. Shaped(replay'[k])
  BY <1>2, <1>3 DEF OutboxInv, Shaped, Gathering
<1>7. Informed(replay'[k], batch'[k], record')
  <2>1. /\ \A o \in r.rest \ r.refused : Known(o, record)
        /\ Oldest(r.rest) \notin r.refused
    BY <1>2 DEF OutboxInv, Informed, Settling
  <2>2. r.rest \subseteq Op
    BY <1>2 DEF Replay
  <2> QED BY <1>2, <1>3, <2>1, <2>2 DEF Informed, Grows
<1>8. Settles(k, replay'[k]) /\ KeepsFlag(k, replay'[k])
  BY <1>1, <1>2, <1>3 DEF Settles, HeldBy, KeepsFlag, Gathering
<1>9. batch'[k].absent => batch'[k].todo # {}
  BY <1>1 DEF OutboxInv
<1> QED BY <1>3, <1>4, <1>5, <1>6, <1>7, <1>8, <1>9, SlotStep

LEMMA AcknowledgeKeeps ==
    ASSUME OutboxInv, NEW k \in Slot, Acknowledge(k)
    PROVE  OutboxInv' /\ NoneStranded
<1> DEFINE i  == TargetOf[Current(k)]
           pc == IF replay[k].seen \in {"APPLIED", "REJECTED"} THEN "settle" ELSE "patch"
<1>1. /\ replay[k].pc = "acknowledge"
      /\ replay' = [replay EXCEPT ![k].pc = pc]
      /\ UNCHANGED <<store, online, blackout, flag, batch, record>>
      /\ \/ UNCHANGED incident
         \/ incident' = [incident EXCEPT ![i] = "ACKNOWLEDGED"]
  BY DEF Acknowledge
<1>2. pc \in {"patch", "settle"}
  OBVIOUS
<1> HIDE DEF pc
<1>3. /\ record' \in [Op -> OfflineOperationStatus]
      /\ incident' \in [Incident -> IncidentStatus]
  BY <1>1 DEF OutboxInv, TypeOK, IncidentStatus
<1>4. Grows
  BY <1>1 DEF Grows
<1> QED BY <1>1, <1>2, <1>3, <1>4, ServedKeeps

LEMMA PatchAppliedKeeps ==
    ASSUME OutboxInv, NEW k \in Slot, PatchApplied(k)
    PROVE  OutboxInv' /\ NoneStranded
<1> DEFINE o == Current(k)
<1>1. /\ replay[k].pc = "patch"
      /\ replay' = [replay EXCEPT ![k].pc = "settle"]
      /\ UNCHANGED <<store, online, blackout, flag, batch, incident>>
      /\ \/ UNCHANGED record
         \/ record' = [record EXCEPT ![o] = "APPLIED"]
  BY DEF PatchApplied
<1> HIDE DEF o
<1>2. /\ record' \in [Op -> OfflineOperationStatus]
      /\ incident' \in [Incident -> IncidentStatus]
  BY <1>1 DEF OutboxInv, TypeOK, OfflineOperationStatus
<1>3. Grows
  BY <1>1 DEF Grows, Known, OutboxInv, TypeOK
<1> QED BY <1>1, <1>2, <1>3, ServedKeeps

(* A step of the batch in one slot, whatever it does to the replay there. *)
LEMMA BatchStep ==
    ASSUME OutboxInv, NEW k \in Slot, NEW b \in Batch, NEW r \in Replay,
           batch' = [batch EXCEPT ![k] = b], replay' = [replay EXCEPT ![k] = r],
           UNCHANGED <<store, online, blackout, flag, incident>>,
           record' \in [Op -> OfflineOperationStatus], Grows,
           b.absent => b.todo # {}, Shaped(r), Informed(r, b, record'),
           HeldBy(r) = HeldBy(replay[k]),
           r.pc \notin Gathering \/ r.pc = replay[k].pc
    PROVE  OutboxInv' /\ NoneStranded
<1>1. /\ replay' \in [Slot -> Replay] /\ replay'[k] = r
      /\ batch' \in [Slot -> Batch] /\ batch'[k] = b
      /\ \A j \in Slot \ {k} : replay'[j] = replay[j] /\ batch'[j] = batch[j]
  BY DEF OutboxInv, TypeOK
<1>2. TypeOK'
  BY <1>1 DEF OutboxInv, TypeOK, store, flag
<1>3. NoOperationLost'
  BY DEF OutboxInv, NoOperationLost, Grows, Known, store
<1>4. Settles(k, replay'[k]) /\ KeepsFlag(k, replay'[k])
  BY <1>1 DEF Settles, KeepsFlag, store, flag
<1>5. /\ Shaped(replay'[k]) /\ Informed(replay'[k], batch'[k], record')
      /\ batch'[k].absent => batch'[k].todo # {}
  BY <1>1
<1> QED BY <1>1, <1>2, <1>3, <1>4, <1>5, SlotStep

LEMMA PostBatchKeeps ==
    ASSUME OutboxInv, NEW k \in Slot, PostBatch(k)
    PROVE  OutboxInv' /\ NoneStranded
<1>1. /\ replay[k].pc = "post" /\ replay[k] \in Replay /\ batch[k] \in Batch
      /\ replay[k].rest \subseteq replay[k].ops /\ replay[k].rest # {}
      /\ replay[k].rest \in SUBSET Op
      /\ UNCHANGED <<store, online, blackout, flag, record, incident>>
  BY DEF PostBatch, OutboxInv, TypeOK, Replay, Shaped, Gathering
<1>2. CASE Cardinality(replay[k].rest) > MaxBatch
  <2> DEFINE r == [replay[k] EXCEPT !.pc = "error"]
  <2>1. replay' = [replay EXCEPT ![k] = r] /\ UNCHANGED batch
    BY <1>2 DEF PostBatch
  <2>2. r \in Replay /\ r.pc = "error" /\ r.ops = replay[k].ops /\ r.rest = replay[k].rest
    BY <1>1 DEF Replay, Pc
  <2> HIDE DEF r
  <2>3. Informed(r, batch[k], record)
    BY <2>2 DEF Informed, Settling
  <2>4. UNCHANGED server
    BY <1>1, <2>1 DEF server
  <2> QED BY <1>1, <2>1, <2>2, <2>3, <2>4, PlaceKeeps DEF Gathering
<1>3. CASE ~(Cardinality(replay[k].rest) > MaxBatch)
  <2> DEFINE r == [replay[k] EXCEPT !.pc = "wait"]
             b == [busy |-> TRUE, todo |-> replay[k].rest, absent |-> FALSE,
                   poisoned |-> FALSE, refused |-> {}]
  <2>1. replay' = [replay EXCEPT ![k] = r] /\ batch' = [batch EXCEPT ![k] = b]
    BY <1>3 DEF PostBatch
  <2>2. r \in Replay /\ r.pc = "wait" /\ r.ops = replay[k].ops /\ r.rest = replay[k].rest
    BY <1>1 DEF Replay, Pc
  <2>3. b \in Batch /\ b.todo = replay[k].rest /\ b.absent = FALSE
    BY <1>1 DEF Batch
  <2> HIDE DEF r, b
  <2>4. Shaped(r) /\ Informed(r, b, record')
    BY <1>1, <2>2, <2>3 DEF Shaped, Informed, Gathering, Settling
  <2>5. Grows /\ record' \in [Op -> OfflineOperationStatus]
    BY <1>1 DEF Grows, OutboxInv, TypeOK
  <2>6. HeldBy(r) = HeldBy(replay[k]) /\ r.pc \notin Gathering
    BY <1>1, <2>2 DEF HeldBy, Gathering
  <2> QED BY <1>1, <2>1, <2>2, <2>3, <2>4, <2>5, <2>6, BatchStep
<1> QED BY <1>2, <1>3

LEMMA ReceiveResultsKeeps ==
    ASSUME OutboxInv, NEW k \in Slot, ReceiveResults(k)
    PROVE  OutboxInv' /\ NoneStranded
<1> DEFINE r == [At("get", replay[k].ops, replay[k].rest) EXCEPT !.refused = batch[k].refused]
<1>1. /\ replay[k].pc = "wait" /\ replay[k] \in Replay /\ batch[k] \in Batch
      /\ batch[k].busy /\ batch[k].todo = {}
      /\ replay[k].rest \subseteq replay[k].ops /\ replay[k].rest # {}
      /\ UNCHANGED <<store, online, blackout, flag, record, incident>>
      /\ batch' = [batch EXCEPT ![k] = NoBatch]
      /\ replay' = [replay EXCEPT ![k] = r]
  BY DEF ReceiveResults, OutboxInv, TypeOK, Shaped, Gathering
<1>2. \A o \in replay[k].rest \ batch[k].refused : Known(o, record)
  BY <1>1 DEF OutboxInv, Informed
<1>3. /\ r \in Replay /\ r.pc = "get" /\ r.ops = replay[k].ops /\ r.rest = replay[k].rest
      /\ r.refused = batch[k].refused
  BY <1>1 DEF At, Replay, Batch, Pc, OfflineOperationStatus
<1>4. NoBatch \in Batch /\ NoBatch.absent = FALSE /\ NoBatch.busy = FALSE
  BY DEF NoBatch, Batch
<1> HIDE DEF r
<1>5. Shaped(r) /\ Informed(r, NoBatch, record')
  BY <1>1, <1>2, <1>3 DEF Shaped, Informed, Gathering, Settling
<1>6. Grows /\ record' \in [Op -> OfflineOperationStatus]
  BY <1>1 DEF Grows, OutboxInv, TypeOK
<1>7. HeldBy(r) = HeldBy(replay[k]) /\ r.pc \notin Gathering
  BY <1>1, <1>3 DEF HeldBy, Gathering
<1> QED BY <1>1, <1>3, <1>4, <1>5, <1>6, <1>7, BatchStep

(* A step of the server: the client sees nothing of it. *)
LEMMA ServerStep ==
    ASSUME OutboxInv, NEW k \in Slot, NEW b \in Batch,
           batch' = [batch EXCEPT ![k] = b], UNCHANGED client, UNCHANGED incident,
           record' \in [Op -> OfflineOperationStatus], Grows, b.absent => b.todo # {},
           b.busy => batch[k].busy
              /\ \A o \in (batch[k].todo \cup batch[k].refused) \ (b.todo \cup b.refused) :
                    Known(o, record')
    PROVE  OutboxInv' /\ NoneStranded
<1>1. /\ replay[k] \in Replay /\ replay[k].rest \subseteq Op
      /\ replay' = [replay EXCEPT ![k] = replay[k]]
      /\ UNCHANGED <<store, online, blackout, flag>>
  BY DEF OutboxInv, TypeOK, client, Replay
<1>2. Shaped(replay[k]) /\ Informed(replay[k], batch[k], record)
  BY DEF OutboxInv
<1>3. Informed(replay[k], b, record')
  BY <1>1, <1>2 DEF Informed, Grows
<1> QED BY <1>1, <1>2, <1>3, BatchStep

LEMMA TakeAndRefuse ==
    ASSUME NEW b \in Batch, b.todo # {}
    PROVE  LET o == Oldest(b.todo) IN
           /\ o \in b.todo /\ o \in Op
           /\ Take(b) \in Batch /\ Refuse(b) \in Batch
           /\ Take(b).absent = FALSE /\ Refuse(b).absent = FALSE
           /\ (b.todo \cup b.refused) \ (Take(b).todo \cup Take(b).refused) \subseteq {o}
           /\ b.todo \cup b.refused \subseteq Refuse(b).todo \cup Refuse(b).refused
<1>1. b.todo \in SUBSET Op
  BY DEF Batch
<1>2. Oldest(b.todo) \in b.todo
  BY <1>1, OldestIsThere
<1> QED BY <1>1, <1>2 DEF Take, Refuse, Batch

LEMMA LookUpKeeps ==
    ASSUME OutboxInv, NEW k \in Slot, LookUp(k)
    PROVE  OutboxInv' /\ NoneStranded
<1> DEFINE b == batch[k]
           o == Oldest(b.todo)
<1>1. /\ b \in Batch /\ b.busy /\ b.todo # {} /\ UNCHANGED <<client, record, incident>>
      /\ UNCHANGED client
  BY DEF LookUp, OutboxInv, TypeOK
<1>2. /\ o \in b.todo /\ o \in Op
      /\ Take(b) \in Batch /\ Refuse(b) \in Batch
      /\ Take(b).absent = FALSE /\ Refuse(b).absent = FALSE
      /\ (b.todo \cup b.refused) \ (Take(b).todo \cup Take(b).refused) \subseteq {o}
      /\ b.todo \cup b.refused \subseteq Refuse(b).todo \cup Refuse(b).refused
  BY <1>1, TakeAndRefuse
<1>3. Grows /\ record' \in [Op -> OfflineOperationStatus]
  BY <1>1 DEF Grows, OutboxInv, TypeOK
<1>4. CASE b.poisoned
  <2>1. batch' = [batch EXCEPT ![k] = Refuse(b)]
    BY <1>4 DEF LookUp
  <2> QED BY <1>1, <1>2, <1>3, <2>1, ServerStep
<1>5. CASE ~b.poisoned /\ record[o] # "NONE"
  <2>1. batch' = [batch EXCEPT ![k] = Take(b)] /\ Known(o, record')
    BY <1>1, <1>5 DEF LookUp, Known
  <2> QED BY <1>1, <1>2, <1>3, <2>1, ServerStep
<1>6. CASE ~b.poisoned /\ record[o] = "NONE"
  <2> DEFINE c == [b EXCEPT !.absent = TRUE]
  <2>1. batch' = [batch EXCEPT ![k] = c]
    BY <1>6 DEF LookUp
  <2>2. c \in Batch /\ c.todo = b.todo /\ c.refused = b.refused
    BY <1>1 DEF Batch
  <2> HIDE DEF c
  <2> QED BY <1>1, <1>3, <2>1, <2>2, ServerStep
<1> QED BY <1>4, <1>5, <1>6

LEMMA InsertKeeps ==
    ASSUME OutboxInv, NEW k \in Slot, Insert(k)
    PROVE  OutboxInv' /\ NoneStranded
<1> DEFINE b == batch[k]
           o == Oldest(b.todo)
<1>1. /\ b \in Batch /\ b.busy /\ b.absent /\ b.todo # {}
      /\ UNCHANGED client /\ UNCHANGED incident
  BY DEF Insert, OutboxInv, TypeOK
<1>2. /\ o \in b.todo /\ o \in Op
      /\ Take(b) \in Batch /\ Refuse(b) \in Batch
      /\ Take(b).absent = FALSE /\ Refuse(b).absent = FALSE
      /\ (b.todo \cup b.refused) \ (Take(b).todo \cup Take(b).refused) \subseteq {o}
      /\ b.todo \cup b.refused \subseteq Refuse(b).todo \cup Refuse(b).refused
  BY <1>1, TakeAndRefuse
<1>3. CASE record[o] = "NONE"
  <2>1. /\ batch' = [batch EXCEPT ![k] = Take(b)]
        /\ record' = [record EXCEPT ![o] = "PENDING"]
    BY <1>3 DEF Insert
  <2>2. record' \in [Op -> OfflineOperationStatus] /\ Grows /\ Known(o, record')
    BY <1>2, <2>1 DEF OutboxInv, TypeOK, OfflineOperationStatus, Grows, Known
  <2> QED BY <1>1, <1>2, <2>1, <2>2, ServerStep
<1>4. CASE record[o] # "NONE"
  <2>1. batch' = [batch EXCEPT ![k] = Refuse(b)] /\ UNCHANGED record
    BY <1>4 DEF Insert
  <2>2. record' \in [Op -> OfflineOperationStatus] /\ Grows
    BY <2>1 DEF OutboxInv, TypeOK, Grows
  <2> QED BY <1>1, <1>2, <2>1, <2>2, ServerStep
<1> QED BY <1>3, <1>4

LEMMA EndBatchKeeps ==
    ASSUME OutboxInv, NEW k \in Slot, EndBatch(k)
    PROVE  OutboxInv' /\ NoneStranded
<1>1. /\ batch' = [batch EXCEPT ![k] = NoBatch]
      /\ UNCHANGED client /\ UNCHANGED incident /\ UNCHANGED record
  BY DEF EndBatch
<1>2. NoBatch \in Batch /\ NoBatch.absent = FALSE /\ NoBatch.busy = FALSE
  BY DEF NoBatch, Batch
<1>3. record' \in [Op -> OfflineOperationStatus] /\ Grows
  BY <1>1 DEF OutboxInv, TypeOK, Grows
<1> QED BY <1>1, <1>2, <1>3, ServerStep

(* What other clients of the API do: the records and incidents move along. *)
LEMMA OthersKeep ==
    ASSUME OutboxInv, UNCHANGED <<client, batch>>, Grows,
           record' \in [Op -> OfflineOperationStatus],
           incident' \in [Incident -> IncidentStatus]
    PROVE  OutboxInv' /\ NoneStranded
<1>1. /\ UNCHANGED <<outbox, lastError, abandoned, online, blackout, syncing, jammed>>
      /\ UNCHANGED <<replay, batch>>
  BY DEF client, store, flag
<1>2. TypeOK'
  BY <1>1 DEF OutboxInv, TypeOK
<1>3. NoOperationLost'
  BY <1>1 DEF OutboxInv, NoOperationLost, Grows, Known
<1>4. ASSUME NEW j \in Slot PROVE Informed(replay'[j], batch'[j], record')
  <2>1. Informed(replay[j], batch[j], record) /\ replay[j].rest \subseteq Op
    BY DEF OutboxInv, TypeOK, Replay
  <2> QED BY <1>1, <2>1 DEF Informed, Grows
<1>5. OutboxInv'
  BY <1>1, <1>2, <1>3, <1>4 DEF OutboxInv, FlagHeld
<1>6. NoneStranded
  BY <1>1 DEF NoneStranded, Stranded, Held
<1> QED BY <1>5, <1>6

LEMMA ApplyOperationKeeps ==
    ASSUME OutboxInv, NEW o \in Op, ApplyOperation(o)
    PROVE  OutboxInv' /\ NoneStranded
<1>1. PICK target \in OFFLINE_OP_TRANSITIONS[record[o]] :
         record' = [record EXCEPT ![o] = target] /\ UNCHANGED <<client, batch, incident>>
  BY DEF ApplyOperation
<1>2. /\ record \in [Op -> OfflineOperationStatus]
      /\ target \in OfflineOperationStatus \ {"NONE"}
  BY TransitionsLead DEF OutboxInv, TypeOK
<1>3. record' \in [Op -> OfflineOperationStatus] /\ Grows
  BY <1>1, <1>2 DEF Grows, Known
<1> QED BY <1>1, <1>3, OthersKeep DEF OutboxInv, TypeOK

LEMMA TransitionIncidentKeeps ==
    ASSUME OutboxInv, NEW i \in Incident, TransitionIncident(i)
    PROVE  OutboxInv' /\ NoneStranded
<1>1. PICK target \in INCIDENT_ALLOWED_TRANSITIONS[incident[i]] :
         incident' = [incident EXCEPT ![i] = target] /\ UNCHANGED <<client, batch, record>>
  BY DEF TransitionIncident
<1>2. incident' \in [Incident -> IncidentStatus]
  BY <1>1, IncidentTransitionsLead DEF OutboxInv, TypeOK
<1>3. record' \in [Op -> OfflineOperationStatus] /\ Grows
  BY <1>1 DEF Grows, OutboxInv, TypeOK
<1> QED BY <1>1, <1>2, <1>3, OthersKeep

(* The connectivity and the outbox change, no replay does. *)
LEMMA ClientKeeps ==
    ASSUME OutboxInv, UNCHANGED <<lastError, abandoned, flag, replay, server>>,
           outbox' \in [Op -> LocalSyncStatus], online' \in BOOLEAN, blackout' \in BOOLEAN,
           \A o \in Op : outbox'[o] \in {"APPLIED", "GONE"} => outbox[o] \in {"APPLIED", "GONE"},
           \A o \in Op : outbox'[o] = "SYNCING" => outbox[o] = "SYNCING"
    PROVE  OutboxInv' /\ NoneStranded
<1>1. UNCHANGED <<batch, record, incident>> /\ UNCHANGED <<syncing, jammed>>
  BY DEF server, flag
<1>2. TypeOK' /\ NoOperationLost'
  BY <1>1 DEF OutboxInv, TypeOK, NoOperationLost
<1>3. OutboxInv'
  BY <1>1, <1>2 DEF OutboxInv, FlagHeld
<1>4. NoneStranded
  BY DEF NoneStranded, Stranded, Held
<1> QED BY <1>3, <1>4

LEMMA EnqueueOperationKeeps ==
    ASSUME OutboxInv, NEW o \in Op, EnqueueOperation(o)
    PROVE  OutboxInv' /\ NoneStranded
<1>1. /\ outbox' = [outbox EXCEPT ![o] = "LOCAL_QUEUED"]
      /\ UNCHANGED <<lastError, abandoned, flag, replay, server>>
      /\ UNCHANGED <<online, blackout>>
  BY DEF EnqueueOperation
<1>2. outbox' \in [Op -> LocalSyncStatus] /\ online' \in BOOLEAN /\ blackout' \in BOOLEAN
  BY <1>1 DEF OutboxInv, TypeOK, LocalSyncStatus
<1>3. \A p \in Op : outbox'[p] \in {outbox[p], "LOCAL_QUEUED"}
  BY <1>1 DEF OutboxInv, TypeOK
<1> QED BY <1>1, <1>2, <1>3, ClientKeeps

LEMMA ClearAppliedKeeps ==
    ASSUME OutboxInv, ClearApplied
    PROVE  OutboxInv' /\ NoneStranded
<1>1. PICK cleared \in SUBSET {o \in Op : outbox[o] = "APPLIED"} :
         outbox' = [o \in Op |-> IF o \in cleared THEN "GONE" ELSE outbox[o]]
  BY DEF ClearApplied
<1>2. UNCHANGED <<lastError, abandoned, flag, replay, server>> /\ UNCHANGED <<online, blackout>>
  BY DEF ClearApplied
<1>3. outbox' \in [Op -> LocalSyncStatus] /\ online' \in BOOLEAN /\ blackout' \in BOOLEAN
  BY <1>1, <1>2 DEF OutboxInv, TypeOK, LocalSyncStatus
<1>4. \A o \in Op : outbox'[o] = outbox[o] \/ (outbox'[o] = "GONE" /\ outbox[o] = "APPLIED")
  BY <1>1 DEF OutboxInv, TypeOK
<1> QED BY <1>2, <1>3, <1>4, ClientKeeps

LEMMA ConnectivityKeeps ==
    ASSUME OutboxInv, HandleOffline \/ BeginBlackout
    PROVE  OutboxInv' /\ NoneStranded
<1>1. /\ UNCHANGED <<lastError, abandoned, flag, replay, server>>
      /\ UNCHANGED outbox /\ online' \in BOOLEAN /\ blackout' \in BOOLEAN
  BY DEF HandleOffline, BeginBlackout, store, OutboxInv, TypeOK
<1>2. outbox' \in [Op -> LocalSyncStatus]
  BY <1>1 DEF OutboxInv, TypeOK
<1> QED BY <1>1, <1>2, ClientKeeps

LEMMA StartsKeep ==
    ASSUME OutboxInv, NEW k \in Slot,
           HandleOnline(k) \/ EndBlackout(k) \/ TriggerSync(k) \/ RetryReplay(k)
    PROVE  OutboxInv' /\ NoneStranded
<1>1. /\ UNCHANGED <<store, flag, server>>
      /\ online' \in BOOLEAN /\ blackout' \in BOOLEAN
      /\ replay[k].pc \in Gathering
  BY DEF HandleOnline, EndBlackout, TriggerSync, RetryReplay, Free, Gathering, OutboxInv, TypeOK
<1>2. PICK effective \in BOOLEAN : StartReplay(k, effective)
  BY DEF HandleOnline, EndBlackout, TriggerSync, RetryReplay, EffectiveOnline, OutboxInv, TypeOK
<1> QED BY <1>1, <1>2, StartKeeps

(* A reload forgets every replay: what it strands it does not lose. *)
LEMMA ReloadKeeps ==
    ASSUME OutboxInv, Reload
    PROVE  OutboxInv'
<1>1. /\ replay' = [k \in Slot |-> Idle] /\ syncing' = FALSE /\ jammed' = FALSE
      /\ online' \in BOOLEAN /\ blackout' \in BOOLEAN
      /\ UNCHANGED <<outbox, lastError, abandoned, batch, record, incident>>
  BY DEF Reload, store, server, OutboxInv, TypeOK
<1>2. Idle \in Replay /\ Idle.pc = "idle" /\ Idle.ops = {} /\ Idle.rest = {}
  BY DEF Idle, At, Replay, Pc, OfflineOperationStatus
<1>3. TypeOK' /\ NoOperationLost'
  BY <1>1, <1>2 DEF OutboxInv, TypeOK, NoOperationLost
<1>4. \A k \in Slot : Shaped(replay'[k]) /\ Informed(replay'[k], batch'[k], record')
  BY <1>1, <1>2 DEF Shaped, Informed, Gathering, Settling
<1> QED BY <1>1, <1>3, <1>4 DEF OutboxInv, FlagHeld

(* Every step keeps the invariant; every step but a reload and the two       *)
(* rejections that end a replay strands nothing.                             *)
LEMMA NextOutbox ==
    ASSUME OutboxInv, [Next]_vars
    PROVE  OutboxInv' /\ (NoneStranded \/ Reload \/ RejectionEndsReplay)
<1>1. CASE UNCHANGED vars
  <2>1. UNCHANGED <<client, batch>> /\ UNCHANGED <<record, incident>>
    BY <1>1 DEF vars, client
  <2> QED BY <2>1, OthersKeep DEF OutboxInv, TypeOK, Grows
<1>2. CASE HandleOffline \/ BeginBlackout
  BY <1>2, ConnectivityKeeps
<1>3. CASE ClearApplied
  BY <1>3, ClearAppliedKeeps
<1>4. CASE Reload
  BY <1>4, ReloadKeeps
<1>5. CASE \E o \in Op : EnqueueOperation(o) \/ ApplyOperation(o)
  BY <1>5, EnqueueOperationKeeps, ApplyOperationKeeps
<1>6. CASE \E i \in Incident : TransitionIncident(i)
  BY <1>6, TransitionIncidentKeeps
<1>7. ASSUME NEW k \in Slot, HandleOnline(k) \/ EndBlackout(k) \/ TriggerSync(k)
      PROVE  OutboxInv' /\ NoneStranded
  BY <1>7, StartsKeep
<1>8. ASSUME NEW k \in Slot, NEW o \in Op, RetryOperation(k, o)
      PROVE  OutboxInv' /\ NoneStranded
  BY <1>8, RetryKeeps
<1>9. ASSUME NEW k \in Slot, ReplayStep(k)
      PROVE  OutboxInv' /\ (NoneStranded \/ RejectionEndsReplay)
  BY <1>9, StartsKeep, GatherKeeps, MarkSyncingKeeps, PostBatchKeeps, LoseBatchKeeps,
     MarkFailedKeeps, ReceiveResultsKeeps, FailOperationKeeps, GetRecordKeeps,
     AcknowledgeKeeps, PatchAppliedKeeps, SettleOperationKeeps, RejectGatherKeeps,
     RejectMarkKeeps, RejectErrorKeeps, RejectFailKeeps, RejectSettleKeeps
     DEF ReplayStep, RejectionEndsReplay
<1>10. ASSUME NEW k \in Slot, LookUp(k) \/ Insert(k) \/ EndBatch(k)
       PROVE  OutboxInv' /\ NoneStranded
  BY <1>10, LookUpKeeps, InsertKeeps, EndBatchKeeps
<1> QED BY <1>1, <1>2, <1>3, <1>4, <1>5, <1>6, <1>7, <1>8, <1>9, <1>10 DEF Next

-----------------------------------------------------------------------------
(* The state of the outbox, of the replays and of the server they post to is *)
(* tied together in every reachable state, however replays overlap, requests *)
(* fail and pages are reloaded.                                              *)
THEOREM OutboxInvariant == Spec => []OutboxInv
<1>1. OutboxInv /\ [Next]_vars => OutboxInv'
  BY NextOutbox
<1> QED BY <1>1, InitOutbox, PTL DEF Spec

(* Outbox, replays, batches and records stay well formed: no status leaves   *)
(* the enumerations of types.ts and states.py.                               *)
THEOREM TypeCorrect == Spec => []TypeOK
<1>1. OutboxInv => TypeOK
  BY DEF OutboxInv
<1> QED BY <1>1, OutboxInvariant, PTL

(* What the outbox shows as reconciled, or has cleared after that, the       *)
(* server has a record of: replayQueuedBatch settles only what enqueue_batch *)
(* has answered for.                                                         *)
THEOREM ReconciledIsRecorded == Spec => []NoOperationLost
<1>1. OutboxInv => NoOperationLost
  BY DEF OutboxInv
<1> QED BY <1>1, OutboxInvariant, PTL

(* A raised flag is a flag that a running replay will lower, or one that a   *)
(* rejected write of the marking loop has left behind: what the finally      *)
(* block of replayQueuedBatch guarantees, and all it guarantees.             *)
THEOREM RaisedFlagIsHeld == Spec => []FlagHeld
<1>1. OutboxInv => FlagHeld
  BY DEF OutboxInv
<1> QED BY <1>1, OutboxInvariant, PTL

(* Whichever replays, retries, clears and failures overlap, a replay keeps   *)
(* hold of what it has marked until it settles it; only a reload of the page *)
(* and a store that rejects a marking, or a FAILED in the catch block, leave *)
(* operations in SYNCING that nothing will settle.                           *)
THEOREM ReplaysLetNothingGo == Spec => NothingElseStrands
<1>1. OutboxInv /\ [Next]_vars
         => [Reload \/ RejectionEndsReplay \/ \A o \in Op : Stranded(o)' => Stranded(o)]_vars
  BY NextOutbox DEF NoneStranded
<1> QED BY <1>1, OutboxInvariant, PTL DEF Spec, NothingElseStrands
=============================================================================

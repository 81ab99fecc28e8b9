----------------------------- MODULE OutboxSync -----------------------------
(***************************************************************************)
(* The store-and-forward queue: operations buffered in the browser's       *)
(* IndexedDB outbox during a blackout and replayed to the backend's        *)
(* offline-operation queue (frontend/src/lib/sync, backend domains/sync).  *)
(*                                                                         *)
(* replayQueuedBatch is an async function: every await is a point where    *)
(* another replay, a button, a connectivity event or a page reload can     *)
(* run.  One action below is what happens between two awaits.  The read    *)
(* and the write of one outbox record (updateOperationStatus) are one      *)
(* step; so is a status transition on the server.  The server takes the    *)
(* operations of a batch one by one, each in a transaction of its own, and *)
(* goes on when the client has given up on the answer.                     *)
(*                                                                         *)
(* The outbox is an IndexedDB store, whose requests may be rejected; what  *)
(* a rejection leads to depends on where in the replay it comes.           *)
(***************************************************************************)
EXTENDS Naturals, FiniteSets, DomainTransitions

CONSTANTS
    Op,         \* the operations, numbered in the order they are queued
    Incident,   \* the incidents they acknowledge
    TargetOf,   \* [Op -> Incident]
    Slot,       \* bound: replays (and their batches) in flight at once
    MaxBatch,   \* operations the server takes in one batch (100 in the code)
    MayReload,  \* whether the page may be reloaded
    MayReject,  \* whether the browser's store may reject requests
    Others      \* whether other operators and clients of the API act meanwhile

ASSUME OpAssumption     == Op \subseteq Nat /\ IsFiniteSet(Op)
ASSUME TargetAssumption == TargetOf \in [Op -> Incident]
ASSUME BatchAssumption  == MaxBatch \in Nat
ASSUME MayAssumption    == MayReload \in BOOLEAN /\ MayReject \in BOOLEAN /\ Others \in BOOLEAN

VARIABLES
    outbox,     \* [Op -> local_status], "NEW" before and "GONE" after storage
    lastError,  \* [Op -> whether the record carries a last_error]
    online,     \* _isOnline, the browser's own view
    blackout,   \* _isSimulatedBlackout
    syncing,    \* _isSyncing
    replay,     \* [Slot -> the replay running in it]
    batch,      \* [Slot -> the batch the server is working on]
    record,     \* [Op -> status of the server's record], "NONE" without one
    incident,   \* [Incident -> status]
    jammed,     \* history: a replay that raised the flag has ended without lowering it
    abandoned   \* history: operations in SYNCING that a rejected write kept from settling

store  == <<outbox, lastError, abandoned>>
flag   == <<syncing, jammed>>
client == <<store, online, blackout, flag, replay>>
server == <<batch, record, incident>>
vars   == <<store, online, blackout, flag, replay, batch,
            record, incident, jammed, abandoned>>

-----------------------------------------------------------------------------
LocalSyncStatus == {"NEW", "LOCAL_QUEUED", "SYNCING", "APPLIED", "FAILED", "GONE"}

OfflineOperationStatus == {"NONE", "PENDING", "APPLIED", "FAILED", "REJECTED"}

Pc == {"idle", "start", "gather", "mark", "post", "wait", "error", "get",
       "acknowledge", "patch", "settle", "fail"}

(* A replay: the operations it picked up, those its current loop has still *)
(* to visit, those the server answered ERROR for, and the server status it *)
(* read of the operation at hand.                                          *)
Replay == [pc : Pc, ops : SUBSET Op, rest : SUBSET Op, refused : SUBSET Op,
           seen : OfflineOperationStatus]

(* A replay at pc that has picked up ops and has still to visit rest. *)
At(pc, ops, rest) ==
    [pc |-> pc, ops |-> ops, rest |-> rest, refused |-> {}, seen |-> "NONE"]

Idle == At("idle", {}, {})

(* A batch on the server: the operations still to be taken, whether the     *)
(* lookup found the first of them absent, whether an insert has failed, and *)
(* the operations answered with ERROR.                                      *)
Batch == [busy : BOOLEAN, todo : SUBSET Op, absent : BOOLEAN, poisoned : BOOLEAN,
          refused : SUBSET Op]

NoBatch == [busy |-> FALSE, todo |-> {}, absent |-> FALSE, poisoned |-> FALSE,
            refused |-> {}]

TypeOK ==
    /\ outbox \in [Op -> LocalSyncStatus]
    /\ lastError \in [Op -> BOOLEAN]
    /\ online \in BOOLEAN /\ blackout \in BOOLEAN /\ syncing \in BOOLEAN
    /\ replay \in [Slot -> Replay]
    /\ batch \in [Slot -> Batch]
    /\ record \in [Op -> OfflineOperationStatus]
    /\ incident \in [Incident -> IncidentStatus]
    /\ jammed \in BOOLEAN /\ abandoned \subseteq Op

-----------------------------------------------------------------------------
EffectiveOnline == online /\ ~blackout

(* Mutant of OFFLINE_OP_TRANSITIONS: a target the status enum does not have. *)
OFFLINE_OP_TRANSITIONS_Cancelled ==
    [NONE |-> {}, PENDING |-> {"APPLIED", "FAILED", "REJECTED", "CANCELLED"},
     FAILED |-> {"PENDING"}, APPLIED |-> {}, REJECTED |-> {}]

OFFLINE_OP_TRANSITIONS ==
    [NONE |-> {}, PENDING |-> {"APPLIED", "FAILED", "REJECTED"},
     FAILED |-> {"PENDING", "REJECTED"}, APPLIED |-> {}, REJECTED |-> {}]

(* What a replay picks up: the queued and the failed. *)
QueuedOperations == {o \in Op : outbox[o] \in {"LOCAL_QUEUED", "FAILED"}}

(* Every loop goes through its operations oldest first. *)
Oldest(S) == CHOOSE o \in S : \A p \in S : o <= p

(* updateOperationStatus: a record that is gone is left alone. *)
UpdateStatus(o, status, error) ==
    IF outbox[o] = "GONE" THEN UNCHANGED store
    ELSE /\ outbox' = [outbox EXCEPT ![o] = status]
         /\ lastError' = [lastError EXCEPT ![o] = error]
         /\ abandoned' = abandoned \ {o}

(* replayQueuedBatch up to its first await: nothing happens unless the *)
(* client is effectively online and no replay holds the flag.          *)
StartReplay(k, effective) ==
    IF effective /\ ~syncing
    THEN replay' = [replay EXCEPT ![k] = At("gather", {}, {})]
    ELSE replay' = [replay EXCEPT ![k] = Idle]

Free(k) == replay[k].pc = "idle" /\ ~batch[k].busy

(* The operation the replay in k is at. *)
Current(k) == Oldest(replay[k].rest)

(* The replay r at pc, with rest left to visit, having read the status seen. *)
Visit(r, pc, rest, seen) ==
    [pc |-> pc, ops |-> r.ops, rest |-> rest, refused |-> r.refused, seen |-> seen]

(* The replay in k ends, and the finally block lowers the flag. *)
EndReplay(k) ==
    /\ syncing' = FALSE /\ jammed' = FALSE
    /\ replay' = [replay EXCEPT ![k] = Idle]

(* Mutants of NextOperation: the loop breaks after one operation, the flag  *)
(* is lowered in the try block's last line only.                            *)
NextOperation_Break(k, pc) == EndReplay(k)
NextOperation_NoFinally(k, pc) ==
    LET left == replay[k].rest \ {Current(k)}
    IN  IF left = {} /\ pc = "get" THEN EndReplay(k)
        ELSE /\ UNCHANGED flag
             /\ replay' = [replay EXCEPT ![k] = IF left = {} THEN Idle
                   ELSE Visit(replay[k], pc, left, "NONE")]

(* The replay in k goes on with the next operation at pc, or ends when *)
(* there is none.                                                      *)
NextOperation(k, pc) ==
    LET left == replay[k].rest \ {Current(k)}
    IN  IF left = {}
        THEN EndReplay(k)
        ELSE /\ UNCHANGED flag
             /\ replay' = [replay EXCEPT ![k] = Visit(replay[k], pc, left, "NONE")]

-----------------------------------------------------------------------------
Init ==
    /\ outbox = [o \in Op |-> "NEW"]
    /\ lastError = [o \in Op |-> FALSE]
    /\ online = TRUE /\ blackout = FALSE /\ syncing = FALSE
    /\ replay = [k \in Slot |-> Idle]
    /\ batch = [k \in Slot |-> NoBatch]
    /\ record = [o \in Op |-> "NONE"]
    /\ incident = [i \in Incident |-> "OPEN"]
    /\ jammed = FALSE /\ abandoned = {}

(* Acknowledging an incident while cut off buffers the operation; a write *)
(* that is rejected leaves nothing behind.                                *)
EnqueueOperation(o) ==
    /\ outbox[o] = "NEW" /\ \A p \in Op : p < o => outbox[p] # "NEW"
    /\ ~EffectiveOnline
    /\ outbox' = [outbox EXCEPT ![o] = "LOCAL_QUEUED"]
    /\ UNCHANGED <<lastError, abandoned, online, blackout, flag, replay, server>>

HandleOffline ==
    /\ online
    /\ online' = FALSE
    /\ UNCHANGED <<store, blackout, flag, replay, server>>

HandleOnline(k) ==
    /\ ~online /\ Free(k)
    /\ online' = TRUE
    /\ StartReplay(k, ~blackout)
    /\ UNCHANGED <<store, blackout, flag, server>>

BeginBlackout ==
    /\ ~blackout
    /\ blackout' = TRUE
    /\ UNCHANGED <<store, online, flag, replay, server>>

EndBlackout(k) ==
    /\ blackout /\ Free(k)
    /\ blackout' = FALSE
    /\ StartReplay(k, online)
    /\ UNCHANGED <<store, online, flag, server>>

(* The "sync now" button. *)
TriggerSync(k) ==
    /\ Free(k)
    /\ EffectiveOnline /\ ~syncing
    /\ StartReplay(k, EffectiveOnline)
    /\ UNCHANGED <<store, online, blackout, flag, server>>

(* The retry button, shown for every operation that carries an error: the *)
(* status is written first, the replay is tried after the await; a write  *)
(* that is rejected changes nothing.                                      *)
RetryOperation(k, o) ==
    /\ Free(k) /\ lastError[o]
    /\ UpdateStatus(o, "LOCAL_QUEUED", FALSE)
    /\ replay' = [replay EXCEPT ![k].pc = "start"]
    /\ UNCHANGED <<online, blackout, flag, server>>

RetryReplay(k) ==
    /\ replay[k].pc = "start"
    /\ StartReplay(k, EffectiveOnline)
    /\ UNCHANGED <<store, online, blackout, flag, server>>

(* clearAppliedOperations deletes one by one, the newest first, until a *)
(* request is rejected.                                                 *)
ClearApplied ==
    LET applied == {o \in Op : outbox[o] = "APPLIED"} IN
    \E cleared \in (SUBSET applied) \ {{}} :
        /\ \/ cleared = applied
           \/ MayReject /\ \A o \in cleared, p \in applied \ cleared : p < o
        /\ outbox' = [o \in Op |-> IF o \in cleared THEN "GONE" ELSE outbox[o]]
        /\ UNCHANGED <<lastError, abandoned, online, blackout, flag, replay, server>>

(* A reload forgets every replay and the flag; the outbox stays.  The        *)
(* simulated blackout survives a reload and not a restart of the browser.    *)
Reload ==
    /\ MayReload
    /\ replay' = [k \in Slot |-> Idle]
    /\ syncing' = FALSE /\ jammed' = FALSE
    /\ online' \in BOOLEAN
    /\ blackout' \in {blackout, FALSE}
    /\ UNCHANGED <<store, server>>

-----------------------------------------------------------------------------
(* replayQueuedBatch, from await to await. *)

(* getQueuedOperations has answered; the flag goes up only now. *)
Gather(k) ==
    /\ replay[k].pc = "gather"
    /\ IF QueuedOperations = {}
       THEN /\ replay' = [replay EXCEPT ![k] = Idle]
            /\ UNCHANGED syncing
       ELSE /\ replay' = [replay EXCEPT ![k] = At("mark", QueuedOperations, QueuedOperations)]
            /\ syncing' = TRUE
    /\ UNCHANGED <<jammed, store, online, blackout, server>>

(* getQueuedOperations is rejected, before the flag goes up. *)
RejectGather(k) ==
    /\ MayReject /\ replay[k].pc = "gather"
    /\ replay' = [replay EXCEPT ![k] = Idle]
    /\ UNCHANGED <<store, online, blackout, flag, server>>

MarkSyncing(k) ==
    LET r    == replay[k]
        o    == Current(k)
        left == r.rest \ {o}
    IN  /\ r.pc = "mark"
        /\ UpdateStatus(o, "SYNCING", lastError[o])
        /\ replay' = [replay EXCEPT ![k] =
              IF left = {} THEN At("post", r.ops, r.ops)
              ELSE [r EXCEPT !.rest = left]]
        /\ UNCHANGED <<online, blackout, flag, server>>

(* The replay gives up the operations S, which stay in SYNCING if they are. *)
Abandon(S) ==
    /\ abandoned' = abandoned \cup {o \in S : outbox[o] = "SYNCING"}
    /\ UNCHANGED <<outbox, lastError>>

(* The marking loop stands outside the try block: a rejection ends the     *)
(* replay there, with the flag as it is and the operations marked so far.  *)
RejectMark(k) ==
    /\ MayReject /\ replay[k].pc = "mark"
    /\ Abandon(replay[k].ops \ replay[k].rest)
    /\ replay' = [replay EXCEPT ![k] = Idle]
    /\ jammed' = syncing
    /\ UNCHANGED <<online, blackout, syncing, server>>

(* The batch reaches the server, which refuses one that is too long. *)
PostBatch(k) ==
    /\ replay[k].pc = "post"
    /\ online
    /\ IF Cardinality(replay[k].rest) > MaxBatch
       THEN /\ replay' = [replay EXCEPT ![k].pc = "error"]
            /\ UNCHANGED batch
       ELSE /\ replay' = [replay EXCEPT ![k].pc = "wait"]
            /\ batch' = [batch EXCEPT ![k] =
                  [busy |-> TRUE, todo |-> replay[k].rest, absent |-> FALSE,
                   poisoned |-> FALSE, refused |-> {}]]
    /\ UNCHANGED <<store, online, blackout, flag, record, incident>>

(* The request or its answer is lost; the server may still be at work. *)
LoseBatch(k) ==
    /\ replay[k].pc \in {"post", "wait"}
    /\ replay' = [replay EXCEPT ![k].pc = "error"]
    /\ UNCHANGED <<store, online, blackout, flag, server>>

(* The catch block: every operation of the replay becomes FAILED. *)
MarkFailed(k) ==
    /\ replay[k].pc = "error"
    /\ UpdateStatus(Current(k), "FAILED", TRUE)
    /\ NextOperation(k, "error")
    /\ UNCHANGED <<online, blackout, server>>

(* A rejection in the catch block ends the replay, but not before the *)
(* finally block has lowered the flag.                                *)
RejectError(k) ==
    /\ MayReject /\ replay[k].pc = "error"
    /\ Abandon(replay[k].rest)
    /\ EndReplay(k)
    /\ UNCHANGED <<online, blackout, server>>

ReceiveResults(k) ==
    /\ replay[k].pc = "wait"
    /\ batch[k].busy /\ batch[k].todo = {}
    /\ online
    /\ replay' = [replay EXCEPT ![k] =
          [At("get", replay[k].ops, replay[k].rest) EXCEPT !.refused = batch[k].refused]]
    /\ batch' = [batch EXCEPT ![k] = NoBatch]
    /\ UNCHANGED <<store, online, blackout, flag, record, incident>>

(* Mutant of FailOperation: the operation is skipped, its status kept. *)
FailOperation_Skip(k) ==
    /\ replay[k].pc \in {"get", "fail"}
    /\ NextOperation(k, "get")
    /\ UNCHANGED <<store, online, blackout, server>>

(* An ERROR outcome, a record that could not be fetched, or an operation *)
(* that could not be settled.                                            *)
FailOperation(k) ==
    /\ replay[k].pc \in {"get", "fail"}
    /\ UpdateStatus(Current(k), "FAILED", TRUE)
    /\ NextOperation(k, "get")
    /\ UNCHANGED <<online, blackout, server>>

(* A rejection there is caught by the outer try: every operation of the   *)
(* replay is to become FAILED, those that were settled before included.   *)
RejectFail(k) ==
    /\ MayReject /\ replay[k].pc \in {"get", "fail"}
    /\ replay' = [replay EXCEPT ![k] = At("error", replay[k].ops, replay[k].ops)]
    /\ UNCHANGED <<store, online, blackout, flag, server>>

(* Mutant of Registered: any answered operation counts. *)
Registered_Any(k, o) == TRUE

(* The outcome is ENQUEUED or DUPLICATE. *)
Registered(k, o) == o \notin replay[k].refused

GetRecord(k) ==
    LET o == Current(k) IN
        /\ replay[k].pc = "get"
        /\ Registered(k, o)
        /\ online
        /\ replay' = [replay EXCEPT ![k] =
              Visit(replay[k], "acknowledge", replay[k].rest, record[o])]
        /\ UNCHANGED <<store, online, blackout, flag, server>>

(* The acknowledgement is posted; whether it is lost, refused or accepted, *)
(* the replay goes on.                                                     *)
Acknowledge(k) ==
    LET i == TargetOf[Current(k)] IN
        /\ replay[k].pc = "acknowledge"
        /\ \/ UNCHANGED incident
           \/ /\ online
              /\ "ACKNOWLEDGED" \in INCIDENT_ALLOWED_TRANSITIONS[incident[i]]
              /\ incident' = [incident EXCEPT ![i] = "ACKNOWLEDGED"]
        /\ replay' = [replay EXCEPT ![k].pc =
              IF replay[k].seen \in {"APPLIED", "REJECTED"} THEN "settle" ELSE "patch"]
        /\ UNCHANGED <<store, online, blackout, flag, batch, record>>

(* The server's record is marked APPLIED, if the request gets through. *)
PatchApplied(k) ==
    LET o == Current(k) IN
        /\ replay[k].pc = "patch"
        /\ \/ UNCHANGED record
           \/ /\ online
              /\ "APPLIED" \in OFFLINE_OP_TRANSITIONS[record[o]]
              /\ record' = [record EXCEPT ![o] = "APPLIED"]
        /\ replay' = [replay EXCEPT ![k].pc = "settle"]
        /\ UNCHANGED <<store, online, blackout, flag, batch, incident>>

SettleOperation(k) ==
    /\ replay[k].pc = "settle"
    /\ UpdateStatus(Current(k), "APPLIED", FALSE)
    /\ NextOperation(k, "get")
    /\ UNCHANGED <<online, blackout, server>>

(* The write of APPLIED is rejected: the inner catch block writes FAILED. *)
RejectSettle(k) ==
    /\ MayReject /\ replay[k].pc = "settle"
    /\ replay' = [replay EXCEPT ![k].pc = "fail"]
    /\ UNCHANGED <<store, online, blackout, flag, server>>

-----------------------------------------------------------------------------
(* SyncService.enqueue_batch. *)

(* Done with the oldest operation of the batch b, or answering it with ERROR. *)
Take(b) == [busy |-> TRUE, todo |-> b.todo \ {Oldest(b.todo)}, absent |-> FALSE,
            poisoned |-> b.poisoned, refused |-> b.refused]
Refuse(b) == [busy |-> TRUE, todo |-> b.todo \ {Oldest(b.todo)}, absent |-> FALSE,
              poisoned |-> TRUE, refused |-> b.refused \cup {Oldest(b.todo)}]

(* The lookup by operation_id: a known operation is a duplicate.  A session *)
(* whose insert failed answers nothing but errors: no rollback follows.     *)
LookUp(k) ==
    LET b == batch[k] IN
        /\ b.busy /\ b.todo # {} /\ ~b.absent
        /\ batch' = [batch EXCEPT ![k] =
              IF b.poisoned THEN Refuse(b)
              ELSE IF record[Oldest(b.todo)] # "NONE" THEN Take(b)
              ELSE [b EXCEPT !.absent = TRUE]]
        /\ UNCHANGED <<client, record, incident>>

(* The insert: unique operation_id, or an IntegrityError. *)
Insert(k) ==
    LET b == batch[k] IN
        /\ b.busy /\ b.absent
        /\ IF record[Oldest(b.todo)] = "NONE"
           THEN /\ record' = [record EXCEPT ![Oldest(b.todo)] = "PENDING"]
                /\ batch' = [batch EXCEPT ![k] = Take(b)]
           ELSE /\ batch' = [batch EXCEPT ![k] = Refuse(b)]
                /\ UNCHANGED record
        /\ UNCHANGED <<client, incident>>

(* The worker dies, or has answered a client that no longer listens. *)
EndBatch(k) ==
    /\ batch[k].busy
    /\ batch' = [batch EXCEPT ![k] = NoBatch]
    /\ UNCHANGED <<client, record, incident>>

(* PATCH /sync/{id}/apply by another client of the API. *)
ApplyOperation(o) ==
    \E target \in OFFLINE_OP_TRANSITIONS[record[o]] :
        /\ Others
        /\ record' = [record EXCEPT ![o] = target]
        /\ UNCHANGED <<client, batch, incident>>

(* Another operator moves the incident along. *)
TransitionIncident(i) ==
    \E target \in INCIDENT_ALLOWED_TRANSITIONS[incident[i]] :
        /\ Others
        /\ incident' = [incident EXCEPT ![i] = target]
        /\ UNCHANGED <<client, batch, record>>

-----------------------------------------------------------------------------
ReplayStep(k) ==
    \/ RetryReplay(k) \/ Gather(k) \/ MarkSyncing(k) \/ PostBatch(k) \/ LoseBatch(k)
    \/ MarkFailed(k) \/ ReceiveResults(k) \/ FailOperation(k) \/ GetRecord(k)
    \/ Acknowledge(k) \/ PatchApplied(k) \/ SettleOperation(k)
    \/ RejectGather(k) \/ RejectMark(k) \/ RejectError(k) \/ RejectFail(k) \/ RejectSettle(k)

Next ==
    \/ HandleOffline \/ BeginBlackout \/ ClearApplied \/ Reload
    \/ \E o \in Op : EnqueueOperation(o) \/ ApplyOperation(o)
    \/ \E i \in Incident : TransitionIncident(i)
    \/ \E k \in Slot :
          \/ HandleOnline(k) \/ EndBlackout(k) \/ TriggerSync(k)
          \/ \E o \in Op : RetryOperation(k, o)
          \/ ReplayStep(k)
          \/ LookUp(k) \/ Insert(k) \/ EndBatch(k)

Spec == Init /\ [][Next]_vars

(* The event loop resumes every settled await, and requests to the server  *)
(* or to the store settle: with an answer or with an error.  Nothing       *)
(* obliges anyone to start a replay.                                       *)
FairSpec == Spec /\ \A k \in Slot : WF_vars(ReplayStep(k))

-----------------------------------------------------------------------------
(* An operation shown as reconciled, or cleared from the outbox after that,  *)
(* is one the server has a record of: nothing an operator did in a blackout  *)
(* is dropped before it has been handed over.                                *)
NoOperationLost ==
    \A o \in Op : outbox[o] \in {"APPLIED", "GONE"} => record[o] # "NONE"

(* What the replay r has still to post or to settle. *)
HeldBy(r) == IF r.pc = "mark" THEN r.ops ELSE r.rest
Held(o) == \E k \in Slot : o \in HeldBy(replay[k])

(* An operation in SYNCING that no running replay will settle any more.      *)
Stranded(o) == outbox[o] = "SYNCING" /\ ~Held(o)

(* The two rejections that end a replay in which operations are marked. *)
RejectionEndsReplay == \E k \in Slot : RejectMark(k) \/ RejectError(k)

(* Only a reload, or a store that rejects the marking of an operation or the *)
(* writing of FAILED after an error, strands an operation: whichever         *)
(* replays, retries, clears and other failures overlap, a replay settles     *)
(* every operation it marked.                                                *)
NothingElseStrands ==
    [][Reload \/ RejectionEndsReplay \/ \A o \in Op : Stranded(o)' => Stranded(o)]_vars

(* The flag that keeps further replays out is lowered again, whatever fails  *)
(* and whichever replays overlap (the finally block), unless the store has   *)
(* rejected a write of the marking loop, which stands outside the try block: *)
(* then it stays up until another replay that was under way, or a reload,    *)
(* lowers it.                                                                *)
SyncingReleased == syncing ~> ~syncing \/ jammed

(* Without a reload no operation stays in SYNCING: each replay settles what  *)
(* it picked up, as APPLIED or as FAILED, unless the store has rejected the  *)
(* marking of a later one, or the writing of FAILED in the catch block.      *)
NothingStaysSyncing ==
    \A o \in Op : outbox[o] = "SYNCING" ~> outbox[o] # "SYNCING" \/ o \in abandoned

-----------------------------------------------------------------------------
(* What the repository says and the code does not do. *)

(* The outbox survives a page reload (outboxStore.ts): an operation is held  *)
(* by a replay, picked up by the next one, or offered for retry.             *)
SurvivesReload ==
    \A o \in Op : Stranded(o) => lastError[o]
=============================================================================

# CRYOS operations core: a TLA+ verification development

CRYOS plans and runs the logistics of polar expeditions. A FastAPI backend
(`backend/app`, SQLAlchemy over PostgreSQL) keeps the expedition's records; a
React client (`frontend/src`) shows them and buffers what operators do while the
satellite link is down. This directory models the parts of it where requests,
retries, crashes and outages meet. Its modules are checked by TLC on small
instances, and their safety is proved with TLAPS for every instance, as far as
section 5 says.

Paths below are relative to `src/`; `domains/x` stands for
`backend/app/domains/x`.

## 1. How the system runs

Every backend operation is a handler that opens a database session, reads some
rows, checks the request against what it has read, assigns columns, flushes, and
commits. The properties of that session decide most of what can go wrong:

- **No locks.** Reads take none (READ COMMITTED, no version column). The one
  `SELECT ... FOR UPDATE` of the backend, in `get_active_maintenance_for_asset`,
  locks the rows it finds. A flushed UPDATE locks its row until the commit.
- **Changed columns only.** A flush writes the columns whose value differs from
  the one the session has read, and leaves the others as they are by then
  (`Rows!Written`; `Changed` and `Booked` in two other modules).
- **No transaction around a composite operation.** Domain services commit by
  themselves, so an operation that calls several (applying a recommendation,
  propagating an incident) can die between two commits.
- **Constraints are the last resort.** Unique keys and CHECKs of the schema
  refuse some of what unlocked checks let through.

In the browser, the outbox is an IndexedDB store and its replay is one `async`
function: everything may happen at each of its `await`s, and a reload forgets
all of it but the store.

## 2. Inventory

For each component: the state it keeps, what it does, what is hard about it, and
what makes it correct. Those in **bold** are modelled now.

| Component | State | Operations | Hard | Correct when |
|---|---|---|---|---|
| **Replanning** `domains/replanning` | replans, recommendations (status, approval state), approvals | create replan, generate options, approve, reject, apply | several domain commits per application; races of decide and apply; the latest decision is by `created_at` | nothing is changed without an operator's approval; statuses rest on decisions and on changes that were made; a change is made once |
| **Offline outbox (client)** `frontend/src/lib/sync` | IndexedDB records, online, blackout, syncing flag, replays in flight | enqueue, replay, retry, clear, blackout, reload | overlapping replays, reload in mid-replay, lost answers | nothing queued is lost; nothing stays in SYNCING; the flag is released |
| **Offline sync (server)** `domains/sync` | offline operations, unique by `operation_id` | enqueue, batch, PATCH | a batch shares one session; equal operations race | an operation is recorded once, its status follows the transitions |
| **Incidents** `domains/incidents` | incident (status, severity, time stamps), references | create, transition, update, add reference | concurrent transitions on one read | statuses carry their time stamps; closed is final |
| **Propagation** `domains/incidents/propagation.py` | one record per target and action | propagate to locations, assets, stock, transport, cargo | commits per reference, records only at the end; repetition | a record that says APPLIED is true; repeating it does nothing more |
| **Escalation** `domains/control_tower/incident_escalation.py` | none of its own | propagate, find an active replan, create one | check and insert are apart | one active replan per incident, after its propagation |
| **Inventory** `domains/inventory` | stock lots, ledger of transactions | create lot, receive, reserve, release, issue, quarantine, transition | lost updates on quantities | row and ledger agree; nothing is promised twice or invented |
| **Assets, maintenance** `domains/assets` | asset status and place; orders | transition, move; schedule, start, complete, cancel | FOR UPDATE does not exclude two inserts | one active order per asset; RETIRED, COMPLETED and CANCELLED are final |
| **Transport** `domains/transport` | legs, manifest | create, update, delay, assign cargo | a delay is one transaction over a leg and all its cargo | a delay reaches the cargo on the leg |
| **Cargo** `domains/cargo` | consignments (status, ETA, deadline, risk), packages | create, update, be delayed | risk is stored, its inputs change separately | the stored risk is what its inputs give; lost cargo stays lost |
| **Locations** `domains/locations` | state of a location | create, change state | written by operators and by propagation | follows its transitions |
| **People, teams** `domains/people`, `teams` | readiness, movement, membership, leaders | create, update | a link and what it links are two rows; updates race on one read | links stay within an expedition; statuses move along their tables; the latest event tells the status |
| **Personnel safety** `control_tower/personnel_safety.py` | none | judge the people, teams and missions of an expedition | three queries, commits between them | the posture is one the expedition had |
| **Missions, expeditions** `domains/missions`, `expeditions` | status, deadline | create, update | as people and teams | as people and teams |
| **Time windows** `domains/time_windows` | bounds and status | create, update | two updates each move a bound | close after open |
| **Constraints, readiness** `services/constraints`, `readiness` | constraints, which nothing writes | evaluate check by check | every check is a query; loaded objects go stale | no finding that never held, none missed that always did |
| **Dependencies, impact** `services/dependencies`, `impact` | edges, which nothing writes | traverse, evaluate | cycles, loops, parallel edges, depth limit | names what is within the depth, once, at its distance |
| **Timeline** `domains/operations/timeline.py` | none | read five tables, match events with audits, sort | commits between queries; heuristic matching | every row shows once; an operation shows whole |
| Resource runway `inventory/runway.py` | none | days of supply | zero consumption | margins |
| Control tower views, scenarios | none | read; call other services | | |
| **Event store, audit log** `platform` | append-only tables | append | written with the operation's transaction | tell what was committed |
| Visitor sessions | a bounded map behind a lock | start, heartbeat, end | expiry, e-mail after the lock | one summary per session |

Interactions. An escalation calls propagation, which calls the location, asset,
inventory and transport services; a leg's delay calls the cargo service in its
own transaction. Escalation and operators create replans; an approved
recommendation changes missions, legs, people and teams through their services.
The outbox posts batches to the sync service, acknowledges the incident an
operation is about, and PATCHes the operation's record. All of it appends events
and audit entries in the transaction of the operation; only the timeline reads
them back. The control tower's evaluations (safety, readiness, impact) write
nothing, but decide what operators see: they read the records of most other
components, query by query, while those components commit.

`PROJECT.json` lists the components with their sources and the hazards at their
lines.

## 3. Modules and the code they model

### Replanning, ApprovalBoundary

`Replanning` models `replanning/service.py` and `router.py`. `replan`,
`recStatus`, `approvalState` and `approvals` are committed columns and rows;
`req[s]` is what request `s` holds in memory. `CreateReplanRequest` and
`GenerateOptions` put the rows there. A decision is two commits, the PENDING
record and the decision: `RequestApproval` takes the place in the order of
`created_at` (`issued`), `Decide` assigns whatever status the request *read*
required. An application is `BeginApply` (idempotency check, approval check),
then one `RunDomainService` for each commit of the domain services (none for an
asset reassignment, one or two for personnel), then `FinishApply` or
`FailApply`. `AbortRequest` is a worker that dies or a request that ends with
an exception outside the handlers.

`ApprovalBoundary` is the abstract promise: an operational change happens only
for what an operator has authorized. `ImplementsBoundary` is the refinement,
with `authorized` the recommendations ever approved and `changed` those with a
committed domain change.

### OutboxSync

One action per stretch of `replayQueuedBatch` between two awaits: `Gather`,
`MarkSyncing`, `PostBatch`, `ReceiveResults`, then for each operation
`GetRecord`, `Acknowledge`, `PatchApplied`, `SettleOperation`, and the two
failing paths `MarkFailed` and `FailOperation`. `StartReplay` has the guard of
the function; the flag goes up only after the first await, so two replays can
both be past it. The server takes a batch operation by operation
(`LookUp`, `Insert`, `EndBatch`) and goes on after the client has given up
(`LoseBatch`). `Reload` clears all but the store. Where `MayReject` holds, any
request to the store may be rejected: `RejectGather` ends a replay before it has
raised the flag; `RejectMark` ends one in the marking loop, outside the `try`, and
leaves the flag as it is; `RejectSettle` and `RejectFail` go on to the catch block
that applies, and `RejectError` ends the replay in the last of them, with the flag
lowered (`EndReplay`). A write that is rejected before a replay changes nothing, and
`ClearApplied` deletes up to the first rejection.

### IncidentResponse, DomainTransitions

`IncidentResponse` joins transitions, propagation and escalation, because the
three race on the same rows. `Verdict` is the outcome of one reference, by kind
of target; `SkipReference` and `ApplyReference` take the references one after
another, the latter committing the domain change; `FinishPropagation` writes the
records. `BeginEscalation`, the propagation, `CheckReplan` and `RequestReplan`
are an escalation. `OperatorChanges` is what else happens to a target, and
`ReplanMoves` what becomes of a replan. A transition to the status an incident has
already is accepted, for CLOSED too: it merges metadata and is filed like any other
(`closings` counts the IncidentClosed events, each with its audit). What a merge
gives is any member of `Metadata`. `DomainTransitions` holds the transition
tables of the domains, used by four modules.

### InventoryLedger

One lot: `lot` is the row, `ledger` the sum of the entries per type,
`request[k]` holds the row a request has read and the one it is to write.
`BeginBooking` is read and check, `CommitBooking` writes changed columns under
the CHECK constraints (`Fits`) and appends the entry.

### AssetMaintenance

One asset and its orders. The operations on an order read the order and then the
asset (`BeginOrder`, `ReadAsset`); scheduling reads the asset and then looks for
active orders (`BeginSchedule`, `CheckActive`); `Commit` writes the changed
columns of both. The lock of the search needs no state: when it finds an order
to lock, the request ends with a conflict.

### CargoTransport

Legs, consignments, the manifest. A delay reads and checks the leg
(`BeginDelay`), writes it, which locks it (`Locked`), and lists the cargo
(`ListCargo`), then writes every consignment and commits (`CommitDelay`).
Updates and assignments are a read and a commit each. Times are days, so the
thresholds of the risk, 48 and 120 hours, are 2 and 5.

### ReplanningHistory

`Replanning` with one history variable, `overlapped` (two requests have been in
flight at once), for what holds only as long as requests come one at a time.

### History variables

`stale` (a request has committed on an outdated read), `overlapped` (two
requests have been served at once), `effects`, `executed`, `issued`, `begun`,
`opening`, `drawn`, `served`, `jammed` (a rejected marking write has left the flag
raised) and `abandoned` (operations a rejection left in SYNCING) record what happened; no guard of the code's
behaviour reads them, apart from the bounds named below.

### Campaign

People, teams, missions, expeditions and time windows: five services of one
shape. `rows` is the table of all records; `told` is what the latest events say
of a record's status columns. `CreatePerson` ... `CreateTimeWindow` check and
insert at once (an insert does not meet another; the foreign key refuses a record
of an expedition that is not there). `UpdatePerson` ... `UpdateTimeWindow` read
the record, check the request against it (`PersonAccepted`, ...) and keep what
they have read; `Commit` writes the columns that differ from it and appends the
events (`Said`). `Addition` and `Ask` are the requests that may come.

### PersonnelSafety, ConstraintRules, DependencyGraph

Operators. `Findings` of the five rules over the rows it is given, and the
`Posture` they add up to. One evaluator for each rule of `RULE_REGISTRY`, over
the campaign and the `supply` (assets, cargo, lots, documents, legs, each with a
few rows it may have); an evaluator gives the *set* of answers, because two rules
take the first window of a query without an order. `TraverseGraph` is the
breadth-first search as a recursive function over its queue, `Ball` the
definition it is compared with.

### Oversight

Composes the four: one evaluation (`review`) runs while the campaign and the
supplies change. `BeginSafety`, `ReadTeams`, `ReadMissions` are the three queries
of personnel safety. `BeginMission`, `BeginExpedition` and `BeginImpact` set the
agenda of checks, `MakeCheck` makes the next one: it reads the current rows,
except for the objects the session still holds, which keep the columns they were
loaded with (`HeldAfter`: SQLAlchemy's identity map refers to them weakly, so
they last as long as a local variable does). `may`, `must`, `moments`, `touched`
and `shifted` are history: what was possible, and what was certain, in each state
since the evaluation began.

### Timeline

`Delay`, `Update`, `Propagate` and `Enqueue` are the rows that four services
write, flushed by `Write` and visible after `Commit`, in any order. `GetTimeline`
and the four `Fetch...` actions are the queries. `Unify` matches: each event,
newest first, takes the newest audit with its correlation and record, else one of
its record within two seconds that leaves the status it reports.

## 4. Runs

Every bound is a constant of the module or a set given in the `.cfg`.
Deadlock is not checked: in each model everything may be done and nobody asks
for more.

| Run | Instance | Properties |
|---|---|---|
| `replanning` | 2 sessions, 2 competing recommendations of 1 replan (a personnel reassignment with two domain commits, an asset swap with none), 2 decisions and 3 applications each | `HumanBoundary`: no domain change without an approval. `StatesRestOnDecisions`, `ReplanRestsOnRecommendation`: no interleaving leaves a status nothing supports. `ImplementedWasExecuted`: the trail never runs ahead of the changes. `ExecutionsBounded`: at most one execution per session and decision. `ExecutionsWithinApprovals`, `LatestDecisionShown`: while requests come one at a time, retries and crashes never spend an approval twice, and the decision shown is the one acted on. `ImplementsBoundary` |
| `outbox` | 2 operations on 1 incident, 2 replays, with reloads and rejected requests to the store | `NoOperationLost`: nothing is shown as reconciled that the server has no record of. `NothingElseStrands`: nothing but a reload, or a store that rejects the marking of an operation or the writing of FAILED in the last catch block, leaves an operation in SYNCING behind, however replays and failures overlap |
| `outbox_live` | 1 operation, 2 replays, other clients and operators, rejected requests to the store, no reload | `SyncingReleased`: the flag comes down again on every path but a rejected marking write. `NothingStaysSyncing`: an operation in SYNCING is settled, unless one of those two rejections has abandoned it |
| `outbox_reload` | as `outbox`, with a store that rejects nothing | *violated*: `SurvivesReload` |
| `inventory` | 2 sessions, amounts 1 and 2, a lot on order and one partly reserved and damaged, up to 2 units per ledger type | `LedgerBalanced`, `NoPhantomStock`, `NoNeedlessRefusal` |
| `inventory_overreserved` | as `inventory` | *violated*: `ReservationsCovered` |
| `incident` | 2 sessions, 1 incident of any severity but LOW, a location, a lot (short of stock) and a leg of which it references up to 2; two values of the metadata; 3 requests | `StampedStatus`, `AppliedIsTruthful`, `ReplanRestsOnPropagation`, `NoSecondEscalation`. `ClosedIsFinal`: while requests do not overlap, a closed incident changes in its metadata alone, and only with one more closing on file |
| `incident_delayed` | 1 session, targets of all five kinds, 4 requests | *violated*: `DelayedOnce` |
| `assets` | 2 sessions, 3 orders, 2 places, requests to make the asset AVAILABLE or RETIRED | `CompletedWasDone`, `OverlapBounded`, `NoOverlapUnlessStale`, `EndsAreFinal` |
| `cargo` | 2 sessions, 1 leg, 1 consignment, days 1 and 3 | `RiskIsCurrent`, `SettledCargoIsFinal`, `DelayReachesManifest` |
| `oversight` | 2 updates at a time over 11 records of 2 expeditions, 7 supplies, 13 constraints (one or more per rule, one inactive, one of no rule), two databases and two tables of dependencies to start from, 5 evaluations, 2 commits | `SameExpedition`: whatever is created and linked concurrently, members, leaders and missions of a team are of its expedition. `LatestEventIsTheStatus`: overlapping updates never leave an event trail that misleads. `StatusesMoveLawfully`. `SafetyVerdictOfAMoment`: three queries give a posture the expedition had. `ReviewBounded`: a review of many queries reports what holds throughout, and nothing that never holds. `ImpactIsTheBall`: the search against its definition, from every record, in every direction, at depths 0 to 6 |
| `timeline` | a leg, its consignment, an incident; 2 operations, within or beyond 2 seconds, under one correlation or two | `EachRecordOnce`, `OperationsShownWhole` |

Why these bounds are enough. The hazards are races of two requests and failures
between two commits of one: two sessions (or replays) and one more object than they
can hold at once let each happen. A third session repeats a race of two.
Recommendations compete in pairs; `MaxApplies` is one more than the sessions, so
that an application can follow two overlapping ones. Three orders are one more than
the overlap bound allows. Amounts of 1 and 2 on a lot of 2 units reach both sides of
each check; `OutboxSync`'s `MaxBatch` equals the operations of the run, so that a
batch holds several; the refusal of a longer one takes the path of a lost batch
(`MarkFailed`) and is not reached. Days 1 and 3 put the margin at 2, 0 and -2 days:
on both sides of the deadline and at each end of the ELEVATED band; the 5-day
threshold is not reached. The state spaces are exhausted (up to 8 million states).
Two commits during an evaluation suffice to change two things it reads in either
order; with one update pending, they also let a request commit on an outdated read.
The first table of dependencies is a tree, the second has a cycle, a loop, parallel
edges and a chain longer than the greatest depth. A timeline goes wrong when a
second operation comes close to the first; a third would be one of those two to each
of the others. Symmetry is used for sessions, replays and orders, in the runs
without liveness properties.

Each property of a passing run has a mutant: a plausible slip in one definition
(`<Definition>_<Slip>`, kept next to it) under which TLC finds the property
violated.

**Fairness.** Only `outbox_live` assumes any: weak fairness of `ReplayStep(k)`,
the continuation of a replay that is waiting. The JavaScript event loop resumes
a settled promise; `fetch` and the requests to IndexedDB settle with an answer or
an error (`LoseBatch` and the `Reject...` actions are among the steps;
`api/client.ts` puts no limit on the wait, so "settles" is the browser's promise,
not the code's). Nothing is assumed of
operators, of connectivity or of the server.

### What the code does not do (the violated runs)

- `SurvivesReload`: a reload in mid-replay leaves operations in SYNCING, which
  `getQueuedOperations` does not select and no button retries
  (`outboxStore.ts:8` promises survival of a reload).
- `ReservationsCovered`: two reservations on one read are both accepted and the
  second overwrites the first (`inventory/service.py:374`, 389).
- `DelayedOnce`: each propagation delays a transport leg again
  (`propagation.py:109` guarantees idempotency; 743 adds to the time it finds).

### Observed while modelling, not run

- `apply` promises a stable result for an applied recommendation "without
  re-executing" (`replanning/service.py:971`). Two apply requests in flight both
  pass the check at line 1159, and the second runs the domain services after the
  first has finished. `ExecutionsBounded` is what remains true of concurrent
  requests, `ExecutionsWithinApprovals` of successive ones.
- `generate_options` sets OPTIONS_READY whatever the replan's status
  (`replanning/service.py:912`, `states.py:71` "Terminal"); a rejection after the
  approval check does not stop an application (`router.py:236`).
- The acknowledgement's failure is swallowed, a lost request included: the
  operation is APPLIED and the incident OPEN (`syncManager.ts:216-217`). After an
  IntegrityError the rest of a batch fails, as the session is not rolled back
  (`sync/service.py:154`, and 138 "to prevent one failure poisoning the batch").
  The flag is lowered by whichever replay ends first (`syncManager.ts:176`).
- An IndexedDB write that is rejected in the marking loop (`syncManager.ts:181-183`)
  ends the replay outside its `try`: the flag stays raised, so the "Automatic replay
  upon connectivity restoration" (`syncManager.ts:10`) does nothing until a reload,
  and what was marked stays in SYNCING. Rejected in the inner catch block (244), a
  write sends the replay to the outer one, which marks operations FAILED that were
  settled as APPLIED; rejected there (288), it leaves the rest in SYNCING. The
  properties name these exceptions (`jammed`, `abandoned`) and show that there are
  no others.
- A CLOSED incident may be closed again (`incidents/transitions.py:47`): its
  `operational_metadata` and `updated_at` change and another IncidentClosed is filed
  (`incidents/service.py:319-380`), although `update_incident` enforces "terminal
  CLOSED immutability" (204).
- A second propagation overwrites APPLIED by SKIPPED, so a third quarantines
  stock again (`propagation.py:848`). A later HIGH propagation loosens what a
  CRITICAL one set. Closing an incident does not stop a propagation under way, a
  concurrent transition reopens it, and two concurrent escalations insert two
  replans (`incident_escalation.py:77` "Idempotent").
- A CONSUMED lot that is refilled stays CONSUMED; `reserve_stock` and
  `issue_stock` do not look at the status.
- Two concurrent `schedule_maintenance` both insert (`assets/service.py:400`
  "Prevents overlapping active maintenance"). OVERDUE is never set and would not
  count as active. `complete_maintenance` with target RETIRED sets no
  `retired_at`. A stale request brings a retired asset back.
- Cargo assigned to a leg after its delay does not get the leg's time of arrival;
  `update_transport_leg` propagates none; a consignment on two legs has that of
  the last delay; `released_at` is never set, so arrived and lost consignments
  stay on the manifest.
- People, teams, missions: two concurrent updates of one record both write, so a
  completed mission (`missions/transitions.py:16`, "Terminal state") can come back and a
  window's event can repeat a status that is no longer there. DISBANDED, which
  rules look for, is no team status. Where a team's or a leader's expedition
  differs, `people/service.py:67` and 184 format `team.team_code`, which the
  model lacks (its column is `code`): the request fails by an AttributeError
  instead of a validation error, so it is refused all the same.
- Safety: when two of the three tables change between its queries, the posture
  can be one that never held; hence the premise of `SafetyVerdictOfAMoment`.
- Readiness: if a person who may not be deployed moves from a team not yet
  checked to one that was, or the deadline of a mission moves, a review
  can answer READY although the mission was never ready; hence `shifted`.
  Missions that are cancelled or completed still block their expedition.
- Constraint rules: none of the statuses `rules.py:214` takes for unserviceable
  is a status an asset can have, so a quarantined or retired asset passes;
  `max_unserviced_hours` is compared with a parameter of the constraint, never
  with the asset's hours; quarantined and damaged stock counts as available;
  capacity is never evaluated. No service writes constraints or dependencies.
- Timeline: the fallback is meant for rows that lack a correlation
  (`timeline.py:537`, "Only if correlation_id was missing on either side"), but is
  tried whatever the correlations are: the event of a consignment's delay takes
  the audit of an unrelated edit of it within two seconds, and that edit's own
  event is shown without an audit. Hence `Alone` in `OperationsShownWhole`.

## 5. Proofs

Eight modules, `<Module>_proofs`, hold the theorems of `Replanning`,
`InventoryLedger`, `CargoTransport`, `AssetMaintenance`, `OutboxSync`, `Oversight`
(with those of `Campaign`), `IncidentResponse` and `Timeline`. They hold for all
records, sessions, targets, quantities, days and bounds that satisfy the ASSUMEs on
the constants: constants have their types (`ReplanOf`, `ActionOf`, `TargetOf`,
`Kind`, requested statuses, amounts, days); opening rows are rows of their table,
and in an opening database of `Campaign` links stay within an expedition; `None` is
no record, the five kinds of records are disjoint, and no record, supply and
constraint share an id (they are UUIDs); missions and constraints are finitely many,
and a table of dependencies is a finite sequence of edges between records, supplies
and places; operations of the outbox are finitely many naturals, by age; a timeline's consignments are finitely many;
requests served at once are finitely many, where they are counted (`Replanning`,
`AssetMaintenance`, `IncidentResponse`). TLC evaluates them on every run. Each proof
has an inductive invariant that is stronger than the properties, because a request
in flight acts later on what it has read; the strengthening says what remains true
of that.

**Replanning, the boundary.** `HumanBoundary` is not inductive: an
application in flight changes records on the strength of an approval it has seen
earlier, so the invariant has to say that this approval is still on record
(`AppliesWereApproved`), which holds because decisions are never deleted
(`DecisionsStay`). `ImplementedWasExecuted` needs in the same way that an
application with no domain commit left has made at least one (`AppliesDidWork`).
`ReplanningInv` is the conjunction of those with `StatesRestOnDecisions` and
`ReplanRestsOnRecommendation`; one lemma per action shows that it is kept.
`BoundaryImplemented` then shows that initial states map to initial states and that
each step is an authorization (only `Decide` makes one), an authorized change (only
`RunDomainService`, or the flush that `FailApply` leaves, for something approved)
or a stutter.

**Replanning, executions.** `ExecutionsBounded` counts. `Numbered` says that
approval records, those about to be decided included, have different places in the
order, so that a decision adds a record (`DecideSpends`). `Spent` is the budget: a
decision pays for one execution per session; while the recommendation is
IMPLEMENTED the executions made and the applications in flight are within it, and
before that a whole round of sessions still fits, so that any number may begin.
`ApprovalIsSpentOnce` and `ShownIsLatest` are about
`HistorySpec`, which `HistoryIsReplanning` shows to be an implementation of
`Spec`. `OneAtATime` is their strengthening: at most one request is served
(`FewerThanTwo` gets that from the cardinality that `Overlap` looks at), it decides
the last record created or applies what is shown as APPROVED, a recommendation
shows its latest decision, and an approval that is shown has not been spent.

**Inventory.** `TypeCorrect` shows that no quantity falls below zero, whatever
requests overwrite: a stale request may write only columns it changed, each a
natural number. `IInv` adds that the row satisfies the CHECK constraints
(`Fits(lot)`), `NoPhantomStock`, `LedgerBalanced`, and for each request in flight
that it is `Sound`: what it will write differs from what it has read by exactly
its quantity, and its bounds rest on what the ledger contained at the read, which
only grows (`SoundStays`). `CommitIsBacked` carries that to the row,
`PhantomFree` holds with stale writes and `Balanced` without. `ChecksSuffice`
shows that a request accepted on a current read passes the CHECK constraints.

**Transport and cargo.** `RiskIsCurrent` is not inductive: an update in flight
holds the row it will write. `CargoInv` adds the type invariant and that this row
is `Coherent`: its risk is that of its own columns, and its status is the one it
has read or a successor. A write on a current read replaces the row by it
(`CargoWritten`); a delay computes the risk before the status, which
`RiskIgnoresStatus` shows to make no difference for consignments that may still
arrive. `RiskCurrent` follows; `SettledFinal` and `DelayReaches` are action
properties proved from the same invariant, the latter with `CriticalIsLate`.

**Assets and maintenance.** Writing changed columns mixes the status of one
request with the dates of another; `CompletedIsDone` holds since a request never
drops a date it has read, and rows never lose one (`Backed`). `OverlapBounded` is
not inductive, as orders that are not active yet may become so: `Impending` adds
those that a request in flight is about to activate, each with a session of its
own to pay for it, and it is `Impending` that never outnumbers the sessions.
`OverlapNeedsStale` and the action property `EndsStay` use that a request that
commits while nobody has been stale writes on the rows it has read.

**Offline outbox.** `ReconciledIsRecorded`: a replay settles what it believes
the server to have registered, and that belief is formed in `ReceiveResults`, from
a batch the server took operation by operation. `Informed` follows it
from there: what is taken out of a batch is recorded or refused, what the client
holds after the answer and was not refused is recorded, and records stay
(`Grows`). `ReplaysLetNothingGo` proves the action property `NothingElseStrands`:
with `Shaped`, which says what a replay holds at each await, no step but a reload and
the two rejections that end a replay lets go of an operation in SYNCING.
`RaisedFlagIsHeld` is the safety part of `SyncingReleased`: while the flag is up, a
replay that will lower it is under way, or a rejected marking write has jammed it. The loops take the oldest operation; that
there is one (`OldestIsThere`) rests on the order of the naturals being well
founded.

**Campaign and oversight.** A link is checked on one read and written later, after
the record and its counterpart may have been updated. `InFlight` says that a link
asked for fits still: records stay and keep their expedition (`RecordsStay`), so
`SameExpedition` needs no lock. `EventsTellTheStatus` and `LifecyclesAreKept` come
from the same invariant. `ImplementsCampaign` shows that every step of `Oversight`
is a step of `Campaign` or leaves its variables alone, so that what is proved of the
services holds while evaluations read them. `PostureOfAMoment`: `Consistent` says,
for each of the three queries still to come, that the rows read so far together
with the current rows of the other tables give the findings of a moment, as long as
at most one table has changed. It rests on `SameExpedition`: a team is judged
alike on all rows and on those of its expedition (`TeamJudgedAlike`).

**The search of an impact.** `SearchFindsTheBall` is about `TraverseGraph` for every
table of edges, root, direction and depth. The loop and the ball are recursive
functions, about which a definition alone says nothing: that such a function exists
is shown first, for any recursion on which a measure decreases (`RecursiveExists`: a
least bound up to which there is none cannot be). The measure of the loop is what is
unvisited together with what is queued (`ExpandShortens`), finite because an edge
list names finitely many records (`NodesAre`). `Searched` is the loop invariant: the
depths in the queue are in order and differ by at most one, whatever was found has
its distance, and a visited record that is no longer queued has had its neighbours
visited. `SearchedAnswers` reads the answer off an empty queue; the least measure at
which the loop answered wrongly would have a smaller one (`LoopAnswers`).
`ImpactIsTheBall` follows, as nothing writes the dependencies
(`NextKeepsDeps`).

**Readiness and impact evaluations.** `EvaluationInvariant` carries `Followed`
through every step. (1) The agenda is what is left of the topics: `MissionAgendaIs`,
`ExpeditionAgendaIs` and `ImpactAgendaIs` show that the agendas the services build,
with their concatenations and flattenings, name what the declarative `Topics` asks
for and nothing else; the last of them uses the search. (2) `Fair`: what each topic
can be found to be now is in `may`, and what `must` says of it is found in every
report, since a finding tells which check it comes from (`OneCheck`). (3) What is
held is true of the database but for readiness (`HeldIsTrue`), and that stale
readiness is excused by a moment that has been seen (`HeldIsFair`): a held member who
is unready put its team's blocker into `may`, and held members who are all ready took
it out of `must`. `CheckIsFair` shows that a check on stale members stays within both
bounds, `HeldAfterIsFair` that what it leaves loaded does, `ObserveFollowed` that a
commit does, which is where records stay (`RecordsRemain`) and `shifted` are needed.
`VerdictIsBounded` draws the verdict from the report.

**Incidents.** `ResponseInv`: timestamps are columns that a transition sets and
none clears, so the row has every timestamp that a request in flight has read
(`SoundWrite`), and `StatusIsStamped` follows although two transitions on one read
overwrite each other's status. `Backed` is `AppliedIsTruthful` with the
propagations in flight counted: records that say APPLIED, plus requests that
hold such a result and have not filed it, are no more than the domain changes
made; so a crash between the domain commit and the record can only lose a record.
`ReplanIsFounded` uses that a propagation has a result for each reference it has
handled and that records stay. `Serial` says that, as long as requests have not
overlapped, the one being served acts on current rows: from it come the action
properties `EscalationIsIdempotent` and `ClosedStays`; for the latter
`SoundWrite` says that a request which read CLOSED writes nothing but metadata
(`Annotates`), which its commit files as a closing.

**Timeline.** `Merged` matches the events it is given one by one, by a recursive
function on sets of events, and everything shown rests on its result. The induction
rules cannot be used for it; but a set of events that has no such function, or for
which the function returns something else than a matching, would have a smallest
number of elements, and without its oldest event it would be smaller still
(`MatchingExists`, `MergedMatches`). `Matched` is what a matching is: no event and
no audit twice, each audit correlated with its event or close to it, and of an event
and an audit that are correlated at least one is matched. `RowsAreShownOnce`
follows. `OperationsAreWhole` needs in addition that the audits of an operation
whose event was read are read too: `Collected` has it from the order of the queries,
since an operation is committed as a whole and stays so.

**Model-checked only.** The liveness properties of `OutboxSync`
(`SyncingReleased`, `NothingStaysSyncing`), as liveness and ENABLED are beyond the
prover, and the three violated properties, which TLC refutes. Every other property
of a run is a theorem. The modules use no RECURSIVE operator.

## 6. Abstractions, and what is not modelled

- Free text, names, codes, audit entries and events: nothing decides on them.
- `generate_options` is modelled by the rows it leaves: which options are composed,
  how they are scored and ranked is left out.
- An exception between the final commit of an application and its answer
  (`replanning/service.py:1377-1384`, which puts the answer together) would mark an
  applied recommendation FAILED; it is not modelled.
- The outbox's read and write of one record is one step, as is a PATCH on the
  server. Removal of single records, listeners and the store in memory, used when
  the database cannot be opened, are left out.
- `updated_at` columns, which every write sets and nothing decides on.
- In `IncidentResponse` a domain service call is one step;
  `InventoryLedger`, `AssetMaintenance` and `CargoTransport` take such calls apart.
- Inventory items (master data), `update_asset`, cargo packages, windows and
  capacities of legs, the hierarchy of locations.
- In `Oversight` the evaluation of one constraint is one step, although a rule may
  make several queries (`MISSION_RESOURCE_REQUIRED`, `rules.py:187-256`: one for the
  asset it names and one for each requirement); descriptive fields, evidence and wording of findings are
  left out. Dates are small numbers, and `NoDeadline` stands for NULL.
- `Timeline` has four writers, the record types leg, consignment and incident,
  and no filters, order or pages, which select from the entries it puts together.
  `Related` leaves out what an incident is related to through its propagations and
  references.
- Control tower views and scenario injection keep no state; visitor sessions stand
  apart from the operations.
- An order never becomes OVERDUE: no code sets it.
- Components without bold type in section 2, and the web pages, which render
  answers and send the requests modelled here.

## 7. Plan

Built, in this order: `Replanning` with `ApprovalBoundary` and its proofs (the
control boundary is the system's central promise); `OutboxSync`;
`InventoryLedger` and its proofs; `IncidentResponse` over `DomainTransitions`;
`AssetMaintenance` and `CargoTransport` over `Rows`, with the proofs of the
latter; `Campaign`, then `PersonnelSafety`, `ConstraintRules` and
`DependencyGraph`, composed in `Oversight`; `Timeline`.

Next, by what a failure would cost:

1. `ReplanOptions`: generation and ranking of options, so that `GenerateOptions`
   gets its content; ties and exclusions; `apply` composed with `Campaign`.
2. `VisitorSession`: the bounded map, expiry and the summary sent once.
3. Cargo packages; two legs sharing a consignment; the runway with its zero cases.

Abstract specifications worth stating: a serial ledger that `InventoryLedger`
implements while no write is stale; "recorded at most once" for the sync queue.

Theorems worth proving next: that `OversightInv` and `EvaluationInvariant` hold
together for several evaluations at once, and whatever item 1 of this list promises.

------------------------------ MODULE Timeline ------------------------------
(***************************************************************************)
(* The operational timeline of a record (domains/operations/timeline.py):  *)
(* the events, audits, incident propagations and offline operations about  *)
(* it and, if asked for, about its neighbours, where an event and the      *)
(* audit of the same operation are shown as one entry.                     *)
(*                                                                         *)
(* The rows are written by the services of all domains, several in one     *)
(* transaction, and read by one query per table: what commits between two  *)
(* queries is in the later tables only.  Modelled writers: delays of a     *)
(* leg, updates of a consignment, propagations of an incident and          *)
(* operations queued offline.                                              *)
(***************************************************************************)
EXTENDS Integers, FiniteSets, Sequences

CONSTANTS
    Leg, Consignment, Incident,
    Manifest,       \* [Leg -> the consignments assigned to it]
    Reference,      \* [Incident -> the leg it refers to]
    MaxRequests,    \* bound: how many operations are followed
    MaxTime         \* bound: how many seconds they take

Entity == Leg \cup Consignment \cup Incident

ASSUME RelationAssumption ==
    /\ Manifest \in [Leg -> SUBSET Consignment]
    /\ Reference \in [Incident -> Leg]
ASSUME ConsignmentAssumption == IsFiniteSet(Consignment)
ASSUME BoundAssumption == MaxRequests \in Nat /\ MaxTime \in Nat

VARIABLES
    now,            \* seconds
    status,         \* [Consignment -> its status]
    operations,     \* number of a request -> what it writes, when, and whether it committed
    reading         \* the timeline being put together

vars == <<now, status, operations, reading>>

(* Statuses of a consignment between its dispatch and its arrival. *)
Status == {"IN_TRANSIT", "DELAYED"}

-----------------------------------------------------------------------------
(* What a request writes.  The state an event carries is compared with the   *)
(* status in an audit's after_snapshot: a level of risk equals no status.    *)
EventOf(x, state, nr) == [entity |-> x, state |-> state, nr |-> nr]
AuditOf(x, after) == [entity |-> x, after |-> after, nr |-> 0]

(* record_transport_delay: the leg's event and audit; each consignment gets  *)
(* an event with its risk and, if its deadline is breached and it was not    *)
(* delayed yet, one with its status, but no audit of its own.                *)
Delay(l, breach) ==
    [events |-> {EventOf(l, "DELAYED", 1)}
                \cup {EventOf(c, "RISK", 2) : c \in Manifest[l]}
                \cup {EventOf(c, "DELAYED", 3) :
                          c \in {d \in Manifest[l] : breach /\ status[d] = "IN_TRANSIT"}},
     audits |-> {AuditOf(l, "DELAYED")},
     others |-> {}]

(* update_consignment: events for what changed, one audit in any case. *)
Update(c, after, eta) ==
    [events |-> (IF after = status[c] THEN {} ELSE {EventOf(c, after, 1)})
                \cup (IF eta THEN {EventOf(c, "RISK", 2)} ELSE {}),
     audits |-> {AuditOf(c, after)},
     others |-> {}]

(* propagate_incident, once the delay of its leg has committed: an event     *)
(* with the state of the leg, an audit of the counts, the record itself.     *)
Propagate(i) ==
    [events |-> {EventOf(i, "DELAYED", 1)},
     audits |-> {AuditOf(i, "NONE")},
     others |-> {[kind |-> "propagation", about |-> {i, Reference[i]}]}]

(* An operation queued offline on a consignment. *)
Enqueue(c) ==
    [events |-> {}, audits |-> {}, others |-> {[kind |-> "offline", about |-> {c}]}]

-----------------------------------------------------------------------------
(* A row on a timeline, named by its operation and its content. *)
Rows(i, table) == {[by |-> i, row |-> w] : w \in operations[i].writes[table]}

Committed(table) ==
    UNION {Rows(i, table) : i \in {j \in DOMAIN operations : operations[j].committed}}

CorrelationOf(r) == operations[r.by].correlation
TimeOf(r) == operations[r.by].at

TwoSeconds(i, j) ==
    /\ operations[i].at - operations[j].at <= 2
    /\ operations[j].at - operations[i].at <= 2

(* occurred_at: the order of the operations and of the rows of each. *)
Later(r, s) == r.by > s.by \/ (r.by = s.by /\ r.row.nr > s.row.nr)

Newest(S) == CHOOSE r \in S : \A s \in S : ~Later(s, r)
Oldest(S) == CHOOSE r \in S : \A s \in S : ~Later(r, s)

(* _discover_related_entities: one hop along the manifests. *)
Related(x) ==
    IF x \in Leg THEN Manifest[x]
    ELSE {l \in Leg : x \in Consignment /\ x \in Manifest[l]}

Targets(q) == {q.of} \cup IF q.related THEN Related(q.of) ELSE {}

-----------------------------------------------------------------------------
(* _deduplicate_and_unify. *)

(* The audits with the event's correlation and record. *)
Correlated_AnyRecord(e, audits) ==
    {a \in audits : CorrelationOf(a) = CorrelationOf(e)}

Correlated(e, audits) ==
    {a \in audits : CorrelationOf(a) = CorrelationOf(e) /\ a.row.entity = e.row.entity}

(* The fallback, whatever the correlations are: an audit of the same record  *)
(* within two seconds that leaves the status the event reports.              *)
Nearby(e, audits) ==
    {a \in audits : /\ a.row.entity = e.row.entity
                    /\ TwoSeconds(a.by, e.by)
                    /\ a.row.after = e.row.state}

(* The audits an event can still be given. *)
Candidates_Reused(e, audits, pairs) ==
    LET own == Correlated(e, audits \ {p.audit : p \in pairs})
    IN  IF own # {} THEN own ELSE Nearby(e, audits)

Candidates(e, audits, pairs) ==
    LET free == audits \ {p.audit : p \in pairs}
        own  == Correlated(e, free)
    IN  IF own # {} THEN own ELSE Nearby(e, free)

(* The event takes the newest audit left to it, if there is one. *)
Match(e, audits, pairs) ==
    LET mine == Candidates(e, audits, pairs)
    IN  IF mine = {} THEN pairs ELSE pairs \cup {[event |-> e, audit |-> Newest(mine)]}

(* Events are matched one by one, newest first. *)
Merged(events, audits) ==
    LET merged[E \in SUBSET events] ==
            IF E = {} THEN {} ELSE Match(Oldest(E), audits, merged[E \ {Oldest(E)}])
    IN  merged[events]

(* The entries of the timeline, as the rows each of them shows. *)
Unify(events, audits, others) ==
    LET pairs == Merged(events, audits) IN
        {{p.event, p.audit} : p \in pairs}
        \cup {{e} : e \in events \ {p.event : p \in pairs}}
        \cup {{a} : a \in audits \ {p.audit : p \in pairs}}
        \cup {{o} : o \in others}

-----------------------------------------------------------------------------
NoReading == [phase |-> "idle"]

Init ==
    /\ now = 0
    /\ status = [c \in Consignment |-> "IN_TRANSIT"]
    /\ operations = << >>
    /\ reading = NoReading

(* Time passes in steps of two seconds. *)
Tick ==
    /\ now < MaxTime
    /\ now' = now + 2
    /\ UNCHANGED <<status, operations, reading>>

(* A service flushes its rows: under a correlation of its own or, if the     *)
(* caller names one, under that of an earlier request.                       *)
Write(w) ==
    LET n == Len(operations) + 1 IN
    \E c \in {operations[i].correlation : i \in DOMAIN operations} \cup {n} :
        /\ n <= MaxRequests
        /\ operations' = Append(operations,
              [writes |-> w, at |-> now, correlation |-> c, committed |-> FALSE])
        /\ UNCHANGED <<now, status, reading>>

DelayLeg(l) == \E breach \in BOOLEAN : Write(Delay(l, breach))
UpdateConsignment(c) == \E after \in Status, eta \in BOOLEAN : Write(Update(c, after, eta))
PropagateIncident(i) == Write(Propagate(i))
EnqueueOperation(c) == Write(Enqueue(c))

(* The status of a consignment after the events of w. *)
StatusAfter(c, w) ==
    LET changes == {e \in w.events : e.entity = c /\ e.state \in Status}
    IN  IF changes = {} THEN status[c] ELSE (CHOOSE e \in changes : TRUE).state

(* Its rows become visible; a request that fails instead never commits. *)
Commit(i) ==
    /\ ~operations[i].committed
    /\ operations' = [operations EXCEPT ![i].committed = TRUE]
    /\ status' = [c \in Consignment |-> StatusAfter(c, operations[i].writes)]
    /\ UNCHANGED <<now, reading>>

(* GET /operations/timeline/{type}/{id} for a record that exists, with its   *)
(* neighbours or without.  One query per table follows.  Readings change     *)
(* nothing, so one of them is followed.                                      *)
GetTimeline(x, related) ==
    /\ reading.phase = "idle"
    /\ reading' = [phase |-> "events", of |-> x, related |-> related,
                   events |-> {}, audits |-> {}, others |-> {}]
    /\ UNCHANGED <<now, status, operations>>

(* What has been read, and the table to be read next. *)
Fetched(next, events, audits, others) ==
    [phase |-> next, of |-> reading.of, related |-> reading.related,
     events |-> events, audits |-> audits, others |-> others]

AboutTargets(table) == {r \in Committed(table) : r.row.entity \in Targets(reading)}

FetchOperationalEvents ==
    /\ reading.phase = "events"
    /\ reading' = Fetched("audits", AboutTargets("events"), {}, {})
    /\ UNCHANGED <<now, status, operations>>

FetchAuditLogs ==
    /\ reading.phase = "audits"
    /\ reading' = Fetched("propagations", reading.events, AboutTargets("audits"), {})
    /\ UNCHANGED <<now, status, operations>>

AboutPrimary(kind) ==
    {r \in Committed("others") : r.row.kind = kind /\ reading.of \in r.row.about}

(* The propagations of an incident, or onto a leg. *)
FetchPropagations ==
    /\ reading.phase = "propagations"
    /\ reading' = Fetched("offline", reading.events, reading.audits, AboutPrimary("propagation"))
    /\ UNCHANGED <<now, status, operations>>

(* Offline operations on the record, only along with its neighbours. *)
FetchSyncOperations ==
    /\ reading.phase = "offline"
    /\ reading' = Fetched("done", reading.events, reading.audits, reading.others
          \cup IF reading.related THEN AboutPrimary("offline") ELSE {})
    /\ UNCHANGED <<now, status, operations>>

Next ==
    \/ Tick
    \/ \E l \in Leg : DelayLeg(l)
    \/ \E c \in Consignment : UpdateConsignment(c) \/ EnqueueOperation(c)
    \/ \E i \in Incident : PropagateIncident(i)
    \/ \E i \in DOMAIN operations : Commit(i)
    \/ \E x \in Entity, related \in BOOLEAN : GetTimeline(x, related)
    \/ FetchOperationalEvents \/ FetchAuditLogs \/ FetchPropagations \/ FetchSyncOperations

Spec == Init /\ [][Next]_vars

-----------------------------------------------------------------------------
Shown == reading.phase = "done"

Entries == Unify(reading.events, reading.audits, reading.others)

(* Every row that was read is shown once: matching an event to an audit      *)
(* neither drops a row nor shows an audit as part of two entries             *)
(* (_deduplicate_and_unify).                                                 *)
EachRecordOnce ==
    Shown => \A r \in reading.events \cup reading.audits \cup reading.others :
                Cardinality({n \in Entries : r \in n}) = 1

(* The rows operation i wrote about x. *)
About(i, x, table) == {r \in Rows(i, table) : r.row.entity = x}

(* No other operation touched x under its correlation or within two seconds. *)
Alone(i, x) ==
    \A j \in DOMAIN operations \ {i} :
        operations[j].correlation = operations[i].correlation \/ TwoSeconds(i, j)
            => About(j, x, "events") \cup About(j, x, "audits") = {}

(* An operation whose event is on the timeline is shown with the audits its  *)
(* transaction wrote, whatever commits between the queries and whatever else *)
(* the timeline shows, unless another operation touched the record at about  *)
(* the same time: that audit may be taken for this event's.                  *)
OperationsShownWhole ==
    Shown => \A i \in DOMAIN operations, x \in Entity :
        LET events == About(i, x, "events")
            audits == About(i, x, "audits")
            joint  == {n \in Entries : n \cap events # {} /\ n \cap audits # {}}
        IN  (events \cap reading.events # {} /\ Alone(i, x)) =>
                Cardinality(joint) = IF Cardinality(events) < Cardinality(audits)
                                     THEN Cardinality(events) ELSE Cardinality(audits)
=============================================================================

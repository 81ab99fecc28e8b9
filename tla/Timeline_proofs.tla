-------------------------- MODULE Timeline_proofs ---------------------------
(* Proofs about Timeline, for any legs, incidents and finitely many          *)
(* consignments, any number of operations, and any correlation and time.     *)
(* Merged is a recursive function: that it exists, and what it returns, is   *)
(* proved by looking at the smallest set of events that has no such function *)
(* or for which it returns something else.                                   *)
EXTENDS Timeline, FiniteSetTheorems, WellFoundedInduction, SequenceTheorems, TLAPS

(* Rows of the three kinds of tables. *)
Event == [entity : Entity, state : Status \cup {"RISK"}, nr : 1 .. 3]

Audit == [entity : Entity, after : Status \cup {"NONE"}, nr : {0}]

Other == [kind : {"propagation", "offline"}, about : SUBSET Entity]

(* What a transaction writes: one audit at most. *)
Writes ==
    {w \in [events : SUBSET Event, audits : SUBSET Audit, others : SUBSET Other] :
        IsFiniteSet(w.events) /\ \A a, b \in w.audits : a = b}

Operation == [writes : Writes, at : Int, correlation : Int, committed : BOOLEAN]

(* The rows there are, committed or not. *)
Named(table) == UNION {Rows(i, table) : i \in DOMAIN operations}

(* What a reading has collected are rows; an event comes from a committed    *)
(* operation, and with the audits of that operation once audits were read.   *)
Collected ==
    /\ reading.phase \in {"idle", "events", "audits", "propagations", "offline", "done"}
    /\ reading.phase # "idle" =>
          /\ reading.events \subseteq Named("events")
          /\ reading.audits \subseteq Named("audits")
          /\ reading.others \subseteq Named("others")
          /\ \A e \in reading.events :
                operations[e.by].committed /\ e.row.entity \in Targets(reading)
    /\ reading.phase \in {"propagations", "offline", "done"} =>
          \A e \in reading.events : \A a \in Rows(e.by, "audits") :
             a.row.entity = e.row.entity => a \in reading.audits

(* The inductive invariant. *)
TimelineInv ==
    /\ now \in Int
    /\ operations \in Seq(Operation)
    /\ Collected

-----------------------------------------------------------------------------
(* The least, the oldest and the newest. *)

LEMMA LeastNatural ==
    ASSUME NEW T, T \subseteq Nat, T # {}
    PROVE  \E n \in T : \A m \in T : n <= m
<1>1. \E R : IsWellFoundedOn(R, Nat) /\ \A x, y \in Nat : y < x => <<y, x>> \in R
  <2> WITNESS OpToRel(<, Nat)
  <2>1. \A x, y \in Nat : y < x => <<y, x>> \in OpToRel(<, Nat)
    BY DEF OpToRel
  <2> QED BY <2>1, NatLessThanWellFounded
<1>2. PICK R : IsWellFoundedOn(R, Nat) /\ \A x, y \in Nat : y < x => <<y, x>> \in R
  BY <1>1
<1>3. PICK n \in T : \A m \in T : ~(<<m, n>> \in R)
  BY <1>2, WFMin
<1>4. ASSUME NEW m \in T, ~(n <= m) PROVE FALSE
  <2>1. n \in Nat /\ m \in Nat
    OBVIOUS
  <2>2. m < n
    BY <1>4, <2>1
  <2> QED BY <1>2, <1>3, <2>1, <2>2
<1> QED BY <1>4

(* Rows are ordered by their operation, then by their number in it. *)
Ordered(r) == r.by \in Nat /\ r.row.nr \in 0 .. 3

Rank(r) == 4 * r.by + r.row.nr

LEMMA LaterIsHigher ==
    ASSUME NEW r, NEW s, Ordered(r), Ordered(s), Later(r, s)
    PROVE  Rank(r) > Rank(s)
BY DEF Ordered, Later, Rank

LEMMA OldestIsThere ==
    ASSUME NEW S, S # {}, \A r \in S : Ordered(r)
    PROVE  Oldest(S) \in S
<1> DEFINE T == {Rank(r) : r \in S}
<1>1. T \subseteq Nat /\ T # {}
  BY DEF Ordered, Rank
<1>2. PICK n \in T : \A m \in T : n <= m
  BY <1>1, LeastNatural
<1>3. PICK r \in S : n = Rank(r)
  OBVIOUS
<1>4. ASSUME NEW s \in S PROVE ~Later(r, s)
  BY <1>1, <1>2, <1>3, LaterIsHigher
<1> QED BY <1>4 DEF Oldest

LEMMA NewestIsThere ==
    ASSUME NEW S, S # {}, NEW last \in Nat, \A r \in S : Ordered(r) /\ r.by <= last
    PROVE  Newest(S) \in S
<1> DEFINE T == {4 * last + 3 - Rank(r) : r \in S}
<1>1. \A r \in S : Rank(r) \in Nat /\ 4 * last + 3 - Rank(r) \in Nat
  BY DEF Ordered, Rank
<1>2. T \subseteq Nat /\ T # {}
  BY <1>1
<1>3. PICK n \in T : \A m \in T : n <= m
  BY <1>2, LeastNatural
<1>4. PICK r \in S : n = 4 * last + 3 - Rank(r)
  OBVIOUS
<1>5. ASSUME NEW s \in S, Later(s, r) PROVE FALSE
  <2>1. Rank(s) > Rank(r)
    BY <1>5, LaterIsHigher
  <2>2. n <= 4 * last + 3 - Rank(s)
    BY <1>3
  <2> HIDE DEF T
  <2> QED BY <1>1, <1>4, <2>1, <2>2
<1> QED BY <1>5 DEF Newest

-----------------------------------------------------------------------------
(* What Merged computes. *)

Matching(f, events, audits) ==
    f = [E \in SUBSET events |->
            IF E = {} THEN {} ELSE Match(Oldest(E), audits, f[E \ {Oldest(E)}])]

(* The same for the sets of at most n events. *)
SmallSets(events, n) == {E \in SUBSET events : Cardinality(E) <= n}

MatchingUpTo(f, events, audits, n) ==
    f = [E \in SmallSets(events, n) |->
            IF E = {} THEN {} ELSE Match(Oldest(E), audits, f[E \ {Oldest(E)}])]

LEMMA Smaller ==
    ASSUME NEW events, IsFiniteSet(events), \A r \in events : Ordered(r),
           NEW n \in Nat, NEW E \in SmallSets(events, n), E # {}
    PROVE  /\ n # 0
           /\ E \ {Oldest(E)} \in SmallSets(events, n - 1)
           /\ Cardinality(E \ {Oldest(E)}) < Cardinality(E)
           /\ Oldest(E) \in E
<1>1. E \in SUBSET events /\ Cardinality(E) <= n
  BY DEF SmallSets
<1>2. IsFiniteSet(E)
  BY <1>1, FS_Subset
<1>3. Oldest(E) \in E
  BY <1>1, OldestIsThere
<1>4. Cardinality(E) \in Nat /\ Cardinality(E) # 0
  BY <1>2, FS_CardinalityType, FS_EmptySet
<1>5. Cardinality(E \ {Oldest(E)}) = Cardinality(E) - 1
  BY <1>2, <1>3, FS_RemoveElement
<1>6. E \ {Oldest(E)} \in SUBSET events
  BY <1>1
<1>7. Cardinality(E \ {Oldest(E)}) <= n - 1
  BY <1>1, <1>4, <1>5
<1> QED BY <1>1, <1>3, <1>4, <1>5, <1>6, <1>7 DEF SmallSets

LEMMA MatchingExists ==
    ASSUME NEW events, IsFiniteSet(events), \A r \in events : Ordered(r), NEW audits
    PROVE  \E f : Matching(f, events, audits)
<1> DEFINE None == {n \in Nat : ~ \E f : MatchingUpTo(f, events, audits, n)}
<1>1. None = {}
  <2> SUFFICES ASSUME None # {} PROVE FALSE
    OBVIOUS
  <2>1. None \subseteq Nat
    OBVIOUS
  <2> HIDE DEF None
  <2>2. PICK n \in None : \A m \in None : n <= m
    BY <2>1, LeastNatural
  <2>3. n \in Nat /\ ~ \E f : MatchingUpTo(f, events, audits, n)
    BY DEF None
  <2>4. CASE n = 0
    <3> DEFINE f == [E \in SmallSets(events, 0) |-> {}]
    <3>1. \A E \in SmallSets(events, 0) : E = {}
      BY Smaller
    <3>2. MatchingUpTo(f, events, audits, 0)
      BY <3>1 DEF MatchingUpTo
    <3> QED BY <2>3, <2>4, <3>2
  <2>5. CASE n # 0
    <3>1. n - 1 \in Nat /\ n - 1 \notin None
      BY <2>1, <2>2, <2>3, <2>5
    <3>2. PICK f : MatchingUpTo(f, events, audits, n - 1)
      BY <3>1 DEF None
    <3> DEFINE g == [E \in SmallSets(events, n) |->
                        IF E = {} THEN {} ELSE Match(Oldest(E), audits, f[E \ {Oldest(E)}])]
    <3>3. ASSUME NEW D \in SmallSets(events, n - 1)
          PROVE  D \in SmallSets(events, n) /\ g[D] = f[D]
      <4>1. Cardinality(D) \in Nat
        BY FS_Subset, FS_CardinalityType DEF SmallSets
      <4>2. D \in SmallSets(events, n)
        BY <2>3, <3>1, <4>1 DEF SmallSets
      <4>3. f[D] = IF D = {} THEN {} ELSE Match(Oldest(D), audits, f[D \ {Oldest(D)}])
        BY <3>2 DEF MatchingUpTo
      <4> QED BY <4>2, <4>3
    <3>4. \A E \in SmallSets(events, n) : E # {} => g[E \ {Oldest(E)}] = f[E \ {Oldest(E)}]
      BY <2>3, <3>3, Smaller
    <3>5. g = [E \in SmallSets(events, n) |->
                  IF E = {} THEN {} ELSE Match(Oldest(E), audits, g[E \ {Oldest(E)}])]
      BY <3>4
    <3>6. MatchingUpTo(g, events, audits, n)
      BY <3>5 DEF MatchingUpTo
    <3> QED BY <2>3, <3>6
  <2> QED BY <2>4, <2>5
<1>2. Cardinality(events) \in Nat
  BY FS_CardinalityType
<1>3. PICK f : MatchingUpTo(f, events, audits, Cardinality(events))
  BY <1>1, <1>2
<1>4. SmallSets(events, Cardinality(events)) = SUBSET events
  BY FS_Subset DEF SmallSets
<1> QED BY <1>3, <1>4 DEF MatchingUpTo, Matching

(* The function that Merged defines satisfies its definition. *)
LEMMA MergedIsMatching ==
    ASSUME NEW events, IsFiniteSet(events), \A r \in events : Ordered(r), NEW audits
    PROVE  \E f : Matching(f, events, audits) /\ Merged(events, audits) = f[events]
<1> DEFINE f == CHOOSE g : Matching(g, events, audits)
<1>1. Matching(f, events, audits)
  BY MatchingExists
<1>2. Merged(events, audits) = f[events]
  BY DEF Merged, Matching
<1> QED BY <1>1, <1>2

(* What holds once the events E have been matched: an audit goes to one event *)
(* of its operation or near it, an event takes one audit, and no event is     *)
(* left without while an audit of its correlation and record is free.         *)
Matched(pairs, E, audits) ==
    /\ \A p \in pairs :
          /\ p.event \in E /\ p.audit \in audits
          /\ p.audit \in Correlated(p.event, audits) \cup Nearby(p.event, audits)
    /\ \A p, q \in pairs : p.event = q.event \/ p.audit = q.audit => p = q
    /\ \A e \in E : \A a \in Correlated(e, audits) :
          \E p \in pairs : p.event = e \/ p.audit = a

LEMMA MatchKeeps ==
    ASSUME NEW audits, NEW last \in Nat, \A a \in audits : Ordered(a) /\ a.by <= last,
           NEW E, NEW e \in E, NEW pairs, Matched(pairs, E \ {e}, audits)
    PROVE  Matched(Match(e, audits, pairs), E, audits)
<1> DEFINE used == {p.audit : p \in pairs}
           mine == Candidates(e, audits, pairs)
           after == Match(e, audits, pairs)
<1>1. mine \subseteq (Correlated(e, audits) \cup Nearby(e, audits)) \ used
  BY DEF Candidates, Correlated, Nearby
<1>2. mine \subseteq audits
  BY <1>1 DEF Correlated, Nearby
<1>3. ASSUME mine = {}, NEW a \in Correlated(e, audits)
      PROVE  a \in used
  BY <1>3 DEF Candidates, Correlated
<1>4. CASE mine = {}
  <2>1. after = pairs
    BY <1>4 DEF Match
  <2>2. \A d \in E : \A a \in Correlated(d, audits) :
           \E p \in pairs : p.event = d \/ p.audit = a
    BY <1>3, <1>4 DEF Matched
  <2> QED BY <2>1, <2>2 DEF Matched
<1>5. CASE mine # {}
  <2> DEFINE new == [event |-> e, audit |-> Newest(mine)]
  <2>1. after = pairs \cup {new}
    BY <1>5 DEF Match
  <2>2. Newest(mine) \in mine
    BY <1>2, <1>5, NewestIsThere
  <2>3. new.event = e /\ new.audit \in mine
    BY <2>2
  <2> HIDE DEF new, mine, after
  <2>4. \A p \in pairs : p.event # new.event /\ p.audit # new.audit
    BY <1>1, <2>3 DEF Matched
  <2>5. \A p \in after : /\ p.event \in E /\ p.audit \in audits
                         /\ p.audit \in Correlated(p.event, audits) \cup Nearby(p.event, audits)
    BY <1>1, <1>2, <2>1, <2>3 DEF Matched
  <2>6. \A p, q \in after : p.event = q.event \/ p.audit = q.audit => p = q
    BY <2>1, <2>4 DEF Matched
  <2>7. \A d \in E : \A a \in Correlated(d, audits) :
           \E p \in after : p.event = d \/ p.audit = a
    BY <2>1, <2>3 DEF Matched
  <2>8. Matched(after, E, audits)
    BY <2>5, <2>6, <2>7 DEF Matched
  <2> QED BY <2>8 DEF after
<1> QED BY <1>4, <1>5

LEMMA MergedMatches ==
    ASSUME NEW events, IsFiniteSet(events), \A r \in events : Ordered(r),
           NEW audits, NEW last \in Nat, \A a \in audits : Ordered(a) /\ a.by <= last
    PROVE  Matched(Merged(events, audits), events, audits)
<1>1. PICK f : Matching(f, events, audits) /\ Merged(events, audits) = f[events]
  BY MergedIsMatching
<1> DEFINE Wrong == {n \in Nat : \E E \in SUBSET events :
                        Cardinality(E) = n /\ ~Matched(f[E], E, audits)}
<1>2. Wrong = {}
  <2> SUFFICES ASSUME Wrong # {} PROVE FALSE
    OBVIOUS
  <2>1. Wrong \subseteq Nat
    OBVIOUS
  <2> HIDE DEF Wrong
  <2>2. PICK n \in Wrong : \A m \in Wrong : n <= m
    BY <2>1, LeastNatural
  <2>3. PICK E \in SUBSET events : Cardinality(E) = n /\ ~Matched(f[E], E, audits)
    BY <2>2 DEF Wrong
  <2>4. f[E] = IF E = {} THEN {} ELSE Match(Oldest(E), audits, f[E \ {Oldest(E)}])
    BY <1>1 DEF Matching
  <2>5. E # {}
    BY <2>3, <2>4 DEF Matched
  <2> DEFINE D == E \ {Oldest(E)}
  <2>6. n \in Nat /\ E \in SmallSets(events, n)
    BY <2>1, <2>3 DEF SmallSets
  <2>7. Cardinality(D) < n /\ Oldest(E) \in E
    BY <2>3, <2>5, <2>6, Smaller
  <2>8. D \in SUBSET events
    OBVIOUS
  <2>9. Cardinality(D) \in Nat
    BY <2>8, FS_Subset, FS_CardinalityType
  <2>10. Cardinality(D) \notin Wrong
    BY <2>2, <2>6, <2>7, <2>9
  <2>11. Matched(f[D], D, audits)
    BY <2>8, <2>9, <2>10 DEF Wrong
  <2>12. Matched(Match(Oldest(E), audits, f[D]), E, audits)
    BY <2>7, <2>11, MatchKeeps
  <2> QED BY <2>3, <2>4, <2>5, <2>12
<1>3. Cardinality(events) \in Nat
  BY FS_CardinalityType
<1> QED BY <1>1, <1>2, <1>3

-----------------------------------------------------------------------------
(* Rows that are read were written, with what belongs to them. *)

LEMMA OperationIsOne ==
    ASSUME operations \in Seq(Operation), NEW i \in DOMAIN operations
    PROVE  /\ operations[i] \in Operation
           /\ i \in 1 .. Len(operations)
           /\ Len(operations) \in Nat
BY LenProperties, ElementOfSeq

LEMMA RowsAreOrdered ==
    ASSUME operations \in Seq(Operation)
    PROVE  /\ \A r \in Named("events") : Ordered(r) /\ r.row \in Event
           /\ \A r \in Named("audits") :
                 Ordered(r) /\ r.row \in Audit /\ r.by <= Len(operations)
           /\ \A r \in Named("others") : r.row \in Other
<1>1. ASSUME NEW i \in DOMAIN operations, NEW r \in Rows(i, "events")
      PROVE  Ordered(r) /\ r.row \in Event
  <2>1. r.row \in Event /\ r.by = i
    BY <1>1, OperationIsOne DEF Rows, Operation, Writes
  <2> QED BY <1>1, <2>1, OperationIsOne DEF Ordered, Event
<1>2. ASSUME NEW i \in DOMAIN operations, NEW r \in Rows(i, "audits")
      PROVE  Ordered(r) /\ r.row \in Audit /\ r.by <= Len(operations)
  <2>1. r.row \in Audit /\ r.by = i
    BY <1>2, OperationIsOne DEF Rows, Operation, Writes
  <2> QED BY <1>2, <2>1, OperationIsOne DEF Ordered, Audit
<1>3. ASSUME NEW i \in DOMAIN operations, NEW r \in Rows(i, "others")
      PROVE  r.row \in Other
  BY <1>3, OperationIsOne DEF Rows, Operation, Writes
<1> QED BY <1>1, <1>2, <1>3 DEF Named

LEMMA RowNames ==
    \A i, table : \A r \in Rows(i, table) : r.by = i
BY DEF Rows

(* There are finitely many events. *)
LEMMA EventsOfOneAreFinite ==
    ASSUME operations \in Seq(Operation), NEW i \in DOMAIN operations
    PROVE  IsFiniteSet(Rows(i, "events"))
<1> DEFINE W == operations[i].writes.events
           f == [w \in W |-> [by |-> i, row |-> w]]
<1>1. IsFiniteSet(W)
  BY OperationIsOne DEF Operation, Writes
<1>2. f \in Surjection(W, Rows(i, "events"))
  BY DEF Surjection, Rows
<1> QED BY <1>1, <1>2, FS_Surjection

LEMMA EventsAreFinite ==
    ASSUME operations \in Seq(Operation)
    PROVE  IsFiniteSet(Named("events"))
<1> DEFINE T == {Rows(i, "events") : i \in DOMAIN operations}
           f == [i \in DOMAIN operations |-> Rows(i, "events")]
<1>1. f \in Surjection(DOMAIN operations, T)
  BY DEF Surjection
<1>2. DOMAIN operations = 1 .. Len(operations) /\ Len(operations) \in Nat
  BY LenProperties
<1>3. IsFiniteSet(DOMAIN operations)
  BY <1>2, FS_Interval
<1>4. IsFiniteSet(T)
  BY <1>1, <1>3, FS_Surjection
<1>5. \A R \in T : IsFiniteSet(R)
  BY EventsOfOneAreFinite
<1> HIDE DEF T
<1>6. IsFiniteSet(UNION T)
  BY <1>4, <1>5, FS_UNION
<1> QED BY <1>6 DEF T, Named

LEMMA CommittedAreNamed ==
    \A table : /\ Committed(table) \subseteq Named(table)
               /\ \A r \in Committed(table) : operations[r.by].committed
BY DEF Committed, Named, Rows

(* What the services write are such rows. *)
LEMMA ManifestIsFinite ==
    ASSUME NEW l \in Leg
    PROVE  IsFiniteSet(Manifest[l]) /\ Manifest[l] \subseteq Entity
<1>1. Manifest[l] \in SUBSET Consignment
  BY RelationAssumption
<1> QED BY <1>1, ConsignmentAssumption, FS_Subset DEF Entity

LEMMA DelayWrites ==
    ASSUME NEW l \in Leg, NEW breach \in BOOLEAN
    PROVE  Delay(l, breach) \in Writes
<1> DEFINE M == Manifest[l]
           late == {d \in M : breach /\ status[d] = "IN_TRANSIT"}
           A == {EventOf(l, "DELAYED", 1)}
           B == {EventOf(c, "RISK", 2) : c \in M}
           C == {EventOf(c, "DELAYED", 3) : c \in late}
<1>1. IsFiniteSet(M) /\ M \subseteq Entity /\ l \in Entity
  BY ManifestIsFinite DEF Entity
<1>2. IsFiniteSet(late)
  BY <1>1, FS_Subset
<1>3. IsFiniteSet(B)
  <2> DEFINE f == [c \in M |-> EventOf(c, "RISK", 2)]
  <2>1. f \in Surjection(M, B)
    BY DEF Surjection
  <2> QED BY <1>1, <2>1, FS_Surjection
<1>4. IsFiniteSet(C)
  <2> DEFINE f == [c \in late |-> EventOf(c, "DELAYED", 3)]
  <2>1. f \in Surjection(late, C)
    BY DEF Surjection
  <2> HIDE DEF late
  <2> QED BY <1>2, <2>1, FS_Surjection
<1>5. IsFiniteSet(A \cup B \cup C)
  BY <1>3, <1>4, FS_Singleton, FS_Union
<1>6. A \cup B \cup C \subseteq Event
  BY <1>1 DEF Event, EventOf, Status
<1>7. {AuditOf(l, "DELAYED")} \in SUBSET Audit
  BY <1>1 DEF Audit, AuditOf, Status
<1>8. Delay(l, breach) = [events |-> A \cup B \cup C, audits |-> {AuditOf(l, "DELAYED")}, others |-> {}]
  BY DEF Delay
<1> HIDE DEF A, B, C
<1> QED BY <1>5, <1>6, <1>7, <1>8 DEF Writes

LEMMA UpdateWrites ==
    ASSUME NEW c \in Consignment, NEW after \in Status, NEW eta \in BOOLEAN
    PROVE  Update(c, after, eta) \in Writes
<1> DEFINE A == IF after = status[c] THEN {} ELSE {EventOf(c, after, 1)}
           B == IF eta THEN {EventOf(c, "RISK", 2)} ELSE {}
<1>1. IsFiniteSet(A) /\ IsFiniteSet(B)
  BY FS_EmptySet, FS_Singleton
<1>2. A \cup B \subseteq Event
  BY DEF Event, EventOf, Entity
<1>3. {AuditOf(c, after)} \in SUBSET Audit
  BY DEF Audit, AuditOf, Entity
<1>4. Update(c, after, eta) = [events |-> A \cup B, audits |-> {AuditOf(c, after)}, others |-> {}]
  BY DEF Update
<1> HIDE DEF A, B
<1>5. IsFiniteSet(A \cup B)
  BY <1>1, FS_Union
<1> QED BY <1>2, <1>3, <1>4, <1>5 DEF Writes

LEMMA PropagateWrites ==
    ASSUME NEW i \in Incident
    PROVE  Propagate(i) \in Writes
<1>1. i \in Entity /\ Reference[i] \in Entity
  BY RelationAssumption DEF Entity
<1>2. IsFiniteSet({EventOf(i, "DELAYED", 1)})
  BY FS_Singleton
<1>5. {EventOf(i, "DELAYED", 1)} \in SUBSET Event
  BY <1>1 DEF EventOf, Event, Status
<1>3. {AuditOf(i, "NONE")} \in SUBSET Audit
  BY <1>1 DEF Audit, AuditOf
<1>4. {[kind |-> "propagation", about |-> {i, Reference[i]}]} \in SUBSET Other
  BY <1>1 DEF Other
<1> QED BY <1>2, <1>3, <1>4, <1>5 DEF Propagate, Writes

LEMMA EnqueueWrites ==
    ASSUME NEW c \in Consignment
    PROVE  Enqueue(c) \in Writes
<1>1. {[kind |-> "offline", about |-> {c}]} \in SUBSET Other
  BY DEF Other, Entity
<1> QED BY <1>1, FS_EmptySet DEF Enqueue, Writes

-----------------------------------------------------------------------------
(* The invariant. *)

LEMMA InitTimeline == Init => TimelineInv
<1> SUFFICES ASSUME Init PROVE TimelineInv
  OBVIOUS
<1>1. operations \in Seq(Operation)
  BY EmptySeq DEF Init
<1> QED BY <1>1 DEF Init, TimelineInv, Collected, NoReading

(* What has been collected stays as it is when operations come or commit. *)
LEMMA CollectedStays ==
    ASSUME TimelineInv, now' \in Int, operations' \in Seq(Operation), UNCHANGED reading,
           DOMAIN operations \subseteq DOMAIN operations',
           \A i \in DOMAIN operations :
              /\ operations'[i].writes = operations[i].writes
              /\ operations[i].committed => operations'[i].committed
    PROVE  TimelineInv'
<1>1. \A i \in DOMAIN operations : \A table : Rows(i, table)' = Rows(i, table)
  BY DEF Rows
<1>2. \A table : Named(table) \subseteq Named(table)'
  BY <1>1 DEF Named
<1>3. \A r \in Named("events") : r.by \in DOMAIN operations
  BY RowNames DEF Named
<1>4. Targets(reading)' = Targets(reading)
  BY DEF Targets, Related
<1>5. Collected
  BY DEF TimelineInv
<1>6. ASSUME reading.phase # "idle"
      PROVE  /\ reading.events \subseteq Named("events")'
             /\ reading.audits \subseteq Named("audits")'
             /\ reading.others \subseteq Named("others")'
             /\ \A e \in reading.events :
                   operations'[e.by].committed /\ e.row.entity \in Targets(reading)'
  BY <1>2, <1>3, <1>4, <1>5, <1>6 DEF Collected
<1>7. ASSUME reading.phase \in {"propagations", "offline", "done"}, NEW e \in reading.events,
             NEW a \in Rows(e.by, "audits")', a.row.entity = e.row.entity
      PROVE  a \in reading.audits
  <2>1. e.by \in DOMAIN operations
    BY <1>3, <1>5, <1>7 DEF Collected
  <2>2. a \in Rows(e.by, "audits")
    BY <2>1, <1>7 DEF Rows
  <2> QED BY <1>5, <1>7, <2>2 DEF Collected
<1> QED BY <1>5, <1>6, <1>7 DEF TimelineInv, Collected

LEMMA WriteKeeps ==
    ASSUME TimelineInv, NEW w \in Writes, Write(w)
    PROVE  TimelineInv'
<1> DEFINE n == Len(operations) + 1
<1>1. operations \in Seq(Operation) /\ now \in Int
  BY DEF TimelineInv
<1>2. PICK c \in {operations[i].correlation : i \in DOMAIN operations} \cup {n} :
         operations' = Append(operations,
            [writes |-> w, at |-> now, correlation |-> c, committed |-> FALSE])
  BY DEF Write
<1> DEFINE new == [writes |-> w, at |-> now, correlation |-> c, committed |-> FALSE]
<1>3. Len(operations) \in Nat /\ DOMAIN operations = 1 .. Len(operations)
  BY <1>1, LenProperties
<1>4. c \in Int
  BY <1>1, <1>3, OperationIsOne DEF Operation
<1>5. new \in Operation
  BY <1>1, <1>4 DEF Operation
<1>6. operations' = Append(operations, new)
  BY <1>2
<1> HIDE DEF new
<1>7. /\ operations' \in Seq(Operation)
      /\ Len(operations') = n
      /\ \A i \in 1 .. Len(operations) : operations'[i] = operations[i]
  BY <1>1, <1>5, <1>6, AppendProperties
<1>8. DOMAIN operations' = 1 .. n
  BY <1>7, LenProperties
<1>9. UNCHANGED <<now, reading>>
  BY DEF Write
<1> QED BY <1>1, <1>3, <1>7, <1>8, <1>9, CollectedStays

LEMMA CommitKeeps ==
    ASSUME TimelineInv, NEW i \in DOMAIN operations, Commit(i)
    PROVE  TimelineInv'
<1>1. operations \in Seq(Operation) /\ now \in Int
  BY DEF TimelineInv
<1> DEFINE new == [operations[i] EXCEPT !.committed = TRUE]
<1>2. /\ operations' = [operations EXCEPT ![i] = new]
      /\ UNCHANGED <<now, reading>>
  BY DEF Commit
<1>3. /\ new \in Operation /\ new.committed
      /\ new.writes = operations[i].writes
  BY <1>1, OperationIsOne DEF Operation
<1> HIDE DEF new
<1>4. /\ operations' \in Seq(Operation)
      /\ Len(operations') = Len(operations)
      /\ \A j \in 1 .. Len(operations) : operations'[j] = IF j = i THEN new ELSE operations[j]
  BY <1>1, <1>2, <1>3, OperationIsOne, ExceptSeq
<1>5. DOMAIN operations = 1 .. Len(operations) /\ DOMAIN operations' = 1 .. Len(operations)
  BY <1>1, <1>4, LenProperties
<1> QED BY <1>1, <1>2, <1>3, <1>4, <1>5, CollectedStays

(* The queries of a reading. *)
LEMMA ReadKeeps ==
    ASSUME TimelineInv,
           \/ \E x \in Entity, related \in BOOLEAN : GetTimeline(x, related)
           \/ FetchOperationalEvents \/ FetchAuditLogs
           \/ FetchPropagations \/ FetchSyncOperations
    PROVE  TimelineInv'
<1>1. operations \in Seq(Operation) /\ now \in Int /\ Collected
  BY DEF TimelineInv
<1>2. UNCHANGED <<now, operations>>
  BY DEF GetTimeline, FetchOperationalEvents, FetchAuditLogs, FetchPropagations,
         FetchSyncOperations
<1>3. \A table : Named(table)' = Named(table)
  BY <1>2 DEF Named, Rows
<1>4. \A i, table : Rows(i, table)' = Rows(i, table)
  BY <1>2 DEF Rows
<1>5. ASSUME NEW x \in Entity, NEW related \in BOOLEAN, GetTimeline(x, related)
      PROVE  Collected'
  <2>1. /\ reading'.phase = "events" /\ reading'.events = {}
        /\ reading'.audits = {} /\ reading'.others = {}
    BY <1>5 DEF GetTimeline
  <2> QED BY <2>1 DEF Collected
<1>6. ASSUME NEW next, NEW events, NEW audits, NEW others,
             reading' = Fetched(next, events, audits, others)
      PROVE  /\ reading'.phase = next /\ reading'.events = events
             /\ reading'.audits = audits /\ reading'.others = others
             /\ Targets(reading)' = Targets(reading)
  BY <1>6 DEF Fetched, Targets, Related
<1>7. ASSUME FetchOperationalEvents PROVE Collected'
  <2>1. reading' = Fetched("audits", AboutTargets("events"), {}, {}) /\ reading.phase = "events"
    BY <1>7 DEF FetchOperationalEvents
  <2>2. /\ reading'.phase = "audits" /\ reading'.events = AboutTargets("events")
        /\ reading'.audits = {} /\ reading'.others = {} /\ Targets(reading)' = Targets(reading)
    BY <2>1, <1>6
  <2>3. /\ AboutTargets("events") \subseteq Named("events")
        /\ \A e \in AboutTargets("events") :
              operations[e.by].committed /\ e.row.entity \in Targets(reading)
    BY CommittedAreNamed DEF AboutTargets
  <2> QED BY <1>2, <1>3, <2>2, <2>3 DEF Collected
<1>8. ASSUME FetchAuditLogs PROVE Collected'
  <2>1. /\ reading' = Fetched("propagations", reading.events, AboutTargets("audits"), {})
        /\ reading.phase = "audits"
    BY <1>8 DEF FetchAuditLogs
  <2>2. /\ reading'.phase = "propagations" /\ reading'.events = reading.events
        /\ reading'.audits = AboutTargets("audits") /\ reading'.others = {}
        /\ Targets(reading)' = Targets(reading)
    BY <2>1, <1>6
  <2>3. AboutTargets("audits") \subseteq Named("audits")
    BY CommittedAreNamed DEF AboutTargets
  <2>4. ASSUME NEW e \in reading.events, NEW a \in Rows(e.by, "audits"),
               a.row.entity = e.row.entity
        PROVE  a \in AboutTargets("audits")
    <3>1. /\ e \in Named("events") /\ operations[e.by].committed
          /\ e.row.entity \in Targets(reading)
      BY <1>1, <2>1 DEF Collected
    <3>2. e.by \in DOMAIN operations
      BY <3>1, RowNames DEF Named
    <3> QED BY <2>4, <3>1, <3>2 DEF AboutTargets, Committed
  <2> QED BY <1>1, <1>2, <1>3, <1>4, <2>1, <2>2, <2>3, <2>4 DEF Collected
<1>9. ASSUME FetchPropagations PROVE Collected'
  <2>1. /\ reading' = Fetched("offline", reading.events, reading.audits, AboutPrimary("propagation"))
        /\ reading.phase = "propagations"
    BY <1>9 DEF FetchPropagations
  <2>2. /\ reading'.phase = "offline" /\ reading'.events = reading.events
        /\ reading'.audits = reading.audits /\ reading'.others = AboutPrimary("propagation")
        /\ Targets(reading)' = Targets(reading)
    BY <2>1, <1>6
  <2>3. AboutPrimary("propagation") \subseteq Named("others")
    BY CommittedAreNamed DEF AboutPrimary
  <2> QED BY <1>1, <1>2, <1>3, <1>4, <2>1, <2>2, <2>3 DEF Collected
<1>10. ASSUME FetchSyncOperations PROVE Collected'
  <2> DEFINE more == reading.others \cup IF reading.related THEN AboutPrimary("offline") ELSE {}
  <2>1. /\ reading' = Fetched("done", reading.events, reading.audits, more)
        /\ reading.phase = "offline"
    BY <1>10 DEF FetchSyncOperations
  <2>2. more \subseteq Named("others")
    BY <1>1, <2>1, CommittedAreNamed DEF AboutPrimary, Collected
  <2> HIDE DEF more
  <2>3. /\ reading'.phase = "done" /\ reading'.events = reading.events
        /\ reading'.audits = reading.audits /\ reading'.others = more
        /\ Targets(reading)' = Targets(reading)
    BY <2>1, <1>6
  <2> QED BY <1>1, <1>2, <1>3, <1>4, <2>1, <2>2, <2>3 DEF Collected
<1>11. Collected'
  BY <1>5, <1>7, <1>8, <1>9, <1>10
<1> QED BY <1>1, <1>2, <1>11 DEF TimelineInv

LEMMA NextTimeline == TimelineInv /\ [Next]_vars => TimelineInv'
<1> SUFFICES ASSUME TimelineInv, [Next]_vars PROVE TimelineInv'
  OBVIOUS
<1>1. ASSUME now' \in Int, UNCHANGED <<operations, reading>>
      PROVE  TimelineInv'
  BY <1>1, CollectedStays DEF TimelineInv
<1>2. CASE Tick
  <2>1. now' \in Int /\ UNCHANGED <<operations, reading>>
    BY <1>2 DEF Tick, TimelineInv
  <2> QED BY <1>1, <2>1
<1>3. CASE UNCHANGED vars
  <2>1. now' \in Int /\ UNCHANGED <<operations, reading>>
    BY <1>3 DEF vars, TimelineInv
  <2> QED BY <1>1, <2>1
<1>4. ASSUME NEW l \in Leg, DelayLeg(l) PROVE TimelineInv'
  BY <1>4, DelayWrites, WriteKeeps DEF DelayLeg
<1>5. ASSUME NEW c \in Consignment, UpdateConsignment(c) \/ EnqueueOperation(c)
      PROVE  TimelineInv'
  BY <1>5, UpdateWrites, EnqueueWrites, WriteKeeps DEF UpdateConsignment, EnqueueOperation
<1>6. ASSUME NEW i \in Incident, PropagateIncident(i) PROVE TimelineInv'
  BY <1>6, PropagateWrites, WriteKeeps DEF PropagateIncident
<1> QED BY <1>2, <1>3, <1>4, <1>5, <1>6, CommitKeeps, ReadKeeps DEF Next

(* The rows of a timeline are rows of the tables, whatever commits between   *)
(* the queries of get_timeline.                                              *)
THEOREM TimelineInvariant == Spec => []TimelineInv
BY InitTimeline, NextTimeline, PTL DEF Spec

-----------------------------------------------------------------------------
(* What a timeline shows. *)

Pairs == Merged(reading.events, reading.audits)

LEMMA ShownRows ==
    ASSUME TimelineInv, Shown
    PROVE  /\ Matched(Pairs, reading.events, reading.audits)
           /\ \A e \in reading.events : e \in Named("events") /\ e.row \in Event
           /\ \A a \in reading.audits : a \in Named("audits") /\ a.row \in Audit
           /\ \A o \in reading.others : o.row \in Other
<1>1. /\ reading.events \subseteq Named("events")
      /\ reading.audits \subseteq Named("audits")
      /\ reading.others \subseteq Named("others")
  BY DEF Shown, TimelineInv, Collected
<1>2. operations \in Seq(Operation) /\ Len(operations) \in Nat
  BY LenProperties DEF TimelineInv
<1>3. IsFiniteSet(reading.events)
  BY <1>1, <1>2, EventsAreFinite, FS_Subset
<1>4. /\ \A e \in reading.events : Ordered(e) /\ e.row \in Event
      /\ \A a \in reading.audits : Ordered(a) /\ a.row \in Audit /\ a.by <= Len(operations)
      /\ \A o \in reading.others : o.row \in Other
  BY <1>1, <1>2, RowsAreOrdered
<1>5. Matched(Pairs, reading.events, reading.audits)
  BY <1>2, <1>3, <1>4, MergedMatches DEF Pairs
<1> QED BY <1>1, <1>4, <1>5

(* No row is one of two kinds. *)
LEMMA KindsDiffer ==
    ASSUME NEW r
    PROVE  /\ ~(r.row \in Event /\ r.row \in Audit)
           /\ ~(r.row \in Event /\ r.row \in Other)
           /\ ~(r.row \in Audit /\ r.row \in Other)
<1>1. r.row \in Event => r.row.nr \in 1 .. 3 /\ "nr" \in DOMAIN r.row
  BY DEF Event
<1>2. r.row \in Audit => r.row.nr = 0 /\ "nr" \in DOMAIN r.row
  BY DEF Audit
<1>3. r.row \in Other => DOMAIN r.row = {"kind", "about"}
  BY DEF Other
<1> QED BY <1>1, <1>2, <1>3

LEMMA EntriesAre ==
    Entries = {{p.event, p.audit} : p \in Pairs}
              \cup {{e} : e \in reading.events \ {p.event : p \in Pairs}}
              \cup {{a} : a \in reading.audits \ {p.audit : p \in Pairs}}
              \cup {{o} : o \in reading.others}
BY DEF Entries, Unify, Pairs

(* _deduplicate_and_unify neither drops a row of an event, an audit, a       *)
(* propagation or an offline operation, nor shows it in two entries.         *)
THEOREM RowsAreShownOnce == Spec => []EachRecordOnce
<1>1. ASSUME TimelineInv, Shown,
             NEW r \in reading.events \cup reading.audits \cup reading.others
      PROVE  Cardinality({n \in Entries : r \in n}) = 1
  <2> DEFINE in == {n \in Entries : r \in n}
  <2>1. SUFFICES \E n : in = {n}
    BY FS_Singleton
  <2>2. /\ \A p \in Pairs : p.event \in reading.events /\ p.audit \in reading.audits
        /\ \A p, q \in Pairs : p.event = q.event \/ p.audit = q.audit => p = q
    BY <1>1, ShownRows DEF Matched
  <2>3. /\ reading.events \cap reading.audits = {}
        /\ reading.events \cap reading.others = {}
        /\ reading.audits \cap reading.others = {}
    BY <1>1, ShownRows, KindsDiffer
  <2>4. CASE r \in reading.others
    <3>1. in = {{r}}
      BY <2>2, <2>3, <2>4, EntriesAre
    <3> QED BY <3>1
  <2>5. CASE r \in reading.events \cup reading.audits /\ \A p \in Pairs : p.event # r /\ p.audit # r
    <3>1. in = {{r}}
      BY <2>2, <2>3, <2>5, EntriesAre
    <3> QED BY <3>1
  <2>6. ASSUME NEW p \in Pairs, p.event = r \/ p.audit = r
        PROVE  \E n : in = {n}
    <3>1. \A q \in Pairs : q.event = r \/ q.audit = r => q = p
      BY <2>2, <2>3, <2>6
    <3>2. {p.event, p.audit} \in in
      BY <2>6, EntriesAre
    <3>3. \A n \in in : n = {p.event, p.audit}
      BY <2>2, <2>3, <2>6, <3>1, EntriesAre
    <3>4. in = {{p.event, p.audit}}
      BY <3>2, <3>3
    <3> QED BY <3>4
  <2> QED BY <2>4, <2>5, <2>6
<1>2. TimelineInv => EachRecordOnce
  BY <1>1 DEF EachRecordOnce
<1> QED BY <1>2, TimelineInvariant, PTL

(* The audits an operation wrote about a record: one at most. *)
LEMMA OneAudit ==
    ASSUME operations \in Seq(Operation), NEW i \in DOMAIN operations, NEW x
    PROVE  /\ \A a, b \in About(i, x, "audits") : a = b
           /\ IsFiniteSet(About(i, x, "events"))
<1>1. \A v, w \in operations[i].writes.audits : v = w
  BY OperationIsOne DEF Operation, Writes
<1>2. \A a, b \in About(i, x, "audits") : a = b
  BY <1>1 DEF About, Rows
<1>3. About(i, x, "events") \subseteq Rows(i, "events")
  BY DEF About
<1>4. IsFiniteSet(About(i, x, "events"))
  BY <1>3, EventsOfOneAreFinite, FS_Subset
<1> QED BY <1>2, <1>4

(* An event and an audit that were matched are of one record, and of one     *)
(* operation or of two that are close.                                       *)
LEMMA PairsAreClose ==
    ASSUME TimelineInv, Shown, NEW p \in Pairs
    PROVE  /\ p.event \in reading.events /\ p.audit \in reading.audits
           /\ p.event.by \in DOMAIN operations /\ p.audit.by \in DOMAIN operations
           /\ p.event \in Rows(p.event.by, "events")
           /\ p.audit \in Rows(p.audit.by, "audits")
           /\ p.event.row.entity = p.audit.row.entity
           /\ \/ operations[p.event.by].correlation = operations[p.audit.by].correlation
              \/ TwoSeconds(p.event.by, p.audit.by) /\ TwoSeconds(p.audit.by, p.event.by)
<1>1. /\ p.event \in reading.events /\ p.audit \in reading.audits
      /\ p.audit \in Correlated(p.event, reading.audits) \cup Nearby(p.event, reading.audits)
  BY ShownRows DEF Matched
<1>2. p.event \in Named("events") /\ p.audit \in Named("audits")
  BY <1>1, ShownRows
<1>3. /\ p.event.by \in DOMAIN operations /\ p.audit.by \in DOMAIN operations
      /\ p.event \in Rows(p.event.by, "events")
      /\ p.audit \in Rows(p.audit.by, "audits")
  BY <1>2, RowNames DEF Named
<1>4. p.event.row.entity = p.audit.row.entity
  BY <1>1 DEF Correlated, Nearby
<1>5. \/ operations[p.event.by].correlation = operations[p.audit.by].correlation
      \/ TwoSeconds(p.event.by, p.audit.by) /\ TwoSeconds(p.audit.by, p.event.by)
  BY <1>1 DEF Correlated, Nearby, CorrelationOf, TwoSeconds
<1> QED BY <1>1, <1>3, <1>4, <1>5

(* get_timeline reads the events first: an operation whose event is there    *)
(* has committed its audit before the audits are read, and if no other       *)
(* operation is close, _deduplicate_and_unify puts the two together.         *)
THEOREM OperationsAreWhole == Spec => []OperationsShownWhole
<1>1. ASSUME TimelineInv, Shown, NEW i \in DOMAIN operations, NEW x \in Entity,
             About(i, x, "events") \cap reading.events # {}, Alone(i, x)
      PROVE  Cardinality({n \in Entries : /\ n \cap About(i, x, "events") # {}
                                          /\ n \cap About(i, x, "audits") # {}})
                = IF Cardinality(About(i, x, "events")) < Cardinality(About(i, x, "audits"))
                  THEN Cardinality(About(i, x, "events"))
                  ELSE Cardinality(About(i, x, "audits"))
  <2> DEFINE events == About(i, x, "events")
             audits == About(i, x, "audits")
             joint  == {n \in Entries : n \cap events # {} /\ n \cap audits # {}}
  <2>1. operations \in Seq(Operation)
    BY <1>1 DEF TimelineInv
  <2>2. /\ IsFiniteSet(events) /\ Cardinality(events) \in Nat
        /\ \A a, b \in audits : a = b
    BY <2>1, OneAudit, FS_CardinalityType
  <2>3. ASSUME audits = {}
        PROVE  Cardinality(joint) = 0 /\ Cardinality(audits) = 0
    <3>1. joint = {}
      BY <2>3
    <3> QED BY <2>3, <3>1, FS_EmptySet
  <2>4. ASSUME NEW a \in audits
        PROVE  Cardinality(joint) = 1 /\ Cardinality(audits) = 1 /\ Cardinality(events) >= 1
    <3>1. audits = {a} /\ Cardinality(audits) = 1
      BY <2>2, FS_Singleton
    <3>2. Cardinality(events) >= 1
      BY <1>1, <2>2, FS_EmptySet
    <3>3. PICK e \in events : e \in reading.events
      BY <1>1
    <3>4. /\ e \in Rows(i, "events") /\ e.by = i /\ e.row.entity = x
          /\ a \in Rows(i, "audits") /\ a.by = i /\ a.row.entity = x
      BY RowNames DEF About
    <3>5. a \in reading.audits
      BY <1>1, <3>3, <3>4 DEF TimelineInv, Collected, Shown
    <3>6. a \in Correlated(e, reading.audits)
      BY <3>4, <3>5 DEF Correlated, CorrelationOf
    <3>7. PICK p \in Pairs : p.event = e \/ p.audit = a
      BY <1>1, <3>3, <3>6, ShownRows DEF Matched
    <3>8. \A j \in DOMAIN operations :
             \/ j = i
             \/ /\ About(j, x, "events") = {} /\ About(j, x, "audits") = {}
             \/ /\ operations[j].correlation # operations[i].correlation
                /\ ~TwoSeconds(i, j)
      BY <1>1 DEF Alone
    <3>9. p.event \in events /\ p.audit = a
      <4>1. CASE p.event = e
        <5>1. p.audit \in About(p.audit.by, x, "audits") /\ p.audit.by = i
          BY <1>1, <3>4, <3>8, <4>1, PairsAreClose DEF About
        <5> QED BY <3>1, <4>1, <5>1
      <4>2. CASE p.audit = a
        <5>1. p.event \in About(p.event.by, x, "events") /\ p.event.by = i
          BY <1>1, <3>4, <3>8, <4>2, PairsAreClose DEF About
        <5> QED BY <4>2, <5>1
      <4> QED BY <3>7, <4>1, <4>2
    <3>10. \A n \in joint : a \in n
      BY <3>1
    <3>11. {p.event, p.audit} \in joint
      BY <3>1, <3>9, EntriesAre
    <3>12. \A n \in Entries : a \in n => n = {p.event, p.audit}
      <4>1. /\ \A q \in Pairs : q.event \in reading.events /\ q.audit \in reading.audits
            /\ \A q \in Pairs : p.event = q.event \/ p.audit = q.audit => p = q
        BY <1>1, ShownRows DEF Matched
      <4>2. a \notin reading.events /\ a \notin reading.others
        BY <1>1, <3>5, ShownRows, KindsDiffer
      <4> QED BY <3>9, <4>1, <4>2, EntriesAre
    <3>13. joint = {{p.event, p.audit}}
      BY <3>10, <3>11, <3>12
    <3> QED BY <3>1, <3>2, <3>13, FS_Singleton
  <2> HIDE DEF events, audits, joint
  <2>5. Cardinality(joint) = IF Cardinality(events) < Cardinality(audits)
                             THEN Cardinality(events) ELSE Cardinality(audits)
    BY <2>2, <2>3, <2>4
  <2> QED BY <2>5 DEF events, audits, joint
<1>2. TimelineInv => OperationsShownWhole
  BY <1>1 DEF OperationsShownWhole
<1> QED BY <1>2, TimelineInvariant, PTL
=============================================================================

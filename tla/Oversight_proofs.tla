-------------------------- MODULE Oversight_proofs --------------------------
(* Proofs about Campaign and Oversight, for any records, any opening        *)
(* database whose links fit, any creations and updates, any tables of       *)
(* dependencies, and any number of concurrent requests:                     *)
(*   - Campaign's theorems, and that they hold on under Oversight;          *)
(*   - the safety posture, read by three queries, is that of one moment;    *)
(*   - the breadth-first search of an impact finds the ball around the      *)
(*     changed record, whatever the edges;                                  *)
(*   - a readiness or impact evaluation reports what holds throughout and   *)
(*     nothing that never holds.                                            *)
EXTENDS Oversight, FiniteSetTheorems, SequenceTheorems, WellFoundedInduction, TLAPS

(* The links an update in flight asks for still fit in the database db, and  *)
(* its statuses follow those it has read.                                    *)
InFlight(q, db) ==
    LET r   == q.ask.id
        row == Wanted(q.ask, q.seen)
    IN  /\ db[r] # NoRow
        /\ MovesLawfully(r, q.seen, row)
        /\ r \in Person =>
              (row.team # q.seen.team => Fits(row.team, db[r].expedition, db))
        /\ r \in Team =>
              /\ row.leader # q.seen.leader => Fits(row.leader, db[r].expedition, db)
              /\ row.mission # q.seen.mission => Fits(row.mission, db[r].expedition, db)

(* The inductive invariant. *)
CampaignInv ==
    /\ CampaignTypeOK
    /\ SameExpedition
    /\ LatestEventIsTheStatus
    /\ \A k \in Session : request[k] # NoRequest => InFlight(request[k], rows)

(* Records are there to stay, and in their expedition. *)
RecordsStay ==
    \A r \in Record : rows[r] # NoRow =>
        /\ rows'[r] # NoRow
        /\ r \in Person \cup Team \cup Mission => rows'[r].expedition = rows[r].expedition

Linkable == Person \cup Team \cup Mission \cup {None}

-----------------------------------------------------------------------------
(* What the five kinds of records have in common. *)
LEMMA RowKinds ==
    ASSUME NEW r \in Record
    PROVE  /\ r \in Person => RowOf(r) = PersonRow
           /\ r \in Team => RowOf(r) = TeamRow
           /\ r \in Mission => RowOf(r) = MissionRow
           /\ r \in Expedition => RowOf(r) = ExpeditionRow
           /\ r \in Window => RowOf(r) = WindowRow
BY DisjointAssumption DEF Record, RowOf

LEMMA ColumnKinds ==
    ASSUME NEW r \in Record
    PROVE  /\ r \in Person => ColumnsOf(r) =
                 [team |-> Team, role |-> {"guide", "scientist"},
                  readiness |-> PersonReadiness, movement |-> PersonMovement]
           /\ r \in Team => ColumnsOf(r) =
                 [leader |-> Person, mission |-> Mission, status |-> TeamStatus]
           /\ r \in Mission => ColumnsOf(r) =
                 [status |-> MissionStatus, type |-> {"TRAVERSE", "STATION_WORK"},
                  requiredBy |-> Nat \ {NoDeadline}]
           /\ r \in Expedition => ColumnsOf(r) = [status |-> ExpeditionStatus]
           /\ r \in Window => ColumnsOf(r) =
                 [status |-> WindowStatus, openAt |-> Nat, closeAt |-> Nat]
BY DisjointAssumption DEF Record, ColumnsOf

LEMMA RowsAreRows ==
    ASSUME NEW r \in Record, NEW row \in RowOf(r)
    PROVE  /\ row # NoRow /\ row \in AnyRow
           /\ StatusColumns(r) \subseteq DOMAIN row
<1>1. CASE r \in Person
  <2>1. row \in PersonRow
    BY <1>1, RowKinds
  <2> QED BY <1>1, <2>1 DEF PersonRow, NoRow, AnyRow, StatusColumns
<1>2. CASE r \in Team
  <2>1. row \in TeamRow
    BY <1>2, RowKinds
  <2> QED BY <1>2, <2>1, DisjointAssumption DEF TeamRow, NoRow, AnyRow, StatusColumns
<1>3. CASE r \in Mission
  <2>1. row \in MissionRow
    BY <1>3, RowKinds
  <2> QED BY <1>3, <2>1, DisjointAssumption DEF MissionRow, NoRow, AnyRow, StatusColumns
<1>4. CASE r \in Expedition
  <2>1. row \in ExpeditionRow
    BY <1>4, RowKinds
  <2> QED BY <1>4, <2>1, DisjointAssumption DEF ExpeditionRow, NoRow, AnyRow, StatusColumns
<1>5. CASE r \in Window
  <2>1. row \in WindowRow
    BY <1>5, RowKinds
  <2> QED BY <1>5, <2>1, DisjointAssumption DEF WindowRow, NoRow, AnyRow, StatusColumns
<1> QED BY <1>1, <1>2, <1>3, <1>4, <1>5 DEF Record

(* The columns of a row that is written back. *)
LEMMA WrittenColumns ==
    ASSUME NEW row, NEW read, NEW write
    PROVE  /\ DOMAIN Written(row, read, write) = DOMAIN row
           /\ \A c \in DOMAIN row :
                 Written(row, read, write)[c] = IF write[c] = read[c] THEN row[c] ELSE write[c]
BY DEF Written

(* A row whose columns come from two rows of its kind is one of its kind. *)
LEMMA WrittenIsARow ==
    ASSUME NEW r \in Record, NEW row \in RowOf(r), NEW read, NEW write \in RowOf(r)
    PROVE  Written(row, read, write) \in RowOf(r)
<1> DEFINE w == Written(row, read, write)
<1>1. CASE r \in Person
  <2>1. row \in PersonRow /\ write \in PersonRow
    BY <1>1, RowKinds
  <2>2. w = [c \in {"expedition", "team", "role", "readiness", "movement"} |->
                IF write[c] = read[c] THEN row[c] ELSE write[c]]
    BY <2>1 DEF PersonRow, Written
  <2>3. w = [expedition |-> w.expedition, team |-> w.team, role |-> w.role,
             readiness |-> w.readiness, movement |-> w.movement]
    BY <2>2
  <2>4. w \in PersonRow
    BY <2>1, <2>2, <2>3 DEF PersonRow
  <2> QED BY <1>1, <2>4, RowKinds
<1>2. CASE r \in Team
  <2>1. row \in TeamRow /\ write \in TeamRow
    BY <1>2, RowKinds
  <2>2. w = [c \in {"expedition", "leader", "mission", "status"} |->
                IF write[c] = read[c] THEN row[c] ELSE write[c]]
    BY <2>1 DEF TeamRow, Written
  <2>3. w = [expedition |-> w.expedition, leader |-> w.leader, mission |-> w.mission,
             status |-> w.status]
    BY <2>2
  <2>4. w \in TeamRow
    BY <2>1, <2>2, <2>3 DEF TeamRow
  <2> QED BY <1>2, <2>4, RowKinds
<1>3. CASE r \in Mission
  <2>1. row \in MissionRow /\ write \in MissionRow
    BY <1>3, RowKinds
  <2>2. w = [c \in {"expedition", "status", "type", "requiredBy"} |->
                IF write[c] = read[c] THEN row[c] ELSE write[c]]
    BY <2>1 DEF MissionRow, Written
  <2>3. w = [expedition |-> w.expedition, status |-> w.status, type |-> w.type,
             requiredBy |-> w.requiredBy]
    BY <2>2
  <2>4. w \in MissionRow
    BY <2>1, <2>2, <2>3 DEF MissionRow
  <2> QED BY <1>3, <2>4, RowKinds
<1>4. CASE r \in Expedition
  <2>1. row \in ExpeditionRow /\ write \in ExpeditionRow
    BY <1>4, RowKinds
  <2>2. w = [c \in {"status"} |-> IF write[c] = read[c] THEN row[c] ELSE write[c]]
    BY <2>1 DEF ExpeditionRow, Written
  <2>3. w = [status |-> w.status]
    BY <2>2
  <2>4. w \in ExpeditionRow
    BY <2>1, <2>2, <2>3 DEF ExpeditionRow
  <2> QED BY <1>4, <2>4, RowKinds
<1>5. CASE r \in Window
  <2>1. row \in WindowRow /\ write \in WindowRow
    BY <1>5, RowKinds
  <2>2. w = [c \in {"subject", "status", "openAt", "closeAt"} |->
                IF write[c] = read[c] THEN row[c] ELSE write[c]]
    BY <2>1 DEF WindowRow, Written
  <2>3. w = [subject |-> w.subject, status |-> w.status, openAt |-> w.openAt,
             closeAt |-> w.closeAt]
    BY <2>2
  <2>4. w \in WindowRow
    BY <2>1, <2>2, <2>3 DEF WindowRow
  <2> QED BY <1>5, <2>4, RowKinds
<1> QED BY <1>1, <1>2, <1>3, <1>4, <1>5 DEF Record

(* An update asks for a row of the same kind, in the same expedition. *)
LEMMA WantedIsARow ==
    ASSUME NEW a \in Ask, NEW seen \in RowOf(a.id)
    PROVE  /\ Wanted(a, seen) \in RowOf(a.id)
           /\ a.id \in Person \cup Team \cup Mission =>
                 Wanted(a, seen).expedition = seen.expedition
<1> DEFINE r == a.id
           w == Wanted(a, seen)
<1>1. r \in Record /\ DOMAIN a.set \subseteq DOMAIN ColumnsOf(r)
      /\ \A c \in DOMAIN a.set : a.set[c] \in ColumnsOf(r)[c]
  BY AskAssumption
<1>2. CASE r \in Person
  <2>1. seen \in PersonRow
    BY <1>1, <1>2, RowKinds
  <2>2. /\ "expedition" \notin DOMAIN a.set
        /\ "team" \in DOMAIN a.set => a.set["team"] \in Team
        /\ "role" \in DOMAIN a.set => a.set["role"] \in {"guide", "scientist"}
        /\ "readiness" \in DOMAIN a.set => a.set["readiness"] \in PersonReadiness
        /\ "movement" \in DOMAIN a.set => a.set["movement"] \in PersonMovement
    BY <1>1, <1>2, ColumnKinds
  <2>3. w = [c \in {"expedition", "team", "role", "readiness", "movement"} |->
                IF c \in DOMAIN a.set THEN a.set[c] ELSE seen[c]]
    BY <2>1 DEF PersonRow, Wanted
  <2>4. w = [expedition |-> w.expedition, team |-> w.team, role |-> w.role,
             readiness |-> w.readiness, movement |-> w.movement]
    BY <2>3
  <2>5. w \in PersonRow /\ w.expedition = seen.expedition
    BY <2>1, <2>2, <2>3, <2>4 DEF PersonRow
  <2> QED BY <1>1, <1>2, <2>5, RowKinds
<1>3. CASE r \in Team
  <2>1. seen \in TeamRow
    BY <1>1, <1>3, RowKinds
  <2>2. /\ "expedition" \notin DOMAIN a.set
        /\ "leader" \in DOMAIN a.set => a.set["leader"] \in Person
        /\ "mission" \in DOMAIN a.set => a.set["mission"] \in Mission
        /\ "status" \in DOMAIN a.set => a.set["status"] \in TeamStatus
    BY <1>1, <1>3, ColumnKinds
  <2>3. w = [c \in {"expedition", "leader", "mission", "status"} |->
                IF c \in DOMAIN a.set THEN a.set[c] ELSE seen[c]]
    BY <2>1 DEF TeamRow, Wanted
  <2>4. w = [expedition |-> w.expedition, leader |-> w.leader, mission |-> w.mission,
             status |-> w.status]
    BY <2>3
  <2>5. w \in TeamRow /\ w.expedition = seen.expedition
    BY <2>1, <2>2, <2>3, <2>4 DEF TeamRow
  <2> QED BY <1>1, <1>3, <2>5, RowKinds
<1>4. CASE r \in Mission
  <2>1. seen \in MissionRow
    BY <1>1, <1>4, RowKinds
  <2>2. /\ "expedition" \notin DOMAIN a.set
        /\ "status" \in DOMAIN a.set => a.set["status"] \in MissionStatus
        /\ "type" \in DOMAIN a.set => a.set["type"] \in {"TRAVERSE", "STATION_WORK"}
        /\ "requiredBy" \in DOMAIN a.set => a.set["requiredBy"] \in Nat
    BY <1>1, <1>4, ColumnKinds
  <2>3. w = [c \in {"expedition", "status", "type", "requiredBy"} |->
                IF c \in DOMAIN a.set THEN a.set[c] ELSE seen[c]]
    BY <2>1 DEF MissionRow, Wanted
  <2>4. w = [expedition |-> w.expedition, status |-> w.status, type |-> w.type,
             requiredBy |-> w.requiredBy]
    BY <2>3
  <2>5. w \in MissionRow /\ w.expedition = seen.expedition
    BY <2>1, <2>2, <2>3, <2>4 DEF MissionRow
  <2> QED BY <1>1, <1>4, <2>5, RowKinds
<1>5. CASE r \in Expedition
  <2>1. seen \in ExpeditionRow
    BY <1>1, <1>5, RowKinds
  <2>2. "status" \in DOMAIN a.set => a.set["status"] \in ExpeditionStatus
    BY <1>1, <1>5, ColumnKinds
  <2>3. w = [c \in {"status"} |-> IF c \in DOMAIN a.set THEN a.set[c] ELSE seen[c]]
    BY <2>1 DEF ExpeditionRow, Wanted
  <2>4. w = [status |-> w.status]
    BY <2>3
  <2>5. w \in ExpeditionRow
    BY <2>1, <2>2, <2>3, <2>4 DEF ExpeditionRow
  <2> QED BY <1>1, <1>5, <2>5, RowKinds, DisjointAssumption
<1>6. CASE r \in Window
  <2>1. seen \in WindowRow
    BY <1>1, <1>6, RowKinds
  <2>2. /\ "subject" \notin DOMAIN a.set
        /\ "status" \in DOMAIN a.set => a.set["status"] \in WindowStatus
        /\ "openAt" \in DOMAIN a.set => a.set["openAt"] \in Nat
        /\ "closeAt" \in DOMAIN a.set => a.set["closeAt"] \in Nat
    BY <1>1, <1>6, ColumnKinds
  <2>3. w = [c \in {"subject", "status", "openAt", "closeAt"} |->
                IF c \in DOMAIN a.set THEN a.set[c] ELSE seen[c]]
    BY <2>1 DEF WindowRow, Wanted
  <2>4. w = [subject |-> w.subject, status |-> w.status, openAt |-> w.openAt,
             closeAt |-> w.closeAt]
    BY <2>3
  <2>5. w \in WindowRow
    BY <2>1, <2>2, <2>3, <2>4 DEF WindowRow
  <2> QED BY <1>1, <1>6, <2>5, RowKinds, DisjointAssumption
<1> QED BY <1>1, <1>2, <1>3, <1>4, <1>5, <1>6 DEF Record

(* The columns that link records. *)
LEMMA LinkColumns ==
    ASSUME NEW r \in Record, NEW row \in RowOf(r)
    PROVE  /\ r \in Person => "team" \in DOMAIN row /\ row.team \in Linkable
           /\ r \in Team =>
                 /\ "leader" \in DOMAIN row /\ row.leader \in Linkable
                 /\ "mission" \in DOMAIN row /\ row.mission \in Linkable
           /\ r \in Person \cup Team \cup Mission => "expedition" \in DOMAIN row
<1>1. ASSUME r \in Person
      PROVE  "team" \in DOMAIN row /\ row.team \in Linkable /\ "expedition" \in DOMAIN row
  <2>1. row \in PersonRow
    BY <1>1, RowKinds
  <2> QED BY <2>1 DEF PersonRow, Linkable
<1>2. ASSUME r \in Team
      PROVE  /\ "leader" \in DOMAIN row /\ row.leader \in Linkable
             /\ "mission" \in DOMAIN row /\ row.mission \in Linkable
             /\ "expedition" \in DOMAIN row
  <2>1. row \in TeamRow
    BY <1>2, RowKinds
  <2> QED BY <2>1 DEF TeamRow, Linkable
<1>3. ASSUME r \in Mission
      PROVE  "expedition" \in DOMAIN row
  <2>1. row \in MissionRow
    BY <1>3, RowKinds
  <2> QED BY <2>1 DEF MissionRow
<1> QED BY <1>1, <1>2, <1>3

(* A row is what a request asks for if it was as the request has read it. *)
LEMMA WrittenUnseen ==
    ASSUME NEW r \in Record, NEW row \in RowOf(r), NEW write \in RowOf(r)
    PROVE  Written(row, row, write) = write
<1>1. CASE r \in Person
  <2>1. row \in PersonRow /\ write \in PersonRow
    BY <1>1, RowKinds
  <2> QED BY <2>1 DEF PersonRow, Written
<1>2. CASE r \in Team
  <2>1. row \in TeamRow /\ write \in TeamRow
    BY <1>2, RowKinds
  <2> QED BY <2>1 DEF TeamRow, Written
<1>3. CASE r \in Mission
  <2>1. row \in MissionRow /\ write \in MissionRow
    BY <1>3, RowKinds
  <2> QED BY <2>1 DEF MissionRow, Written
<1>4. CASE r \in Expedition
  <2>1. row \in ExpeditionRow /\ write \in ExpeditionRow
    BY <1>4, RowKinds
  <2> QED BY <2>1 DEF ExpeditionRow, Written
<1>5. CASE r \in Window
  <2>1. row \in WindowRow /\ write \in WindowRow
    BY <1>5, RowKinds
  <2> QED BY <2>1 DEF WindowRow, Written
<1> QED BY <1>1, <1>2, <1>3, <1>4, <1>5 DEF Record

LEMMA StayingIsLawful ==
    \A r, row : MovesLawfully(r, row, row)
BY DEF MovesLawfully, LawfulStep

(* What a request has checked, for the row it has read. *)
LEMMA AcceptedMoves ==
    ASSUME NEW r \in Record, NEW seen, NEW row,
           \/ r \in Person /\ PersonAccepted(seen, row)
           \/ r \in Team /\ TeamAccepted(seen, row)
           \/ r \in Mission /\ MissionAccepted(seen, row)
           \/ r \in Expedition /\ ExpeditionAccepted(seen, row)
           \/ r \in Window /\ WindowAccepted(row)
    PROVE  MovesLawfully(r, seen, row)
BY DisjointAssumption
   DEF MovesLawfully, PersonAccepted, TeamAccepted, MissionAccepted, ExpeditionAccepted

LEMMA FitsStays ==
    ASSUME RecordsStay, NEW linked \in Linkable, NEW e, Fits(linked, e, rows)
    PROVE  Fits(linked, e, rows')
BY DEF RecordsStay, Linkable, Fits, Record

(* The links of the records that are left alone go on fitting. *)
LEMMA LinksStay ==
    ASSUME CampaignInv, RecordsStay, NEW r \in Record,
           \A s \in Record \ {r} : rows'[s] = rows[s],
           r \in Person => Fits(rows'[r].team, rows'[r].expedition, rows'),
           r \in Team => /\ Fits(rows'[r].leader, rows'[r].expedition, rows')
                         /\ Fits(rows'[r].mission, rows'[r].expedition, rows')
    PROVE  SameExpedition'
<1>1. ASSUME NEW p \in Person, rows'[p] # NoRow
      PROVE  Fits(rows'[p].team, rows'[p].expedition, rows')
  <2>1. CASE p = r
    BY <2>1
  <2>2. CASE p # r
    <3>1. rows'[p] = rows[p] /\ rows[p] \in PersonRow
      BY <1>1, <2>2, RowKinds DEF CampaignInv, CampaignTypeOK, Record
    <3>2. Fits(rows[p].team, rows[p].expedition, rows)
      BY <1>1, <3>1 DEF CampaignInv, SameExpedition, LinksFit
    <3>3. rows[p].team \in Linkable
      BY <3>1 DEF PersonRow, Linkable
    <3> QED BY <3>1, <3>2, <3>3, FitsStays
  <2> QED BY <2>1, <2>2
<1>2. ASSUME NEW t \in Team, rows'[t] # NoRow
      PROVE  /\ Fits(rows'[t].leader, rows'[t].expedition, rows')
             /\ Fits(rows'[t].mission, rows'[t].expedition, rows')
  <2>1. CASE t = r
    BY <2>1
  <2>2. CASE t # r
    <3>1. rows'[t] = rows[t] /\ rows[t] \in TeamRow
      BY <1>2, <2>2, RowKinds DEF CampaignInv, CampaignTypeOK, Record
    <3>2. /\ Fits(rows[t].leader, rows[t].expedition, rows)
          /\ Fits(rows[t].mission, rows[t].expedition, rows)
      BY <1>2, <3>1 DEF CampaignInv, SameExpedition, LinksFit
    <3>3. rows[t].leader \in Linkable /\ rows[t].mission \in Linkable
      BY <3>1 DEF TeamRow, Linkable
    <3> QED BY <3>1, <3>2, <3>3, FitsStays
  <2> QED BY <2>1, <2>2
<1> QED BY <1>1, <1>2 DEF SameExpedition, LinksFit

(* An update in flight is not spoilt by what others do meanwhile. *)
LEMMA InFlightStays ==
    ASSUME CampaignInv, RecordsStay, NEW k \in Session, request[k] # NoRequest
    PROVE  InFlight(request[k], rows')
<1> DEFINE q   == request[k]
           r   == q.ask.id
           row == Wanted(q.ask, q.seen)
<1>1. q.ask \in Ask /\ q.seen \in RowOf(r) /\ InFlight(q, rows)
  BY DEF CampaignInv, CampaignTypeOK, Request
<1>2. r \in Record /\ row \in RowOf(r)
  BY <1>1, WantedIsARow, AskAssumption
<1>3. rows[r] # NoRow /\ rows'[r] # NoRow /\ MovesLawfully(r, q.seen, row)
  BY <1>1, <1>2 DEF InFlight, RecordsStay
<1>4. ASSUME r \in Person, row.team # q.seen.team
      PROVE  Fits(row.team, rows'[r].expedition, rows')
  <2>1. row.team \in Linkable
    BY <1>2, <1>4, LinkColumns
  <2>2. Fits(row.team, rows[r].expedition, rows)
    BY <1>1, <1>4 DEF InFlight
  <2>3. rows'[r].expedition = rows[r].expedition
    BY <1>2, <1>3, <1>4 DEF RecordsStay
  <2> QED BY <2>1, <2>2, <2>3, FitsStays
<1>5. ASSUME r \in Team
      PROVE  /\ row.leader # q.seen.leader => Fits(row.leader, rows'[r].expedition, rows')
             /\ row.mission # q.seen.mission => Fits(row.mission, rows'[r].expedition, rows')
  <2>1. row.leader \in Linkable /\ row.mission \in Linkable
    BY <1>2, <1>5, LinkColumns
  <2>2. /\ row.leader # q.seen.leader => Fits(row.leader, rows[r].expedition, rows)
        /\ row.mission # q.seen.mission => Fits(row.mission, rows[r].expedition, rows)
    BY <1>1, <1>5 DEF InFlight
  <2>3. rows'[r].expedition = rows[r].expedition
    BY <1>2, <1>3, <1>5 DEF RecordsStay
  <2> QED BY <2>1, <2>2, <2>3, FitsStays
<1> QED BY <1>3, <1>4, <1>5 DEF InFlight

LEMMA InitCampaign == Init => CampaignInv
<1> SUFFICES ASSUME Init PROVE CampaignInv
  OBVIOUS
<1>1. /\ \A r \in Record : DOMAIN told[r] = StatusColumns(r)
      /\ \A r \in Record : \A c \in StatusColumns(r) : told[r][c] = None
  BY DEF Init
<1>2. CampaignTypeOK
  BY <1>1, SeededAssumption DEF Init, CampaignTypeOK
<1>3. SameExpedition
  BY SeededAssumption DEF Init, SameExpedition
<1>4. LatestEventIsTheStatus
  BY <1>1 DEF LatestEventIsTheStatus
<1> QED BY <1>2, <1>3, <1>4 DEF CampaignInv, Init

(* Inserting a record whose links fit, with an event that tells its status. *)
LEMMA InsertKeeps ==
    ASSUME CampaignInv, NEW r \in Record, NEW row \in RowOf(r), NEW said, Insert(r, row, said),
           r \in Person => TeamFits(row),
           r \in Team => LeaderFits(row) /\ MissionFits(row),
           DOMAIN said = StatusColumns(r),
           \A c \in StatusColumns(r) : said[c] \in {None, row[c]}
    PROVE  CampaignInv'
<1>1. /\ rows[r] = NoRow /\ rows'[r] = row /\ told'[r] = said
      /\ \A s \in Record \ {r} : rows'[s] = rows[s] /\ told'[s] = told[s]
      /\ DOMAIN rows' = Record /\ DOMAIN told' = Record
      /\ UNCHANGED <<request, stale>>
  BY DEF Insert, Exists, CampaignInv, CampaignTypeOK
<1>2. RecordsStay
  BY <1>1 DEF RecordsStay
<1>3. CampaignTypeOK'
  BY <1>1 DEF CampaignInv, CampaignTypeOK
<1>4. r \in Person => Fits(row.team, row.expedition, rows')
  <2> SUFFICES ASSUME r \in Person PROVE Fits(row.team, row.expedition, rows')
    OBVIOUS
  <2>1. row.team \in Linkable
    BY LinkColumns
  <2> QED BY <1>2, <2>1, FitsStays DEF TeamFits
<1>5. r \in Team => /\ Fits(row.leader, row.expedition, rows')
                    /\ Fits(row.mission, row.expedition, rows')
  <2> SUFFICES ASSUME r \in Team
               PROVE  /\ Fits(row.leader, row.expedition, rows')
                      /\ Fits(row.mission, row.expedition, rows')
    OBVIOUS
  <2>1. row.leader \in Linkable /\ row.mission \in Linkable
    BY LinkColumns
  <2> QED BY <1>2, <2>1, FitsStays DEF LeaderFits, MissionFits
<1>6. SameExpedition'
  BY <1>1, <1>2, <1>4, <1>5, LinksStay
<1>7. LatestEventIsTheStatus'
  BY <1>1 DEF CampaignInv, LatestEventIsTheStatus, Exists
<1>8. \A k \in Session : request'[k] # NoRequest => InFlight(request'[k], rows')
  BY <1>1, <1>2, InFlightStays
<1> QED BY <1>3, <1>6, <1>7, <1>8 DEF CampaignInv

LEMMA CreateKeeps ==
    ASSUME CampaignInv, Create
    PROVE  CampaignInv'
<1>1. PICK a \in Addition : \/ CreatePerson(a.id, a.row)
                            \/ CreateTeam(a.id, a.row)
                            \/ CreateMission(a.id, a.row)
                            \/ CreateExpedition(a.id, a.row)
                            \/ CreateTimeWindow(a.id, a.row)
  BY DEF Create
<1>2. a.id \in Record /\ a.row \in RowOf(a.id)
  BY AdditionAssumption
<1>3. CASE CreatePerson(a.id, a.row)
  <2> DEFINE said == [readiness |-> a.row.readiness, movement |-> None]
  <2>1. /\ a.id \in Person /\ TeamFits(a.row) /\ Insert(a.id, a.row, said)
        /\ a.id \notin Team
    BY <1>3, DisjointAssumption DEF CreatePerson
  <2>2. /\ DOMAIN said = StatusColumns(a.id)
        /\ \A c \in StatusColumns(a.id) : said[c] \in {None, a.row[c]}
    BY <2>1 DEF StatusColumns
  <2> QED BY <1>2, <2>1, <2>2, InsertKeeps
<1>4. CASE ~CreatePerson(a.id, a.row)
  <2> DEFINE said == [status |-> a.row.status]
  <2>1. /\ a.id \notin Person /\ Insert(a.id, a.row, said)
        /\ a.id \in Team => LeaderFits(a.row) /\ MissionFits(a.row)
    BY <1>1, <1>4, DisjointAssumption
       DEF CreateTeam, CreateMission, CreateExpedition, CreateTimeWindow
  <2>2. /\ DOMAIN said = StatusColumns(a.id)
        /\ \A c \in StatusColumns(a.id) : said[c] \in {None, a.row[c]}
    BY <2>1 DEF StatusColumns
  <2> QED BY <1>2, <2>1, <2>2, InsertKeeps
<1> QED BY <1>3, <1>4

LEMMA UpdateKeeps ==
    ASSUME CampaignInv, Update
    PROVE  CampaignInv'
<1>1. PICK k \in Session, a \in Ask :
         \/ UpdatePerson(k, a) \/ UpdateTeam(k, a) \/ UpdateMission(k, a)
         \/ UpdateExpedition(k, a) \/ UpdateTimeWindow(k, a)
  BY DEF Update
<1> DEFINE r   == a.id
           q   == [ask |-> a, seen |-> rows[r]]
           row == Wanted(a, rows[r])
<1>2. /\ r \in Record /\ rows[r] # NoRow /\ Serve(k, a)
      /\ \/ r \in Person /\ PersonAccepted(rows[r], row)
         \/ r \in Team /\ TeamAccepted(rows[r], row)
         \/ r \in Mission /\ MissionAccepted(rows[r], row)
         \/ r \in Expedition /\ ExpeditionAccepted(rows[r], row)
         \/ r \in Window /\ WindowAccepted(row)
  BY <1>1 DEF UpdatePerson, UpdateTeam, UpdateMission, UpdateExpedition, UpdateTimeWindow,
              Exists, Record
<1>3. rows[r] \in RowOf(r) /\ rows[r] \in AnyRow
  BY <1>2, RowsAreRows DEF CampaignInv, CampaignTypeOK
<1>4. /\ MovesLawfully(r, rows[r], row)
      /\ r \in Person \cup Team \cup Mission => row.expedition = rows[r].expedition
  BY <1>2, <1>3, AcceptedMoves, WantedIsARow
<1>5. InFlight(q, rows)
  <2>1. r \in Person => (row.team # rows[r].team => Fits(row.team, row.expedition, rows))
    BY <1>2, DisjointAssumption DEF PersonAccepted, TeamFits
  <2>2. r \in Team =>
           /\ row.leader # rows[r].leader => Fits(row.leader, row.expedition, rows)
           /\ row.mission # rows[r].mission => Fits(row.mission, row.expedition, rows)
    BY <1>2, DisjointAssumption DEF TeamAccepted, LeaderFits, MissionFits
  <2> QED BY <1>2, <1>4, <2>1, <2>2 DEF InFlight
<1>6. /\ UNCHANGED <<rows, told, stale>>
      /\ request' = [request EXCEPT ![k] = q]
      /\ request' \in [Session -> Request \cup {NoRequest}]
  BY <1>2, <1>3 DEF Serve, CampaignInv, CampaignTypeOK, Request
<1>7. CampaignTypeOK'
  BY <1>3, <1>6 DEF CampaignInv, CampaignTypeOK
<1>8. SameExpedition' /\ LatestEventIsTheStatus'
  BY <1>6 DEF CampaignInv, SameExpedition, LatestEventIsTheStatus, Exists
<1>9. \A j \in Session : request'[j] # NoRequest => InFlight(request'[j], rows')
  BY <1>5, <1>6 DEF CampaignInv, CampaignTypeOK
<1> QED BY <1>7, <1>8, <1>9 DEF CampaignInv

(* What the commit of an update writes. *)
LEMMA CommitWrites ==
    ASSUME CampaignInv, NEW k \in Session, Commit(k)
    PROVE  LET q   == request[k]
               r   == q.ask.id
               row == Wanted(q.ask, q.seen)
           IN  /\ r \in Record /\ q.seen \in RowOf(r) /\ row \in RowOf(r)
               /\ rows[r] \in RowOf(r) /\ InFlight(q, rows)
               /\ rows'[r] = Written(rows[r], q.seen, row)
               /\ rows'[r] \in RowOf(r)
               /\ r \in Person \cup Team \cup Mission =>
                     rows'[r].expedition = rows[r].expedition
               /\ \A s \in Record \ {r} : rows'[s] = rows[s] /\ told'[s] = told[s]
               /\ told'[r] = Said(r, q.seen, row)
               /\ DOMAIN rows' = Record /\ DOMAIN told' = Record
               /\ stale' = (stale \/ q.seen # rows[r])
               /\ request' = [request EXCEPT ![k] = NoRequest]
<1> DEFINE q   == request[k]
           r   == q.ask.id
           row == Wanted(q.ask, q.seen)
<1>1. /\ q # NoRequest
      /\ rows' = [rows EXCEPT ![r] = Written(rows[r], q.seen, row)]
      /\ told' = [told EXCEPT ![r] = Said(r, q.seen, row)]
      /\ stale' = (stale \/ q.seen # rows[r])
      /\ request' = [request EXCEPT ![k] = NoRequest]
  BY DEF Commit
<1>2. q.ask \in Ask /\ q.seen \in RowOf(r) /\ InFlight(q, rows)
  BY <1>1 DEF CampaignInv, CampaignTypeOK, Request
<1>3. r \in Record
  BY <1>2, AskAssumption
<1>4. /\ row \in RowOf(r)
      /\ r \in Person \cup Team \cup Mission => row.expedition = q.seen.expedition
  BY <1>2, WantedIsARow
<1>5. rows[r] # NoRow
  BY <1>2 DEF InFlight
<1>6. rows[r] \in RowOf(r) /\ DOMAIN rows = Record /\ DOMAIN told = Record
  BY <1>3, <1>5 DEF CampaignInv, CampaignTypeOK
<1> HIDE DEF q, r, row
<1>7. rows'[r] = Written(rows[r], q.seen, row) /\ rows'[r] \in RowOf(r)
  BY <1>1, <1>3, <1>4, <1>6, WrittenIsARow
<1>8. r \in Person \cup Team \cup Mission => rows'[r].expedition = rows[r].expedition
  <2> SUFFICES ASSUME r \in Person \cup Team \cup Mission
               PROVE  rows'[r].expedition = rows[r].expedition
    OBVIOUS
  <2>1. "expedition" \in DOMAIN rows[r]
    BY <1>3, <1>6, LinkColumns
  <2> QED BY <1>4, <1>7, <2>1, WrittenColumns
<1>9. /\ \A s \in Record \ {r} : rows'[s] = rows[s] /\ told'[s] = told[s]
      /\ told'[r] = Said(r, q.seen, row)
      /\ DOMAIN rows' = Record /\ DOMAIN told' = Record
  BY <1>1, <1>3, <1>6
<1> QED BY <1>1, <1>2, <1>3, <1>4, <1>6, <1>7, <1>8, <1>9 DEF q, r, row

LEMMA CommitKeeps ==
    ASSUME CampaignInv, NEW k \in Session, Commit(k)
    PROVE  CampaignInv'
<1> DEFINE q   == request[k]
           r   == q.ask.id
           row == Wanted(q.ask, q.seen)
<1>1. /\ r \in Record /\ q.seen \in RowOf(r) /\ row \in RowOf(r)
      /\ rows[r] \in RowOf(r) /\ InFlight(q, rows)
      /\ rows'[r] = Written(rows[r], q.seen, row)
      /\ rows'[r] \in RowOf(r)
      /\ r \in Person \cup Team \cup Mission =>
            rows'[r].expedition = rows[r].expedition
      /\ \A s \in Record \ {r} : rows'[s] = rows[s] /\ told'[s] = told[s]
      /\ told'[r] = Said(r, q.seen, row)
      /\ DOMAIN rows' = Record /\ DOMAIN told' = Record
      /\ stale' = (stale \/ q.seen # rows[r])
      /\ request' = [request EXCEPT ![k] = NoRequest]
  BY CommitWrites
<1>2. rows[r] # NoRow /\ rows'[r] # NoRow
  BY <1>1, RowsAreRows
<1>3. RecordsStay
  BY <1>1, <1>2 DEF RecordsStay
<1>4. /\ request \in [Session -> Request \cup {NoRequest}]
      /\ \A s \in Record : rows[s] \in RowOf(s) \cup {NoRow}
      /\ \A s \in Record : DOMAIN told[s] = StatusColumns(s)
      /\ \A j \in Session : request[j] # NoRequest =>
            request[j].seen \in RowOf(request[j].ask.id)
      /\ stale \in BOOLEAN
  BY DEF CampaignInv, CampaignTypeOK
<1>5. \A c \in DOMAIN rows[r] :
         rows'[r][c] = IF row[c] = q.seen[c] THEN rows[r][c] ELSE row[c]
  BY <1>1, WrittenColumns
<1>6. StatusColumns(r) \subseteq DOMAIN rows[r]
  BY <1>1, RowsAreRows
<1>7. DOMAIN told'[r] = StatusColumns(r)
  BY <1>1 DEF Said
<1>8. InFlight(q, rows)
  BY <1>1
<1> HIDE DEF q, r, row
<1>9. CampaignTypeOK'
  BY <1>1, <1>4, <1>7 DEF CampaignTypeOK
<1>10. ASSUME r \in Person
       PROVE  Fits(rows'[r].team, rows'[r].expedition, rows')
  <2>1. "team" \in DOMAIN rows[r] /\ rows'[r].team \in Linkable
    BY <1>1, <1>10, LinkColumns
  <2>2. rows'[r].team = IF row.team = q.seen.team THEN rows[r].team ELSE row.team
    BY <1>5, <2>1
  <2>3. Fits(rows'[r].team, rows[r].expedition, rows)
    <3>1. CASE row.team = q.seen.team
      BY <1>2, <1>10, <2>2, <3>1 DEF CampaignInv, SameExpedition, LinksFit
    <3>2. CASE row.team # q.seen.team
      BY <1>8, <1>10, <2>2, <3>2 DEF InFlight, q, r, row
    <3> QED BY <3>1, <3>2
  <2> QED BY <1>1, <1>3, <1>10, <2>1, <2>3, FitsStays
<1>11. ASSUME r \in Team
       PROVE  /\ Fits(rows'[r].leader, rows'[r].expedition, rows')
              /\ Fits(rows'[r].mission, rows'[r].expedition, rows')
  <2>1. /\ "leader" \in DOMAIN rows[r] /\ rows'[r].leader \in Linkable
        /\ "mission" \in DOMAIN rows[r] /\ rows'[r].mission \in Linkable
    BY <1>1, <1>11, LinkColumns
  <2>2. /\ rows'[r].leader = IF row.leader = q.seen.leader THEN rows[r].leader ELSE row.leader
        /\ rows'[r].mission =
              IF row.mission = q.seen.mission THEN rows[r].mission ELSE row.mission
    BY <1>5, <2>1
  <2>3. /\ Fits(rows[r].leader, rows[r].expedition, rows)
        /\ Fits(rows[r].mission, rows[r].expedition, rows)
    BY <1>2, <1>11 DEF CampaignInv, SameExpedition, LinksFit
  <2>4. /\ row.leader # q.seen.leader => Fits(row.leader, rows[r].expedition, rows)
        /\ row.mission # q.seen.mission => Fits(row.mission, rows[r].expedition, rows)
    BY <1>8, <1>11 DEF InFlight, q, r, row
  <2>5. /\ Fits(rows'[r].leader, rows[r].expedition, rows)
        /\ Fits(rows'[r].mission, rows[r].expedition, rows)
    BY <2>2, <2>3, <2>4
  <2> QED BY <1>1, <1>3, <1>11, <2>1, <2>5, FitsStays
<1>12. SameExpedition'
  BY <1>1, <1>3, <1>10, <1>11, LinksStay
<1>13. LatestEventIsTheStatus'
  <2> SUFFICES ASSUME NEW s \in Record, rows'[s] # NoRow, s \in Window => ~stale',
                      NEW c \in StatusColumns(s)
               PROVE  told'[s][c] \in {None, rows'[s][c]}
    BY DEF LatestEventIsTheStatus, Exists
  <2>1. CASE s # r
    BY <1>1, <2>1 DEF CampaignInv, LatestEventIsTheStatus, Exists
  <2>2. CASE s = r
    <3>1. told'[r][c] = IF r \in Window \/ row[c] # q.seen[c] THEN row[c] ELSE told[r][c]
      BY <1>1, <2>2 DEF Said
    <3>2. rows'[r][c] = IF row[c] = q.seen[c] THEN rows[r][c] ELSE row[c]
      BY <1>5, <1>6, <2>2
    <3>3. r \in Window => q.seen = rows[r] /\ ~stale
      BY <1>1, <1>4, <2>2
    <3>4. told[r][c] \in {None, rows[r][c]}
      BY <1>1, <1>2, <2>2, <3>3 DEF CampaignInv, LatestEventIsTheStatus, Exists
    <3> QED BY <2>2, <3>1, <3>2, <3>3, <3>4
  <2> QED BY <2>1, <2>2
<1>14. \A j \in Session : request'[j] # NoRequest => InFlight(request'[j], rows')
  BY <1>1, <1>3, <1>4, InFlightStays
<1> QED BY <1>9, <1>12, <1>13, <1>14 DEF CampaignInv

LEMMA AbortKeeps ==
    ASSUME CampaignInv, NEW k \in Session, Abort(k)
    PROVE  CampaignInv'
<1>1. request' = [request EXCEPT ![k] = NoRequest] /\ UNCHANGED <<rows, told, stale>>
  BY DEF Abort
<1>2. CampaignTypeOK'
  BY <1>1 DEF CampaignInv, CampaignTypeOK
<1>3. SameExpedition' /\ LatestEventIsTheStatus'
  BY <1>1 DEF CampaignInv, SameExpedition, LatestEventIsTheStatus, Exists
<1>4. \A j \in Session : request'[j] # NoRequest => InFlight(request'[j], rows')
  BY <1>1 DEF CampaignInv, CampaignTypeOK
<1> QED BY <1>2, <1>3, <1>4 DEF CampaignInv

LEMMA NextCampaign ==
    ASSUME CampaignInv, [CampaignNext]_campaignVars
    PROVE  CampaignInv'
<1>1. CASE UNCHANGED campaignVars
  BY <1>1 DEF campaignVars, CampaignInv, CampaignTypeOK, SameExpedition,
              LatestEventIsTheStatus, Exists
<1>2. CASE CampaignNext
  BY <1>2, CreateKeeps, UpdateKeeps, CommitKeeps, AbortKeeps DEF CampaignNext
<1> QED BY <1>1, <1>2

(* A status that is written is one the request checked, if it is not outdated. *)
LEMMA NextLawful ==
    ASSUME CampaignInv, CampaignNext, ~stale', NEW r \in Record, rows[r] # NoRow
    PROVE  MovesLawfully(r, rows[r], rows'[r])
<1>1. CASE rows'[r] = rows[r]
  BY <1>1, StayingIsLawful
<1>2. CASE rows'[r] # rows[r]
  <2>1. ~Create
    BY <1>2 DEF Create, CreatePerson, CreateTeam, CreateMission, CreateExpedition,
                CreateTimeWindow, Insert, Exists, CampaignInv, CampaignTypeOK
  <2>2. ~Update
    BY <1>2 DEF Update, UpdatePerson, UpdateTeam, UpdateMission, UpdateExpedition,
                UpdateTimeWindow, Serve
  <2>3. PICK k \in Session : Commit(k)
    BY <1>2, <2>1, <2>2 DEF CampaignNext, Abort
  <2> DEFINE q == request[k]
  <2>4. /\ r = q.ask.id
        /\ rows'[r] = Written(rows[r], q.seen, Wanted(q.ask, q.seen))
        /\ Wanted(q.ask, q.seen) \in RowOf(r) /\ rows[r] \in RowOf(r)
        /\ q.seen = rows[r] /\ InFlight(q, rows)
    BY <1>2, <2>3, CommitWrites
  <2>5. rows'[r] = Wanted(q.ask, q.seen)
    BY <2>4, WrittenUnseen
  <2> QED BY <2>4, <2>5 DEF InFlight
<1> QED BY <1>1, <1>2

-----------------------------------------------------------------------------
(* Rows, events and updates in flight are tied together in every reachable  *)
(* state of the five services.                                               *)
THEOREM CampaignInvariant == CampaignSpec => []CampaignInv
<1>1. CampaignInv /\ [CampaignNext]_campaignVars => CampaignInv'
  BY NextCampaign
<1> QED BY <1>1, InitCampaign, PTL DEF CampaignSpec

(* Rows, events and requests stay well formed: no update gives a column a   *)
(* value that its schema does not allow.                                     *)
THEOREM CampaignTypeCorrect == CampaignSpec => []CampaignTypeOK
<1>1. CampaignInv => CampaignTypeOK
  BY DEF CampaignInv
<1> QED BY <1>1, CampaignInvariant, PTL

(* Although update_person and update_team check a link against what they    *)
(* have read and write it later, every link stays within its expedition.     *)
THEOREM LinksStayInTheExpedition == CampaignSpec => []SameExpedition
<1>1. CampaignInv => SameExpedition
  BY DEF CampaignInv
<1> QED BY <1>1, CampaignInvariant, PTL

(* An update says in its event what it writes in the row, however many write *)
(* the same row at once.                                                     *)
THEOREM EventsTellTheStatus == CampaignSpec => []LatestEventIsTheStatus
<1>1. CampaignInv => LatestEventIsTheStatus
  BY DEF CampaignInv
<1> QED BY <1>1, CampaignInvariant, PTL

(* As long as no update commits on an outdated read, the transition tables   *)
(* hold from row to row, across all the requests that write a record.        *)
THEOREM LifecyclesAreKept == CampaignSpec => StatusesMoveLawfully
<1>1. CampaignInv /\ [CampaignNext]_campaignVars
         => [~stale' => \A r \in Record : Exists(r) =>
                MovesLawfully(r, rows[r], rows'[r])]_campaignVars
  BY NextLawful DEF Exists
<1> QED BY <1>1, CampaignInvariant, PTL DEF CampaignSpec, StatusesMoveLawfully

-----------------------------------------------------------------------------
(* What the queries return of the database db, and the findings there are in *)
(* it about the teams of the expedition e.                                   *)
FetchedIn(db, e, R) ==
    [r \in R |-> IF db[r] # NoRow /\ db[r].expedition = e THEN db[r] ELSE NoRow]

SafetyIn(db, e) ==
    {f \in Findings([p \in Person |-> db[p]], [t \in Team |-> db[t]], [m \in Mission |-> db[m]]) :
        db[f.team].expedition = e}

AtMostOne(S) == \A x, y \in S : x = y

(* What the evaluation has read is as the database is, in the tables that    *)
(* have not changed; and together with the tables it has still to read it    *)
(* yields the findings of a moment, as long as one table only has changed    *)
(* and that one has been read.                                               *)
Consistent(r, e, db) ==
    /\ r.phase \in {"teams", "missions", "done"}
    /\ r.touched \subseteq {Person, Team, Mission}
    /\ SafetyIn(db, e) \in r.moments
    /\ r.phase = "teams" =>
          /\ Person \notin r.touched => r.people = FetchedIn(db, e, Person)
          /\ r.touched \subseteq {Person} =>
                Findings(r.people, FetchedIn(db, e, Team), FetchedIn(db, e, Mission)) \in r.moments
    /\ r.phase = "missions" =>
          /\ Person \notin r.touched => r.people = FetchedIn(db, e, Person)
          /\ Team \notin r.touched => r.teams = FetchedIn(db, e, Team)
          /\ r.touched \subseteq {Person} \/ r.touched \subseteq {Team} =>
                Findings(r.people, r.teams, FetchedIn(db, e, Mission)) \in r.moments
    /\ r.phase = "done" /\ AtMostOne(r.touched) =>
          Findings(r.people, r.teams, r.missions) \in r.moments

(* The inductive invariant. *)
OversightInv ==
    /\ CampaignInv
    /\ scope.kind = "safety" => Consistent(review, scope.root, rows)

-----------------------------------------------------------------------------
(* The rows of a database that is as Campaign keeps it. *)
WellKept(db) ==
    /\ \A r \in Record : db[r] \in RowOf(r) \cup {NoRow}
    /\ LinksFit(db)

LEMMA FetchedNow ==
    /\ \A e, R : Fetched(e, R) = FetchedIn(rows, e, R)
    /\ \A e : SafetyNow(e) = SafetyIn(rows, e)
BY DEF Fetched, FetchedIn, SafetyNow, SafetyIn, Exists

LEMMA RowsWellKept == CampaignInv => WellKept(rows)
BY DEF CampaignInv, CampaignTypeOK, SameExpedition, WellKept

LEMMA FindingsNameTheirTeam ==
    ASSUME NEW people, NEW teams, NEW missions, NEW t,
           NEW f \in FindingsOf(people, teams, missions, t)
    PROVE  f.team = t
BY DEF FindingsOf, DisqualifiedMembers, IncompatibleMembers, HeadcountDeficit, LeaderUnready,
       SafetyOfficerAbsent, Finding

(* A team is judged alike on all rows and on those of its expedition: its   *)
(* members, its leader and its mission are among them.                      *)
LEMMA TeamJudgedAlike ==
    ASSUME NEW db, WellKept(db), NEW e, NEW t \in Team, db[t] # NoRow, db[t].expedition = e
    PROVE  FindingsOf([p \in Person |-> db[p]], [u \in Team |-> db[u]], [m \in Mission |-> db[m]], t)
              = FindingsOf(FetchedIn(db, e, Person), FetchedIn(db, e, Team),
                           FetchedIn(db, e, Mission), t)
<1> DEFINE P == [p \in Person |-> db[p]]
           T == [u \in Team |-> db[u]]
           M == [m \in Mission |-> db[m]]
           Q == FetchedIn(db, e, Person)
           U == FetchedIn(db, e, Team)
           N == FetchedIn(db, e, Mission)
<1>1. db[t] \in TeamRow
  BY RowKinds DEF WellKept, Record
<1>2. T[t] = db[t] /\ U[t] = db[t]
  BY DEF FetchedIn
<1>3. ASSUME NEW p \in Person, db[p] # NoRow, db[p].team = t
      PROVE  db[p].expedition = e
  <2>1. t # None
    BY NoneAssumption DEF Record
  <2>2. Fits(db[p].team, db[p].expedition, db)
    BY <1>3 DEF WellKept, LinksFit
  <2> QED BY <1>3, <2>1, <2>2 DEF Fits
<1>4. \A p \in Person : P[p] # NoRow /\ P[p].team = t <=> Q[p] # NoRow /\ Q[p].team = t
  BY <1>3 DEF FetchedIn
<1>5. Members(P, t) = Members(Q, t)
  BY <1>4 DEF Members
<1>6. \A p \in Members(P, t) : P[p] = Q[p]
  BY <1>3 DEF Members, FetchedIn
<1>7. db[t].leader # None => P[db[t].leader] = Q[db[t].leader]
  BY <1>1 DEF WellKept, LinksFit, Fits, FetchedIn, TeamRow
<1>8. db[t].mission # None => M[db[t].mission] = N[db[t].mission]
  BY <1>1 DEF WellKept, LinksFit, Fits, FetchedIn, TeamRow
<1> HIDE DEF P, T, M, Q, U, N
<1>9. DisqualifiedMembers(P, t) = DisqualifiedMembers(Q, t)
  <2>1. {q \in Members(P, t) : P[q].readiness \in {"NOT_CLEARED", "UNAVAILABLE"}}
          = {q \in Members(Q, t) : Q[q].readiness \in {"NOT_CLEARED", "UNAVAILABLE"}}
    BY <1>5, <1>6
  <2> QED BY <2>1 DEF DisqualifiedMembers
<1>10. InTheField(T, t) = InTheField(U, t)
  BY <1>2 DEF InTheField
<1>11. IncompatibleMembers(P, T, t) = IncompatibleMembers(Q, U, t)
  <2>1. {q \in Members(P, t) : /\ InTheField(T, t)
                               /\ P[q].movement \in {"NOT_DEPLOYED", "RETURNING", "RETURNED"}}
          = {q \in Members(Q, t) : /\ InTheField(U, t)
                                   /\ Q[q].movement \in {"NOT_DEPLOYED", "RETURNING", "RETURNED"}}
    BY <1>5, <1>6, <1>10
  <2> QED BY <2>1 DEF IncompatibleMembers
<1>12. HeadcountDeficit(P, T, t) = HeadcountDeficit(Q, U, t)
  BY <1>2, <1>5 DEF HeadcountDeficit
<1>13. LeaderUnready(P, T, t) = LeaderUnready(Q, U, t)
  <2>1. CASE db[t].leader = None
    BY <1>2, <2>1 DEF LeaderUnready
  <2>2. CASE db[t].leader # None
    BY <1>2, <1>7, <2>2 DEF LeaderUnready
  <2> QED BY <2>1, <2>2
<1>14. SafetyOfficerAbsent(P, T, M, t) = SafetyOfficerAbsent(Q, U, N, t)
  <2>1. (\A p \in Members(P, t) : P[p].role # "guide")
           <=> (\A p \in Members(Q, t) : Q[p].role # "guide")
    BY <1>5, <1>6
  <2>2. CASE db[t].mission = None
    BY <1>2, <2>2 DEF SafetyOfficerAbsent
  <2>3. CASE db[t].mission # None
    BY <1>2, <1>8, <1>10, <2>1, <2>3 DEF SafetyOfficerAbsent
  <2> QED BY <2>2, <2>3
<1> QED BY <1>9, <1>11, <1>12, <1>13, <1>14 DEF FindingsOf, P, T, M, Q, U, N

(* The findings among the rows fetched for an expedition are the findings   *)
(* about its teams.                                                         *)
LEMMA FetchedSuffices ==
    ASSUME NEW db, WellKept(db), NEW e
    PROVE  SafetyIn(db, e) = Findings(FetchedIn(db, e, Person), FetchedIn(db, e, Team),
                                      FetchedIn(db, e, Mission))
<1> DEFINE P == [p \in Person |-> db[p]]
           T == [u \in Team |-> db[u]]
           M == [m \in Mission |-> db[m]]
           Q == FetchedIn(db, e, Person)
           U == FetchedIn(db, e, Team)
           N == FetchedIn(db, e, Mission)
<1>1. \A t \in Team : T[t] = db[t]
  OBVIOUS
<1>2. \A t \in Team : U[t] # NoRow <=> db[t] # NoRow /\ db[t].expedition = e
  BY DEF FetchedIn
<1>3. \A t \in Team : db[t] # NoRow /\ db[t].expedition = e =>
         FindingsOf(P, T, M, t) = FindingsOf(Q, U, N, t)
  BY TeamJudgedAlike
<1>4. SafetyIn(db, e) = {f \in Findings(P, T, M) : db[f.team].expedition = e}
  BY DEF SafetyIn
<1> HIDE DEF P, T, M, Q, U, N
<1>5. ASSUME NEW f \in SafetyIn(db, e) PROVE f \in Findings(Q, U, N)
  <2>1. f \in Findings(P, T, M) /\ db[f.team].expedition = e
    BY <1>4, <1>5
  <2>2. PICK t \in Team : T[t] # NoRow /\ f \in FindingsOf(P, T, M, t)
    BY <2>1 DEF Findings
  <2>3. f.team = t
    BY <2>2, FindingsNameTheirTeam
  <2>4. U[t] # NoRow /\ f \in FindingsOf(Q, U, N, t)
    BY <1>1, <1>2, <1>3, <2>1, <2>2, <2>3
  <2> QED BY <2>4 DEF Findings
<1>6. ASSUME NEW f \in Findings(Q, U, N) PROVE f \in SafetyIn(db, e)
  <2>1. PICK t \in Team : U[t] # NoRow /\ f \in FindingsOf(Q, U, N, t)
    BY <1>6 DEF Findings
  <2>2. f.team = t /\ T[t] # NoRow /\ db[t].expedition = e /\ f \in FindingsOf(P, T, M, t)
    BY <1>1, <1>2, <1>3, <2>1, FindingsNameTheirTeam
  <2>3. f \in Findings(P, T, M)
    BY <2>2 DEF Findings
  <2> QED BY <1>4, <2>2, <2>3
<1> QED BY <1>5, <1>6 DEF Q, U, N

(* A set of fewer than two elements. *)
LEMMA FewerThanTwo ==
    ASSUME NEW S, IsFiniteSet(S), Cardinality(S) < 2
    PROVE  AtMostOne(S)
<1> SUFFICES ASSUME NEW x \in S, NEW y \in S, x # y PROVE FALSE
  BY DEF AtMostOne
<1>1. IsFiniteSet({x}) /\ Cardinality({x}) = 1
  BY FS_Singleton
<1>2. Cardinality({x} \cup {y}) = 2 /\ IsFiniteSet({x} \cup {y})
  BY <1>1, FS_AddElement
<1>3. ({x} \cup {y}) \in SUBSET S
  OBVIOUS
<1>4. Cardinality({x} \cup {y}) <= Cardinality(S)
  BY <1>3, FS_Subset
<1>5. Cardinality(S) \in Nat
  BY FS_CardinalityType
<1> QED BY <1>2, <1>4, <1>5

-----------------------------------------------------------------------------
(* Every step of Oversight is one of the five services or leaves their      *)
(* records alone.                                                           *)
LEMMA OversightSteps ==
    ASSUME [Next]_vars
    PROVE  [CampaignNext]_campaignVars
<1>1. CASE UNCHANGED vars
  BY <1>1 DEF vars
<1>2. CASE Change
  BY <1>2 DEF Change, CampaignNext, OtherService
<1>3. CASE Update \/ \E k \in Session : Abort(k)
  BY <1>3 DEF CampaignNext
<1>4. CASE \E s \in Scope : BeginSafety(s) \/ BeginMission(s) \/ BeginExpedition(s) \/ BeginImpact(s)
  BY <1>4 DEF BeginSafety, BeginMission, BeginExpedition, BeginImpact, BeginReview
<1>5. CASE ReadTeams \/ ReadMissions \/ MakeCheck
  BY <1>5 DEF ReadTeams, ReadMissions, MakeCheck
<1> QED BY <1>1, <1>2, <1>3, <1>4, <1>5 DEF Next

(* Before the first change an evaluation is consistent with what it has read. *)
LEMMA BeginSafetyConsistent ==
    ASSUME CampaignInv, NEW s, BeginSafety(s)
    PROVE  Consistent(review', s.root, rows')
<1> DEFINE e == s.root
<1>1. /\ review' = [phase |-> "teams", people |-> FetchedIn(rows, e, Person),
                    teams |-> NoRow, missions |-> NoRow,
                    moments |-> {SafetyIn(rows, e)}, touched |-> {}]
      /\ rows' = rows
  BY FetchedNow DEF BeginSafety, campaignVars
<1>2. SafetyIn(rows, e) = Findings(FetchedIn(rows, e, Person), FetchedIn(rows, e, Team),
                                   FetchedIn(rows, e, Mission))
  BY RowsWellKept, FetchedSuffices
<1> HIDE DEF e
<1>3. Consistent(review', e, rows')
  BY <1>1, <1>2 DEF Consistent
<1> QED BY <1>3 DEF e

LEMMA ReadTeamsConsistent ==
    ASSUME CampaignInv, Consistent(review, scope.root, rows), ReadTeams
    PROVE  Consistent(review', scope.root, rows')
<1> DEFINE e == scope.root
<1>1. /\ review.phase = "teams"
      /\ review' = [phase |-> "missions", people |-> review.people,
                    teams |-> FetchedIn(rows, e, Team), missions |-> NoRow,
                    moments |-> review.moments, touched |-> review.touched]
      /\ rows' = rows
  BY FetchedNow DEF ReadTeams, campaignVars
<1>2. SafetyIn(rows, e) = Findings(FetchedIn(rows, e, Person), FetchedIn(rows, e, Team),
                                   FetchedIn(rows, e, Mission))
  BY RowsWellKept, FetchedSuffices
<1>3. Consistent(review, e, rows)
  OBVIOUS
<1> HIDE DEF e
<1>4. /\ Person \notin review.touched => review.people = FetchedIn(rows, e, Person)
      /\ review.touched \subseteq {Person} =>
            Findings(review.people, FetchedIn(rows, e, Team), FetchedIn(rows, e, Mission))
               \in review.moments
      /\ SafetyIn(rows, e) \in review.moments
      /\ review.touched \subseteq {Person, Team, Mission}
  BY <1>1, <1>3 DEF Consistent
<1>5. review.touched \subseteq {Person} \/ review.touched \subseteq {Team} =>
         Findings(review.people, FetchedIn(rows, e, Team), FetchedIn(rows, e, Mission))
            \in review.moments
  <2>1. CASE Person \in review.touched
    BY <1>4, <2>1
  <2>2. CASE Person \notin review.touched
    BY <1>2, <1>4, <2>2
  <2> QED BY <2>1, <2>2
<1>6. Consistent(review', e, rows')
  BY <1>1, <1>4, <1>5 DEF Consistent
<1> QED BY <1>6 DEF e

LEMMA ReadMissionsConsistent ==
    ASSUME CampaignInv, Consistent(review, scope.root, rows), ReadMissions
    PROVE  Consistent(review', scope.root, rows')
<1> DEFINE e == scope.root
<1>1. /\ review.phase = "missions"
      /\ review' = [phase |-> "done", people |-> review.people, teams |-> review.teams,
                    missions |-> FetchedIn(rows, e, Mission),
                    moments |-> review.moments, touched |-> review.touched]
      /\ rows' = rows
  BY FetchedNow DEF ReadMissions, campaignVars
<1>2. SafetyIn(rows, e) = Findings(FetchedIn(rows, e, Person), FetchedIn(rows, e, Team),
                                   FetchedIn(rows, e, Mission))
  BY RowsWellKept, FetchedSuffices
<1>3. Consistent(review, e, rows)
  OBVIOUS
<1> HIDE DEF e
<1>4. /\ Person \notin review.touched => review.people = FetchedIn(rows, e, Person)
      /\ Team \notin review.touched => review.teams = FetchedIn(rows, e, Team)
      /\ review.touched \subseteq {Person} \/ review.touched \subseteq {Team} =>
            Findings(review.people, review.teams, FetchedIn(rows, e, Mission)) \in review.moments
      /\ SafetyIn(rows, e) \in review.moments
      /\ review.touched \subseteq {Person, Team, Mission}
  BY <1>1, <1>3 DEF Consistent
<1>5. AtMostOne(review.touched) =>
         Findings(review.people, review.teams, FetchedIn(rows, e, Mission)) \in review.moments
  <2> SUFFICES ASSUME AtMostOne(review.touched)
               PROVE  Findings(review.people, review.teams, FetchedIn(rows, e, Mission))
                         \in review.moments
    OBVIOUS
  <2>1. CASE Person \in review.touched
    <3>1. review.touched \subseteq {Person}
      BY <2>1 DEF AtMostOne
    <3> QED BY <1>4, <3>1
  <2>2. CASE Team \in review.touched
    <3>1. review.touched \subseteq {Team}
      BY <2>2 DEF AtMostOne
    <3> QED BY <1>4, <3>1
  <2>3. CASE Person \notin review.touched /\ Team \notin review.touched
    BY <1>2, <1>4, <2>3
  <2> QED BY <2>1, <2>2, <2>3
<1>6. Consistent(review', e, rows')
  BY <1>1, <1>4, <1>5 DEF Consistent
<1> QED BY <1>6 DEF e

(* A commit in the midst of an evaluation: what has been read of a table that *)
(* changes is outdated, and the findings it leads to are of an earlier moment. *)
LEMMA ObserveConsistent ==
    ASSUME CampaignInv, CampaignInv', scope.kind = "safety", scope' = scope,
           Consistent(review, scope.root, rows), ~Done, Observe
    PROVE  Consistent(review', scope.root, rows')
<1> DEFINE e == scope.root
           now(R) == FetchedIn(rows, e, R)
           then(R) == FetchedIn(rows', e, R)
<1>1. review' = [phase |-> review.phase, people |-> review.people,
                 teams |-> review.teams, missions |-> review.missions,
                 moments |-> review.moments \cup {SafetyIn(rows', e)},
                 touched |-> review.touched \cup Touched]
  <2>1. PICK root \in {scope.root} :
           review' = [phase |-> review.phase, people |-> review.people,
                      teams |-> review.teams, missions |-> review.missions,
                      moments |-> review.moments \cup {SafetyNow(root)'},
                      touched |-> review.touched \cup Touched]
    BY DEF Observe, NoScope
  <2>2. SafetyNow(root)' = SafetyIn(rows', root)
    BY DEF SafetyNow, SafetyIn
  <2> QED BY <2>1, <2>2
<1>2. Touched \subseteq {Person, Team, Mission}
  BY DEF Touched
<1>3. \A R \in {Person, Team, Mission} : R \notin Touched => then(R) = now(R)
  BY DEF Touched, FetchedIn
<1>4. /\ Touched \subseteq {Person} => Team \notin Touched /\ Mission \notin Touched
      /\ Touched \subseteq {Team} => Mission \notin Touched
  BY DisjointAssumption DEF Touched
<1>5. Consistent(review, e, rows) /\ review.phase # "done"
  BY DEF Done
<1> HIDE DEF e, now, then
<1>6. CASE review.phase = "teams"
  <2>1. /\ Person \notin review.touched => review.people = now(Person)
        /\ review.touched \subseteq {Person} =>
              Findings(review.people, now(Team), now(Mission)) \in review.moments
        /\ review.touched \subseteq {Person, Team, Mission}
    BY <1>5, <1>6 DEF Consistent, now
  <2>2. /\ Person \notin review'.touched => review.people = then(Person)
        /\ review'.touched \subseteq {Person} =>
              Findings(review.people, then(Team), then(Mission)) \in review.moments
    BY <1>1, <1>3, <1>4, <2>1
  <2> QED BY <1>1, <1>2, <1>6, <2>1, <2>2 DEF Consistent, then, e
<1>7. CASE review.phase = "missions"
  <2>1. /\ Person \notin review.touched => review.people = now(Person)
        /\ Team \notin review.touched => review.teams = now(Team)
        /\ review.touched \subseteq {Person} \/ review.touched \subseteq {Team} =>
              Findings(review.people, review.teams, now(Mission)) \in review.moments
        /\ review.touched \subseteq {Person, Team, Mission}
    BY <1>5, <1>7 DEF Consistent, now
  <2>2. /\ Person \notin review'.touched => review.people = then(Person)
        /\ Team \notin review'.touched => review.teams = then(Team)
        /\ review'.touched \subseteq {Person} \/ review'.touched \subseteq {Team} =>
              Findings(review.people, review.teams, then(Mission)) \in review.moments
    BY <1>1, <1>3, <1>4, <2>1
  <2> QED BY <1>1, <1>2, <1>7, <2>1, <2>2 DEF Consistent, then, e
<1> QED BY <1>5, <1>6, <1>7 DEF Consistent

LEMMA InitOversight == OversightInit => OversightInv
BY InitCampaign DEF OversightInit, OversightInv, NoScope

(* What the steps do to the evaluation. *)
LEMMA ReviewSteps ==
    ASSUME Next
    PROVE  \/ \E s : BeginSafety(s) /\ scope' = s
           \/ scope'.kind # "safety"
           \/ ReadTeams /\ scope' = scope
           \/ ReadMissions /\ scope' = scope
           \/ ~Done /\ Observe /\ scope' = scope
           \/ UNCHANGED <<rows, scope, review>>
<1>1. CASE ~Done /\ changes < MaxChanges /\ Change /\ Observe
  BY <1>1 DEF Observe
<1>2. CASE Update /\ UNCHANGED <<supply, deps, scope, review, changes>>
  <2>1. UNCHANGED rows
    BY <1>2 DEF Update, UpdatePerson, UpdateTeam, UpdateMission, UpdateExpedition,
                UpdateTimeWindow, Serve
  <2> QED BY <1>2, <2>1
<1>3. CASE (\E k \in Session : Abort(k)) /\ UNCHANGED <<supply, deps, scope, review, changes>>
  BY <1>3 DEF Abort
<1>4. CASE \E s \in Scope : BeginSafety(s)
  BY <1>4 DEF BeginSafety
<1>5. CASE \E s \in Scope : BeginMission(s) \/ BeginExpedition(s) \/ BeginImpact(s)
  BY <1>5 DEF BeginMission, BeginExpedition, BeginImpact, BeginReview
<1>6. CASE ReadTeams
  BY <1>6 DEF ReadTeams
<1>7. CASE ReadMissions
  BY <1>7 DEF ReadMissions
<1>8. CASE MakeCheck
  BY <1>8 DEF MakeCheck
<1> QED BY <1>1, <1>2, <1>3, <1>4, <1>5, <1>6, <1>7, <1>8 DEF Next

LEMMA NextOversight ==
    ASSUME OversightInv, [Next]_vars
    PROVE  OversightInv'
<1>1. CampaignInv /\ CampaignInv'
  BY OversightSteps, NextCampaign DEF OversightInv
<1>2. ASSUME scope'.kind = "safety" PROVE Consistent(review', scope'.root, rows')
  <2>1. CASE UNCHANGED <<rows, scope, review>>
    BY <1>2, <2>1 DEF OversightInv
  <2>2. CASE \E s : BeginSafety(s) /\ scope' = s
    BY <1>1, <2>2, BeginSafetyConsistent
  <2>3. CASE ReadTeams /\ scope' = scope
    BY <1>1, <1>2, <2>3, ReadTeamsConsistent DEF OversightInv
  <2>4. CASE ReadMissions /\ scope' = scope
    BY <1>1, <1>2, <2>4, ReadMissionsConsistent DEF OversightInv
  <2>5. CASE ~Done /\ Observe /\ scope' = scope
    BY <1>1, <1>2, <2>5, ObserveConsistent DEF OversightInv
  <2>6. CASE UNCHANGED vars
    BY <2>1, <2>6 DEF vars, campaignVars
  <2> QED BY <1>2, <2>1, <2>2, <2>3, <2>4, <2>5, <2>6, ReviewSteps
<1> QED BY <1>1, <1>2 DEF OversightInv

-----------------------------------------------------------------------------
(* The evaluations and the other components leave the five services to      *)
(* themselves: Oversight implements Campaign.                               *)
THEOREM ImplementsCampaign == Spec => CampaignSpec
<1>1. OversightInit => Init
  BY DEF OversightInit
<1>2. [Next]_vars => [CampaignNext]_campaignVars
  BY OversightSteps
<1> QED BY <1>1, <1>2, PTL DEF Spec, CampaignSpec

(* So the links fit while the evaluations read them. *)
THEOREM LinksFitUnderOversight == Spec => []SameExpedition
BY ImplementsCampaign, LinksStayInTheExpedition, PTL

(* What an evaluation has read stays tied to what the database was and is.  *)
THEOREM OversightInvariant == Spec => []OversightInv
<1>1. OversightInv /\ [Next]_vars => OversightInv'
  BY NextOversight
<1> QED BY <1>1, InitOversight, PTL DEF Spec

(* evaluate_expedition reads people, teams and missions by three queries    *)
(* with commits between them; the findings, and the posture they add up to, *)
(* are those of one moment as long as one of the tables changes only.       *)
THEOREM PostureOfAMoment == Spec => []SafetyVerdictOfAMoment
<1>1. OversightInv => SafetyVerdictOfAMoment
  <2> DEFINE found == Findings(review.people, review.teams, review.missions)
  <2> SUFFICES ASSUME OversightInv, scope.kind = "safety", review.phase = "done",
                      Cardinality(review.touched) < 2
               PROVE  found \in review.moments
    BY DEF SafetyVerdictOfAMoment
  <2>1. Consistent(review, scope.root, rows)
    BY DEF OversightInv
  <2>2. IsFiniteSet(review.touched)
    <3>1. IsFiniteSet({Person, Team, Mission})
      <4>1. IsFiniteSet({Person})
        BY FS_Singleton
      <4>2. IsFiniteSet({Person} \cup {Team})
        BY <4>1, FS_AddElement
      <4>3. IsFiniteSet(({Person} \cup {Team}) \cup {Mission})
        BY <4>2, FS_AddElement
      <4>4. {Person, Team, Mission} = ({Person} \cup {Team}) \cup {Mission}
        OBVIOUS
      <4> QED BY <4>3, <4>4
    <3>2. review.touched \in SUBSET {Person, Team, Mission}
      BY <2>1 DEF Consistent
    <3> QED BY <3>1, <3>2, FS_Subset
  <2>3. AtMostOne(review.touched)
    BY <2>2, FewerThanTwo
  <2> QED BY <2>1, <2>3 DEF Consistent
<1> QED BY <1>1, OversightInvariant, PTL

-----------------------------------------------------------------------------
(* The least of some naturals. *)
LEMMA LeastNatural ==
    ASSUME NEW T, T \subseteq Nat, T # {}
    PROVE  \E n \in T : \A m \in T : n <= m
<1>1. \E R : IsWellFoundedOn(R, Nat) /\ \A x, y \in Nat : y < x => <<y, x>> \in R
  <2> WITNESS OpToRel(<, Nat)
  <2>1. \A x, y \in Nat : y < x => <<y, x>> \in OpToRel(<, Nat)
    BY DEF OpToRel
  <2> QED BY <2>1, NatLessThanWellFounded
<1>2. PICK R : IsWellFoundedOn(R, Nat) /\ \A x, y \in Nat : y < x => <<y, x>> \in R
  BY <1>1
<1>3. PICK n \in T : \A m \in T : ~(<<m, n>> \in R)
  BY <1>2, WFMin
<1>4. ASSUME NEW m \in T, ~(n <= m) PROVE FALSE
  <2>1. n \in Nat /\ m \in Nat
    OBVIOUS
  <2>2. m < n
    BY <1>4, <2>1
  <2> QED BY <1>2, <1>3, <2>1, <2>2
<1> QED BY <1>4

(* f is the function on D that is h where the recursion stops, and elsewhere *)
(* k, applied to its value at g, which is smaller in the measure m.          *)
Recursive(f, D, stop, h, g, k) ==
    f = [s \in D |-> IF s \in stop THEN h[s] ELSE k[s][f[g[s]]]]

LowPart(D, m, n) == {s \in D : m[s] <= n}

LEMMA RecursiveAgree ==
    ASSUME NEW D, NEW m \in [D -> Nat], NEW stop, NEW h, NEW g, NEW k,
           \A s \in D \ stop : g[s] \in D /\ m[g[s]] < m[s],
           NEW n \in Nat, NEW f, Recursive(f, LowPart(D, m, n), stop, h, g, k),
           NEW j \in Nat, NEW e, Recursive(e, LowPart(D, m, j), stop, h, g, k),
           NEW s \in D, m[s] <= n, m[s] <= j
    PROVE  f[s] = e[s]
<1> DEFINE both == {r \in D : m[r] <= n /\ m[r] <= j}
           bad == {m[r] : r \in {x \in both : f[x] # e[x]}}
<1> SUFFICES ASSUME f[s] # e[s] PROVE FALSE
  OBVIOUS
<1>1. bad \subseteq Nat /\ bad # {}
  OBVIOUS
<1>2. PICK least \in bad : \A x \in bad : least <= x
  BY <1>1, LeastNatural
<1>3. PICK r \in both : f[r] # e[r] /\ m[r] = least
  BY <1>2
<1>4. r \in LowPart(D, m, n) /\ r \in LowPart(D, m, j)
  BY <1>3 DEF LowPart
<1>5. /\ f[r] = IF r \in stop THEN h[r] ELSE k[r][f[g[r]]]
      /\ e[r] = IF r \in stop THEN h[r] ELSE k[r][e[g[r]]]
  BY <1>4 DEF Recursive
<1>6. r \notin stop
  BY <1>3, <1>5
<1>7. g[r] \in D /\ m[g[r]] < m[r] /\ m[g[r]] \in Nat /\ m[r] \in Nat
  BY <1>3, <1>6
<1>8. g[r] \in both
  BY <1>3, <1>7
<1>9. f[g[r]] = e[g[r]]
  <2> SUFFICES ASSUME f[g[r]] # e[g[r]] PROVE FALSE
    OBVIOUS
  <2>1. m[g[r]] \in bad
    BY <1>8
  <2> QED BY <1>2, <1>3, <1>7, <2>1
<1> QED BY <1>3, <1>5, <1>6, <1>9

(* A recursion on which a measure decreases defines a function. *)
LEMMA RecursiveExists ==
    ASSUME NEW D, NEW m \in [D -> Nat], NEW stop, NEW h, NEW g, NEW k,
           \A s \in D \ stop : g[s] \in D /\ m[g[s]] < m[s]
    PROVE  \E f : Recursive(f, D, stop, h, g, k)
<1> DEFINE Low(n) == LowPart(D, m, n)
           Lack == {n \in Nat : ~ \E f : Recursive(f, Low(n), stop, h, g, k)}
<1>1. Lack = {}
  <2> SUFFICES ASSUME Lack # {} PROVE FALSE
    OBVIOUS
  <2>1. Lack \subseteq Nat
    OBVIOUS
  <2>2. \A x \in Nat : x \notin Lack => \E f : Recursive(f, Low(x), stop, h, g, k)
    OBVIOUS
  <2>3. \A x \in Lack : ~ \E f : Recursive(f, Low(x), stop, h, g, k)
    OBVIOUS
  <2> HIDE DEF Lack
  <2>4. PICK n \in Lack : \A x \in Lack : n <= x
    BY <2>1, LeastNatural
  <2>5. n \in Nat
    BY <2>1
  <2>6. PICK f : n # 0 => Recursive(f, Low(n - 1), stop, h, g, k)
    <3>1. CASE n = 0
      BY <3>1
    <3>2. CASE n # 0
      <4>1. n - 1 \in Nat /\ n - 1 \notin Lack
        BY <2>4, <2>5, <3>2
      <4> QED BY <2>2, <4>1
    <3> QED BY <3>1, <3>2
  <2> DEFINE e == [s \in Low(n) |-> IF s \in stop THEN h[s] ELSE k[s][f[g[s]]]]
  <2>7. ASSUME NEW s \in Low(n), s \notin stop PROVE e[g[s]] = f[g[s]]
    <3>1. s \in D /\ m[s] <= n
      BY DEF LowPart
    <3>2. g[s] \in D /\ m[g[s]] < m[s] /\ m[g[s]] \in Nat /\ m[s] \in Nat
      BY <2>7, <3>1
    <3>3. n # 0 /\ m[g[s]] <= n - 1 /\ m[g[s]] <= n
      BY <2>5, <3>1, <3>2
    <3>4. g[s] \in Low(n) /\ g[s] \in Low(n - 1)
      BY <3>2, <3>3 DEF LowPart
    <3>5. f[g[s]] = IF g[s] \in stop THEN h[g[s]] ELSE k[g[s]][f[g[g[s]]]]
      BY <2>6, <3>3, <3>4 DEF Recursive
    <3> QED BY <3>4, <3>5
  <2>8. e = [s \in Low(n) |-> IF s \in stop THEN h[s] ELSE k[s][e[g[s]]]]
    BY <2>7
  <2>9. Recursive(e, Low(n), stop, h, g, k)
    BY <2>8 DEF Recursive
  <2> QED BY <2>3, <2>4, <2>9
<1> DEFINE part(n) == CHOOSE f : Recursive(f, Low(n), stop, h, g, k)
           f == [s \in D |-> part(m[s])[s]]
<1>2. \A n \in Nat : Recursive(part(n), Low(n), stop, h, g, k)
  BY <1>1
<1> HIDE DEF part
<1>3. ASSUME NEW s \in D
      PROVE  f[s] = IF s \in stop THEN h[s] ELSE k[s][f[g[s]]]
  <2>1. m[s] \in Nat /\ s \in Low(m[s])
    BY DEF LowPart
  <2>2. part(m[s])[s] = IF s \in stop THEN h[s] ELSE k[s][part(m[s])[g[s]]]
    BY <1>2, <2>1 DEF Recursive
  <2>3. ASSUME s \notin stop PROVE f[g[s]] = part(m[s])[g[s]]
    <3>1. g[s] \in D /\ m[g[s]] < m[s] /\ m[g[s]] \in Nat
      BY <2>3
    <3> DEFINE r == g[s]
               a == m[r]
               b == m[s]
               whole == part(b)
               below == part(a)
    <3>2. r \in D /\ a \in Nat /\ b \in Nat /\ m[r] <= a /\ m[r] <= b
      BY <2>1, <3>1
    <3>3. /\ Recursive(below, LowPart(D, m, a), stop, h, g, k)
          /\ Recursive(whole, LowPart(D, m, b), stop, h, g, k)
      BY <1>2, <3>2
    <3>4. f[r] = below[r]
      BY <3>2
    <3> HIDE DEF r, a, b, whole, below
    <3>5. below[r] = whole[r]
      BY <3>2, <3>3, RecursiveAgree
    <3> QED BY <3>4, <3>5 DEF r, b, whole
  <2> QED BY <2>2, <2>3
<1>4. f = [s \in D |-> IF s \in stop THEN h[s] ELSE k[s][f[g[s]]]]
  BY <1>3
<1> QED BY <1>4 DEF Recursive

-----------------------------------------------------------------------------
(* The elements of a sequence at some places. *)
PlacesOf(I) ==
    [k \in 1 .. Cardinality(I) |-> CHOOSE i \in I : Cardinality({j \in I : j <= i}) = k]

LEMMA Places ==
    ASSUME NEW n \in Nat, NEW I \in SUBSET (1 .. n)
    PROVE  /\ IsFiniteSet(I) /\ Cardinality(I) \in Nat
           /\ PlacesOf(I) \in [1 .. Cardinality(I) -> I]
           /\ \A a, b \in 1 .. Cardinality(I) : PlacesOf(I)[a] = PlacesOf(I)[b] => a = b
           /\ \A i \in I : \E a \in 1 .. Cardinality(I) : PlacesOf(I)[a] = i
<1> DEFINE upto(i) == {j \in I : j <= i}
           C == Cardinality(I)
           rank == [i \in I |-> Cardinality(upto(i))]
<1>1. IsFiniteSet(I) /\ C \in Nat
  <2>1. IsFiniteSet(1 .. n)
    BY FS_Interval
  <2>2. IsFiniteSet(I)
    BY <2>1, FS_Subset
  <2> QED BY <2>2, FS_CardinalityType
<1>2. \A i \in I : /\ upto(i) \in SUBSET I /\ IsFiniteSet(upto(i)) /\ Cardinality(upto(i)) \in Nat
                   /\ Cardinality(upto(i)) <= C
  <2> TAKE i \in I
  <2>1. upto(i) \in SUBSET I
    OBVIOUS
  <2>2. IsFiniteSet(upto(i)) /\ Cardinality(upto(i)) <= C
    BY <1>1, <2>1, FS_Subset
  <2> QED BY <2>1, <2>2, FS_CardinalityType
<1>3. \A i \in I : Cardinality(upto(i)) >= 1
  <2> TAKE i \in I
  <2>1. i \in upto(i)
    OBVIOUS
  <2> QED BY <1>2, <2>1, FS_EmptySet
<1>4. ASSUME NEW i \in I, NEW j \in I, i < j PROVE rank[i] # rank[j]
  <2>1. upto(i) \in SUBSET upto(j)
    <3> SUFFICES ASSUME NEW x \in I, x <= i PROVE x <= j
      OBVIOUS
    <3>1. x \in Nat /\ i \in Nat /\ j \in Nat
      OBVIOUS
    <3> QED BY <1>4, <3>1
  <2>2. upto(i) # upto(j)
    BY <1>4
  <2> HIDE DEF upto
  <2>3. Cardinality(upto(i)) # Cardinality(upto(j))
    BY <1>2, <2>1, <2>2, FS_Subset
  <2> QED BY <2>3
<1>5. \A i, j \in I : rank[i] = rank[j] => i = j
  <2> SUFFICES ASSUME NEW i \in I, NEW j \in I, rank[i] = rank[j], i # j PROVE FALSE
    OBVIOUS
  <2>1. i < j \/ j < i
    OBVIOUS
  <2> HIDE DEF rank
  <2> QED BY <1>4, <2>1
<1>6. rank \in [I -> 1 .. C]
  BY <1>1, <1>2, <1>3
<1> HIDE DEF rank
<1>7. rank \in Surjection(I, 1 .. C)
  <2>1. rank \in Injection(I, 1 .. C)
    BY <1>5, <1>6 DEF Injection, IsInjective
  <2>2. IsFiniteSet(1 .. C) /\ Cardinality(1 .. C) = C
    BY <1>1, FS_Interval
  <2> QED BY <2>1, <2>2, FS_Injection
<1>8. \A a \in 1 .. C : \E i \in I : rank[i] = a
  BY <1>7 DEF Surjection
<1> DEFINE p == PlacesOf(I)
<1>9. ASSUME NEW a \in 1 .. C PROVE p[a] \in I /\ rank[p[a]] = a
  <2>1. \A i \in I : rank[i] = Cardinality({j \in I : j <= i})
    BY DEF rank
  <2> DEFINE c == CHOOSE i \in I : Cardinality({j \in I : j <= i}) = a
  <2>2. \E i \in I : Cardinality({j \in I : j <= i}) = a
    BY <1>8, <2>1
  <2>3. c \in I /\ Cardinality({j \in I : j <= c}) = a
    BY <2>2
  <2>4. p[a] = c
    BY DEF PlacesOf
  <2> HIDE DEF c
  <2> QED BY <2>1, <2>3, <2>4
<1>10. \A i \in I : p[rank[i]] = i /\ rank[i] \in 1 .. C
  BY <1>5, <1>6, <1>9
<1>11. p = [a \in 1 .. C |-> p[a]]
  BY DEF PlacesOf
<1> HIDE DEF p, C
<1>12. p \in [1 .. C -> I]
  BY <1>9, <1>11
<1>13. \A a, b \in 1 .. C : p[a] = p[b] => a = b
  BY <1>9
<1>14. \A i \in I : \E a \in 1 .. C : p[a] = i
  BY <1>10
<1> QED BY <1>1, <1>12, <1>13, <1>14 DEF p, C

LEMMA PickedAtPlaces ==
    ASSUME NEW seq, NEW n \in Nat, NEW I \in SUBSET (1 .. n)
    PROVE  /\ DOMAIN Picked(seq, I) = 1 .. Cardinality(I)
           /\ \A k \in 1 .. Cardinality(I) :
                 PlacesOf(I)[k] \in I /\ Picked(seq, I)[k] = seq[PlacesOf(I)[k]]
           /\ \A S : (\A i \in I : seq[i] \in S) => Picked(seq, I) \in Seq(S)
<1> DEFINE C == Cardinality(I)
           p == PlacesOf(I)
<1>1. Picked(seq, I) = [k \in 1 .. C |-> seq[p[k]]]
  BY DEF Picked, PlacesOf
<1>2. C \in Nat /\ p \in [1 .. C -> I]
  BY Places
<1> HIDE DEF C, p
<1>3. \A k \in 1 .. C : p[k] \in I
  BY <1>2
<1>4. ASSUME NEW S, \A i \in I : seq[i] \in S PROVE Picked(seq, I) \in Seq(S)
  <2>1. \A k \in 1 .. C : seq[p[k]] \in S
    BY <1>3, <1>4
  <2>2. [k \in 1 .. C |-> seq[p[k]]] \in [1 .. C -> S]
    BY <2>1
  <2>3. [k \in 1 .. C |-> seq[p[k]]] \in Seq(S)
    BY <1>2, <2>2
  <2> QED BY <1>1, <2>3
<1> QED BY <1>1, <1>3, <1>4 DEF C, p

(* What there is at those places. *)
AtPlaces(seq, I) == {seq[i] : i \in I}

LEMMA PickedIs ==
    ASSUME NEW S, NEW n \in Nat, NEW I \in SUBSET (1 .. n), NEW seq, \A i \in I : seq[i] \in S
    PROVE  /\ Picked(seq, I) \in Seq(S)
           /\ ToSet(Picked(seq, I)) = AtPlaces(seq, I)
<1> DEFINE C == Cardinality(I)
           p == PlacesOf(I)
           q == Picked(seq, I)
<1>1. C \in Nat /\ \A i \in I : \E a \in 1 .. C : p[a] = i
  BY Places
<1>2. DOMAIN q = 1 .. C /\ \A a \in 1 .. C : p[a] \in I /\ q[a] = seq[p[a]]
  BY PickedAtPlaces
<1>3. Picked(seq, I) \in Seq(S)
  BY PickedAtPlaces
<1> HIDE DEF C, p, q
<1>4. ASSUME NEW a \in 1 .. C PROVE \E i \in I : q[a] = seq[i]
  <2> DEFINE i == p[a]
  <2>1. i \in I /\ q[a] = seq[i]
    BY <1>2
  <2> HIDE DEF i
  <2> QED BY <2>1
<1>5. ASSUME NEW i \in I PROVE \E a \in 1 .. C : q[a] = seq[i]
  <2>1. PICK a \in 1 .. C : p[a] = i
    BY <1>1
  <2> QED BY <1>2, <2>1
<1>6. ToSet(q) = {q[a] : a \in 1 .. C}
  BY <1>2 DEF ToSet
<1>7. ToSet(q) = {seq[i] : i \in I}
  BY <1>4, <1>5, <1>6
<1> QED BY <1>3, <1>7 DEF q, AtPlaces

LEMMA PickedInjective ==
    ASSUME NEW n \in Nat, NEW I \in SUBSET (1 .. n), NEW seq,
           \A i, j \in I : seq[i] = seq[j] => i = j
    PROVE  IsInjective(Picked(seq, I))
<1> DEFINE C == Cardinality(I)
           p == PlacesOf(I)
           q == Picked(seq, I)
<1>1. C \in Nat /\ \A a, b \in 1 .. C : p[a] = p[b] => a = b
  BY Places
<1>2. DOMAIN q = 1 .. C /\ \A a \in 1 .. C : p[a] \in I /\ q[a] = seq[p[a]]
  BY PickedAtPlaces
<1> HIDE DEF C, p, q
<1>3. ASSUME NEW a \in 1 .. C, NEW b \in 1 .. C, q[a] = q[b] PROVE a = b
  <2> DEFINE i == p[a]
             j == p[b]
  <2>1. i \in I /\ j \in I /\ q[a] = seq[i] /\ q[b] = seq[j]
    BY <1>2
  <2> HIDE DEF i, j
  <2>2. i = j
    BY <1>3, <2>1
  <2> QED BY <1>1, <2>2 DEF i, j
<1>4. IsInjective(q)
  BY <1>2, <1>3 DEF IsInjective
<1> QED BY <1>4 DEF q

(* What two sequences, one after the other, contain. *)
LEMMA ToSetConcat ==
    ASSUME NEW S, NEW s \in Seq(S), NEW t \in Seq(S)
    PROVE  s \o t \in Seq(S) /\ ToSet(s \o t) = ToSet(s) \cup ToSet(t)
<1>1. s \o t \in Seq(S)
  BY ConcatProperties
<1>2. ToSet(s \o t) \subseteq ToSet(s) \cup ToSet(t)
  <2> SUFFICES ASSUME NEW i \in DOMAIN (s \o t) PROVE (s \o t)[i] \in ToSet(s) \cup ToSet(t)
    BY DEF ToSet
  <2>1. i \in 1 .. Len(s) + Len(t) /\ Len(s) \in Nat /\ Len(t) \in Nat
    BY ConcatProperties, <1>1, LenProperties
  <2>2. CASE i <= Len(s)
    BY <2>1, <2>2, ConcatProperties DEF ToSet
  <2>3. CASE i > Len(s)
    <3>1. i - Len(s) \in 1 .. Len(t) /\ (s \o t)[i] = t[i - Len(s)]
      BY <2>1, <2>3, ConcatProperties
    <3> QED BY <3>1 DEF ToSet
  <2> QED BY <2>1, <2>2, <2>3
<1>3. ASSUME NEW i \in 1 .. Len(s) PROVE s[i] \in ToSet(s \o t)
  <2>1. i \in 1 .. Len(s) + Len(t) /\ (s \o t)[i] = s[i]
    BY ConcatProperties, LenProperties
  <2> QED BY <1>1, <2>1, ConcatProperties DEF ToSet
<1>4. ASSUME NEW i \in 1 .. Len(t) PROVE t[i] \in ToSet(s \o t)
  <2>1. /\ Len(s) + i \in 1 .. Len(s) + Len(t) /\ Len(s) + i > Len(s)
        /\ (Len(s) + i) - Len(s) = i
    BY LenProperties
  <2>2. (s \o t)[Len(s) + i] = t[i]
    BY <2>1, ConcatProperties
  <2>3. DOMAIN (s \o t) = 1 .. Len(s) + Len(t)
    BY <1>1, ConcatProperties, LenProperties
  <2> DEFINE j == Len(s) + i
             st == s \o t
  <2>4. j \in DOMAIN st /\ st[j] = t[i]
    BY <2>1, <2>2, <2>3
  <2> HIDE DEF j, st
  <2>5. t[i] \in ToSet(st)
    BY <2>4 DEF ToSet
  <2> QED BY <2>5 DEF st
<1>5. ToSet(s) \subseteq ToSet(s \o t)
  <2>1. DOMAIN s = 1 .. Len(s)
    BY LenProperties
  <2>2. ToSet(s) = {s[i] : i \in 1 .. Len(s)}
    BY <2>1 DEF ToSet
  <2> QED BY <1>3, <2>2
<1>6. ToSet(t) \subseteq ToSet(s \o t)
  <2>1. DOMAIN t = 1 .. Len(t)
    BY LenProperties
  <2>2. ToSet(t) = {t[i] : i \in 1 .. Len(t)}
    BY <2>1 DEF ToSet
  <2> QED BY <1>4, <2>2
<1> QED BY <1>1, <1>2, <1>5, <1>6

-----------------------------------------------------------------------------
(* What a round finds. *)
Edges(N) == [from : N, rel : STRING, to : N]

LEMMA NextNodesAre ==
    ASSUME NEW N, NEW edges \in Seq(Edges(N)), NEW r \in N, NEW direction
    PROVE  /\ NextNodes(edges, r, direction) \in Seq(N)
           /\ ToSet(NextNodes(edges, r, direction)) \cup {r} = Around(edges, {r}, direction)
<1> DEFINE out == {i \in DOMAIN edges : edges[i].from = r /\ direction \in {"OUTGOING", "BOTH"}}
           in == {i \in DOMAIN edges : edges[i].to = r /\ direction \in {"INCOMING", "BOTH"}}
           targets == [i \in DOMAIN edges |-> edges[i].to]
           sources == [i \in DOMAIN edges |-> edges[i].from]
<1>1. /\ DOMAIN edges = 1 .. Len(edges) /\ Len(edges) \in Nat
      /\ \A i \in DOMAIN edges : edges[i] \in Edges(N)
  BY LenProperties, ElementOfSeq
<1>2. \A i \in DOMAIN edges : edges[i].from \in N /\ edges[i].to \in N
  BY <1>1 DEF Edges
<1>3. out \in SUBSET (1 .. Len(edges)) /\ in \in SUBSET (1 .. Len(edges))
  BY <1>1
<1>4. /\ \A i \in out : targets[i] \in N /\ targets[i] = edges[i].to
      /\ \A i \in in : sources[i] \in N /\ sources[i] = edges[i].from
  BY <1>2
<1>5. NextNodes(edges, r, direction) = Picked(targets, out) \o Picked(sources, in)
  BY DEF NextNodes
<1>6. Around(edges, {r}, direction)
         = {r} \cup {edges[i].to : i \in out} \cup {edges[i].from : i \in in}
  BY DEF Around
<1> HIDE DEF out, in, targets, sources
<1>7. /\ Picked(targets, out) \in Seq(N)
      /\ ToSet(Picked(targets, out)) = AtPlaces(targets, out)
  BY <1>1, <1>3, <1>4, PickedIs
<1>8. /\ Picked(sources, in) \in Seq(N)
      /\ ToSet(Picked(sources, in)) = AtPlaces(sources, in)
  BY <1>1, <1>3, <1>4, PickedIs
<1>9. /\ AtPlaces(targets, out) = {edges[i].to : i \in out}
      /\ AtPlaces(sources, in) = {edges[i].from : i \in in}
  BY <1>4 DEF AtPlaces
<1>10. /\ Picked(targets, out) \o Picked(sources, in) \in Seq(N)
       /\ ToSet(Picked(targets, out) \o Picked(sources, in))
             = ToSet(Picked(targets, out)) \cup ToSet(Picked(sources, in))
  BY <1>7, <1>8, ToSetConcat
<1> DEFINE a == Picked(targets, out)
           b == Picked(sources, in)
           to == {edges[i].to : i \in out}
           from == {edges[i].from : i \in in}
<1>11. /\ NextNodes(edges, r, direction) = a \o b
       /\ a \o b \in Seq(N) /\ ToSet(a \o b) = to \cup from
       /\ Around(edges, {r}, direction) = {r} \cup to \cup from
  BY <1>5, <1>6, <1>7, <1>8, <1>9, <1>10
<1> HIDE DEF a, b, to, from
<1>12. NextNodes(edges, r, direction) \in Seq(N)
  BY <1>11
<1>13. ToSet(NextNodes(edges, r, direction)) = to \cup from
  BY <1>11
<1>14. (to \cup from) \cup {r} = {r} \cup to \cup from
  OBVIOUS
<1> QED BY <1>11, <1>12, <1>13, <1>14

(* Each of the records that were not visited once. *)
LEMMA FreshAre ==
    ASSUME NEW N, NEW next \in Seq(N), NEW visited
    PROVE  /\ Fresh(next, visited) \in Seq(N)
           /\ ToSet(Fresh(next, visited)) = ToSet(next) \ visited
           /\ IsInjective(Fresh(next, visited))
<1> DEFINE I == {i \in DOMAIN next : next[i] \notin visited
                                     /\ \A j \in 1 .. i - 1 : next[j] # next[i]}
<1>1. /\ DOMAIN next = 1 .. Len(next) /\ Len(next) \in Nat
      /\ \A i \in DOMAIN next : next[i] \in N
  BY LenProperties, ElementOfSeq
<1>2. I \in SUBSET (1 .. Len(next)) /\ \A i \in I : next[i] \in N
  BY <1>1
<1>3. ASSUME NEW i \in I, NEW j \in I, next[i] = next[j] PROVE i = j
  <2>1. i \in Nat /\ j \in Nat /\ i >= 1 /\ j >= 1
    BY <1>2
  <2>2. ~(i < j)
    BY <1>3, <2>1
  <2>3. ~(j < i)
    BY <1>3, <2>1
  <2> QED BY <2>1, <2>2, <2>3
<1>4. ASSUME NEW i \in DOMAIN next, next[i] \notin visited
      PROVE  \E j \in I : next[j] = next[i]
  <2> DEFINE same == {j \in DOMAIN next : next[j] = next[i]}
  <2>1. same \subseteq Nat /\ same # {}
    BY <1>1
  <2>2. PICK j \in same : \A k \in same : j <= k
    BY <2>1, LeastNatural
  <2>3. ASSUME NEW k \in 1 .. j - 1 PROVE next[k] # next[j]
    <3> SUFFICES ASSUME next[k] = next[j] PROVE FALSE
      OBVIOUS
    <3>1. j \in 1 .. Len(next) /\ k \in 1 .. Len(next) /\ k < j
      BY <1>1
    <3>2. k \in same
      BY <1>1, <3>1
    <3> QED BY <2>2, <3>1, <3>2
  <2>4. j \in I
    BY <1>4, <2>3
  <2> QED BY <2>4
<1>5. AtPlaces(next, I) = ToSet(next) \ visited
  BY <1>4 DEF ToSet, AtPlaces
<1>6. Fresh(next, visited) = Picked(next, I)
  BY DEF Fresh
<1> HIDE DEF I
<1>7. Picked(next, I) \in Seq(N) /\ ToSet(Picked(next, I)) = AtPlaces(next, I)
  BY <1>1, <1>2, PickedIs
<1>8. IsInjective(Picked(next, I))
  BY <1>1, <1>2, <1>3, PickedInjective
<1> QED BY <1>5, <1>6, <1>7, <1>8

-----------------------------------------------------------------------------
(* The reference: balls grow by what is around them. *)
NearUpTo(f, edges, root, direction, n) ==
    f = [i \in 0 .. n |-> IF i = 0 THEN {root} ELSE Around(edges, f[i - 1], direction)]

LEMMA NearExists ==
    ASSUME NEW edges, NEW root, NEW direction, NEW n \in Nat
    PROVE  \E f : NearUpTo(f, edges, root, direction, n)
<1> DEFINE Lack == {i \in Nat : ~ \E f : NearUpTo(f, edges, root, direction, i)}
<1> SUFFICES ASSUME Lack # {} PROVE FALSE
  OBVIOUS
<1>1. /\ Lack \subseteq Nat
      /\ \A i \in Nat : i \notin Lack => \E f : NearUpTo(f, edges, root, direction, i)
      /\ \A i \in Lack : ~ \E f : NearUpTo(f, edges, root, direction, i)
  OBVIOUS
<1> HIDE DEF Lack
<1>2. PICK i \in Lack : \A j \in Lack : i <= j
  BY <1>1, LeastNatural
<1>3. i \in Nat
  BY <1>1
<1>4. PICK f : i # 0 => NearUpTo(f, edges, root, direction, i - 1)
  <2>1. CASE i = 0
    BY <2>1
  <2>2. CASE i # 0
    <3>1. i - 1 \in Nat /\ i - 1 \notin Lack
      BY <1>2, <1>3, <2>2
    <3> QED BY <1>1, <3>1
  <2> QED BY <2>1, <2>2
<1> DEFINE e == [j \in 0 .. i |-> IF j = 0 THEN {root} ELSE Around(edges, f[j - 1], direction)]
<1>5. ASSUME NEW j \in 0 .. i, j # 0 PROVE e[j - 1] = f[j - 1]
  <2>1. i # 0 /\ j - 1 \in 0 .. i /\ j - 1 \in 0 .. i - 1
    BY <1>3, <1>5
  <2>2. f[j - 1] = IF j - 1 = 0 THEN {root} ELSE Around(edges, f[(j - 1) - 1], direction)
    BY <1>4, <2>1 DEF NearUpTo
  <2> QED BY <2>1, <2>2
<1>6. e = [j \in 0 .. i |-> IF j = 0 THEN {root} ELSE Around(edges, e[j - 1], direction)]
  BY <1>5
<1>7. NearUpTo(e, edges, root, direction, i)
  BY <1>6 DEF NearUpTo
<1> QED BY <1>1, <1>2, <1>7

LEMMA BallIs ==
    ASSUME NEW edges, NEW root, NEW direction, NEW n \in Nat
    PROVE  \E f : NearUpTo(f, edges, root, direction, n) /\ Ball(edges, root, direction, n) = f[n]
<1> DEFINE f == CHOOSE g : NearUpTo(g, edges, root, direction, n)
<1>1. NearUpTo(f, edges, root, direction, n)
  BY NearExists
<1>2. Ball(edges, root, direction, n) = f[n]
  BY DEF Ball, NearUpTo
<1> QED BY <1>1, <1>2

LEMMA NearAgree ==
    ASSUME NEW edges, NEW root, NEW direction, NEW n \in Nat, NEW m \in Nat,
           NEW f, NearUpTo(f, edges, root, direction, n),
           NEW e, NearUpTo(e, edges, root, direction, m),
           NEW i \in Nat, i <= n, i <= m
    PROVE  f[i] = e[i]
<1> DEFINE bad == {j \in Nat : j <= n /\ j <= m /\ f[j] # e[j]}
<1> SUFFICES ASSUME bad # {} PROVE FALSE
  OBVIOUS
<1>1. PICK j \in bad : \A k \in bad : j <= k
  BY LeastNatural
<1>2. j \in 0 .. n /\ j \in 0 .. m
  OBVIOUS
<1>3. /\ f[j] = IF j = 0 THEN {root} ELSE Around(edges, f[j - 1], direction)
      /\ e[j] = IF j = 0 THEN {root} ELSE Around(edges, e[j - 1], direction)
  BY <1>2 DEF NearUpTo
<1>4. j # 0
  BY <1>1, <1>3
<1>5. j - 1 \in Nat /\ j - 1 <= n /\ j - 1 <= m
  BY <1>2, <1>4
<1>6. j - 1 \notin bad
  BY <1>1, <1>5
<1>7. f[j - 1] = e[j - 1]
  BY <1>5, <1>6
<1> QED BY <1>1, <1>3, <1>7

LEMMA BallNext ==
    ASSUME NEW edges, NEW root, NEW direction, NEW n \in Nat, NEW k, k = n + 1
    PROVE  Ball(edges, root, direction, k)
              = Around(edges, Ball(edges, root, direction, n), direction)
<1>1. k \in Nat /\ k \in 0 .. k /\ k # 0 /\ k - 1 = n /\ n <= k
  OBVIOUS
<1>2. PICK f : NearUpTo(f, edges, root, direction, n) /\ Ball(edges, root, direction, n) = f[n]
  BY BallIs
<1>3. PICK e : NearUpTo(e, edges, root, direction, k) /\ Ball(edges, root, direction, k) = e[k]
  BY <1>1, BallIs
<1>4. e[k] = Around(edges, e[n], direction)
  BY <1>1, <1>3 DEF NearUpTo
<1>5. f[n] = e[n]
  BY <1>1, <1>2, <1>3, NearAgree
<1> QED BY <1>2, <1>3, <1>4, <1>5

LEMMA BallZero ==
    ASSUME NEW edges, NEW root, NEW direction
    PROVE  Ball(edges, root, direction, 0) = {root}
<1>1. PICK f : NearUpTo(f, edges, root, direction, 0) /\ Ball(edges, root, direction, 0) = f[0]
  BY BallIs
<1> QED BY <1>1 DEF NearUpTo

LEMMA BallsGrow ==
    ASSUME NEW edges, NEW root, NEW direction, NEW n \in Nat, NEW m \in Nat, n <= m
    PROVE  Ball(edges, root, direction, n) \subseteq Ball(edges, root, direction, m)
<1> DEFINE B(i) == Ball(edges, root, direction, i)
           bad == {i \in Nat : n <= i /\ ~(B(n) \subseteq B(i))}
<1> SUFFICES ASSUME bad # {} PROVE FALSE
  OBVIOUS
<1>1. PICK i \in bad : \A j \in bad : i <= j
  BY LeastNatural
<1>2. i # n /\ i - 1 \in Nat /\ n <= i - 1 /\ (i - 1) + 1 = i
  OBVIOUS
<1>3. i - 1 \notin bad
  BY <1>1, <1>2
<1>4. B(n) \subseteq B(i - 1)
  BY <1>2, <1>3
<1>5. B(i) = Around(edges, B(i - 1), direction)
  BY <1>2, BallNext
<1>6. B(i - 1) \subseteq B(i)
  BY <1>5 DEF Around
<1> QED BY <1>1, <1>4, <1>6

(* Who is around some records is around one of them, and conversely. *)
LEMMA AroundWithin ==
    ASSUME NEW edges, NEW X, NEW Y, NEW direction,
           \A v \in X : Around(edges, {v}, direction) \subseteq Y
    PROVE  Around(edges, X, direction) \subseteq Y
BY DEF Around

LEMMA AroundMore ==
    ASSUME NEW edges, NEW X, NEW v \in X, NEW direction
    PROVE  Around(edges, {v}, direction) \subseteq Around(edges, X, direction)
BY DEF Around
-----------------------------------------------------------------------------
(* What the recursion gives stays where its cases put it. *)
LEMMA RecursiveTyped ==
    ASSUME NEW D, NEW m \in [D -> Nat], NEW stop, NEW h, NEW g, NEW k, NEW V,
           \A s \in D \ stop : g[s] \in D /\ m[g[s]] < m[s],
           \A s \in D : s \in stop => h[s] \in V,
           \A s \in D \ stop : \A v \in V : k[s][v] \in V,
           NEW f, Recursive(f, D, stop, h, g, k)
    PROVE  \A s \in D : f[s] \in V
<1> DEFINE out == {s \in D : f[s] \notin V}
           bad == {m[s] : s \in out}
<1> SUFFICES ASSUME out # {} PROVE FALSE
  OBVIOUS
<1>1. bad \subseteq Nat /\ bad # {}
  OBVIOUS
<1>2. PICK least \in bad : \A x \in bad : least <= x
  BY <1>1, LeastNatural
<1>3. PICK s \in out : m[s] = least
  BY <1>2
<1>4. s \in D /\ f[s] = IF s \in stop THEN h[s] ELSE k[s][f[g[s]]]
  BY DEF Recursive
<1>5. s \notin stop
  BY <1>4
<1>6. g[s] \in D /\ m[g[s]] < m[s] /\ m[g[s]] \in Nat /\ m[s] \in Nat
  BY <1>4, <1>5
<1>7. g[s] \notin out
  <2> SUFFICES ASSUME g[s] \in out PROVE FALSE
    OBVIOUS
  <2> DEFINE r == g[s]
  <2> HIDE DEF r
  <2>1. r \in out /\ m[r] < m[s]
    BY <1>6 DEF r
  <2>2. m[r] \in bad
    BY <2>1
  <2>3. m[r] \in Nat /\ m[s] \in Nat
    BY <2>1
  <2> HIDE DEF bad, out
  <2> QED BY <1>2, <1>3, <2>1, <2>2, <2>3
<1> QED BY <1>4, <1>5, <1>6, <1>7

(* Where an element of two sequences, one after the other, comes from. *)
LEMMA ConcatElement ==
    ASSUME NEW S, NEW s \in Seq(S), NEW t \in Seq(S), NEW i \in DOMAIN (s \o t)
    PROVE  /\ i \in Nat /\ DOMAIN s = 1 .. Len(s) /\ DOMAIN t = 1 .. Len(t)
           /\ Len(s) \in Nat /\ Len(t) \in Nat
           /\ \/ i \in 1 .. Len(s) /\ (s \o t)[i] = s[i]
              \/ i > Len(s) /\ i - Len(s) \in 1 .. Len(t) /\ (s \o t)[i] = t[i - Len(s)]
<1>1. s \o t \in Seq(S) /\ Len(s) \in Nat /\ Len(t) \in Nat
      /\ DOMAIN s = 1 .. Len(s) /\ DOMAIN t = 1 .. Len(t)
  BY ConcatProperties, LenProperties
<1>2. i \in 1 .. Len(s) + Len(t)
  BY <1>1, ConcatProperties, LenProperties
<1>3. CASE i <= Len(s)
  BY <1>1, <1>2, <1>3, ConcatProperties
<1>4. CASE i > Len(s)
  BY <1>1, <1>2, <1>4, ConcatProperties
<1> QED BY <1>1, <1>2, <1>3, <1>4

-----------------------------------------------------------------------------
(* The search, as the loop sees it. *)
Nodes(edges, root) == {root} \cup UNION {{edges[i].from, edges[i].to} : i \in DOMAIN edges}

Path(N) == [node : N, depth : Nat]

Searches(N) == [queue : Seq(Path(N)), visited : SUBSET N, paths : Seq(Path(N))]

Deeper(found, d) == [i \in DOMAIN found |-> [node |-> found[i], depth |-> d + 1]]

LEMMA NodesAre ==
    ASSUME NEW M, NEW edges \in Seq(Edges(M)), NEW root
    PROVE  IsFiniteSet(Nodes(edges, root)) /\ edges \in Seq(Edges(Nodes(edges, root)))
<1> DEFINE N == Nodes(edges, root)
           D == DOMAIN edges
           from == [i \in D |-> edges[i].from]
           to == [i \in D |-> edges[i].to]
           froms == {from[i] : i \in D}
           tos == {to[i] : i \in D}
<1>1. /\ D = 1 .. Len(edges) /\ Len(edges) \in Nat
      /\ \A i \in D : edges[i] \in Edges(M)
  BY LenProperties, ElementOfSeq
<1>2. IsFiniteSet(D)
  BY <1>1, FS_Interval
<1> HIDE DEF D
<1>3. IsFiniteSet(froms) /\ IsFiniteSet(tos)
  <2>1. from \in Surjection(D, froms) /\ to \in Surjection(D, tos)
    BY DEF Surjection
  <2> QED BY <1>2, <2>1, FS_Surjection
<1>4. IsFiniteSet({root} \cup froms \cup tos)
  <2>1. IsFiniteSet({root})
    BY FS_Singleton
  <2>2. IsFiniteSet({root} \cup froms)
    BY <1>3, <2>1, FS_Union
  <2> QED BY <1>3, <2>2, FS_Union
<1>5. N = {root} \cup froms \cup tos
  BY DEF Nodes, D
<1>6. \A i \in D : edges[i] \in Edges(N)
  <2> TAKE i \in D
  <2>1. edges[i] \in [from : M, rel : STRING, to : M]
    BY <1>1 DEF Edges
  <2>2. edges[i].from \in froms /\ edges[i].to \in tos
    OBVIOUS
  <2>3. edges[i].from \in N /\ edges[i].to \in N
    BY <1>5, <2>2
  <2> HIDE DEF N
  <2> QED BY <2>1, <2>3 DEF Edges
<1>7. edges = [i \in 1 .. Len(edges) |-> edges[i]]
  BY <1>1 DEF D
<1> HIDE DEF N
<1>8. [i \in 1 .. Len(edges) |-> edges[i]] \in Seq(Edges(N))
  BY <1>1, <1>6, IsASeq
<1> QED BY <1>4, <1>5, <1>7, <1>8 DEF N

LEMMA DeeperAre ==
    ASSUME NEW N, NEW found \in Seq(N), NEW d \in Nat
    PROVE  /\ Deeper(found, d) \in Seq(Path(N))
           /\ Len(Deeper(found, d)) = Len(found) /\ Len(found) \in Nat
           /\ DOMAIN found = 1 .. Len(found)
           /\ \A i \in 1 .. Len(found) : /\ Deeper(found, d)[i].node = found[i]
                                         /\ Deeper(found, d)[i].depth = d + 1
           /\ \A i \in 1 .. Len(found) : found[i] \in N
<1>1. /\ DOMAIN found = 1 .. Len(found) /\ Len(found) \in Nat
      /\ \A i \in 1 .. Len(found) : found[i] \in N
  BY LenProperties, ElementOfSeq
<1>2. Deeper(found, d) = [i \in 1 .. Len(found) |-> [node |-> found[i], depth |-> d + 1]]
  BY <1>1 DEF Deeper
<1>3. \A i \in 1 .. Len(found) : [node |-> found[i], depth |-> d + 1] \in Path(N)
  BY <1>1 DEF Path
<1>4. Deeper(found, d) \in Seq(Path(N))
  BY <1>1, <1>2, <1>3, IsASeq
<1>5. Len(Deeper(found, d)) = Len(found)
  <2>1. DOMAIN Deeper(found, d) = 1 .. Len(found)
    BY <1>2
  <2> QED BY <1>1, <1>4, <2>1, LenProperties
<1> QED BY <1>1, <1>2, <1>4, <1>5

(* The elements of a sequence without repetitions are as many as it is long. *)
LEMMA InjectiveLength ==
    ASSUME NEW S, NEW t \in Seq(S), IsInjective(t)
    PROVE  IsFiniteSet(ToSet(t)) /\ Cardinality(ToSet(t)) = Len(t)
<1> DEFINE n == Len(t)
           I == 1 .. n
<1>1. n \in Nat /\ DOMAIN t = I /\ t \in [I -> S]
  BY LenProperties
<1>2. \A a, b \in I : t[a] = t[b] => a = b
  BY <1>1 DEF IsInjective
<1>3. ToSet(t) = {t[a] : a \in I}
  BY <1>1 DEF ToSet
<1> HIDE DEF n
<1>4. IsFiniteSet(I) /\ Cardinality(I) = n
  <2>1. 1 .. n = I
    OBVIOUS
  <2>2. IsFiniteSet(1 .. n) /\ Cardinality(1 .. n) = IF 1 > n THEN 0 ELSE n - 1 + 1
    BY <1>1, FS_Interval
  <2> QED BY <1>1, <2>2
<1> HIDE DEF I
<1>5. t \in Bijection(I, ToSet(t))
  <2>1. t \in [I -> ToSet(t)]
    BY <1>1, <1>3
  <2> QED BY <1>2, <1>3, <2>1 DEF Bijection, Injection, Surjection, IsInjective
<1>6. IsFiniteSet(ToSet(t)) /\ Cardinality(ToSet(t)) = Cardinality(I)
  <2> DEFINE T == ToSet(t)
  <2> HIDE DEF T
  <2> QED BY <1>4, <1>5, FS_Bijection DEF T, ExistsBijection
<1> QED BY <1>4, <1>6 DEF n

(* A round of the loop, from s to e, that finds some records. *)
Finds(s, e, found, N, edges, direction, bound) ==
    LET d == Head(s.queue).depth
        r == Head(s.queue).node
    IN  /\ IsInjective(found) /\ ToSet(found) \cap s.visited = {}
        /\ d >= bound => found = <<>>
        /\ d < bound /\ r \in s.visited =>
              ToSet(found) = Around(edges, {r}, direction) \ s.visited
        /\ e \in Searches(N)
        /\ e.queue = Tail(s.queue) \o Deeper(found, d)
        /\ e.visited = s.visited \cup ToSet(found)
        /\ e.paths = s.paths \o Deeper(found, d)

LEMMA ExpandIs ==
    ASSUME NEW N, NEW edges \in Seq(Edges(N)), NEW direction, NEW bound \in Nat,
           NEW s \in Searches(N), s.queue # <<>>
    PROVE  /\ Head(s.queue) \in Path(N) /\ Tail(s.queue) \in Seq(Path(N))
           /\ \E found \in Seq(N) : Finds(s, Expand(s, edges, direction, bound), found,
                                        N, edges, direction, bound)
<1> DEFINE d == Head(s.queue).depth
           r == Head(s.queue).node
           next == NextNodes(edges, r, direction)
           found == IF d >= bound THEN <<>> ELSE Fresh(next, s.visited)
<1>1. s.queue \in Seq(Path(N)) /\ s.visited \in SUBSET N /\ s.paths \in Seq(Path(N))
  BY DEF Searches
<1>2. Head(s.queue) \in Path(N) /\ Tail(s.queue) \in Seq(Path(N))
  BY <1>1, HeadTailProperties
<1>3. d \in Nat /\ r \in N
  BY <1>2 DEF Path
<1>4. Expand(s, edges, direction, bound)
         = [queue   |-> Tail(s.queue) \o Deeper(found, d),
            visited |-> s.visited \cup ToSet(found),
            paths   |-> s.paths \o Deeper(found, d)]
  BY DEF Expand, Deeper
<1> HIDE DEF d, r
<1>5. next \in Seq(N) /\ ToSet(next) \cup {r} = Around(edges, {r}, direction)
  BY <1>3, NextNodesAre
<1> HIDE DEF next
<1>6. /\ Fresh(next, s.visited) \in Seq(N)
      /\ ToSet(Fresh(next, s.visited)) = ToSet(next) \ s.visited
      /\ IsInjective(Fresh(next, s.visited))
  BY <1>5, FreshAre
<1>7. <<>> \in Seq(N) /\ ToSet(<<>>) = {} /\ IsInjective(<<>>)
  <2>1. <<>> \in Seq(N) /\ DOMAIN <<>> = {}
    BY EmptySeq, LenProperties
  <2> QED BY <2>1 DEF ToSet, IsInjective
<1>8. /\ found \in Seq(N) /\ IsInjective(found) /\ ToSet(found) \cap s.visited = {}
      /\ d >= bound => found = <<>>
      /\ d < bound => ToSet(found) = ToSet(next) \ s.visited
  <2>1. CASE d >= bound
    BY <1>3, <1>7, <2>1
  <2>2. CASE ~(d >= bound)
    BY <1>3, <1>6, <2>2
  <2> QED BY <2>1, <2>2
<1> HIDE DEF found
<1>9. d < bound /\ r \in s.visited => ToSet(found) = Around(edges, {r}, direction) \ s.visited
  BY <1>5, <1>8
<1>10. Deeper(found, d) \in Seq(Path(N))
  BY <1>3, <1>8, DeeperAre
<1>11. /\ Tail(s.queue) \o Deeper(found, d) \in Seq(Path(N))
       /\ s.paths \o Deeper(found, d) \in Seq(Path(N))
  BY <1>1, <1>2, <1>10, ConcatProperties
<1>12. s.visited \cup ToSet(found) \in SUBSET N
  BY <1>1, <1>8, DeeperAre DEF ToSet
<1>13. Expand(s, edges, direction, bound) \in Searches(N)
  BY <1>4, <1>11, <1>12 DEF Searches
<1> DEFINE e == Expand(s, edges, direction, bound)
<1>14. /\ e.queue = Tail(s.queue) \o Deeper(found, d)
       /\ e.visited = s.visited \cup ToSet(found)
       /\ e.paths = s.paths \o Deeper(found, d)
  BY <1>4
<1> HIDE DEF e
<1>15. Finds(s, e, found, N, edges, direction, bound)
  BY <1>8, <1>9, <1>13, <1>14 DEF Finds, d, r, e
<1> QED BY <1>2, <1>8, <1>15 DEF e

(* A round visits records or shortens the queue. *)
Remaining(N, s) == Cardinality(N \ s.visited) + Len(s.queue)

LEMMA ExpandShortens ==
    ASSUME NEW N, IsFiniteSet(N), NEW edges \in Seq(Edges(N)), NEW direction, NEW bound \in Nat,
           NEW s \in Searches(N), s.queue # <<>>
    PROVE  /\ Expand(s, edges, direction, bound) \in Searches(N)
           /\ Remaining(N, Expand(s, edges, direction, bound)) < Remaining(N, s)
<1> DEFINE d == Head(s.queue).depth
           e == Expand(s, edges, direction, bound)
           tail == Tail(s.queue)
<1>1. PICK found \in Seq(N) :
          /\ IsInjective(found) /\ ToSet(found) \cap s.visited = {}
          /\ e.queue = tail \o Deeper(found, d) /\ e.visited = s.visited \cup ToSet(found)
          /\ e \in Searches(N) /\ tail \in Seq(Path(N)) /\ d \in Nat
  <2>1. Head(s.queue) \in Path(N) /\ tail \in Seq(Path(N))
    BY ExpandIs
  <2>2. PICK found \in Seq(N) : Finds(s, e, found, N, edges, direction, bound)
    BY ExpandIs
  <2> HIDE DEF e
  <2> QED BY <2>1, <2>2 DEF Finds, Path
<1>2. s.queue \in Seq(Path(N)) /\ s.visited \in SUBSET N
  BY DEF Searches
<1>3. Len(tail) = Len(s.queue) - 1 /\ Len(tail) \in Nat
  BY <1>2, HeadTailProperties, LenProperties
<1> HIDE DEF e, d, tail
<1>4. DOMAIN found = 1 .. Len(found) /\ Len(found) \in Nat /\ ToSet(found) \in SUBSET N
      /\ Deeper(found, d) \in Seq(Path(N)) /\ Len(Deeper(found, d)) = Len(found)
  BY <1>1, DeeperAre DEF ToSet
<1>5. IsFiniteSet(ToSet(found)) /\ Cardinality(ToSet(found)) = Len(found)
  BY <1>1, InjectiveLength
<1>6. Len(e.queue) = Len(tail) + Len(found)
  <2> DEFINE more == Deeper(found, d)
  <2>1. more \in Seq(Path(N)) /\ Len(more) = Len(found)
    BY <1>4
  <2>2. tail \in Seq(Path(N)) /\ e.queue = tail \o more
    BY <1>1
  <2> HIDE DEF more
  <2>3. Len(tail \o more) = Len(tail) + Len(more)
    BY <2>1, <2>2, ConcatProperties
  <2> QED BY <2>1, <2>2, <2>3
<1> DEFINE rest == N \ s.visited
<1>7. IsFiniteSet(rest) /\ Cardinality(rest) \in Nat
  <2>1. IsFiniteSet(rest)
    BY FS_Subset
  <2> QED BY <2>1, FS_CardinalityType
<1>8. N \ e.visited = rest \ ToSet(found) /\ ToSet(found) \in SUBSET rest
  BY <1>1, <1>4
<1> HIDE DEF rest
<1>9. Cardinality(rest \ ToSet(found)) = Cardinality(rest) - Len(found)
  <2> DEFINE new == ToSet(found)
  <2>1. rest \cap new = new
    BY <1>8
  <2> HIDE DEF new
  <2>2. Cardinality(rest \ new) = Cardinality(rest) - Cardinality(rest \cap new)
    BY <1>7, FS_Difference
  <2>3. Cardinality(rest \ new) = Cardinality(rest) - Cardinality(new)
    BY <2>1, <2>2
  <2> QED BY <1>5, <2>3 DEF new
<1>10. Remaining(N, e) = (Cardinality(rest) - Len(found)) + (Len(tail) + Len(found))
  BY <1>6, <1>8, <1>9 DEF Remaining
<1>11. Remaining(N, s) = Cardinality(rest) + Len(s.queue) /\ Len(s.queue) \in Nat
  BY <1>2, LenProperties DEF Remaining, rest
<1>12. Remaining(N, e) < Remaining(N, s)
  BY <1>3, <1>4, <1>7, <1>10, <1>11
<1> QED BY <1>1, <1>12 DEF e

(* The loop ends: it gives every search its paths. *)
IsLoop(f, N, edges, direction, bound) ==
    f = [s \in Searches(N) |->
            IF s.queue = <<>> THEN s.paths ELSE f[Expand(s, edges, direction, bound)]]

LEMMA LoopExists ==
    ASSUME NEW N, IsFiniteSet(N), NEW edges \in Seq(Edges(N)), NEW direction, NEW bound \in Nat
    PROVE  \E f : IsLoop(f, N, edges, direction, bound)
<1> DEFINE D == Searches(N)
           V == Seq(Path(N))
           stop == {s \in D : s.queue = <<>>}
           m == [s \in D |-> Remaining(N, s)]
           h == [s \in D |-> s.paths]
           g == [s \in D |-> IF s.queue = <<>> THEN s ELSE Expand(s, edges, direction, bound)]
           k == [s \in D |-> [v \in V |-> v]]
<1>1. m \in [D -> Nat]
  <2>1. ASSUME NEW s \in D PROVE Remaining(N, s) \in Nat
    <3>1. IsFiniteSet(N \ s.visited) /\ s.queue \in Seq(Path(N))
      BY FS_Subset DEF Searches
    <3>2. Cardinality(N \ s.visited) \in Nat /\ Len(s.queue) \in Nat
      BY <3>1, FS_CardinalityType, LenProperties
    <3> QED BY <3>2 DEF Remaining
  <2> HIDE DEF D
  <2> QED BY <2>1
<1>2. ASSUME NEW s \in D \ stop
      PROVE  /\ g[s] = Expand(s, edges, direction, bound)
             /\ g[s] \in D /\ m[g[s]] < m[s]
  <2>1. s \in D /\ s.queue # <<>> /\ g[s] = Expand(s, edges, direction, bound)
    OBVIOUS
  <2>2. g[s] \in D /\ Remaining(N, g[s]) < Remaining(N, s)
    BY <2>1, ExpandShortens
  <2> HIDE DEF D, g, stop
  <2> QED BY <2>1, <2>2
<1>3. \A s \in D : s \in stop => h[s] \in V
  BY DEF Searches
<1>4. \A s \in D \ stop : \A v \in V : k[s][v] = v
  OBVIOUS
<1>5. \A s \in D : (s \in stop <=> s.queue = <<>>) /\ h[s] = s.paths
  OBVIOUS
<1> HIDE DEF D, V, stop, m, h, g, k
<1>6. PICK f : Recursive(f, D, stop, h, g, k)
  BY <1>1, <1>2, RecursiveExists
<1>7. \A s \in D : f[s] \in V
  <2>1. \A s \in D \ stop : \A v \in V : k[s][v] \in V
    BY <1>4
  <2> QED BY <1>1, <1>2, <1>3, <1>6, <2>1, RecursiveTyped
<1>8. f = [s \in D |-> IF s \in stop THEN h[s] ELSE k[s][f[g[s]]]]
  BY <1>6 DEF Recursive
<1>9. ASSUME NEW s \in D
      PROVE  (IF s \in stop THEN h[s] ELSE k[s][f[g[s]]])
                = IF s.queue = <<>> THEN s.paths ELSE f[Expand(s, edges, direction, bound)]
  <2>1. CASE s \in stop
    BY <1>5, <2>1
  <2>2. CASE s \notin stop
    <3>1. g[s] = Expand(s, edges, direction, bound) /\ g[s] \in D
      BY <1>2, <2>2
    <3>2. k[s][f[g[s]]] = f[g[s]]
      BY <1>4, <1>7, <2>2, <3>1
    <3> QED BY <1>5, <2>2, <3>1, <3>2
  <2> QED BY <2>1, <2>2
<1>10. f = [s \in D |-> IF s.queue = <<>> THEN s.paths ELSE f[Expand(s, edges, direction, bound)]]
  BY <1>8, <1>9
<1> QED BY <1>10 DEF IsLoop, D

-----------------------------------------------------------------------------
(* A path as long as the distance of its end from the root. *)
Shortest(p, edges, root, direction) ==
    /\ p.node \in Ball(edges, root, direction, p.depth)
    /\ \A n \in Nat : n < p.depth => p.node \notin Ball(edges, root, direction, n)

(* What the search keeps: it has visited the ends of the paths it found, all *)
(* of them shortest; the queue goes from near to far, by one step at most;   *)
(* and whatever was visited and is not waiting has been looked around.       *)
Searched(s, N, edges, root, direction, bound) ==
    /\ s \in Searches(N)
    /\ s.visited = {root} \cup {s.paths[i].node : i \in DOMAIN s.paths}
    /\ \A i, j \in DOMAIN s.paths : s.paths[i].node = s.paths[j].node => i = j
    /\ \A i \in DOMAIN s.paths : /\ Shortest(s.paths[i], edges, root, direction)
                                 /\ s.paths[i].depth \in 1 .. bound
    /\ \A i \in DOMAIN s.queue : /\ Shortest(s.queue[i], edges, root, direction)
                                 /\ s.queue[i].node \in s.visited
    /\ \A i, j \in DOMAIN s.queue : i <= j => /\ s.queue[i].depth <= s.queue[j].depth
                                             /\ s.queue[j].depth <= s.queue[i].depth + 1
    /\ \A v \in s.visited : \A n \in Nat :
          /\ n < bound /\ v \in Ball(edges, root, direction, n)
          /\ \A i \in DOMAIN s.queue : s.queue[i].node # v
          => Around(edges, {v}, direction) \subseteq s.visited

(* Everything nearer than the queue has been visited. *)
LEMMA Layers ==
    ASSUME NEW N, NEW edges, NEW root, NEW direction, NEW bound \in Nat,
           NEW s, Searched(s, N, edges, root, direction, bound),
           NEW m \in Nat, m <= bound, \A i \in DOMAIN s.queue : m <= s.queue[i].depth
    PROVE  Ball(edges, root, direction, m) \subseteq s.visited
<1> DEFINE B(n) == Ball(edges, root, direction, n)
           bad == {n \in Nat : n <= m /\ ~(B(n) \subseteq s.visited)}
<1> SUFFICES ASSUME bad # {} PROVE FALSE
  OBVIOUS
<1>1. PICK n \in bad : \A j \in bad : n <= j
  BY LeastNatural
<1>2. B(0) = {root} /\ root \in s.visited
  BY BallZero DEF Searched
<1>3. n # 0 /\ n - 1 \in Nat /\ n - 1 < m /\ n - 1 < bound /\ (n - 1) + 1 = n
  BY <1>2
<1> DEFINE k == n - 1
<1>4. B(n) = Around(edges, B(k), direction)
  BY <1>3, BallNext
<1>5. k \in Nat /\ k < m /\ k < bound /\ n \in Nat /\ k < n
  BY <1>3
<1> HIDE DEF k
<1>6. B(k) \subseteq s.visited
  BY <1>1, <1>5
<1>7. ASSUME NEW v \in B(k) PROVE Around(edges, {v}, direction) \subseteq s.visited
  <2>1. \A i \in DOMAIN s.queue : s.queue[i].node # v
    <3> TAKE i \in DOMAIN s.queue
    <3>1. s.queue[i].depth \in Nat
      <4>1. s.queue[i] \in Path(N)
        BY ElementOfSeq, LenProperties DEF Searched, Searches
      <4> QED BY <4>1 DEF Path
    <3>2. k < s.queue[i].depth
      BY <1>5, <3>1
    <3>3. s.queue[i].node \notin B(k)
      BY <1>5, <3>2 DEF Searched, Shortest
    <3> QED BY <3>3
  <2> QED BY <1>5, <1>6, <2>1 DEF Searched
<1>8. Around(edges, B(k), direction) \subseteq s.visited
  BY <1>7, AroundWithin
<1>9. n \in bad
  OBVIOUS
<1> QED BY <1>4, <1>8, <1>9

(* The head of the queue, and what is left, in a round of the loop. *)
LEMMA QueueIs ==
    ASSUME NEW S, NEW q \in Seq(S), q # <<>>
    PROVE  /\ Head(q) = q[1] /\ 1 \in DOMAIN q /\ Tail(q) \in Seq(S)
           /\ \A i \in DOMAIN Tail(q) : i \in Nat /\ i + 1 \in DOMAIN q /\ Tail(q)[i] = q[i + 1]
           /\ \A i \in DOMAIN q : i = 1 \/ (i - 1 \in DOMAIN Tail(q) /\ Tail(q)[i - 1] = q[i])
<1>1. /\ DOMAIN q = 1 .. Len(q) /\ Len(q) \in Nat /\ Len(q) # 0
      /\ Head(q) = q[1] /\ Tail(q) \in Seq(S)
  BY HeadTailProperties, LenProperties, EmptySeq
<1>2. Len(Tail(q)) = Len(q) - 1 /\ \A i \in 1 .. Len(Tail(q)) : Tail(q)[i] = q[i + 1]
  BY HeadTailProperties
<1>3. DOMAIN Tail(q) = 1 .. Len(q) - 1
  BY <1>1, <1>2, LenProperties
<1>4. \A i \in DOMAIN Tail(q) : i \in Nat /\ i + 1 \in DOMAIN q /\ Tail(q)[i] = q[i + 1]
  BY <1>1, <1>2, <1>3
<1>5. ASSUME NEW i \in DOMAIN q, i # 1
      PROVE  i - 1 \in DOMAIN Tail(q) /\ Tail(q)[i - 1] = q[i]
  <2>1. i - 1 \in 1 .. Len(q) - 1 /\ (i - 1) + 1 = i
    BY <1>1, <1>5
  <2> QED BY <1>2, <1>3, <2>1
<1> QED BY <1>1, <1>4, <1>5

LEMMA ExpandKeeps ==
    ASSUME NEW N, NEW edges \in Seq(Edges(N)), NEW root, NEW direction, NEW bound \in Nat,
           NEW s, Searched(s, N, edges, root, direction, bound), s.queue # <<>>
    PROVE  Searched(Expand(s, edges, direction, bound), N, edges, root, direction, bound)
<1> DEFINE e == Expand(s, edges, direction, bound)
           q == s.queue
           t == Tail(q)
           r == Head(q).node
           d == Head(q).depth
           B(n) == Ball(edges, root, direction, n)
<1>1. /\ s \in Searches(N) /\ q \in Seq(Path(N)) /\ s.paths \in Seq(Path(N))
  BY DEF Searched, Searches
<1>2. PICK found \in Seq(N) : Finds(s, e, found, N, edges, direction, bound)
  BY <1>1, ExpandIs
<1>3. /\ Head(q) = q[1] /\ 1 \in DOMAIN q /\ t \in Seq(Path(N))
      /\ \A i \in DOMAIN t : i \in Nat /\ i + 1 \in DOMAIN q /\ t[i] = q[i + 1]
      /\ \A i \in DOMAIN q : i = 1 \/ (i - 1 \in DOMAIN t /\ t[i - 1] = q[i])
  BY <1>1, QueueIs
<1>4. Head(q) \in Path(N) /\ \A i \in DOMAIN q : q[i] \in Path(N) /\ q[i].depth \in Nat
                                              /\ i \in Nat /\ 1 <= i
  <2>1. \A i \in DOMAIN q : q[i] \in Path(N) /\ i \in Nat /\ 1 <= i
    BY <1>1, ElementOfSeq, LenProperties
  <2> HIDE DEF q
  <2> QED BY <1>3, <2>1 DEF Path
<1>5. d \in Nat /\ r \in N
  BY <1>4 DEF Path
<1>6. Shortest(Head(q), edges, root, direction) /\ r \in s.visited
  BY <1>3 DEF Searched
<1>7. r \in B(d) /\ \A n \in Nat : n < d => r \notin B(n)
  BY <1>6 DEF Shortest
<1> DEFINE new == Deeper(found, d)
           L == Len(found)
<1>8. /\ new \in Seq(Path(N)) /\ L \in Nat /\ DOMAIN new = 1 .. L /\ DOMAIN found = 1 .. L
      /\ \A i \in 1 .. L : new[i].node = found[i] /\ new[i].depth = d + 1
  BY <1>5, DeeperAre, LenProperties
<1>9. /\ IsInjective(found) /\ ToSet(found) \cap s.visited = {}
      /\ d >= bound => found = <<>>
      /\ d < bound => ToSet(found) = Around(edges, {r}, direction) \ s.visited
      /\ e \in Searches(N) /\ e.queue = t \o new
      /\ e.visited = s.visited \cup ToSet(found) /\ e.paths = s.paths \o new
  BY <1>2, <1>6 DEF Finds
<1>10. \A i, j \in DOMAIN q : i <= j => /\ q[i].depth <= q[j].depth
                                       /\ q[j].depth <= q[i].depth + 1
  BY DEF Searched
<1>11. /\ s.visited = {root} \cup {s.paths[i].node : i \in DOMAIN s.paths}
       /\ \A i, j \in DOMAIN s.paths : s.paths[i].node = s.paths[j].node => i = j
       /\ \A i \in DOMAIN s.paths : /\ Shortest(s.paths[i], edges, root, direction)
                                    /\ s.paths[i].depth \in 1 .. bound
       /\ \A i \in DOMAIN q : /\ Shortest(q[i], edges, root, direction)
                              /\ q[i].node \in s.visited
  BY DEF Searched
<1>12. \A v \in s.visited : \A n \in Nat :
          n < bound /\ v \in B(n) /\ (\A i \in DOMAIN q : q[i].node # v)
          => Around(edges, {v}, direction) \subseteq s.visited
  BY DEF Searched
<1>13. \A i \in DOMAIN q : d <= q[i].depth /\ q[i].depth <= d + 1
  BY <1>3, <1>4, <1>10
<1>14. d < bound => B(d) \subseteq s.visited
  <2> SUFFICES ASSUME d < bound PROVE B(d) \subseteq s.visited
    OBVIOUS
  <2>1. d \in Nat /\ d <= bound
    BY <1>5
  <2>2. \A i \in DOMAIN s.queue : d <= s.queue[i].depth
    BY <1>13
  <2> HIDE DEF d
  <2> QED BY <2>1, <2>2, Layers
<1>15. L # 0 => d < bound
  <2>1. found = <<>> => L = 0
    BY EmptySeq
  <2> QED BY <1>5, <1>9, <2>1
<1> HIDE DEF e, q, t, r, d, new, L
<1>16. ASSUME NEW i \in 1 .. L
       PROVE  /\ new[i].node \in ToSet(found) /\ new[i].node \notin s.visited
              /\ new[i].depth \in 1 .. bound
              /\ Shortest(new[i], edges, root, direction)
  <2>1. found[i] \in ToSet(found)
    BY <1>8 DEF ToSet
  <2>2. d < bound /\ d + 1 \in Nat
    BY <1>5, <1>8, <1>15
  <2>3. found[i] \in Around(edges, {r}, direction) /\ found[i] \notin s.visited
    BY <1>9, <2>1, <2>2
  <2>4. B(d + 1) = Around(edges, B(d), direction)
    <3> DEFINE k == d + 1
    <3>1. k = d + 1
      OBVIOUS
    <3> HIDE DEF k
    <3>2. B(k) = Around(edges, B(d), direction)
      BY <1>5, <3>1, BallNext
    <3> QED BY <3>2 DEF k
  <2>5. found[i] \in B(d + 1)
    BY <1>7, <2>3, <2>4, AroundMore
  <2>6. ASSUME NEW n \in Nat, n < d + 1 PROVE found[i] \notin B(n)
    <3>1. n <= d
      BY <1>5, <2>6
    <3>2. B(n) \subseteq B(d)
      BY <1>5, <3>1, BallsGrow
    <3> QED BY <1>14, <2>2, <2>3, <3>2
  <2>7. Shortest(new[i], edges, root, direction)
    BY <1>8, <2>5, <2>6 DEF Shortest
  <2> QED BY <1>5, <1>8, <2>1, <2>2, <2>3, <2>7
<1>17. ToSet(found) = {new[i].node : i \in 1 .. L}
  BY <1>8 DEF ToSet
<1>18. ASSUME NEW i \in DOMAIN e.paths
       PROVE  \/ i \in DOMAIN s.paths /\ e.paths[i] = s.paths[i]
              \/ /\ i \in Nat /\ i > Len(s.paths) /\ i - Len(s.paths) \in 1 .. L
                 /\ e.paths[i] = new[i - Len(s.paths)]
  BY <1>1, <1>8, <1>9, ConcatElement
<1>19. ASSUME NEW i \in DOMAIN e.queue
       PROVE  \/ i \in DOMAIN t /\ e.queue[i] = t[i]
              \/ /\ i \in Nat /\ i > Len(t) /\ i - Len(t) \in 1 .. L
                 /\ e.queue[i] = new[i - Len(t)]
  BY <1>3, <1>8, <1>9, ConcatElement
<1>20. e.visited = {root} \cup {e.paths[i].node : i \in DOMAIN e.paths}
  <2>1. ToSet(e.paths) = ToSet(s.paths) \cup ToSet(new)
    BY <1>1, <1>8, <1>9, ToSetConcat
  <2>2. {e.paths[i].node : i \in DOMAIN e.paths} = {p.node : p \in ToSet(e.paths)}
    BY DEF ToSet
  <2>3. {s.paths[i].node : i \in DOMAIN s.paths} = {p.node : p \in ToSet(s.paths)}
    BY DEF ToSet
  <2>4. {new[i].node : i \in 1 .. L} = {p.node : p \in ToSet(new)}
    BY <1>8 DEF ToSet
  <2>5. e.visited = {root} \cup {p.node : p \in ToSet(s.paths)} \cup {p.node : p \in ToSet(new)}
    BY <1>9, <1>11, <1>17, <2>3, <2>4
  <2>6. {p.node : p \in ToSet(e.paths)}
           = {p.node : p \in ToSet(s.paths)} \cup {p.node : p \in ToSet(new)}
    BY <2>1
  <2> QED BY <2>2, <2>5, <2>6
<1>21. ASSUME NEW i \in DOMAIN e.paths, NEW j \in DOMAIN e.paths,
              e.paths[i].node = e.paths[j].node
       PROVE  i = j
  <2> DEFINE l == Len(s.paths)
  <2>1. \A k \in DOMAIN s.paths : s.paths[k].node \in s.visited
    BY <1>11
  <2>2. \A a, b \in 1 .. L : new[a].node = new[b].node => a = b
    BY <1>8, <1>9 DEF IsInjective
  <2>3. l \in Nat
    BY <1>1, LenProperties
  <2> HIDE DEF l
  <2>4. CASE i \in DOMAIN s.paths /\ e.paths[i] = s.paths[i]
    <3>1. j \in DOMAIN s.paths /\ e.paths[j] = s.paths[j]
      BY <1>16, <1>18, <1>21, <2>1, <2>4
    <3> QED BY <1>11, <1>21, <2>4, <3>1
  <2>5. CASE i \in Nat /\ i > l /\ i - l \in 1 .. L /\ e.paths[i] = new[i - l]
    <3>1. j \in Nat /\ j > l /\ j - l \in 1 .. L /\ e.paths[j] = new[j - l]
      BY <1>16, <1>18, <1>21, <2>1, <2>5 DEF l
    <3>2. i - l = j - l
      BY <1>21, <2>2, <2>5, <3>1
    <3> QED BY <2>3, <2>5, <3>1, <3>2
  <2> QED BY <1>18, <2>4, <2>5 DEF l
<1>22. ASSUME NEW i \in DOMAIN e.paths
       PROVE  /\ Shortest(e.paths[i], edges, root, direction)
              /\ e.paths[i].depth \in 1 .. bound
  BY <1>11, <1>16, <1>18
<1>23. ASSUME NEW i \in DOMAIN e.queue
       PROVE  /\ Shortest(e.queue[i], edges, root, direction)
              /\ e.queue[i].node \in e.visited
  <2>1. CASE i \in DOMAIN t /\ e.queue[i] = t[i]
    <3> DEFINE k == i + 1
    <3>1. k \in DOMAIN q /\ t[i] = q[k]
      BY <1>3, <2>1
    <3> HIDE DEF k
    <3>2. Shortest(q[k], edges, root, direction) /\ q[k].node \in s.visited
      BY <1>11, <3>1
    <3> QED BY <1>9, <2>1, <3>1, <3>2
  <2>2. CASE i - Len(t) \in 1 .. L /\ e.queue[i] = new[i - Len(t)]
    BY <1>9, <1>16, <2>2
  <2> QED BY <1>19, <2>1, <2>2
<1>24. ASSUME NEW i \in DOMAIN e.queue, NEW j \in DOMAIN e.queue, i <= j
       PROVE  /\ e.queue[i].depth <= e.queue[j].depth
              /\ e.queue[j].depth <= e.queue[i].depth + 1
  <2> DEFINE l == Len(t)
  <2>1. l \in Nat /\ DOMAIN t = 1 .. l
    BY <1>3, LenProperties
  <2> HIDE DEF l
  <2>2. CASE i \in DOMAIN t /\ e.queue[i] = t[i] /\ j \in DOMAIN t /\ e.queue[j] = t[j]
    <3>1. /\ i + 1 \in DOMAIN q /\ t[i] = q[i + 1] /\ i \in Nat
          /\ j + 1 \in DOMAIN q /\ t[j] = q[j + 1] /\ j \in Nat
      BY <1>3, <2>2
    <3>2. i + 1 <= j + 1
      BY <1>24, <3>1
    <3>3. /\ q[i + 1].depth <= q[j + 1].depth
          /\ q[j + 1].depth <= q[i + 1].depth + 1
      BY <1>10, <3>1, <3>2
    <3> QED BY <2>2, <3>1, <3>3
  <2>3. CASE /\ i \in DOMAIN t /\ e.queue[i] = t[i]
             /\ j - l \in 1 .. L /\ e.queue[j] = new[j - l]
    <3>1. e.queue[j].depth = d + 1
      BY <1>8, <2>3
    <3>2. i + 1 \in DOMAIN q /\ e.queue[i] = q[i + 1]
      BY <1>3, <2>3
    <3>3. d <= q[i + 1].depth /\ q[i + 1].depth <= d + 1 /\ q[i + 1].depth \in Nat
      BY <1>4, <1>13, <3>2
    <3> QED BY <1>5, <3>1, <3>2, <3>3
  <2>4. CASE /\ i \in Nat /\ i > l /\ i - l \in 1 .. L /\ e.queue[i] = new[i - l]
    <3>1. ~(j \in DOMAIN t)
      BY <1>24, <2>1, <2>4
    <3>2. j - l \in 1 .. L /\ e.queue[j] = new[j - l]
      BY <1>19, <3>1 DEF l
    <3>3. e.queue[i].depth = d + 1 /\ e.queue[j].depth = d + 1
      BY <1>8, <2>4, <3>2
    <3> QED BY <1>5, <3>3
  <2> QED BY <1>19, <2>2, <2>3, <2>4 DEF l
<1>25. ASSUME NEW v \in e.visited, NEW n \in Nat, n < bound, v \in B(n),
              \A i \in DOMAIN e.queue : e.queue[i].node # v
       PROVE  Around(edges, {v}, direction) \subseteq e.visited
  <2>1. ToSet(e.queue) = ToSet(t) \cup ToSet(new)
    BY <1>3, <1>8, <1>9, ToSetConcat
  <2>2. \A p \in ToSet(e.queue) : p.node # v
    BY <1>25 DEF ToSet
  <2>3. \A i \in 1 .. L : new[i].node # v
    BY <1>8, <2>1, <2>2 DEF ToSet
  <2>4. \A i \in DOMAIN t : t[i].node # v
    BY <2>1, <2>2 DEF ToSet
  <2>5. v \in s.visited
    BY <1>9, <1>17, <1>25, <2>3
  <2>6. CASE v = r
    <3>1. d < bound
      BY <1>5, <1>7, <1>25, <2>6
    <3> QED BY <1>9, <2>6, <3>1
  <2>7. CASE v # r
    <3>1. \A i \in DOMAIN q : q[i].node # v
      <4> TAKE i \in DOMAIN q
      <4>1. CASE i = 1
        BY <1>3, <2>7, <4>1 DEF r
      <4>2. CASE i # 1
        BY <1>3, <2>4, <4>2
      <4> QED BY <4>1, <4>2
    <3> QED BY <1>9, <1>12, <1>25, <2>5, <3>1
  <2> QED BY <2>6, <2>7
<1>26. Searched(e, N, edges, root, direction, bound)
  BY <1>9, <1>20, <1>21, <1>22, <1>23, <1>24, <1>25 DEF Searched
<1> QED BY <1>26 DEF e

-----------------------------------------------------------------------------
(* What the search answers: the records of the ball without its centre, each *)
(* once and at its distance.                                                 *)
Answers(found, N, edges, root, direction, bound) ==
    /\ found \in Seq(Path(N))
    /\ IsInjective([i \in DOMAIN found |-> found[i].node])
    /\ \A n \in 0 .. bound :
          {found[i].node : i \in {j \in DOMAIN found : found[j].depth <= n}}
             = Ball(edges, root, direction, n) \ {root}
    /\ \A i \in DOMAIN found : found[i].depth <= bound

LEMMA SearchedAnswers ==
    ASSUME NEW N, NEW edges, NEW root, NEW direction, NEW bound \in Nat,
           NEW s, Searched(s, N, edges, root, direction, bound), s.queue = <<>>
    PROVE  Answers(s.paths, N, edges, root, direction, bound)
<1> DEFINE B(n) == Ball(edges, root, direction, n)
           found == s.paths
<1>1. /\ s.visited = {root} \cup {found[i].node : i \in DOMAIN found}
      /\ \A i, j \in DOMAIN found : found[i].node = found[j].node => i = j
      /\ \A i \in DOMAIN found : /\ Shortest(found[i], edges, root, direction)
                                 /\ found[i].depth \in 1 .. bound
  BY DEF Searched
<1> HIDE DEF found
<1>2. B(0) = {root}
  BY BallZero
<1>3. ASSUME NEW n \in 0 .. bound
      PROVE  {found[i].node : i \in {j \in DOMAIN found : found[j].depth <= n}} = B(n) \ {root}
  <2>1. n \in Nat /\ n <= bound
    OBVIOUS
  <2>2. B(n) \subseteq s.visited
    <3>1. \A i \in DOMAIN s.queue : n <= s.queue[i].depth
      <4>1. DOMAIN <<>> = {}
        BY EmptySeq, LenProperties
      <4> QED BY <4>1
    <3> QED BY <2>1, <3>1, Layers
  <2>3. ASSUME NEW i \in DOMAIN found, found[i].depth <= n
        PROVE  found[i].node \in B(n) /\ found[i].node # root
    <3> DEFINE d == found[i].depth
    <3>1. d \in Nat /\ d <= n /\ 0 < d
      BY <1>1, <2>3
    <3>2. found[i].node \in B(d) /\ found[i].node \notin B(0)
      BY <1>1, <3>1 DEF Shortest
    <3> HIDE DEF d
    <3>3. B(d) \subseteq B(n)
      BY <2>1, <3>1, BallsGrow
    <3> QED BY <1>2, <3>2, <3>3
  <2>4. ASSUME NEW v \in B(n), v # root
        PROVE  \E i \in DOMAIN found : found[i].node = v /\ found[i].depth <= n
    <3>1. PICK i \in DOMAIN found : found[i].node = v
      BY <1>1, <2>2, <2>4
    <3>2. found[i].depth <= n
      BY <1>1, <2>1, <2>4, <3>1 DEF Shortest
    <3> QED BY <3>1, <3>2
  <2> QED BY <2>3, <2>4
<1>4. \A i \in DOMAIN found : found[i].depth <= bound
  BY <1>1
<1>5. IsInjective([i \in DOMAIN found |-> found[i].node])
  BY <1>1 DEF IsInjective
<1>6. found \in Seq(Path(N))
  BY DEF Searched, Searches, found
<1> QED BY <1>3, <1>4, <1>5, <1>6 DEF Answers, found

(* From every such search the loop reaches an answer. *)
LEMMA LoopAnswers ==
    ASSUME NEW N, IsFiniteSet(N), NEW edges \in Seq(Edges(N)), NEW root, NEW direction,
           NEW bound \in Nat, NEW f, IsLoop(f, N, edges, direction, bound),
           NEW s, Searched(s, N, edges, root, direction, bound)
    PROVE  Answers(f[s], N, edges, root, direction, bound)
<1> DEFINE Good(x) == Searched(x, N, edges, root, direction, bound)
           out == {x \in Searches(N) : Good(x) /\ ~Answers(f[x], N, edges, root, direction, bound)}
           sizes == {Remaining(N, x) : x \in out}
<1> SUFFICES ASSUME s \in out PROVE FALSE
  BY DEF Searched
<1>1. ASSUME NEW x \in Searches(N) PROVE Remaining(N, x) \in Nat
  <2>1. IsFiniteSet(N \ x.visited) /\ x.queue \in Seq(Path(N))
    BY FS_Subset DEF Searches
  <2>2. Cardinality(N \ x.visited) \in Nat /\ Len(x.queue) \in Nat
    BY <2>1, FS_CardinalityType, LenProperties
  <2> QED BY <2>2 DEF Remaining
<1>2. sizes \subseteq Nat /\ sizes # {}
  BY <1>1
<1>3. PICK least \in sizes : \A z \in sizes : least <= z
  BY <1>2, LeastNatural
<1>4. PICK x \in out : Remaining(N, x) = least
  BY <1>3
<1>5. x \in Searches(N) /\ Good(x) /\ ~Answers(f[x], N, edges, root, direction, bound)
  OBVIOUS
<1>6. f[x] = IF x.queue = <<>> THEN x.paths ELSE f[Expand(x, edges, direction, bound)]
  BY <1>5 DEF IsLoop
<1>7. x.queue # <<>>
  BY <1>5, <1>6, SearchedAnswers
<1> DEFINE e == Expand(x, edges, direction, bound)
<1>8. e \in Searches(N) /\ Remaining(N, e) < Remaining(N, x)
  BY <1>5, <1>7, ExpandShortens
<1>9. Good(e)
  BY <1>5, <1>7, ExpandKeeps
<1>10. f[x] = f[e]
  BY <1>6, <1>7
<1>11. e \in out
  BY <1>5, <1>8, <1>9, <1>10
<1>12. Remaining(N, e) \in sizes
  BY <1>11
<1>13. Remaining(N, e) \in Nat /\ Remaining(N, x) \in Nat
  BY <1>1, <1>5, <1>8
<1> HIDE DEF e, sizes, out
<1> QED BY <1>3, <1>4, <1>8, <1>12, <1>13

LEMMA SearchBegins ==
    ASSUME NEW N, NEW edges, NEW root \in N, NEW direction, NEW bound \in Nat
    PROVE  Searched([queue |-> <<[node |-> root, depth |-> 0]>>, visited |-> {root}, paths |-> <<>>],
                    N, edges, root, direction, bound)
<1> DEFINE p == [node |-> root, depth |-> 0]
           s == [queue |-> <<p>>, visited |-> {root}, paths |-> <<>>]
<1>1. p \in Path(N)
  BY DEF Path
<1>2. Ball(edges, root, direction, 0) = {root}
  BY BallZero
<1>3. Shortest(p, edges, root, direction)
  BY <1>2 DEF Shortest
<1>4. p.node = root /\ p.depth = 0
  OBVIOUS
<1> HIDE DEF p
<1>5. <<p>> \in Seq(Path(N)) /\ DOMAIN <<p>> = {1} /\ <<p>>[1] = p
  BY <1>1
<1>6. <<>> \in Seq(Path(N)) /\ DOMAIN <<>> = {}
  BY EmptySeq, LenProperties
<1>7. s \in Searches(N)
  BY <1>5, <1>6 DEF Searches
<1>8. s.queue = <<p>> /\ s.visited = {root} /\ s.paths = <<>>
  OBVIOUS
<1> HIDE DEF s
<1>9. Searched(s, N, edges, root, direction, bound)
  BY <1>3, <1>4, <1>5, <1>6, <1>7, <1>8 DEF Searched
<1> QED BY <1>9 DEF s, p

(* Whatever the edges, traverse_graph visits every record within its depth of *)
(* the root, each once and at its distance, and no other.                     *)
THEOREM SearchFindsTheBall ==
    ASSUME NEW M, NEW edges \in Seq(Edges(M)), NEW root \in M, NEW direction, NEW depth \in Int
    PROVE  Answers(TraverseGraph(edges, root, direction, depth),
                   M, edges, root, direction, BoundedDepth(depth))
<1> DEFINE N == Nodes(edges, root)
           b == BoundedDepth(depth)
           f == CHOOSE g : IsLoop(g, N, edges, direction, b)
           s == [queue |-> <<[node |-> root, depth |-> 0]>>, visited |-> {root}, paths |-> <<>>]
<1>1. IsFiniteSet(N) /\ edges \in Seq(Edges(N)) /\ root \in N
  <2>1. root \in Nodes(edges, root)
    BY DEF Nodes
  <2> QED BY <2>1, NodesAre
<1>2. b \in Nat
  BY DEF BoundedDepth, MAX_TRAVERSAL_DEPTH
<1>3. TraverseGraph(edges, root, direction, depth) = f[s]
  BY DEF TraverseGraph, IsLoop, Searches, Path, Nodes
<1> HIDE DEF N, b
<1>4. IsLoop(f, N, edges, direction, b)
  BY <1>1, <1>2, LoopExists
<1> HIDE DEF f, s
<1>5. Searched(s, N, edges, root, direction, b)
  BY <1>1, <1>2, SearchBegins DEF s
<1>6. Answers(f[s], N, edges, root, direction, b)
  BY <1>1, <1>2, <1>4, <1>5, LoopAnswers
<1>7. f[s] \in Seq(Path(M))
  <2>1. N \subseteq M
    <3>1. \A i \in DOMAIN edges : edges[i].from \in M /\ edges[i].to \in M
      <4>1. \A i \in DOMAIN edges : edges[i] \in Edges(M)
        BY ElementOfSeq, LenProperties
      <4> QED BY <4>1 DEF Edges
    <3> QED BY <3>1 DEF N, Nodes
  <2>2. Path(N) \subseteq Path(M)
    BY <2>1 DEF Path
  <2>3. f[s] \in Seq(Path(N))
    BY <1>6 DEF Answers
  <2> QED BY <2>2, <2>3, SeqMonotonic
<1>8. Answers(f[s], M, edges, root, direction, b)
  BY <1>6, <1>7 DEF Answers
<1> QED BY <1>3, <1>8 DEF b

(* Nothing writes the dependencies. *)
LEMMA NextKeepsDeps ==
    ASSUME [Next]_vars
    PROVE  UNCHANGED deps
<1>1. CASE UNCHANGED vars
  BY <1>1 DEF vars
<1>2. CASE Change
  BY <1>2 DEF Change, OtherService
<1>3. CASE \E s \in Scope : BeginSafety(s) \/ BeginMission(s) \/ BeginExpedition(s) \/ BeginImpact(s)
  BY <1>3 DEF BeginSafety, BeginMission, BeginExpedition, BeginImpact, BeginReview
<1>4. CASE ReadTeams \/ ReadMissions \/ MakeCheck
  BY <1>4 DEF ReadTeams, ReadMissions, MakeCheck
<1> QED BY <1>1, <1>2, <1>3, <1>4 DEF Next

(* The impact of a change (analyze_impact, over traverse_graph) reaches the   *)
(* records within its depth of the changed one, each once and at its          *)
(* distance, in whatever table of dependencies.                               *)
THEOREM ImpactFindsTheBall == Spec => []ImpactIsTheBall
<1> DEFINE Kept == deps \in Dependencies
<1>1. OversightInit => Kept
  BY DEF OversightInit
<1>2. Kept /\ [Next]_vars => Kept'
  BY NextKeepsDeps
<1>3. Kept => ImpactIsTheBall
  <2> SUFFICES ASSUME Kept, NEW root \in Node, NEW direction \in TraversalDirection,
                      NEW depth \in 0 .. MAX_TRAVERSAL_DEPTH + 1
               PROVE  Answers(TraverseGraph(deps, root, direction, depth),
                              Node, deps, root, direction, BoundedDepth(depth))
    BY DEF ImpactIsTheBall, Answers
  <2>1. deps \in Seq(Edges(Node))
    BY DependencyAssumption DEF Edges
  <2>2. depth \in Int
    BY DEF MAX_TRAVERSAL_DEPTH
  <2> QED BY <2>1, <2>2, SearchFindsTheBall
<1> QED BY <1>1, <1>2, <1>3, PTL DEF Spec

-----------------------------------------------------------------------------
(* A finite set in some order. *)
LEMMA SetToSeqIs ==
    ASSUME NEW S, IsFiniteSet(S)
    PROVE  SetToSeq(S) \in Seq(S) /\ ToSet(SetToSeq(S)) = S
<1> DEFINE n == Cardinality(S)
           I == 1 .. n
           f == SetToSeq(S)
<1>1. n \in Nat
  BY FS_CardinalityType
<1>2. IsFiniteSet(I) /\ Cardinality(I) = n
  <2>1. IsFiniteSet(1 .. n) /\ Cardinality(1 .. n) = IF 1 > n THEN 0 ELSE n - 1 + 1
    <3> HIDE DEF n
    <3> QED BY <1>1, FS_Interval
  <2> HIDE DEF n
  <2> QED BY <1>1, <2>1
<1>3. \E g \in [I -> S] : IsInjective(g)
  <2>1. PICK g : g \in Bijection(I, S)
    <3>1. PICK k \in Nat : ExistsBijection(1 .. k, S)
      BY FS_NatBijection
    <3>2. k = n
      <4>1. IsFiniteSet(1 .. k) /\ Cardinality(1 .. k) = IF 1 > k THEN 0 ELSE k - 1 + 1
        BY FS_Interval
      <4>2. Cardinality(S) = Cardinality(1 .. k)
        BY <3>1, <4>1, FS_Bijection
      <4> QED BY <4>1, <4>2
    <3> QED BY <3>1, <3>2 DEF ExistsBijection
  <2> QED BY <2>1 DEF Bijection, Injection, IsInjective
<1>4. f \in [I -> S] /\ IsInjective(f)
  BY <1>3 DEF SetToSeq
<1> HIDE DEF f, n
<1>5. f \in Surjection(I, S)
  <2>1. f \in Injection(I, S)
    BY <1>4 DEF Injection, IsInjective
  <2> HIDE DEF I
  <2> QED BY <1>2, <2>1, FS_Injection DEF n
<1>6. f \in Seq(S)
  BY <1>1, <1>4, SeqDef
<1>7. ToSet(f) = S
  BY <1>4, <1>5 DEF Surjection, ToSet
<1> QED BY <1>6, <1>7 DEF f

(* What some sequences, one after the other, contain. *)
AllIn(seqs) == UNION {ToSet(seqs[i]) : i \in DOMAIN seqs}

IsFlatten(f, seqs) ==
    f = [i \in 1 .. Len(seqs) |-> IF i = 1 THEN seqs[i] ELSE f[i - 1] \o seqs[i]]

LEMMA FlattenExists ==
    ASSUME NEW S, NEW seqs \in Seq(Seq(S))
    PROVE  \E f : IsFlatten(f, seqs)
<1> DEFINE D == 1 .. Len(seqs)
           V == Seq(S)
           m == [i \in D |-> i]
           g == [i \in D |-> i - 1]
           k == [i \in D |-> [v \in V |-> v \o seqs[i]]]
<1>1. Len(seqs) \in Nat /\ \A i \in D : seqs[i] \in V
  BY LenProperties, ElementOfSeq
<1>2. m \in [D -> Nat]
  BY <1>1
<1>3. \A i \in D \ {1} : g[i] = i - 1 /\ g[i] \in D /\ m[g[i]] < m[i]
  BY <1>1
<1>4. \A i \in D : i \in {1} => seqs[i] \in V
  BY <1>1
<1>5. \A i \in D \ {1} : \A v \in V : k[i][v] = v \o seqs[i] /\ k[i][v] \in V
  <2> TAKE i \in D \ {1}
  <2> TAKE v \in V
  <2>1. seqs[i] \in V
    BY <1>1
  <2>2. k[i][v] = v \o seqs[i]
    OBVIOUS
  <2>3. v \o seqs[i] \in V
    BY <2>1, ConcatProperties
  <2> QED BY <2>2, <2>3
<1> HIDE DEF D, V, m, g, k
<1>6. PICK f : Recursive(f, D, {1}, seqs, g, k)
  <2>1. \A i \in D \ {1} : g[i] \in D /\ m[g[i]] < m[i]
    BY <1>3
  <2> QED BY <1>2, <2>1, RecursiveExists
<1>7. \A i \in D : f[i] \in V
  <2>1. \A i \in D \ {1} : g[i] \in D /\ m[g[i]] < m[i]
    BY <1>3
  <2>2. \A i \in D \ {1} : \A v \in V : k[i][v] \in V
    BY <1>5
  <2> QED BY <1>2, <1>4, <1>6, <2>1, <2>2, RecursiveTyped
<1>8. f = [i \in D |-> IF i \in {1} THEN seqs[i] ELSE k[i][f[g[i]]]]
  BY <1>6 DEF Recursive
<1>9. \A i \in D : (IF i \in {1} THEN seqs[i] ELSE k[i][f[g[i]]])
                      = IF i = 1 THEN seqs[i] ELSE f[i - 1] \o seqs[i]
  BY <1>3, <1>5, <1>7
<1>10. f = [i \in D |-> IF i = 1 THEN seqs[i] ELSE f[i - 1] \o seqs[i]]
  BY <1>8, <1>9
<1> QED BY <1>10 DEF IsFlatten, D

LEMMA FlattenIs ==
    ASSUME NEW S, NEW seqs \in Seq(Seq(S))
    PROVE  FlattenSeq(seqs) \in Seq(S) /\ ToSet(FlattenSeq(seqs)) = AllIn(seqs)
<1> DEFINE n == Len(seqs)
           f == CHOOSE g : IsFlatten(g, seqs)
           upto(i) == UNION {ToSet(seqs[j]) : j \in 1 .. i}
           bad == {i \in Nat : 1 <= i /\ i <= n /\ ~(f[i] \in Seq(S) /\ ToSet(f[i]) = upto(i))}
<1>1. n \in Nat /\ DOMAIN seqs = 1 .. n /\ \A i \in 1 .. n : seqs[i] \in Seq(S)
  BY LenProperties, ElementOfSeq
<1>2. CASE n = 0
  <2>1. FlattenSeq(seqs) = seqs /\ seqs = <<>>
    BY <1>2, EmptySeq DEF FlattenSeq
  <2>2. <<>> \in Seq(S) /\ DOMAIN <<>> = {}
    BY EmptySeq, LenProperties
  <2> QED BY <2>1, <2>2 DEF ToSet, AllIn
<1>3. CASE n # 0
  <2>1. FlattenSeq(seqs) = f[n]
    BY <1>3 DEF FlattenSeq, IsFlatten
  <2>2. IsFlatten(f, seqs)
    BY FlattenExists
  <2> HIDE DEF f, n
  <2>3. \A i \in 1 .. n : f[i] = IF i = 1 THEN seqs[i] ELSE f[i - 1] \o seqs[i]
    BY <2>2 DEF IsFlatten, n
  <2>4. bad = {}
    <3> SUFFICES ASSUME bad # {} PROVE FALSE
      OBVIOUS
    <3>1. PICK i \in bad : \A j \in bad : i <= j
      BY LeastNatural
    <3>2. i \in Nat /\ i \in 1 .. n /\ ~(f[i] \in Seq(S) /\ ToSet(f[i]) = upto(i))
      OBVIOUS
    <3>3. CASE i = 1
      <4>1. f[i] = seqs[i] /\ f[i] \in Seq(S)
        BY <1>1, <2>3, <3>2, <3>3
      <4>2. upto(i) = ToSet(seqs[i])
        <5>1. 1 .. 1 = {1}
          OBVIOUS
        <5> QED BY <3>3, <5>1
      <4> QED BY <3>2, <4>1, <4>2
    <3>4. CASE i # 1
      <4> DEFINE j == i - 1
      <4>1. j \in Nat /\ j \in 1 .. n /\ 1 <= j /\ j <= n /\ j < i /\ 1 .. i = (1 .. j) \cup {i}
        BY <1>1, <3>2, <3>4
      <4> HIDE DEF j
      <4>2. j \notin bad
        <5> SUFFICES ASSUME j \in bad PROVE FALSE
          OBVIOUS
        <5>1. i <= j
          <6> HIDE DEF bad
          <6> QED BY <3>1
        <5> QED BY <3>2, <4>1, <5>1
      <4>3. f[j] \in Seq(S) /\ ToSet(f[j]) = upto(j)
        BY <4>1, <4>2
      <4>4. f[i] = f[j] \o seqs[i] /\ seqs[i] \in Seq(S)
        BY <1>1, <2>3, <3>2, <3>4 DEF j
      <4>5. f[i] \in Seq(S) /\ ToSet(f[i]) = upto(j) \cup ToSet(seqs[i])
        BY <4>3, <4>4, ToSetConcat
      <4>6. upto(i) = upto(j) \cup ToSet(seqs[i])
        BY <4>1
      <4> QED BY <3>2, <4>5, <4>6
    <3> QED BY <3>3, <3>4
  <2>5. n \in Nat /\ 1 <= n /\ n <= n
    BY <1>1, <1>3
  <2>6. f[n] \in Seq(S) /\ ToSet(f[n]) = upto(n)
    BY <2>4, <2>5
  <2>7. upto(n) = AllIn(seqs)
    BY <1>1 DEF AllIn
  <2> QED BY <2>1, <2>6, <2>7
<1> QED BY <1>2, <1>3

-----------------------------------------------------------------------------
(* The agenda of an evaluation is what it ought to check. *)
Checks == [about : {"team", "asset", "windows", "constraint"}, for : Node, of : Node \cup Constraint]

ChecksAbout(about, for, X) == {Check(about, for, x) : x \in X}

ChecksOf(about, for, xs) == [i \in DOMAIN xs |-> Check(about, for, xs[i])]

LEMMA ChecksOfAre ==
    ASSUME NEW about \in {"team", "asset", "windows", "constraint"}, NEW for \in Node,
           NEW xs \in Seq(Node \cup Constraint)
    PROVE  /\ ChecksOf(about, for, xs) \in Seq(Checks)
           /\ ToSet(ChecksOf(about, for, xs)) = ChecksAbout(about, for, ToSet(xs))
<1> DEFINE S == Node \cup Constraint
           n == Len(xs)
           cs == [i \in DOMAIN xs |-> Check(about, for, xs[i])]
<1>1. n \in Nat /\ DOMAIN xs = 1 .. n
  BY LenProperties
<1>2. \A i \in 1 .. n : xs[i] \in S
  BY <1>1, ElementOfSeq
<1> HIDE DEF S, n
<1>3. \A i \in 1 .. n : Check(about, for, xs[i]) \in Checks
  BY <1>2 DEF Check, Checks, S
<1>4. [i \in 1 .. n |-> Check(about, for, xs[i])] \in Seq(Checks)
  BY <1>1, <1>3, IsASeq
<1>5. cs = [i \in 1 .. n |-> Check(about, for, xs[i])]
  BY <1>1
<1>6. ToSet(cs) = ChecksAbout(about, for, ToSet(xs))
  <2>1. ToSet(cs) = {cs[i] : i \in DOMAIN xs}
    BY DEF ToSet
  <2>2. \A i \in DOMAIN xs : cs[i] = Check(about, for, xs[i])
    OBVIOUS
  <2> HIDE DEF cs
  <2>3. ToSet(cs) = {Check(about, for, xs[i]) : i \in DOMAIN xs}
    BY <2>1, <2>2
  <2> QED BY <2>3 DEF ToSet, ChecksAbout
<1> QED BY <1>4, <1>5, <1>6 DEF ChecksOf

LEMMA ConstraintAgendaIs ==
    ASSUME NEW for \in Node, NEW subjects \in Seq(Node)
    PROVE  /\ ConstraintAgenda(for, subjects) \in Seq(Checks)
           /\ ToSet(ConstraintAgenda(for, subjects))
                 = ChecksAbout("constraint", for, UNION {ConstraintsFor(x) : x \in ToSet(subjects)})
<1> DEFINE S == Node \cup Constraint
           D == DOMAIN subjects
           per == [i \in D |-> SetToSeq(ConstraintsFor(subjects[i]))]
           ids == FlattenSeq(per)
<1>1. D = 1 .. Len(subjects) /\ Len(subjects) \in Nat
  BY LenProperties
<1>2. ASSUME NEW i \in D
      PROVE  /\ SetToSeq(ConstraintsFor(subjects[i])) \in Seq(S)
             /\ ToSet(SetToSeq(ConstraintsFor(subjects[i]))) = ConstraintsFor(subjects[i])
  <2> DEFINE C == ConstraintsFor(subjects[i])
  <2>1. C \in SUBSET Constraint
    BY DEF ConstraintsFor
  <2>2. IsFiniteSet(C)
    BY <2>1, IdAssumption, FS_Subset
  <2> HIDE DEF C
  <2>3. SetToSeq(C) \in Seq(C) /\ ToSet(SetToSeq(C)) = C
    BY <2>2, SetToSeqIs
  <2>4. SetToSeq(C) \in Seq(S)
    <3>1. C \subseteq S
      BY <2>1
    <3> HIDE DEF S
    <3> QED BY <2>3, <3>1, SeqMonotonic
  <2> QED BY <2>3, <2>4 DEF C
<1>3. per \in Seq(Seq(S))
  <2>1. per = [i \in 1 .. Len(subjects) |-> SetToSeq(ConstraintsFor(subjects[i]))]
    BY <1>1
  <2> HIDE DEF per, S
  <2>2. \A i \in 1 .. Len(subjects) : SetToSeq(ConstraintsFor(subjects[i])) \in Seq(S)
    BY <1>1, <1>2
  <2>3. [i \in 1 .. Len(subjects) |-> SetToSeq(ConstraintsFor(subjects[i]))] \in Seq(Seq(S))
    BY <1>1, <2>2, IsASeq
  <2> QED BY <2>1, <2>3
<1>4. DOMAIN per = D /\ \A i \in D : ToSet(per[i]) = ConstraintsFor(subjects[i])
  BY <1>2
<1>5. ConstraintAgenda(for, subjects) = ChecksOf("constraint", for, ids)
  BY DEF ConstraintAgenda, ChecksOf
<1> HIDE DEF per, S
<1>6. ids \in Seq(S) /\ ToSet(ids) = AllIn(per)
  BY <1>3, FlattenIs
<1>7. AllIn(per) = UNION {ConstraintsFor(subjects[i]) : i \in D}
  BY <1>4 DEF AllIn
<1>8. UNION {ConstraintsFor(subjects[i]) : i \in D} = UNION {ConstraintsFor(x) : x \in ToSet(subjects)}
  BY DEF ToSet
<1> HIDE DEF ids
<1>9. /\ ChecksOf("constraint", for, ids) \in Seq(Checks)
      /\ ToSet(ChecksOf("constraint", for, ids)) = ChecksAbout("constraint", for, ToSet(ids))
  BY <1>6, ChecksOfAre DEF S
<1> QED BY <1>5, <1>6, <1>7, <1>8, <1>9

LEMMA MissionAgendaIs ==
    ASSUME deps \in Dependencies, NEW m \in Node
    PROVE  MissionAgenda(m) \in Seq(Checks) /\ ToSet(MissionAgenda(m)) = MissionTopics(m)
<1> DEFINE D == DOMAIN deps
           to == [i \in D |-> deps[i].to]
           from == [i \in D |-> deps[i].from]
           needed == {i \in Outgoing(m, "REQUIRES") : deps[i].to \in Team}
           assigned == {i \in D : /\ deps[i].to = m /\ deps[i].rel = "ASSIGNED_TO"
                                  /\ deps[i].from \in Team}
           equipment == {i \in Outgoing(m, "REQUIRES") : deps[i].to \in Asset}
           S == Node \cup Constraint
<1>1. /\ D = 1 .. Len(deps) /\ Len(deps) \in Nat
      /\ \A i \in D : deps[i].from \in Node /\ deps[i].to \in Node
  <2>1. deps \in Seq([from : Node, rel : STRING, to : Node])
    BY DependencyAssumption
  <2>2. \A i \in D : deps[i] \in [from : Node, rel : STRING, to : Node]
    BY <2>1, ElementOfSeq, LenProperties
  <2> QED BY <2>1, <2>2, LenProperties
<1>2. /\ needed \in SUBSET (1 .. Len(deps)) /\ assigned \in SUBSET (1 .. Len(deps))
      /\ equipment \in SUBSET (1 .. Len(deps))
  BY <1>1 DEF Outgoing
<1>3. /\ \A i \in needed : to[i] \in S /\ to[i] = deps[i].to
      /\ \A i \in assigned : from[i] \in S /\ from[i] = deps[i].from
      /\ \A i \in equipment : to[i] \in S /\ to[i] = deps[i].to
  BY <1>1, <1>2
<1> DEFINE a == Picked(to, needed)
           b == Picked(from, assigned)
           c == Picked(to, equipment)
           teams == {deps[i].to : i \in needed} \cup {deps[i].from : i \in assigned}
           assets == {deps[i].to : i \in equipment}
<1>4. /\ AtPlaces(to, needed) = {deps[i].to : i \in needed}
      /\ AtPlaces(from, assigned) = {deps[i].from : i \in assigned}
      /\ AtPlaces(to, equipment) = {deps[i].to : i \in equipment}
  BY <1>3 DEF AtPlaces
<1>5. AssignedTeams(m) = a \o b
  BY DEF AssignedTeams
<1>6. MissionAgenda(m) = ChecksOf("team", m, AssignedTeams(m)) \o ChecksOf("asset", m, c)
                         \o <<Check("windows", m, m)>> \o ConstraintAgenda(m, <<m>>)
  BY DEF MissionAgenda, ChecksOf
<1>7. teams = {t \in Team : \E i \in DOMAIN deps :
                  \/ deps[i].from = m /\ deps[i].rel = "REQUIRES" /\ deps[i].to = t
                  \/ deps[i].to = m /\ deps[i].rel = "ASSIGNED_TO" /\ deps[i].from = t}
  BY DEF Outgoing
<1>8. assets = Required(m) \cap Asset
  BY DEF Required
<1> HIDE DEF to, from, needed, assigned, equipment, S
<1>9. /\ a \in Seq(S) /\ ToSet(a) = AtPlaces(to, needed)
      /\ c \in Seq(S) /\ ToSet(c) = AtPlaces(to, equipment)
  BY <1>1, <1>2, <1>3, PickedIs
<1>10. b \in Seq(S) /\ ToSet(b) = AtPlaces(from, assigned)
  BY <1>1, <1>2, <1>3, PickedIs
<1> HIDE DEF a, b, c
<1>11. a \o b \in Seq(S) /\ ToSet(a \o b) = teams
  BY <1>4, <1>9, <1>10, ToSetConcat
<1>12. ToSet(c) = assets
  BY <1>4, <1>9
<1> HIDE DEF teams, assets
<1> DEFINE ta == ChecksOf("team", m, AssignedTeams(m))
           aa == ChecksOf("asset", m, c)
           wa == <<Check("windows", m, m)>>
           ca == ConstraintAgenda(m, <<m>>)
<1>13. ta \in Seq(Checks) /\ ToSet(ta) = ChecksAbout("team", m, teams)
  BY <1>5, <1>11, ChecksOfAre DEF S
<1>14. aa \in Seq(Checks) /\ ToSet(aa) = ChecksAbout("asset", m, assets)
  BY <1>9, <1>12, ChecksOfAre DEF S
<1>15. wa \in Seq(Checks) /\ ToSet(wa) = {Check("windows", m, m)}
  <2>1. Check("windows", m, m) \in Checks
    BY DEF Check, Checks
  <2>2. wa \in Seq(Checks) /\ DOMAIN wa = {1} /\ wa[1] = Check("windows", m, m)
    BY <2>1
  <2> QED BY <2>2 DEF ToSet
<1>16. ca \in Seq(Checks) /\ ToSet(ca) = ChecksAbout("constraint", m, ConstraintsFor(m))
  <2>1. <<m>> \in Seq(Node) /\ DOMAIN <<m>> = {1} /\ <<m>>[1] = m
    OBVIOUS
  <2>2. ToSet(<<m>>) = {m}
    BY <2>1 DEF ToSet
  <2>3. UNION {ConstraintsFor(x) : x \in ToSet(<<m>>)} = ConstraintsFor(m)
    BY <2>2
  <2>4. /\ ca \in Seq(Checks)
        /\ ToSet(ca) = ChecksAbout("constraint", m, UNION {ConstraintsFor(x) : x \in ToSet(<<m>>)})
    BY <2>1, ConstraintAgendaIs
  <2> QED BY <2>3, <2>4
<1> HIDE DEF ta, aa, wa, ca
<1>17. ta \o aa \in Seq(Checks) /\ ToSet(ta \o aa) = ToSet(ta) \cup ToSet(aa)
  BY <1>13, <1>14, ToSetConcat
<1> DEFINE u == ta \o aa
           v == u \o wa
<1>18. v \in Seq(Checks) /\ ToSet(v) = ToSet(u) \cup ToSet(wa)
  <2>1. u \in Seq(Checks)
    BY <1>17
  <2> HIDE DEF u
  <2> QED BY <1>15, <2>1, ToSetConcat
<1>19. v \o ca \in Seq(Checks) /\ ToSet(v \o ca) = ToSet(v) \cup ToSet(ca)
  <2> HIDE DEF v
  <2> QED BY <1>16, <1>18, ToSetConcat
<1>20. MissionAgenda(m) = v \o ca
  BY <1>6 DEF ta, aa, wa, ca
<1> HIDE DEF u, v
<1>21. MissionTopics(m) = ChecksAbout("team", m, teams) \cup ChecksAbout("asset", m, assets)
                          \cup {Check("windows", m, m)}
                          \cup ChecksAbout("constraint", m, ConstraintsFor(m))
  BY <1>7, <1>8 DEF MissionTopics, ChecksAbout
<1> QED BY <1>13, <1>14, <1>15, <1>16, <1>17, <1>18, <1>19, <1>20, <1>21 DEF u

LEMMA ExpeditionAgendaIs ==
    ASSUME deps \in Dependencies, NEW e \in Node
    PROVE  /\ ExpeditionAgenda(e) \in Seq(Checks)
           /\ ToSet(ExpeditionAgenda(e)) = ChecksAbout("constraint", e, ConstraintsFor(e))
                                           \cup UNION {MissionTopics(m) : m \in MissionsOf(e)}
<1> DEFINE M == MissionsOf(e)
           missions == SetToSeq(M)
           D == DOMAIN missions
           per == [i \in D |-> MissionAgenda(missions[i])]
           fa == FlattenSeq(per)
           ca == ConstraintAgenda(e, <<e>>)
<1>1. M \in SUBSET Mission /\ IsFiniteSet(M)
  <2>1. M \in SUBSET Mission
    BY DEF MissionsOf
  <2> QED BY <2>1, IdAssumption, FS_Subset
<1>2. ExpeditionAgenda(e) = fa \o ca
  BY DEF ExpeditionAgenda
<1> HIDE DEF M
<1>3. missions \in Seq(M) /\ ToSet(missions) = M
  BY <1>1, SetToSeqIs
<1> HIDE DEF missions
<1>4. D = 1 .. Len(missions) /\ Len(missions) \in Nat /\ \A i \in D : missions[i] \in M
  BY <1>3, LenProperties, ElementOfSeq
<1>5. ASSUME NEW i \in D
      PROVE  /\ MissionAgenda(missions[i]) \in Seq(Checks)
             /\ ToSet(MissionAgenda(missions[i])) = MissionTopics(missions[i])
  <2>1. missions[i] \in Node
    BY <1>1, <1>4 DEF Node, Record
  <2> QED BY <2>1, MissionAgendaIs
<1>6. per \in Seq(Seq(Checks))
  <2>1. per = [i \in 1 .. Len(missions) |-> MissionAgenda(missions[i])]
    BY <1>4
  <2> HIDE DEF per
  <2>2. \A i \in 1 .. Len(missions) : MissionAgenda(missions[i]) \in Seq(Checks)
    BY <1>4, <1>5
  <2>3. [i \in 1 .. Len(missions) |-> MissionAgenda(missions[i])] \in Seq(Seq(Checks))
    BY <1>4, <2>2, IsASeq
  <2> QED BY <2>1, <2>3
<1>7. DOMAIN per = D /\ \A i \in D : ToSet(per[i]) = MissionTopics(missions[i])
  BY <1>5
<1> HIDE DEF per
<1>8. fa \in Seq(Checks) /\ ToSet(fa) = AllIn(per)
  BY <1>6, FlattenIs
<1>9. AllIn(per) = UNION {MissionTopics(missions[i]) : i \in D}
  BY <1>7 DEF AllIn
<1>10. UNION {MissionTopics(missions[i]) : i \in D} = UNION {MissionTopics(m) : m \in M}
  BY <1>3 DEF ToSet
<1>11. ca \in Seq(Checks) /\ ToSet(ca) = ChecksAbout("constraint", e, ConstraintsFor(e))
  <2>1. <<e>> \in Seq(Node) /\ DOMAIN <<e>> = {1} /\ <<e>>[1] = e
    OBVIOUS
  <2>2. ToSet(<<e>>) = {e}
    BY <2>1 DEF ToSet
  <2>3. UNION {ConstraintsFor(x) : x \in ToSet(<<e>>)} = ConstraintsFor(e)
    BY <2>2
  <2>4. /\ ca \in Seq(Checks)
        /\ ToSet(ca) = ChecksAbout("constraint", e, UNION {ConstraintsFor(x) : x \in ToSet(<<e>>)})
    BY <2>1, ConstraintAgendaIs
  <2> QED BY <2>3, <2>4
<1> HIDE DEF fa, ca
<1>12. fa \o ca \in Seq(Checks) /\ ToSet(fa \o ca) = ToSet(fa) \cup ToSet(ca)
  BY <1>8, <1>11, ToSetConcat
<1> QED BY <1>2, <1>8, <1>9, <1>10, <1>11, <1>12 DEF M

(* Here the search and what it should reach meet. *)
LEMMA ImpactAgendaIs ==
    ASSUME deps \in Dependencies, NEW s, s.root \in Node, s.depth \in Nat
    PROVE  /\ ImpactAgenda(s) \in Seq(Checks)
           /\ ToSet(ImpactAgenda(s)) = ChecksAbout("constraint", s.root,
                 UNION {ConstraintsFor(n) : n \in Ball(deps, s.root, "BOTH", BoundedDepth(s.depth))})
<1> DEFINE found == TraverseGraph(deps, s.root, "BOTH", s.depth)
           b == BoundedDepth(s.depth)
           ball == Ball(deps, s.root, "BOTH", b)
           ends == [i \in DOMAIN found |-> found[i].node]
           subjects == <<s.root>> \o ends
<1>1. ImpactAgenda(s) = ConstraintAgenda(s.root, subjects)
  BY DEF ImpactAgenda, Affected
<1>2. deps \in Seq(Edges(Node)) /\ b \in Nat
  BY DependencyAssumption DEF Edges, BoundedDepth, MAX_TRAVERSAL_DEPTH
<1>3. Answers(found, Node, deps, s.root, "BOTH", b) /\ found \in Seq(Path(Node))
  <2>1. Answers(found, Node, deps, s.root, "BOTH", b)
    BY <1>2, SearchFindsTheBall
  <2> QED BY <2>1 DEF Answers
<1> HIDE DEF found
<1>4. DOMAIN found = 1 .. Len(found) /\ Len(found) \in Nat
      /\ \A i \in DOMAIN found : found[i].node \in Node
  <2>1. \A i \in DOMAIN found : found[i] \in Path(Node)
    BY <1>3, ElementOfSeq, LenProperties
  <2> QED BY <1>3, <2>1, LenProperties DEF Path
<1>5. ends \in Seq(Node)
  <2>1. ends = [i \in 1 .. Len(found) |-> found[i].node]
    BY <1>4
  <2>2. [i \in 1 .. Len(found) |-> found[i].node] \in Seq(Node)
    BY <1>4, IsASeq
  <2> QED BY <2>1, <2>2
<1>6. ToSet(ends) = ball \ {s.root}
  <2>1. ToSet(ends) = {found[i].node : i \in DOMAIN found}
    BY DEF ToSet
  <2>2. b \in 0 .. b
    BY <1>2
  <2>3. {found[i].node : i \in {j \in DOMAIN found : found[j].depth <= b}} = ball \ {s.root}
    BY <1>3, <2>2 DEF Answers
  <2>4. {j \in DOMAIN found : found[j].depth <= b} = DOMAIN found
    BY <1>3 DEF Answers
  <2> QED BY <2>1, <2>3, <2>4
<1>7. s.root \in ball
  <2>1. Ball(deps, s.root, "BOTH", 0) \subseteq ball
    BY <1>2, BallsGrow
  <2> QED BY <2>1, BallZero
<1> HIDE DEF ends, ball
<1>8. <<s.root>> \in Seq(Node) /\ ToSet(<<s.root>>) = {s.root}
  <2>1. <<s.root>> \in Seq(Node) /\ DOMAIN <<s.root>> = {1} /\ <<s.root>>[1] = s.root
    OBVIOUS
  <2> QED BY <2>1 DEF ToSet
<1>9. subjects \in Seq(Node) /\ ToSet(subjects) = ball
  <2> DEFINE one == <<s.root>>
  <2>1. subjects \in Seq(Node) /\ ToSet(subjects) = ToSet(one) \cup ToSet(ends)
    <3>1. one \in Seq(Node) /\ subjects = one \o ends
      BY <1>8
    <3> HIDE DEF one, subjects
    <3>2. one \o ends \in Seq(Node) /\ ToSet(one \o ends) = ToSet(one) \cup ToSet(ends)
      BY <1>5, <3>1, ToSetConcat
    <3> QED BY <3>1, <3>2
  <2> QED BY <1>6, <1>7, <1>8, <2>1
<1> HIDE DEF subjects
<1>10. /\ ConstraintAgenda(s.root, subjects) \in Seq(Checks)
       /\ ToSet(ConstraintAgenda(s.root, subjects))
             = ChecksAbout("constraint", s.root, UNION {ConstraintsFor(x) : x \in ToSet(subjects)})
  BY <1>9, ConstraintAgendaIs
<1> QED BY <1>1, <1>9, <1>10 DEF ball, b

-----------------------------------------------------------------------------
(* A check that is well put, and the findings that may be about it. *)
Posed(c) ==
    /\ c \in Checks
    /\ c.about = "team" => c.of \in Team
    /\ c.about = "asset" => c.of \in Asset
    /\ c.about = "windows" => c.of = c.for
    /\ c.about = "constraint" => c.of \in Constraint

IsAbout(f, c) ==
    /\ f.for = c.for
    /\ IF c.about = "windows" THEN f.item \in Window ELSE f.item = c.of

LEMMA MissionTopicsArePosed ==
    ASSUME NEW m \in Node
    PROVE  \A c \in MissionTopics(m) : Posed(c) /\ c.for = m
<1> SUFFICES ASSUME NEW c \in MissionTopics(m) PROVE Posed(c) /\ c.for = m
  OBVIOUS
<1>1. CASE \E t \in Team : c = Check("team", m, t)
  BY <1>1 DEF Check, Posed, Checks, Node, Record
<1>2. CASE \E a \in Asset : c = Check("asset", m, a)
  BY <1>2 DEF Check, Posed, Checks, Node, Supply
<1>3. CASE c = Check("windows", m, m)
  BY <1>3 DEF Check, Posed, Checks
<1>4. CASE \E id \in Constraint : c = Check("constraint", m, id)
  BY <1>4 DEF Check, Posed, Checks
<1> QED BY <1>1, <1>2, <1>3, <1>4 DEF MissionTopics, ConstraintsFor

LEMMA ConstraintChecksArePosed ==
    ASSUME NEW for \in Node, NEW X \in SUBSET Constraint
    PROVE  \A c \in ChecksAbout("constraint", for, X) : Posed(c) /\ c.for = for
BY DEF ChecksAbout, Check, Posed, Checks

(* A finding tells which check it comes from. *)
LEMMA OneCheck ==
    ASSUME NEW c, NEW d, Posed(c), Posed(d), NEW f, IsAbout(f, c), IsAbout(f, d)
    PROVE  c = d
<1>1. c \in Checks /\ d \in Checks /\ c.for = d.for
  BY DEF Posed, IsAbout
<1>2. /\ Team \cap Window = {} /\ Team \cap Asset = {} /\ Team \cap Constraint = {}
      /\ Asset \cap Window = {} /\ Asset \cap Constraint = {} /\ Constraint \cap Window = {}
  BY DisjointAssumption, IdAssumption DEF Record, Supply
<1>3. /\ c.about \in {"team", "asset", "windows", "constraint"}
      /\ d.about \in {"team", "asset", "windows", "constraint"}
  BY <1>1 DEF Checks
<1>4. c.about = d.about /\ c.of = d.of
  <2>1. CASE c.about = "windows"
    <3>1. d.about = "windows"
      BY <1>2, <1>3, <2>1 DEF Posed, IsAbout
    <3> QED BY <1>1, <2>1, <3>1 DEF Posed
  <2>2. CASE c.about # "windows"
    <3>1. d.about # "windows"
      BY <1>2, <1>3, <2>2 DEF Posed, IsAbout
    <3>2. c.of = d.of
      BY <2>2, <3>1 DEF IsAbout
    <3> QED BY <1>2, <1>3, <2>2, <3>1, <3>2 DEF Posed
  <2> QED BY <2>1, <2>2
<1> QED BY <1>1, <1>4 DEF Checks

LEMMA ReportsAre ==
    ASSUME NEW c, NEW held
    PROVE  /\ c.about = "team" => Reports(c, held) = {TeamFindings(c.for, c.of, held)}
           /\ c.about = "asset" => Reports(c, held) = {AssetFindings(c.for, c.of)}
           /\ c.about = "windows" => Reports(c, held) = {WindowFindings(c.of)}
           /\ c.about = "constraint" => Reports(c, held) =
                 {ConstraintFindings(c.for, c.of, state) :
                    state \in EvaluateConstraint(c.of, Deadline(ConstraintRow[c.of].subject, held))}
<1>1. ASSUME c.about = "team" PROVE Reports(c, held) = {TeamFindings(c.for, c.of, held)}
  BY <1>1, Zenon DEF Reports
<1>2. ASSUME c.about = "asset" PROVE Reports(c, held) = {AssetFindings(c.for, c.of)}
  BY <1>2, Zenon DEF Reports
<1>3. ASSUME c.about = "windows" PROVE Reports(c, held) = {WindowFindings(c.of)}
  BY <1>3, Zenon DEF Reports
<1>4. ASSUME c.about = "constraint"
      PROVE  Reports(c, held) = {ConstraintFindings(c.for, c.of, state) :
                state \in EvaluateConstraint(c.of, Deadline(ConstraintRow[c.of].subject, held))}
  BY <1>4, Zenon DEF Reports
<1> QED BY <1>1, <1>2, <1>3, <1>4

LEMMA ReportedIsAbout ==
    ASSUME NEW c, Posed(c), NEW held, NEW report \in Reports(c, held), NEW f \in report
    PROVE  IsAbout(f, c)
<1>1. c.about \in {"team", "asset", "windows", "constraint"}
  BY DEF Posed, Checks
<1>2. CASE c.about = "team"
  <2>1. f \in TeamFindings(c.for, c.of, held)
    BY <1>2, ReportsAre
  <2> QED BY <1>2, <2>1 DEF TeamFindings, Weighed, IsAbout
<1>3. CASE c.about = "asset"
  <2>1. f \in AssetFindings(c.for, c.of)
    BY <1>3, ReportsAre
  <2> QED BY <1>3, <2>1 DEF AssetFindings, Weighed, IsAbout
<1>4. CASE c.about = "windows"
  <2>1. f \in WindowFindings(c.of) /\ c.of = c.for
    BY <1>4, ReportsAre DEF Posed
  <2> QED BY <1>4, <2>1 DEF WindowFindings, Windows, Weighed, IsAbout
<1>5. CASE c.about = "constraint"
  <2>1. PICK state : f \in ConstraintFindings(c.for, c.of, state)
    BY <1>5, ReportsAre
  <2> QED BY <1>5, <2>1 DEF ConstraintFindings, Weighed, IsAbout
<1> QED BY <1>1, <1>2, <1>3, <1>4, <1>5

-----------------------------------------------------------------------------
(* What an evaluation holds is true of the database but for the readiness of *)
(* people, as long as nobody changes teams and no deadline moves.            *)
HeldIsTrue(held) ==
    /\ \A p \in Person : held.people[p] # NoRow =>
          rows[p] # NoRow /\ rows[p].team = held.people[p].team
    /\ \A m \in Mission : held.missions[m] # NoRow =>
          rows[m] # NoRow /\ rows[m].requiredBy = held.missions[m].requiredBy

LEMMA SameReports ==
    ASSUME NEW c, Posed(c), c.about # "team", NEW held, HeldIsTrue(held)
    PROVE  Reports(c, held) = Reports(c, NothingHeld)
<1>1. c.about \in {"asset", "windows", "constraint"}
  BY DEF Posed, Checks
<1>2. CASE c.about = "asset"
  BY <1>2, ReportsAre
<1>3. CASE c.about = "windows"
  BY <1>3, ReportsAre
<1>4. CASE c.about = "constraint"
  <2> DEFINE x == ConstraintRow[c.of].subject
  <2>1. Deadline(x, held) = Deadline(x, NothingHeld)
    <3> HIDE DEF x
    <3>1. x \in Mission => NothingHeld.missions[x] = NoRow
      BY DEF NothingHeld
    <3> QED BY <3>1 DEF Deadline, HeldIsTrue, Exists
  <2>2. /\ Reports(c, held) = {ConstraintFindings(c.for, c.of, state) :
                                 state \in EvaluateConstraint(c.of, Deadline(x, held))}
        /\ Reports(c, NothingHeld) = {ConstraintFindings(c.for, c.of, state) :
                                 state \in EvaluateConstraint(c.of, Deadline(x, NothingHeld))}
    BY <1>4, ReportsAre
  <2> QED BY <2>1, <2>2
<1> QED BY <1>1, <1>2, <1>3, <1>4

(* The members of a team that are held. *)
Holding(held, p, t) == held.people[p] # NoRow /\ held.people[p].team = t

(* A held member that is unready could once be reported; if all that are held *)
(* are ready, there was a moment when nobody was to be.                       *)
HeldIsFair(held, topics, may, must) ==
    \A c \in topics : c.about = "team" =>
        /\ (\E p \in Person : Holding(held, p, c.of) /\ held.people[p].readiness \in UNREADY)
              => Weighed(c.for, c.of, "BLOCKER") \in may
        /\ /\ \E p \in Person : Holding(held, p, c.of)
           /\ \A p \in Person : Holding(held, p, c.of) => held.people[p].readiness \notin UNREADY
           => Weighed(c.for, c.of, "BLOCKER") \notin must

-----------------------------------------------------------------------------
(* While the records and supplies stay, so do the answers of the rules and   *)
(* the reports of the checks.                                                *)
LEMMA SameAnswers ==
    ASSUME UNCHANGED <<rows, supply, deps>>, NEW id, NEW deadline
    PROVE  EvaluateConstraint(id, deadline)' = EvaluateConstraint(id, deadline)
<1> DEFINE c == ConstraintRow[id]
<1>1. EvaluateMissionRequiredBy(c, deadline)' = EvaluateMissionRequiredBy(c, deadline)
  BY DEF EvaluateMissionRequiredBy, Windows, Exists
<1>2. EvaluateMissionResourceRequired(c)' = EvaluateMissionResourceRequired(c)
  BY DEF EvaluateMissionResourceRequired, Required, Outgoing, SupplyExists, Unserviceable, Exists
<1>3. EvaluatePersonnelStaffing(c)' = EvaluatePersonnelStaffing(c)
  BY DEF EvaluatePersonnelStaffing, MembersOf, Exists
<1>4. EvaluateCargoEtaDeadline(c)' = EvaluateCargoEtaDeadline(c)
  BY DEF EvaluateCargoEtaDeadline, SupplyExists
<1>5. EvaluateAssetAvailability(c)' = EvaluateAssetAvailability(c)
  BY DEF EvaluateAssetAvailability, Unserviceable, SupplyExists
<1>6. EvaluateInventoryAvailability(c)' = EvaluateInventoryAvailability(c)
  BY DEF EvaluateInventoryAvailability, SupplyExists
<1>7. EvaluateDocumentValidity(c)' = EvaluateDocumentValidity(c)
  BY DEF EvaluateDocumentValidity, SupplyExists
<1>8. EvaluateFirstWindow(c)' = EvaluateFirstWindow(c)
  BY DEF EvaluateFirstWindow, Windows, Exists
<1>9. EvaluateResourceRunwayHorizon(c)' = EvaluateResourceRunwayHorizon(c)
  BY DEF EvaluateResourceRunwayHorizon, SupplyExists
<1> QED
  BY <1>1, <1>2, <1>3, <1>4, <1>5, <1>6, <1>7, <1>8, <1>9, ZenonT(60)
     DEF EvaluateConstraint, EvaluateLocationAccess, EvaluateTimeWindow, EvaluateTransportCapacity

LEMMA SameReportsNow ==
    ASSUME UNCHANGED <<rows, supply, deps>>, NEW c, Posed(c)
    PROVE  Reports(c, NothingHeld)' = Reports(c, NothingHeld)
<1> DEFINE x == ConstraintRow[c.of].subject
           n == Deadline(x, NothingHeld)
<1>1. c.about \in {"team", "asset", "windows", "constraint"}
  BY DEF Posed, Checks
<1>2. CASE c.about = "team"
  <2>1. TeamFindings(c.for, c.of, NothingHeld)' = TeamFindings(c.for, c.of, NothingHeld)
    BY DEF TeamFindings, MembersOf, Exists, NothingHeld
  <2>2. Reports(c, NothingHeld) = {TeamFindings(c.for, c.of, NothingHeld)}
    BY <1>2, Zenon DEF Reports
  <2>3. Reports(c, NothingHeld)' = {TeamFindings(c.for, c.of, NothingHeld)}'
    BY <1>2, Zenon DEF Reports
  <2> QED BY <2>1, <2>2, <2>3
<1>3. CASE c.about = "asset"
  <2>1. AssetFindings(c.for, c.of)' = AssetFindings(c.for, c.of)
    BY DEF AssetFindings, SupplyExists, Unserviceable
  <2>2. Reports(c, NothingHeld) = {AssetFindings(c.for, c.of)}
    BY <1>3, Zenon DEF Reports
  <2>3. Reports(c, NothingHeld)' = {AssetFindings(c.for, c.of)}'
    BY <1>3, Zenon DEF Reports
  <2> QED BY <2>1, <2>2, <2>3
<1>4. CASE c.about = "windows"
  <2>1. WindowFindings(c.of)' = WindowFindings(c.of)
    BY DEF WindowFindings, Windows, Exists
  <2>2. Reports(c, NothingHeld) = {WindowFindings(c.of)}
    BY <1>4, Zenon DEF Reports
  <2>3. Reports(c, NothingHeld)' = {WindowFindings(c.of)}'
    BY <1>4, Zenon DEF Reports
  <2> QED BY <2>1, <2>2, <2>3
<1>5. CASE c.about = "constraint"
  <2>1. n' = n
    BY DEF Deadline, NothingHeld, Exists
  <2>2. Reports(c, NothingHeld)
          = {ConstraintFindings(c.for, c.of, state) : state \in EvaluateConstraint(c.of, n)}
    BY <1>5, Zenon DEF Reports
  <2>3. Reports(c, NothingHeld)'
          = {ConstraintFindings(c.for, c.of, state) : state \in EvaluateConstraint(c.of, n)'}
    BY <1>5, Zenon DEF Reports
  <2>4. EvaluateConstraint(c.of, n)' = EvaluateConstraint(c.of, n)
    <3>1. PICK late : late = n
      OBVIOUS
    <3>2. EvaluateConstraint(c.of, late)' = EvaluateConstraint(c.of, late)
      BY SameAnswers
    <3>3. late = n'
      BY <2>1, <3>1
    <3> HIDE DEF n
    <3> QED BY <3>1, <3>2, <3>3
  <2> QED BY <2>2, <2>3, <2>4
<1> QED BY <1>1, <1>2, <1>3, <1>4, <1>5

-----------------------------------------------------------------------------
(* What the topics may be found to be at any moment so far lies in may, and  *)
(* what must says of one of them has been found at every moment.             *)
Fair(topics, may, must) ==
    \A c \in topics : \A report \in Reports(c, NothingHeld) :
        /\ report \subseteq may
        /\ \A f \in must : IsAbout(f, c) => f \in report

(* A record of an evaluation that is followed up to here: with T the topics   *)
(* and while nothing has shifted, every finding that must be reported has     *)
(* been, or its check is still to come.                                       *)
Followed(s, r) ==
    /\ \A c \in r.topics : Posed(c)
    /\ s.kind = "expedition" => \A c \in r.topics : c.for \in Mission \cup {s.root}
    /\ r.agenda \in Seq(Checks) /\ ToSet(r.agenda) \subseteq r.topics
    /\ \A f \in r.must : \E c \in r.topics : IsAbout(f, c)
    /\ ~r.shifted =>
          /\ Fair(r.topics, r.may, r.must)
          /\ HeldIsTrue(r.held)
          /\ HeldIsFair(r.held, r.topics, r.may, r.must)
          /\ r.reported \subseteq r.may
          /\ \A f \in r.must : f \in r.reported \/ \E c \in ToSet(r.agenda) : IsAbout(f, c)

ReviewFollowed == scope.kind \in Kind \ {"safety"} => Followed(scope, review)

(* The reports of a moment bound what may and what must be reported: at every *)
(* moment, hence also at the next one.                                        *)
BoundsAreFair ==
    \A topics, may, must :
        /\ \A c \in topics : Posed(c)
        /\ Possible(ReportsNow(topics)) \subseteq may
        /\ must \subseteq Certain(ReportsNow(topics))
        => /\ Fair(topics, may, must)
           /\ \A f \in must : \E c \in topics : IsAbout(f, c)

LEMMA BoundsNow == BoundsAreFair
<1> SUFFICES ASSUME NEW topics, NEW may, NEW must,
                    \A c \in topics : Posed(c),
                    Possible(ReportsNow(topics)) \subseteq may,
                    must \subseteq Certain(ReportsNow(topics))
             PROVE  /\ Fair(topics, may, must)
                    /\ \A f \in must : \E c \in topics : IsAbout(f, c)
  BY DEF BoundsAreFair
<1>1. ASSUME NEW f \in must
      PROVE  \E d \in topics : IsAbout(f, d) /\ \A report \in Reports(d, NothingHeld) : f \in report
  <2>1. PICK r \in ReportsNow(topics) : f \in UNION r /\ \A report \in r : f \in report
    BY <1>1 DEF Certain
  <2>2. PICK d \in topics : r = Reports(d, NothingHeld)
    BY DEF ReportsNow
  <2>3. PICK report \in Reports(d, NothingHeld) : f \in report
    BY <2>1, <2>2
  <2>4. IsAbout(f, d)
    BY <2>3, ReportedIsAbout
  <2> QED BY <2>1, <2>2, <2>4
<1>2. ASSUME NEW c \in topics, NEW report \in Reports(c, NothingHeld)
      PROVE  report \subseteq may /\ \A f \in must : IsAbout(f, c) => f \in report
  <2>1. report \subseteq may
    BY DEF ReportsNow, Possible
  <2>2. ASSUME NEW f \in must, IsAbout(f, c) PROVE f \in report
    <3>1. PICK d \in topics : IsAbout(f, d) /\ \A other \in Reports(d, NothingHeld) : f \in other
      BY <1>1
    <3>2. Posed(c) /\ Posed(d)
      OBVIOUS
    <3>3. c = d
      BY <2>2, <3>1, <3>2, OneCheck
    <3> QED BY <3>1, <3>3
  <2> QED BY <2>1, <2>2
<1> QED BY <1>1, <1>2 DEF Fair

LEMMA BoundsNext == BoundsAreFair'
BY BoundsNow, PTL

LEMMA FairStays ==
    ASSUME UNCHANGED <<rows, supply, deps>>, NEW topics, NEW may, NEW must,
           \A c \in topics : Posed(c), Fair(topics, may, must)
    PROVE  Fair(topics, may, must)'
<1>1. ASSUME NEW c \in topics PROVE Reports(c, NothingHeld)' = Reports(c, NothingHeld)
  BY SameReportsNow
<1> QED BY <1>1 DEF Fair

-----------------------------------------------------------------------------
(* An evaluation begins with all that it ought to check on its agenda. *)
LEMMA BeginReviewFollowed ==
    ASSUME NEW s, NEW agenda \in Seq(Checks), NEW missions,
           BeginReview(s, agenda, missions), ToSet(agenda) = Topics(s),
           \A c \in Topics(s) : Posed(c),
           s.kind = "expedition" => \A c \in Topics(s) : c.for \in Mission \cup {s.root}
    PROVE  ReviewFollowed'
<1>1. PICK topics : topics = Topics(s)
  OBVIOUS
<1>2. PICK may : may = Possible(ReportsNow(topics))
  OBVIOUS
<1>3. PICK must : must = Certain(ReportsNow(topics))
  OBVIOUS
<1>4. PICK people : people = NothingHeld.people
  OBVIOUS
<1>5. PICK held : held = [m \in Mission |-> IF m \in missions THEN rows[m] ELSE NoRow]
  OBVIOUS
<1>6. /\ scope' = s /\ UNCHANGED <<rows, supply, deps>>
      /\ review' = [agenda |-> agenda, topics |-> topics,
                    held |-> [people |-> people, missions |-> held],
                    reported |-> {}, shifted |-> FALSE, may |-> may, must |-> must]
  BY <1>1, <1>2, <1>3, <1>4, <1>5 DEF BeginReview, campaignVars
<1>7. \A c \in topics : Posed(c)
  BY <1>1
<1>8. Fair(topics, may, must) /\ \A f \in must : \E c \in topics : IsAbout(f, c)
  <2>1. may \subseteq may /\ Possible(ReportsNow(topics)) \subseteq may
        /\ must \subseteq Certain(ReportsNow(topics))
    BY <1>2, <1>3
  <2> QED BY <1>7, <2>1, BoundsNow DEF BoundsAreFair
<1>9. Fair(topics, may, must)'
  BY <1>6, <1>7, <1>8, FairStays
<1>10. \A p \in Person : people[p] = NoRow
  BY <1>4 DEF NothingHeld
<1>11. HeldIsTrue(review.held)'
  BY <1>5, <1>6, <1>10 DEF HeldIsTrue
<1>12. HeldIsFair(review.held, review.topics, review.may, review.must)'
  BY <1>6, <1>10 DEF HeldIsFair, Holding
<1>13. ToSet(agenda) = topics
  BY <1>1
<1>14. s.kind = "expedition" => \A c \in topics : c.for \in Mission \cup {s.root}
  BY <1>1
<1> HIDE DEF Posed, IsAbout
<1> QED
  BY <1>6, <1>7, <1>8, <1>9, <1>11, <1>12, <1>13, <1>14 DEF ReviewFollowed, Followed

LEMMA BeginFollowed ==
    ASSUME deps \in Dependencies, NEW s \in Scope,
           BeginMission(s) \/ BeginExpedition(s) \/ BeginImpact(s)
    PROVE  ReviewFollowed'
<1>1. s.root \in Node /\ s.depth \in Nat
  BY ScopeAssumption
<1>2. CASE BeginMission(s)
  <2>1. s.kind = "mission" /\ BeginReview(s, MissionAgenda(s.root), {s.root})
    BY <1>2 DEF BeginMission
  <2>2. Topics(s) = MissionTopics(s.root)
    BY <2>1, Zenon DEF Topics
  <2>3. MissionAgenda(s.root) \in Seq(Checks) /\ ToSet(MissionAgenda(s.root)) = MissionTopics(s.root)
    BY <1>1, MissionAgendaIs
  <2>4. \A c \in MissionTopics(s.root) : Posed(c)
    BY <1>1, MissionTopicsArePosed
  <2>5. s.kind # "expedition"
    BY <2>1
  <2> QED BY <2>1, <2>2, <2>3, <2>4, <2>5, BeginReviewFollowed
<1>3. CASE BeginExpedition(s)
  <2> DEFINE own == ChecksAbout("constraint", s.root, ConstraintsFor(s.root))
             theirs == UNION {MissionTopics(m) : m \in MissionsOf(s.root)}
  <2>1. s.kind = "expedition" /\ BeginReview(s, ExpeditionAgenda(s.root), MissionsOf(s.root))
    BY <1>3 DEF BeginExpedition
  <2>2. Topics(s) = own \cup theirs
    BY <2>1, Zenon DEF Topics, ChecksAbout
  <2>3. /\ ExpeditionAgenda(s.root) \in Seq(Checks)
        /\ ToSet(ExpeditionAgenda(s.root)) = own \cup theirs
    BY <1>1, ExpeditionAgendaIs
  <2>4. \A c \in own : Posed(c) /\ c.for = s.root
    <3>1. ConstraintsFor(s.root) \in SUBSET Constraint
      BY DEF ConstraintsFor
    <3> QED BY <1>1, <3>1, ConstraintChecksArePosed
  <2>5. ASSUME NEW c \in theirs PROVE Posed(c) /\ c.for \in Mission
    <3>1. PICK m \in MissionsOf(s.root) : c \in MissionTopics(m)
      OBVIOUS
    <3>2. m \in Mission /\ m \in Node
      BY <3>1 DEF MissionsOf, Node, Record
    <3> QED BY <3>1, <3>2, MissionTopicsArePosed
  <2>6. /\ \A c \in own \cup theirs : Posed(c)
        /\ \A c \in own \cup theirs : c.for \in Mission \cup {s.root}
    <3> HIDE DEF own, theirs
    <3> QED BY <2>4, <2>5
  <2> HIDE DEF own, theirs
  <2> QED BY <2>1, <2>2, <2>3, <2>6, BeginReviewFollowed
<1>4. CASE BeginImpact(s)
  <2> DEFINE ids == UNION {ConstraintsFor(n) :
                             n \in Ball(deps, s.root, "BOTH", BoundedDepth(s.depth))}
             checks == ChecksAbout("constraint", s.root, ids)
  <2>1. s.kind = "impact" /\ BeginReview(s, ImpactAgenda(s), {})
    BY <1>4 DEF BeginImpact
  <2>2. Topics(s) = checks
    BY <2>1, Zenon DEF Topics, ChecksAbout
  <2>3. ImpactAgenda(s) \in Seq(Checks) /\ ToSet(ImpactAgenda(s)) = checks
    BY <1>1, ImpactAgendaIs
  <2>4. \A c \in checks : Posed(c)
    <3>1. ids \in SUBSET Constraint
      BY DEF ConstraintsFor
    <3> HIDE DEF ids
    <3> QED BY <1>1, <3>1, ConstraintChecksArePosed
  <2>5. s.kind # "expedition"
    BY <2>1
  <2> HIDE DEF checks, ids
  <2> QED BY <2>1, <2>2, <2>3, <2>4, <2>5, BeginReviewFollowed
<1> QED BY <1>2, <1>3, <1>4

-----------------------------------------------------------------------------
(* A check reports nothing that never held, and all that has held throughout. *)
LEMMA TeamCheckIsFair ==
    ASSUME NEW topics, NEW c \in topics, Posed(c), c.about = "team", NEW may, NEW must,
           Fair(topics, may, must), NEW held, HeldIsTrue(held),
           HeldIsFair(held, topics, may, must), NEW report \in Reports(c, held)
    PROVE  report \subseteq may /\ \A f \in must : IsAbout(f, c) => f \in report
<1> DEFINE t == c.of
           blocker == Weighed(c.for, t, "BLOCKER")
           now == TeamFindings(c.for, t, NothingHeld)
           unready(p) == rows[p].readiness \in UNREADY
           unfit(p) == held.people[p].readiness \in UNREADY
<1>1. report = TeamFindings(c.for, t, held)
  BY ReportsAre
<1>2. now \subseteq may /\ \A f \in must : IsAbout(f, c) => f \in now
  <2>1. Reports(c, NothingHeld) = {now}
    BY ReportsAre
  <2> QED BY <2>1 DEF Fair
<1>3. CASE ~Exists(t) \/ MembersOf(t) = {}
  <2>1. report = now
    BY <1>1, <1>3 DEF TeamFindings
  <2> QED BY <1>2, <2>1
<1>4. CASE Exists(t) /\ MembersOf(t) # {}
  <2>1. now = {blocker : p \in {q \in MembersOf(t) : unready(q)}}
    BY <1>4 DEF TeamFindings, NothingHeld, MembersOf
  <2>2. report = {blocker : p \in {q \in MembersOf(t) :
                    (IF held.people[q] # NoRow THEN held.people[q].readiness
                     ELSE rows[q].readiness) \in UNREADY}}
    BY <1>1, <1>4 DEF TeamFindings
  <2>3. /\ (\E p \in Person : Holding(held, p, t) /\ unfit(p)) => blocker \in may
        /\ (\E p \in Person : Holding(held, p, t))
           /\ (\A p \in Person : Holding(held, p, t) => ~unfit(p)) => blocker \notin must
    BY DEF HeldIsFair
  <2>4. \A p \in MembersOf(t) : p \in Person /\ (held.people[p] # NoRow => Holding(held, p, t))
    BY DEF MembersOf, HeldIsTrue, Holding
  <2>5. \A p \in Person : Holding(held, p, t) => p \in MembersOf(t) /\ held.people[p] # NoRow
    BY DEF MembersOf, HeldIsTrue, Holding, Exists
  <2> HIDE DEF blocker, now
  <2>6. report \subseteq may
    <3> SUFFICES ASSUME NEW f \in report PROVE f \in may
      OBVIOUS
    <3>1. PICK p \in MembersOf(t) : (IF held.people[p] # NoRow THEN held.people[p].readiness
                                     ELSE rows[p].readiness) \in UNREADY
      BY <2>2
    <3>2. f = blocker
      BY <2>2
    <3>3. CASE held.people[p] # NoRow
      BY <2>3, <2>4, <3>1, <3>2, <3>3
    <3>4. CASE held.people[p] = NoRow
      <4>1. blocker \in now
        BY <2>1, <3>1, <3>4
      <4> QED BY <1>2, <3>2, <4>1
    <3> QED BY <3>3, <3>4
  <2>7. ASSUME NEW f \in must, IsAbout(f, c) PROVE f \in report
    <3>1. f \in now
      BY <1>2, <2>7
    <3>2. PICK p \in MembersOf(t) : unready(p)
      BY <2>1, <3>1
    <3>3. f = blocker
      BY <2>1, <3>1
    <3>4. CASE \E q \in Person : Holding(held, q, t)
      <4>1. PICK q \in Person : Holding(held, q, t) /\ unfit(q)
        BY <2>3, <2>7, <3>3, <3>4
      <4> QED BY <2>2, <2>5, <3>3, <4>1
    <3>5. CASE ~ \E q \in Person : Holding(held, q, t)
      <4>1. held.people[p] = NoRow
        BY <2>4, <3>5
      <4> QED BY <2>2, <3>2, <3>3, <4>1
    <3> QED BY <3>4, <3>5
  <2> QED BY <2>6, <2>7
<1> QED BY <1>3, <1>4

LEMMA CheckIsFair ==
    ASSUME NEW topics, NEW c \in topics, Posed(c), NEW may, NEW must,
           Fair(topics, may, must), NEW held, HeldIsTrue(held),
           HeldIsFair(held, topics, may, must), NEW report \in Reports(c, held)
    PROVE  report \subseteq may /\ \A f \in must : IsAbout(f, c) => f \in report
<1>1. CASE c.about = "team"
  BY <1>1, TeamCheckIsFair
<1>2. CASE c.about # "team"
  <2>1. report \in Reports(c, NothingHeld)
    BY <1>2, SameReports
  <2> QED BY <2>1 DEF Fair
<1> QED BY <1>1, <1>2

(* What a check leaves held is as true and as fair as what was held before. *)
LEMMA HeldAfterIsFair ==
    ASSUME NEW topics, NEW c \in topics, Posed(c), \A d \in topics : Posed(d), NEW may, NEW must,
           Fair(topics, may, must), \A f \in must : \E d \in topics : IsAbout(f, d),
           HeldIsTrue(review.held), HeldIsFair(review.held, topics, may, must),
           NEW held, held = [people |-> HeldAfter(c), missions |-> review.held.missions]
    PROVE  HeldIsTrue(held) /\ HeldIsFair(held, topics, may, must)
<1> DEFINE t == c.of
           before == review.held.people
           after == held.people
<1>0. after = HeldAfter(c) /\ held.missions = review.held.missions
  OBVIOUS
<1>1. \A p \in Person : after[p] # NoRow =>
          \/ after[p] = before[p]
          \/ after[p] = rows[p] /\ before[p] = NoRow /\ Exists(t) /\ p \in MembersOf(t)
             /\ c.about = "team"
  BY <1>0 DEF HeldAfter, NothingHeld
<1>2. HeldIsTrue(held)
  <2>1. \A m \in Mission : held.missions[m] = review.held.missions[m]
    BY <1>0
  <2> HIDE DEF before, after
  <2>2. \A p \in Person : after[p] # NoRow => rows[p] # NoRow /\ rows[p].team = after[p].team
    <3>1. \A p \in Person : before[p] # NoRow => rows[p] # NoRow /\ rows[p].team = before[p].team
      BY DEF HeldIsTrue, before
    <3> QED BY <1>1, <3>1
  <2> QED BY <2>1, <2>2 DEF HeldIsTrue, after
<1>3. ASSUME NEW d \in topics, d.about = "team"
      PROVE  /\ (\E p \in Person : Holding(held, p, d.of) /\ after[p].readiness \in UNREADY)
                   => Weighed(d.for, d.of, "BLOCKER") \in may
             /\ /\ \E p \in Person : Holding(held, p, d.of)
                /\ \A p \in Person : Holding(held, p, d.of) => after[p].readiness \notin UNREADY
                => Weighed(d.for, d.of, "BLOCKER") \notin must
  <2> DEFINE u == d.of
             blocker == Weighed(d.for, u, "BLOCKER")
             now == TeamFindings(d.for, u, NothingHeld)
  <2>1. /\ (\E p \in Person : Holding(review.held, p, u) /\ before[p].readiness \in UNREADY)
              => blocker \in may
        /\ (\E p \in Person : Holding(review.held, p, u))
           /\ (\A p \in Person : Holding(review.held, p, u) => before[p].readiness \notin UNREADY)
              => blocker \notin must
    BY <1>3 DEF HeldIsFair
  <2>2. now \subseteq may /\ \A f \in must : IsAbout(f, d) => f \in now
    <3>1. Reports(d, NothingHeld) = {now}
      BY <1>3, ReportsAre
    <3> QED BY <3>1 DEF Fair
  <2>3. Exists(u) /\ MembersOf(u) # {} =>
            now = {blocker : p \in {q \in MembersOf(u) : rows[q].readiness \in UNREADY}}
    BY DEF TeamFindings, NothingHeld, MembersOf
  <2>4. IsAbout(blocker, d)
    BY <1>3 DEF IsAbout, Weighed
  <2>5. \A p \in Person : Holding(held, p, u) =>
            \/ Holding(review.held, p, u) /\ after[p] = before[p]
            \/ after[p] = rows[p] /\ before[p] = NoRow /\ Exists(u) /\ p \in MembersOf(u)
    <3>1. \A p \in MembersOf(t) : rows[p].team = t
      BY DEF MembersOf
    <3> QED BY <1>1, <3>1 DEF Holding
  <2> HIDE DEF blocker, now, before, after
  <2>6. ASSUME NEW p \in Person, Holding(held, p, u), after[p].readiness \in UNREADY
        PROVE  blocker \in may
    <3>1. CASE Holding(review.held, p, u) /\ after[p] = before[p]
      BY <2>1, <2>6, <3>1
    <3>2. CASE after[p] = rows[p] /\ before[p] = NoRow /\ Exists(u) /\ p \in MembersOf(u)
      <4>1. blocker \in now
        BY <2>3, <2>6, <3>2
      <4> QED BY <2>2, <4>1
    <3> QED BY <2>5, <2>6, <3>1, <3>2
  <2>7. ASSUME NEW p \in Person, Holding(held, p, u),
               \A q \in Person : Holding(held, q, u) => after[q].readiness \notin UNREADY
        PROVE  blocker \notin must
    <3>1. CASE c.about # "team"
      BY <1>0, <2>7, <3>1 DEF HeldAfter, NothingHeld, Holding, after
    <3>2. CASE c.about = "team" /\ ~Exists(t)
      <4>1. after = before
        BY <1>0, <3>2 DEF HeldAfter, before
      <4>2. \A q \in Person : Holding(review.held, q, u) => Holding(held, q, u)
        BY <4>1 DEF Holding, before, after
      <4>3. Holding(review.held, p, u)
        BY <2>7, <4>1 DEF Holding, before, after
      <4> QED BY <2>1, <2>7, <4>1, <4>2, <4>3
    <3>3. CASE c.about = "team" /\ Exists(t) /\ MembersOf(t) = {}
      <4>1. after[p] # NoRow => after[p].readiness \in UNREADY
        BY <1>0, <3>3 DEF HeldAfter, before
      <4>2. after[p] # NoRow
        BY <2>7 DEF Holding, after
      <4> QED BY <2>7, <4>1, <4>2
    <3>4. CASE c.about = "team" /\ Exists(t) /\ MembersOf(t) # {}
      <4>1. \A q \in Person : after[q] =
              (IF q \notin MembersOf(t) THEN NoRow
               ELSE IF before[q] # NoRow THEN before[q] ELSE rows[q])
        BY <1>0, <3>4 DEF HeldAfter, before
      <4>2. \A q \in MembersOf(t) :
               /\ q \in Person /\ rows[q] # NoRow /\ rows[q].team = t
               /\ before[q] # NoRow => before[q].team = t
        BY DEF MembersOf, Exists, HeldIsTrue, before
      <4>3. p \in MembersOf(t) /\ u = t
        BY <2>7, <4>1, <4>2 DEF Holding, after
      <4>4. \A q \in MembersOf(t) : Holding(held, q, u)
        BY <4>1, <4>2, <4>3 DEF Holding, after
      <4>5. \A q \in Person : Holding(review.held, q, u) => q \in MembersOf(t) /\ before[q] # NoRow
        BY <4>3 DEF MembersOf, Exists, HeldIsTrue, Holding, before
      <4>6. CASE \E q \in Person : Holding(review.held, q, u)
        <5>1. ASSUME NEW q \in Person, Holding(review.held, q, u)
              PROVE  before[q].readiness \notin UNREADY
          BY <2>7, <4>1, <4>4, <4>5, <5>1
        <5> QED BY <2>1, <4>6, <5>1
      <4>7. CASE ~ \E q \in Person : Holding(review.held, q, u)
        <5>1. \A q \in MembersOf(t) : after[q] = rows[q]
          BY <4>1, <4>2, <4>3, <4>7 DEF Holding, before
        <5>2. \A q \in MembersOf(t) : rows[q].readiness \notin UNREADY
          BY <2>7, <4>2, <4>4, <5>1
        <5>3. blocker \notin now
          BY <2>3, <3>4, <4>3, <5>2
        <5> QED BY <2>2, <2>4, <5>3
      <4> QED BY <4>6, <4>7
    <3> QED BY <3>1, <3>2, <3>3, <3>4
  <2> QED BY <2>6, <2>7 DEF blocker
<1> QED BY <1>2, <1>3 DEF HeldIsFair

LEMMA HeadOrTail ==
    ASSUME NEW S, NEW q \in Seq(S), q # <<>>
    PROVE  /\ Tail(q) \in Seq(S) /\ Head(q) \in ToSet(q) /\ ToSet(Tail(q)) \subseteq ToSet(q)
           /\ \A x \in ToSet(q) : x = Head(q) \/ x \in ToSet(Tail(q))
<1>1. /\ Tail(q) \in Seq(S) /\ Head(q) = q[1] /\ Len(q) \in Nat /\ Len(q) # 0
      /\ DOMAIN q = 1 .. Len(q)
  BY HeadTailProperties, LenProperties, EmptySeq
<1>2. DOMAIN Tail(q) = 1 .. Len(q) - 1 /\ \A i \in 1 .. Len(q) - 1 : Tail(q)[i] = q[i + 1]
  BY <1>1, HeadTailProperties, LenProperties
<1>3. Head(q) \in ToSet(q)
  BY <1>1 DEF ToSet
<1>4. ToSet(Tail(q)) \subseteq ToSet(q)
  BY <1>1, <1>2 DEF ToSet
<1>5. ASSUME NEW x \in ToSet(q) PROVE x = Head(q) \/ x \in ToSet(Tail(q))
  <2>1. PICK i \in 1 .. Len(q) : x = q[i]
    BY <1>1 DEF ToSet
  <2>2. CASE i = 1
    BY <1>1, <2>1, <2>2
  <2>3. CASE i # 1
    <3>1. i - 1 \in DOMAIN Tail(q) /\ x = Tail(q)[i - 1]
      BY <1>1, <1>2, <2>1, <2>3
    <3> QED BY <3>1 DEF ToSet
  <2> QED BY <2>2, <2>3
<1> QED BY <1>1, <1>3, <1>4, <1>5

LEMMA MakeCheckFollowed ==
    ASSUME ReviewFollowed, MakeCheck
    PROVE  ReviewFollowed'
<1>1. PICK r : r = review
  OBVIOUS
<1>2. PICK s : s = scope
  OBVIOUS
<1>3. PICK c : c = Head(r.agenda)
  OBVIOUS
<1>4. PICK rest : rest = Tail(r.agenda)
  OBVIOUS
<1>5. PICK held : held = [people |-> HeldAfter(c), missions |-> r.held.missions]
  OBVIOUS
<1>6. PICK report \in Reports(c, r.held) :
        /\ review' = [agenda |-> rest, topics |-> r.topics, held |-> held,
                      reported |-> r.reported \cup report, shifted |-> r.shifted,
                      may |-> r.may, must |-> r.must]
        /\ scope' = s /\ UNCHANGED <<rows, supply, deps>>
        /\ r.agenda # <<>> /\ s.kind \in Kind \ {"safety"}
  BY <1>1, <1>2, <1>3, <1>4, <1>5 DEF MakeCheck, Kind, campaignVars
<1>7. Followed(s, r)
  BY <1>1, <1>2, <1>6 DEF ReviewFollowed
<1>8. /\ rest \in Seq(Checks) /\ c \in ToSet(r.agenda) /\ ToSet(rest) \subseteq ToSet(r.agenda)
      /\ \A d \in ToSet(r.agenda) : d = c \/ d \in ToSet(rest)
  <2>1. r.agenda \in Seq(Checks)
    BY <1>7 DEF Followed
  <2> QED BY <1>3, <1>4, <1>6, <2>1, HeadOrTail
<1>9. /\ \A d \in r.topics : Posed(d)
      /\ s.kind = "expedition" => \A d \in r.topics : d.for \in Mission \cup {s.root}
      /\ ToSet(r.agenda) \subseteq r.topics
      /\ \A f \in r.must : \E d \in r.topics : IsAbout(f, d)
  BY <1>7 DEF Followed
<1>10. ASSUME ~r.shifted
       PROVE  /\ Fair(r.topics, r.may, r.must)'
              /\ HeldIsTrue(held)' /\ HeldIsFair(held, r.topics, r.may, r.must)
              /\ r.reported \cup report \subseteq r.may
              /\ \A f \in r.must : \/ f \in r.reported \cup report
                                   \/ \E d \in ToSet(rest) : IsAbout(f, d)
  <2>1. /\ Fair(r.topics, r.may, r.must) /\ HeldIsTrue(r.held)
        /\ HeldIsFair(r.held, r.topics, r.may, r.must) /\ r.reported \subseteq r.may
        /\ \A f \in r.must : f \in r.reported \/ \E d \in ToSet(r.agenda) : IsAbout(f, d)
    BY <1>7, <1>10 DEF Followed
  <2>2. c \in r.topics /\ Posed(c)
    BY <1>8, <1>9
  <2>3. report \subseteq r.may /\ \A f \in r.must : IsAbout(f, c) => f \in report
    BY <2>1, <2>2, CheckIsFair
  <2>4. HeldIsTrue(held) /\ HeldIsFair(held, r.topics, r.may, r.must)
    BY <1>1, <1>5, <1>9, <2>1, <2>2, HeldAfterIsFair
  <2>5. HeldIsTrue(held)'
    BY <1>6, <2>4 DEF HeldIsTrue
  <2>6. Fair(r.topics, r.may, r.must)'
    BY <1>6, <1>9, <2>1, FairStays
  <2> QED BY <1>8, <2>1, <2>3, <2>4, <2>5, <2>6
<1> QED BY <1>6, <1>8, <1>9, <1>10 DEF ReviewFollowed, Followed

-----------------------------------------------------------------------------
(* While it goes on, an evaluation takes what each commit makes possible and *)
(* certain into account.                                                     *)
LEMMA RecordsRemain ==
    ASSUME CampaignInv, [CampaignNext]_campaignVars, NEW r \in Record, rows[r] # NoRow
    PROVE  rows'[r] # NoRow
<1>1. CASE rows'[r] = rows[r]
  BY <1>1
<1>2. CASE rows'[r] # rows[r]
  <2>1. ~Create
    BY <1>2 DEF Create, CreatePerson, CreateTeam, CreateMission, CreateExpedition,
                CreateTimeWindow, Insert, Exists, CampaignInv, CampaignTypeOK
  <2>2. ~Update
    BY <1>2 DEF Update, UpdatePerson, UpdateTeam, UpdateMission, UpdateExpedition,
                UpdateTimeWindow, Serve
  <2>3. PICK k \in Session : Commit(k)
    BY <1>2, <2>1, <2>2 DEF CampaignNext, Abort, campaignVars
  <2>4. rows'[r] \in RowOf(r)
    BY <1>2, <2>3, CommitWrites
  <2> QED BY <2>4, RowsAreRows
<1> QED BY <1>1, <1>2

LEMMA ObserveFollowed ==
    ASSUME ReviewFollowed, CampaignInv, [CampaignNext]_campaignVars, Observe
    PROVE  ReviewFollowed'
<1> SUFFICES ASSUME scope.kind \in Kind \ {"safety"}
             PROVE  ReviewFollowed'
  BY DEF Observe, ReviewFollowed
<1>1. PICK r : r = review
  OBVIOUS
<1>2. PICK s : s = scope
  OBVIOUS
<1>3. PICK topics : topics = r.topics
  OBVIOUS
<1>4. PICK reports : reports = ReportsNow(topics)'
  OBVIOUS
<1>5. PICK may : may = r.may \cup Possible(reports)
  OBVIOUS
<1>6. PICK must : must = r.must \cap Certain(reports)
  OBVIOUS
<1>7. /\ review' = [agenda |-> r.agenda, topics |-> topics, held |-> r.held,
                    reported |-> r.reported, shifted |-> r.shifted \/ Shifts,
                    may |-> may, must |-> must]
      /\ scope' = s
  <2>1. PICK ts \in {review.topics} : \E rs \in {ReportsNow(ts)'} :
           review' = [agenda |-> review.agenda, topics |-> ts, held |-> review.held,
                      reported |-> review.reported, shifted |-> review.shifted \/ Shifts,
                      may |-> review.may \cup Possible(rs),
                      must |-> review.must \cap Certain(rs)]
    BY DEF Observe, NoScope, Kind
  <2>2. ts = topics
    BY <1>1, <1>3, <2>1
  <2>3. review' = [agenda |-> review.agenda, topics |-> ts, held |-> review.held,
                   reported |-> review.reported, shifted |-> review.shifted \/ Shifts,
                   may |-> review.may \cup Possible(reports),
                   must |-> review.must \cap Certain(reports)]
    BY <1>4, <2>1, <2>2
  <2> QED BY <1>1, <1>2, <1>5, <1>6, <2>2, <2>3 DEF Observe
<1>8. Followed(s, r)
  BY <1>1, <1>2 DEF ReviewFollowed
<1>9. /\ \A c \in topics : Posed(c)
      /\ s.kind = "expedition" => \A c \in topics : c.for \in Mission \cup {s.root}
      /\ r.agenda \in Seq(Checks) /\ ToSet(r.agenda) \subseteq topics
      /\ \A f \in must : \E c \in topics : IsAbout(f, c)
  BY <1>3, <1>6, <1>8 DEF Followed
<1>10. ASSUME ~(r.shifted \/ Shifts)
       PROVE  /\ Fair(topics, may, must)'
              /\ HeldIsTrue(r.held)' /\ HeldIsFair(r.held, topics, may, must)
              /\ r.reported \subseteq may
              /\ \A f \in must : f \in r.reported \/ \E c \in ToSet(r.agenda) : IsAbout(f, c)
  <2>1. /\ HeldIsTrue(r.held) /\ HeldIsFair(r.held, topics, r.may, r.must)
        /\ r.reported \subseteq r.may
        /\ \A f \in r.must : f \in r.reported \/ \E c \in ToSet(r.agenda) : IsAbout(f, c)
    BY <1>3, <1>8, <1>10 DEF Followed
  <2>2. r.may \subseteq may /\ must \subseteq r.must
    BY <1>5, <1>6
  <2>3. HeldIsFair(r.held, topics, may, must)
    BY <2>1, <2>2 DEF HeldIsFair
  <2>4. HeldIsTrue(r.held)'
    <3>1. ASSUME NEW p \in Person, r.held.people[p] # NoRow
          PROVE  rows'[p] # NoRow /\ rows'[p].team = r.held.people[p].team
      <4>1. p \in Record /\ rows[p] # NoRow /\ rows[p].team = r.held.people[p].team
        BY <2>1, <3>1 DEF HeldIsTrue, Record
      <4> QED BY <1>10, <4>1, RecordsRemain DEF Shifts, Exists
    <3>2. ASSUME NEW m \in Mission, r.held.missions[m] # NoRow
          PROVE  rows'[m] # NoRow /\ rows'[m].requiredBy = r.held.missions[m].requiredBy
      <4>1. /\ m \in Record /\ rows[m] # NoRow
            /\ rows[m].requiredBy = r.held.missions[m].requiredBy
        BY <2>1, <3>2 DEF HeldIsTrue, Record
      <4> QED BY <1>10, <4>1, RecordsRemain DEF Shifts, Exists
    <3> QED BY <3>1, <3>2 DEF HeldIsTrue
  <2>5. Fair(topics, may, must)'
    <3>1. Possible(ReportsNow(topics)') \subseteq may /\ must \subseteq Certain(ReportsNow(topics)')
      BY <1>4, <1>5, <1>6
    <3>2. (Possible(ReportsNow(topics)) \subseteq may /\ must \subseteq Certain(ReportsNow(topics)))'
      BY <3>1
    <3> QED BY <1>9, <3>2, BoundsNext DEF BoundsAreFair
  <2> QED BY <2>1, <2>2, <2>3, <2>4, <2>5
<1> QED BY <1>7, <1>9, <1>10 DEF ReviewFollowed, Followed

LEMMA NothingChangesFollowed ==
    ASSUME ReviewFollowed, UNCHANGED <<rows, supply, deps, scope, review>>
    PROVE  ReviewFollowed'
<1> SUFFICES ASSUME scope.kind \in Kind \ {"safety"} PROVE ReviewFollowed'
  BY DEF ReviewFollowed
<1>1. PICK r : r = review
  OBVIOUS
<1>2. PICK s : s = scope
  OBVIOUS
<1>3. Followed(s, r) /\ review' = r /\ scope' = s
  BY <1>1, <1>2 DEF ReviewFollowed
<1>4. ~r.shifted => Fair(r.topics, r.may, r.must)' /\ HeldIsTrue(r.held)'
  <2>1. \A c \in r.topics : Posed(c)
    BY <1>3 DEF Followed
  <2>2. ASSUME ~r.shifted PROVE Fair(r.topics, r.may, r.must)'
    BY <1>3, <2>1, <2>2, FairStays DEF Followed
  <2>3. ASSUME ~r.shifted PROVE HeldIsTrue(r.held)'
    BY <1>3, <2>3 DEF Followed, HeldIsTrue
  <2> QED BY <2>2, <2>3
<1> QED BY <1>3, <1>4 DEF ReviewFollowed, Followed

LEMMA NextFollowed ==
    ASSUME ReviewFollowed, CampaignInv, deps \in Dependencies, [Next]_vars
    PROVE  ReviewFollowed'
<1>1. CASE ~Done /\ changes < MaxChanges /\ Change /\ Observe
  BY <1>1, OversightSteps, ObserveFollowed
<1>2. CASE Update /\ UNCHANGED <<supply, deps, scope, review, changes>>
  <2>1. UNCHANGED rows
    BY <1>2 DEF Update, UpdatePerson, UpdateTeam, UpdateMission, UpdateExpedition,
                UpdateTimeWindow, Serve
  <2> QED BY <1>2, <2>1, NothingChangesFollowed
<1>3. CASE (\E k \in Session : Abort(k)) /\ UNCHANGED <<supply, deps, scope, review, changes>>
  BY <1>3, NothingChangesFollowed DEF Abort
<1>4. CASE \E s \in Scope : BeginSafety(s)
  BY <1>4 DEF BeginSafety, ReviewFollowed
<1>5. CASE \E s \in Scope : BeginMission(s) \/ BeginExpedition(s) \/ BeginImpact(s)
  BY <1>5, BeginFollowed
<1>6. CASE ReadTeams \/ ReadMissions
  BY <1>6 DEF ReadTeams, ReadMissions, ReviewFollowed
<1>7. CASE MakeCheck
  BY <1>7, MakeCheckFollowed
<1>8. CASE UNCHANGED vars
  BY <1>8, NothingChangesFollowed DEF vars, campaignVars
<1> QED BY <1>1, <1>2, <1>3, <1>4, <1>5, <1>6, <1>7, <1>8 DEF Next

(* An evaluation that has made its last check has reported what it must, no   *)
(* more than it may, and its verdict is one of what it has reported.          *)
LEMMA VerdictIsBounded ==
    ASSUME ReviewFollowed
    PROVE  ReviewBounded
<1> DEFINE found == review.reported
           root == scope.root
           blocks(X) == \E f \in X : f.level = "BLOCKER"
           of(x) == {f \in found : f.for = x}
           states == {Readiness(of(x)) : x \in Mission \cup {root}}
<1> SUFFICES ASSUME scope.kind \in Kind \ {"safety"}, review.agenda = <<>>, ~review.shifted
             PROVE  /\ review.must \subseteq found /\ found \subseteq review.may
                    /\ scope.kind # "impact" =>
                          /\ Verdict = "READY" => review.must = {}
                          /\ Verdict = "BLOCKED" => \E f \in review.may : f.level = "BLOCKER"
  BY DEF ReviewBounded
<1>1. Followed(scope, review)
  BY DEF ReviewFollowed
<1>2. found \subseteq review.may /\ review.must \subseteq found
  <2>1. ToSet(review.agenda) = {}
    BY DEF ToSet
  <2> QED BY <1>1, <2>1 DEF Followed
<1>3. \A X : /\ Readiness(X) = "READY" => X = {}
             /\ Readiness(X) = "BLOCKED" => blocks(X)
             /\ Readiness(X) \in {"READY", "AT_RISK", "BLOCKED"}
  BY DEF Readiness
<1>4. CASE scope.kind = "mission"
  <2>1. Verdict = Readiness(found)
    BY <1>4, Zenon DEF Verdict
  <2> HIDE DEF found
  <2> QED BY <1>2, <1>3, <2>1
<1>5. CASE scope.kind = "expedition"
  <2>1. Verdict = ExpeditionReadiness(found, root)
    BY <1>5, Zenon DEF Verdict
  <2>2. /\ Verdict = "BLOCKED" => "BLOCKED" \in states
        /\ Verdict = "READY" => "BLOCKED" \notin states /\ "AT_RISK" \notin states
    BY <2>1 DEF ExpeditionReadiness
  <2>3. ASSUME Verdict = "READY" PROVE review.must = {}
    <3> SUFFICES ASSUME NEW f \in review.must PROVE FALSE
      OBVIOUS
    <3>1. f.for \in Mission \cup {root} /\ f \in found
      BY <1>1, <1>2, <1>5 DEF Followed, IsAbout
    <3>2. f \in of(f.for)
      BY <3>1
    <3>3. Readiness(of(f.for)) \in states
      BY <3>1
    <3> HIDE DEF of, states
    <3> QED BY <1>3, <2>2, <2>3, <3>2, <3>3
  <2>4. ASSUME Verdict = "BLOCKED" PROVE blocks(review.may)
    <3>1. PICK x \in Mission \cup {root} : Readiness(of(x)) = "BLOCKED"
      BY <2>2, <2>4
    <3>2. blocks(of(x))
      BY <1>3, <3>1
    <3> QED BY <1>2, <3>2
  <2> QED BY <1>2, <2>3, <2>4
<1>6. CASE scope.kind = "impact"
  BY <1>2, <1>6
<1> QED BY <1>4, <1>5, <1>6 DEF Kind

(* What an evaluation has reported, what it still has on its agenda and what *)
(* it holds stay tied to what was found at every moment since it began.      *)
THEOREM EvaluationInvariant == Spec => [](CampaignInv /\ ReviewFollowed)
<1> DEFINE Kept == CampaignInv /\ ReviewFollowed /\ deps \in Dependencies
<1>1. OversightInit => Kept
  BY InitCampaign DEF OversightInit, ReviewFollowed, NoScope, Kind
<1>2. Kept /\ [Next]_vars => Kept'
  <2> SUFFICES ASSUME Kept, [Next]_vars PROVE Kept'
    OBVIOUS
  <2>1. CampaignInv'
    BY OversightSteps, NextCampaign
  <2>2. (deps \in Dependencies)'
    BY NextKeepsDeps
  <2> QED BY <2>1, <2>2, NextFollowed
<1> QED BY <1>1, <1>2, PTL DEF Spec

(* Whatever commits between the queries of an evaluation, and whatever stale  *)
(* objects it holds, it reports what holds throughout and nothing that never  *)
(* holds (services/readiness, services/impact), for any number of records,    *)
(* constraints, edges and concurrent commits.                                 *)
THEOREM ReviewsAreBounded == Spec => []ReviewBounded
<1>1. CampaignInv /\ ReviewFollowed => ReviewBounded
  BY VerdictIsBounded
<1> QED BY <1>1, EvaluationInvariant, PTL
=============================================================================

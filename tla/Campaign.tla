------------------------------ MODULE Campaign ------------------------------
(***************************************************************************)
(* The records of an expedition campaign and the services that write them: *)
(* people, teams, missions, expeditions (backend domains/people, teams,    *)
(* missions, expeditions) and time windows (domains/time_windows).         *)
(*                                                                         *)
(* The five services have one shape.  A creation checks the records the    *)
(* new one refers to and inserts it with its first event.  An update reads *)
(* the record, checks the request against what it has read, and writes the *)
(* columns it changes together with an event per status column; nothing    *)
(* is locked between the read and the write.  The expedition of a record   *)
(* is a column no update writes, and no service deletes a record.          *)
(***************************************************************************)
EXTENDS FiniteSets, Integers, DomainTransitions, Rows

CONSTANTS
    Person, Team, Mission, Expedition, Window,  \* the records there may ever be
    Place,      \* the locations windows may be about
    Session,    \* concurrent requests
    Seeded,     \* the databases the system may start from
    Addition,   \* the creations that may be requested: [id, row]
    Ask         \* the updates that may be requested: [id, set]

Record == Person \cup Team \cup Mission \cup Expedition \cup Window

ASSUME DisjointAssumption ==
    /\ Person \cap (Team \cup Mission \cup Expedition \cup Window) = {}
    /\ Team \cap (Mission \cup Expedition \cup Window) = {}
    /\ Mission \cap (Expedition \cup Window) = {}
    /\ Expedition \cap Window = {}

PersonReadiness  == DOMAIN ALLOWED_READINESS_TRANSITIONS
PersonMovement   == DOMAIN ALLOWED_MOVEMENT_TRANSITIONS
TeamStatus       == DOMAIN ALLOWED_TEAM_TRANSITIONS
MissionStatus    == DOMAIN ALLOWED_MISSION_TRANSITIONS
ExpeditionStatus == DOMAIN ALLOWED_EXPEDITION_TRANSITIONS

(* The status of a window is free text; two texts are given a meaning. *)
WindowStatus == {"OPEN", "CLOSED", "FORECAST"}

None == "none"

ASSUME NoneAssumption == None \notin Record

NoDeadline == 0

PersonRow == [expedition : Expedition, team : Team \cup {None}, role : {"guide", "scientist"},
              readiness : PersonReadiness, movement : PersonMovement]

TeamRow == [expedition : Expedition, leader : Person \cup {None},
            mission : Mission \cup {None}, status : TeamStatus]

MissionRow == [expedition : Expedition, status : MissionStatus,
               type : {"TRAVERSE", "STATION_WORK"}, requiredBy : Nat]

ExpeditionRow == [status : ExpeditionStatus]

WindowRow == [subject : Mission \cup Expedition \cup Place, status : WindowStatus,
              openAt : Nat, closeAt : Nat]

AnyRow == PersonRow \cup TeamRow \cup MissionRow \cup ExpeditionRow \cup WindowRow

NoRow == [absent |-> TRUE]

RowOf(r) ==
    IF r \in Person THEN PersonRow
    ELSE IF r \in Team THEN TeamRow
    ELSE IF r \in Mission THEN MissionRow
    ELSE IF r \in Expedition THEN ExpeditionRow
    ELSE WindowRow

(* In the database db the record linked is one of the expedition e. *)
Fits(linked, e, db) == linked # None => db[linked] # NoRow /\ db[linked].expedition = e

(* A member, a leader and a mission of a team belong to the team's expedition. *)
LinksFit(db) ==
    /\ \A p \in Person : db[p] # NoRow => Fits(db[p].team, db[p].expedition, db)
    /\ \A t \in Team : db[t] # NoRow => /\ Fits(db[t].leader, db[t].expedition, db)
                                       /\ Fits(db[t].mission, db[t].expedition, db)

(* An empty database, or one like that of supabase/seed.sql. *)
ASSUME SeededAssumption ==
    \A db \in Seeded :
        /\ DOMAIN db = Record
        /\ \A r \in Record : db[r] \in RowOf(r) \cup {NoRow}
        /\ LinksFit(db)
ASSUME AdditionAssumption == \A a \in Addition : a.id \in Record /\ a.row \in RowOf(a.id)

(* The columns an update may set: neither the expedition of a record nor *)
(* what a window is about.  No update clears a column, for null means    *)
(* that the request does not name it.                                    *)
ColumnsOf(r) ==
    IF r \in Person THEN [team |-> Team, role |-> {"guide", "scientist"},
                          readiness |-> PersonReadiness, movement |-> PersonMovement]
    ELSE IF r \in Team THEN [leader |-> Person, mission |-> Mission, status |-> TeamStatus]
    ELSE IF r \in Mission THEN [status |-> MissionStatus, type |-> {"TRAVERSE", "STATION_WORK"},
                               requiredBy |-> Nat \ {NoDeadline}]
    ELSE IF r \in Expedition THEN [status |-> ExpeditionStatus]
    ELSE [status |-> WindowStatus, openAt |-> Nat, closeAt |-> Nat]

ASSUME AskAssumption ==
    \A a \in Ask :
        /\ a.id \in Record
        /\ DOMAIN a.set \subseteq DOMAIN ColumnsOf(a.id)
        /\ \A c \in DOMAIN a.set : a.set[c] \in ColumnsOf(a.id)[c]

VARIABLES
    rows,       \* [Record -> the row of the record]
    told,       \* [Record -> what the latest events say of its status columns]
    request,    \* [Session -> the update served in it]
    stale       \* history: an update has committed on an outdated read

campaignVars == <<rows, told, request, stale>>

NoRequest == [op |-> "idle"]

(* An update and the row it has read. *)
Request == [ask : Ask, seen : AnyRow]

(* The columns whose changes are events of their own. *)
StatusColumns(r) == IF r \in Person THEN {"readiness", "movement"} ELSE {"status"}

Exists(r) == rows[r] # NoRow

CampaignTypeOK ==
    /\ DOMAIN rows = Record /\ DOMAIN told = Record
    /\ \A r \in Record : rows[r] \in RowOf(r) \cup {NoRow}
    /\ \A r \in Record : DOMAIN told[r] = StatusColumns(r)
    /\ request \in [Session -> Request \cup {NoRequest}]
    /\ \A k \in Session : request[k] # NoRequest =>
          request[k].seen \in RowOf(request[k].ask.id)
    /\ stale \in BOOLEAN

-----------------------------------------------------------------------------
(* validate_..._transition: staying is no transition. *)
LawfulStep(table, from, to) == to = from \/ to \in table[from]

(* The row a request asks for, given the one it has read. *)
Wanted(a, seen) == [c \in DOMAIN seen |-> IF c \in DOMAIN a.set THEN a.set[c] ELSE seen[c]]

(* A team a person is put in is one of the person's expedition. *)
TeamFits(row) == Fits(row.team, row.expedition, rows)

LeaderFits(row) == Fits(row.leader, row.expedition, rows)

MissionFits(row) == Fits(row.mission, row.expedition, rows)

(* Mutant of PersonAccepted: a member may come from another expedition. *)
PersonAccepted_AnyTeam(seen, row) ==
    /\ row.team # seen.team => Exists(row.team)
    /\ LawfulStep(ALLOWED_READINESS_TRANSITIONS, seen.readiness, row.readiness)
    /\ LawfulStep(ALLOWED_MOVEMENT_TRANSITIONS, seen.movement, row.movement)

PersonAccepted(seen, row) ==
    /\ row.team # seen.team => TeamFits(row)
    /\ LawfulStep(ALLOWED_READINESS_TRANSITIONS, seen.readiness, row.readiness)
    /\ LawfulStep(ALLOWED_MOVEMENT_TRANSITIONS, seen.movement, row.movement)

TeamAccepted(seen, row) ==
    /\ row.leader # seen.leader => LeaderFits(row)
    /\ row.mission # seen.mission => MissionFits(row)
    /\ LawfulStep(ALLOWED_TEAM_TRANSITIONS, seen.status, row.status)

(* Mutant of MissionAccepted: the transition is checked only when other *)
(* columns are left alone.                                              *)
MissionAccepted_StatusOnly(seen, row) ==
    row = [seen EXCEPT !.status = row.status] =>
        LawfulStep(ALLOWED_MISSION_TRANSITIONS, seen.status, row.status)

MissionAccepted(seen, row) == LawfulStep(ALLOWED_MISSION_TRANSITIONS, seen.status, row.status)

ExpeditionAccepted(seen, row) ==
    LawfulStep(ALLOWED_EXPEDITION_TRANSITIONS, seen.status, row.status)

WindowAccepted(row) == row.closeAt > row.openAt

Init ==
    /\ rows \in Seeded
    /\ told = [r \in Record |-> [c \in StatusColumns(r) |-> None]]
    /\ request = [k \in Session |-> NoRequest]
    /\ stale = FALSE
-----------------------------------------------------------------------------
(* The insertion of a record, with its first event. *)
Insert(r, row, said) ==
    /\ ~Exists(r)
    /\ rows' = [rows EXCEPT ![r] = row]
    /\ told' = [told EXCEPT ![r] = said]
    /\ UNCHANGED <<request, stale>>

(* PersonNominated says nothing of the person's movement. *)
CreatePerson(r, row) ==
    /\ r \in Person
    /\ Exists(row.expedition)
    /\ TeamFits(row)
    /\ Insert(r, row, [readiness |-> row.readiness, movement |-> None])

CreateTeam(r, row) ==
    /\ r \in Team
    /\ Exists(row.expedition)
    /\ LeaderFits(row)
    /\ MissionFits(row)
    /\ Insert(r, row, [status |-> row.status])

(* The service does not look the expedition up; the foreign key does. *)
CreateMission(r, row) ==
    /\ r \in Mission
    /\ Exists(row.expedition)
    /\ Insert(r, row, [status |-> row.status])

CreateExpedition(r, row) == r \in Expedition /\ Insert(r, row, [status |-> row.status])

CreateTimeWindow(r, row) ==
    /\ r \in Window
    /\ row.closeAt > row.openAt
    /\ Insert(r, row, [status |-> row.status])

(* An update that has passed its checks holds the row it has read. *)
Serve(k, a) ==
    /\ request' = [request EXCEPT ![k] = [ask |-> a, seen |-> rows[a.id]]]
    /\ UNCHANGED <<rows, told, stale>>

(* update_person, update_readiness and update_movement, up to the write. *)
UpdatePerson(k, a) ==
    /\ request[k] = NoRequest
    /\ a.id \in Person /\ Exists(a.id)
    /\ PersonAccepted(rows[a.id], Wanted(a, rows[a.id]))
    /\ Serve(k, a)

UpdateTeam(k, a) ==
    /\ request[k] = NoRequest
    /\ a.id \in Team /\ Exists(a.id)
    /\ TeamAccepted(rows[a.id], Wanted(a, rows[a.id]))
    /\ Serve(k, a)

UpdateMission(k, a) ==
    /\ request[k] = NoRequest
    /\ a.id \in Mission /\ Exists(a.id)
    /\ MissionAccepted(rows[a.id], Wanted(a, rows[a.id]))
    /\ Serve(k, a)

UpdateExpedition(k, a) ==
    /\ request[k] = NoRequest
    /\ a.id \in Expedition /\ Exists(a.id)
    /\ ExpeditionAccepted(rows[a.id], Wanted(a, rows[a.id]))
    /\ Serve(k, a)

UpdateTimeWindow(k, a) ==
    /\ request[k] = NoRequest
    /\ a.id \in Window /\ Exists(a.id)
    /\ WindowAccepted(Wanted(a, rows[a.id]))
    /\ Serve(k, a)

(* The table refuses a window that closes before it opens: the two bounds *)
(* may come from two requests.                                            *)
ChkTimeWindowBounds(r, row) == r \in Window => row.closeAt > row.openAt

(* Mutant of Said: an event repeats the status the request has read. *)
Said_Always(r, seen, row) == [c \in StatusColumns(r) |-> row[c]]

(* What is known after the events of an update: a status column is told when *)
(* the update changes it, a window's with every update.                      *)
Said(r, seen, row) ==
    [c \in StatusColumns(r) |-> IF r \in Window \/ row[c] # seen[c] THEN row[c] ELSE told[r][c]]

(* The flush, the events and the commit of an update. *)
Commit(k) ==
    LET q == request[k]
        r == q.ask.id
        row == Wanted(q.ask, q.seen)
    IN  /\ q # NoRequest
        /\ ChkTimeWindowBounds(r, Written(rows[r], q.seen, row))
        /\ rows' = [rows EXCEPT ![r] = Written(rows[r], q.seen, row)]
        /\ told' = [told EXCEPT ![r] = Said(r, q.seen, row)]
        /\ stale' = (stale \/ q.seen # rows[r])
        /\ request' = [request EXCEPT ![k] = NoRequest]

(* The table refuses the row, the connection is lost, the worker dies. *)
Abort(k) ==
    /\ request[k] # NoRequest
    /\ request' = [request EXCEPT ![k] = NoRequest]
    /\ UNCHANGED <<rows, told, stale>>

Create ==
    \E a \in Addition :
        \/ CreatePerson(a.id, a.row)
        \/ CreateTeam(a.id, a.row)
        \/ CreateMission(a.id, a.row)
        \/ CreateExpedition(a.id, a.row)
        \/ CreateTimeWindow(a.id, a.row)

Update ==
    \E k \in Session, a \in Ask :
        \/ UpdatePerson(k, a)
        \/ UpdateTeam(k, a)
        \/ UpdateMission(k, a)
        \/ UpdateExpedition(k, a)
        \/ UpdateTimeWindow(k, a)

CampaignNext == Create \/ Update \/ \E k \in Session : Commit(k) \/ Abort(k)

CampaignSpec == Init /\ [][CampaignNext]_campaignVars

-----------------------------------------------------------------------------
(* A member, a leader and a mission of a team belong to the team's expedition: *)
(* what the services check on every link, and the evaluations rely on when     *)
(* they fetch the people, teams and missions of one expedition.                *)
SameExpedition == LinksFit(rows)

(* However updates overlap, the latest event about a status of a person, a    *)
(* team, a mission or an expedition tells the status the record has: what     *)
(* follows the events is not misled by an outdated write.  A window's event   *)
(* repeats the status its request has read, so there it takes an update that  *)
(* was not outdated.                                                          *)
LatestEventIsTheStatus ==
    \A r \in Record : Exists(r) /\ (r \in Window => ~stale) =>
        \A c \in StatusColumns(r) : told[r][c] \in {None, rows[r][c]}

(* The statuses of the record r move along their tables. *)
MovesLawfully(r, from, to) ==
    /\ r \in Person =>
          /\ LawfulStep(ALLOWED_READINESS_TRANSITIONS, from.readiness, to.readiness)
          /\ LawfulStep(ALLOWED_MOVEMENT_TRANSITIONS, from.movement, to.movement)
    /\ r \in Team       => LawfulStep(ALLOWED_TEAM_TRANSITIONS, from.status, to.status)
    /\ r \in Mission    => LawfulStep(ALLOWED_MISSION_TRANSITIONS, from.status, to.status)
    /\ r \in Expedition => LawfulStep(ALLOWED_EXPEDITION_TRANSITIONS, from.status, to.status)

(* Without an outdated write no status moves but along its table, and what *)
(* is completed, cancelled or archived stays so.                           *)
StatusesMoveLawfully ==
    [][~stale' => \A r \in Record : Exists(r) => MovesLawfully(r, rows[r], rows'[r])]_campaignVars
=============================================================================

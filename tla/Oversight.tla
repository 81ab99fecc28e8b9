------------------------------ MODULE Oversight ------------------------------
(***************************************************************************)
(* The evaluations the control tower shows while the campaign goes on: the *)
(* personnel safety posture of an expedition, the readiness of a mission   *)
(* and of an expedition (services/readiness), and the impact of a change   *)
(* (services/impact).                                                      *)
(*                                                                         *)
(* An evaluation writes nothing.  It is a series of queries, each of which *)
(* sees what is committed when it runs, and objects it has loaded and      *)
(* still holds keep the columns they were loaded with.  Between two of its *)
(* queries the services of Campaign and the other components commit.       *)
(* One evaluation is followed; more would not meet each other.             *)
(***************************************************************************)
EXTENDS PersonnelSafety, ConstraintRules, DependencyGraph

CONSTANTS
    Stocked,        \* the supplies the system may start from
    Scope,          \* the evaluations that may be asked for: [kind, root, depth]
    MaxChanges      \* bound: how many commits are followed, those awaited included

VARIABLES
    scope,      \* what the evaluation under way is asked for
    review,     \* what it has read and reported so far
    changes     \* how many commits there have been

vars == <<campaignVars, supply, deps, scope, review, changes>>

Kind == {"safety", "mission", "expedition", "impact"}

Node == Record \cup Supply \cup Place

ASSUME ScopeAssumption == Scope \subseteq [kind : Kind, root : Node, depth : Nat]
ASSUME DependencyAssumption ==
    \A table \in Dependencies : table \in Seq([from : Node, rel : STRING, to : Node])
ASSUME StockedAssumption == \A stock \in Stocked : \A s \in Supply : stock[s] \in SupplyRows[s]
ASSUME IdAssumption ==
    /\ Record \cap (Supply \cup Constraint) = {} /\ Supply \cap Constraint = {}
    /\ IsFiniteSet(Mission) /\ IsFiniteSet(Constraint)
ASSUME MaxChangesAssumption == MaxChanges \in Nat

NoScope == [kind |-> "none"]

NoReview == [phase |-> "none"]

-----------------------------------------------------------------------------
(* What a single check reports.  A finding names the mission, expedition or *)
(* entity it counts for, the record or constraint it is about, and how much *)
(* it weighs.                                                               *)
Weighed(for, item, level) == [for |-> for, item |-> item, level |-> level]

UNREADY == {"UNAVAILABLE", "NOT_CLEARED"}

NothingHeld == [people |-> [p \in Person |-> NoRow], missions |-> [m \in Mission |-> NoRow]]

(* The members are those the database has now; one that is held keeps the *)
(* readiness it was loaded with.                                          *)
TeamFindings(m, t, held) ==
    LET readiness(p) == IF held.people[p] # NoRow THEN held.people[p].readiness
                        ELSE rows[p].readiness
    IN  IF ~Exists(t) THEN {Weighed(m, t, "UNKNOWN")}
        ELSE IF MembersOf(t) = {} THEN {Weighed(m, t, "WARNING")}
        ELSE {Weighed(m, t, "BLOCKER") :
                 p \in {q \in MembersOf(t) : readiness(q) \in UNREADY}}

AssetFindings(m, a) ==
    IF ~SupplyExists(a) THEN {Weighed(m, a, "UNKNOWN")}
    ELSE {Weighed(m, x, "BLOCKER") : x \in {y \in {a} : Unserviceable(y)}}

WindowFindings(m) ==
    {Weighed(m, w, IF rows[w].status = "CLOSED" THEN "BLOCKER" ELSE "WARNING") :
        w \in {v \in Windows(m) : rows[v].status # "OPEN"}}

ConstraintFindings(for, id, state) ==
    IF state = "SATISFIED" THEN {}
    ELSE {Weighed(for, id, IF state = "NOT_EVALUABLE" THEN "UNKNOWN"
                           ELSE IF ConstraintRow[id].hard THEN "BLOCKER" ELSE "WARNING")}

(* A mission that is held keeps its deadline. *)
Deadline(m, held) ==
    IF m \notin Mission THEN NoDeadline
    ELSE IF held.missions[m] # NoRow THEN held.missions[m].requiredBy
    ELSE IF Exists(m) THEN rows[m].requiredBy ELSE NoDeadline

(* The reports a check may give now. *)
Reports(check, held) ==
    CASE check.about = "team"       -> {TeamFindings(check.for, check.of, held)}
      [] check.about = "asset"      -> {AssetFindings(check.for, check.of)}
      [] check.about = "windows"    -> {WindowFindings(check.of)}
      [] check.about = "constraint" ->
            {ConstraintFindings(check.for, check.of, state) :
                state \in EvaluateConstraint(check.of, Deadline(ConstraintRow[check.of].subject, held))}

-----------------------------------------------------------------------------
(* The checks of an evaluation, in the order in which they are made. *)
Check(about, for, of) == [about |-> about, for |-> for, of |-> of]

ConstraintAgenda(for, subjects) ==
    LET ids == FlattenSeq([i \in DOMAIN subjects |-> SetToSeq(ConstraintsFor(subjects[i]))])
    IN  [i \in DOMAIN ids |-> Check("constraint", for, ids[i])]

(* Mutant of AssignedTeams: teams that are assigned from their side are missed. *)
AssignedTeams_Required(m) ==
    Picked([i \in DOMAIN deps |-> deps[i].to],
           {i \in Outgoing(m, "REQUIRES") : deps[i].to \in Team})

(* The teams the mission requires, then those assigned to it: a team that is *)
(* both is checked twice.                                                    *)
AssignedTeams(m) ==
    Picked([i \in DOMAIN deps |-> deps[i].to],
           {i \in Outgoing(m, "REQUIRES") : deps[i].to \in Team})
    \o Picked([i \in DOMAIN deps |-> deps[i].from],
              {i \in DOMAIN deps : /\ deps[i].to = m /\ deps[i].rel = "ASSIGNED_TO"
                                   /\ deps[i].from \in Team})

MissionAgenda(m) ==
    LET teams  == AssignedTeams(m)
        assets == Picked([i \in DOMAIN deps |-> deps[i].to],
                         {i \in Outgoing(m, "REQUIRES") : deps[i].to \in Asset})
    IN  [i \in DOMAIN teams |-> Check("team", m, teams[i])]
        \o [i \in DOMAIN assets |-> Check("asset", m, assets[i])]
        \o <<Check("windows", m, m)>>
        \o ConstraintAgenda(m, <<m>>)

MissionsOf(e) == {m \in Mission : Exists(m) /\ rows[m].expedition = e}

(* Every mission of the expedition, whatever its status. *)
ExpeditionAgenda(e) ==
    LET missions == SetToSeq(MissionsOf(e))
    IN  FlattenSeq([i \in DOMAIN missions |-> MissionAgenda(missions[i])])
        \o ConstraintAgenda(e, <<e>>)

Affected(s) == TraverseGraph(deps, s.root, "BOTH", s.depth)

ImpactAgenda(s) ==
    ConstraintAgenda(s.root, <<s.root>> \o [i \in DOMAIN Affected(s) |-> Affected(s)[i].node])

-----------------------------------------------------------------------------
(* What the evaluation ought to check, of what there is when it begins: of a *)
(* mission, and of what the evaluation is about.                             *)
MissionTopics(m) ==
    {Check("team", m, t) :
        t \in {u \in Team : \E i \in DOMAIN deps :
                  \/ deps[i].from = m /\ deps[i].rel = "REQUIRES" /\ deps[i].to = u
                  \/ deps[i].to = m /\ deps[i].rel = "ASSIGNED_TO" /\ deps[i].from = u}}
    \cup {Check("asset", m, a) : a \in Required(m) \cap Asset}
    \cup {Check("windows", m, m)}
    \cup {Check("constraint", m, id) : id \in ConstraintsFor(m)}

Topics(s) ==
    CASE s.kind = "mission"    -> MissionTopics(s.root)
      [] s.kind = "expedition" ->
            {Check("constraint", s.root, id) : id \in ConstraintsFor(s.root)}
            \cup UNION {MissionTopics(m) : m \in MissionsOf(s.root)}
      [] s.kind = "impact"     ->
            {Check("constraint", s.root, id) :
                id \in UNION {ConstraintsFor(n) :
                          n \in Ball(deps, s.root, "BOTH", BoundedDepth(s.depth))}}

(* The reports on the topics that are possible in this moment. *)
ReportsNow(topics) == {Reports(c, NothingHeld) : c \in topics}

(* The findings that may be in them, and those that must. *)
Possible(reports) == UNION {UNION r : r \in reports}

Certain(reports) == UNION {{f \in UNION r : \A report \in r : f \in report} : r \in reports}

(* The findings about the teams of an expedition, now. *)
SafetyNow(e) == {f \in Findings([p \in Person |-> rows[p]], [t \in Team |-> rows[t]],
                                [m \in Mission |-> rows[m]]) : rows[f.team].expedition = e}

-----------------------------------------------------------------------------
(* Mutant of Fetched: the rows of every expedition. *)
Fetched_All(e, R) == [r \in R |-> rows[r]]

(* select(...).where(expedition_id == e) *)
Fetched(e, R) ==
    [r \in R |-> IF Exists(r) /\ rows[r].expedition = e THEN rows[r] ELSE NoRow]

(* The people are read first. *)
BeginSafety(s) ==
    /\ scope = NoScope
    /\ s.kind = "safety"
    /\ scope' = s
    /\ review' = [phase |-> "teams", people |-> Fetched(s.root, Person),
                  teams |-> NoRow, missions |-> NoRow,
                  moments |-> {SafetyNow(s.root)}, touched |-> {}]
    /\ UNCHANGED <<campaignVars, supply, deps, changes>>

ReadTeams ==
    /\ scope.kind = "safety" /\ review.phase = "teams"
    /\ review' = [phase |-> "missions", people |-> review.people,
                  teams |-> Fetched(scope.root, Team), missions |-> NoRow,
                  moments |-> review.moments, touched |-> review.touched]
    /\ UNCHANGED <<campaignVars, supply, deps, scope, changes>>

ReadMissions ==
    /\ scope.kind = "safety" /\ review.phase = "missions"
    /\ review' = [phase |-> "done", people |-> review.people, teams |-> review.teams,
                  missions |-> Fetched(scope.root, Mission),
                  moments |-> review.moments, touched |-> review.touched]
    /\ UNCHANGED <<campaignVars, supply, deps, scope, changes>>

(* The readiness of a mission or an expedition, or an impact.  A readiness *)
(* evaluation holds the missions it is about.                              *)
BeginReview(s, agenda, missions) ==
    /\ scope = NoScope
    /\ scope' = s
    /\ review' = [agenda |-> agenda, topics |-> Topics(s),
                  held |-> [people |-> NothingHeld.people,
                            missions |-> [m \in Mission |-> IF m \in missions THEN rows[m] ELSE NoRow]],
                  reported |-> {}, shifted |-> FALSE,
                  may |-> Possible(ReportsNow(Topics(s))), must |-> Certain(ReportsNow(Topics(s)))]
    /\ UNCHANGED <<campaignVars, supply, deps, changes>>

BeginMission(s) ==
    /\ s.kind = "mission" /\ Exists(s.root)
    /\ BeginReview(s, MissionAgenda(s.root), {s.root})

BeginExpedition(s) ==
    /\ s.kind = "expedition" /\ Exists(s.root)
    /\ BeginReview(s, ExpeditionAgenda(s.root), MissionsOf(s.root))

BeginImpact(s) ==
    /\ s.kind = "impact"
    /\ BeginReview(s, ImpactAgenda(s), {})

(* The objects a check leaves loaded: the members of a team, until the next *)
(* team has been read.                                                      *)
HeldAfter(check) ==
    LET held == review.held.people
        members == MembersOf(check.of)
    IN  IF check.about # "team" THEN NothingHeld.people
        ELSE IF ~Exists(check.of) THEN held
        ELSE IF members = {}
             THEN [p \in Person |->
                     IF held[p] # NoRow /\ held[p].readiness \in UNREADY THEN held[p] ELSE NoRow]
        ELSE [p \in Person |->
                IF p \notin members THEN NoRow ELSE IF held[p] # NoRow THEN held[p] ELSE rows[p]]

(* The next check of the agenda. *)
MakeCheck ==
    /\ scope.kind \in {"mission", "expedition", "impact"}
    /\ review.agenda # <<>>
    /\ \E report \in Reports(Head(review.agenda), review.held) :
          review' = [agenda |-> Tail(review.agenda), topics |-> review.topics,
                     held |-> [people |-> HeldAfter(Head(review.agenda)),
                               missions |-> review.held.missions],
                     reported |-> review.reported \cup report, shifted |-> review.shifted,
                     may |-> review.may, must |-> review.must]
    /\ UNCHANGED <<campaignVars, supply, deps, scope, changes>>

-----------------------------------------------------------------------------
(* The state of a mission: blockers, then warnings, then what is unknown. *)
Readiness(findings) ==
    IF \E f \in findings : f.level = "BLOCKER" THEN "BLOCKED"
    ELSE IF findings # {} THEN "AT_RISK" ELSE "READY"

(* The state of an expedition: the worst of its missions and its own. *)
ExpeditionReadiness(findings, e) ==
    LET states == {Readiness({f \in findings : f.for = x}) : x \in Mission \cup {e}}
    IN  IF "BLOCKED" \in states THEN "BLOCKED"
        ELSE IF "AT_RISK" \in states THEN "AT_RISK" ELSE "READY"

Verdict ==
    CASE scope.kind = "mission"    -> Readiness(review.reported)
      [] scope.kind = "expedition" -> ExpeditionReadiness(review.reported, scope.root)

-----------------------------------------------------------------------------
(* An operation of another component on an asset, a consignment, a lot, a *)
(* document or a leg.                                                     *)
OtherService(s, row) ==
    /\ row # supply[s]
    /\ supply' = [supply EXCEPT ![s] = row]
    /\ UNCHANGED <<campaignVars, deps>>

(* Has a person changed teams, or a mission its deadline? *)
Shifts ==
    \/ \E p \in Person : Exists(p) /\ rows'[p].team # rows[p].team
    \/ \E m \in Mission : Exists(m) /\ rows'[m].requiredBy # rows[m].requiredBy

Touched == {R \in {Person, Team, Mission} : \E r \in R : rows'[r] # rows[r]}

(* History: what the evaluation would say after a commit. *)
Observe ==
    /\ changes' = changes + 1
    /\ UNCHANGED scope
    /\ \/ scope = NoScope /\ UNCHANGED review
       \/ /\ scope.kind = "safety"
          /\ \E root \in {scope.root} :
                review' = [phase |-> review.phase, people |-> review.people,
                           teams |-> review.teams, missions |-> review.missions,
                           moments |-> review.moments \cup {SafetyNow(root)'},
                           touched |-> review.touched \cup Touched]
       \/ /\ scope.kind \in {"mission", "expedition", "impact"}
          /\ \E topics \in {review.topics} : \E reports \in {ReportsNow(topics)'} :
                review' = [agenda |-> review.agenda, topics |-> topics, held |-> review.held,
                           reported |-> review.reported, shifted |-> review.shifted \/ Shifts,
                           may |-> review.may \cup Possible(reports),
                           must |-> review.must \cap Certain(reports)]

OversightInit ==
    /\ Init
    /\ supply \in Stocked
    /\ deps \in Dependencies
    /\ scope = NoScope
    /\ review = NoReview
    /\ changes = 0

(* Bound: a behaviour is followed until its evaluation has been answered. *)
Done ==
    \/ scope.kind = "safety" /\ review.phase = "done"
    \/ scope.kind \in {"mission", "expedition", "impact"} /\ review.agenda = <<>>

(* The updates that are waiting for their commit. *)
Pending == Cardinality({k \in Session : request[k] # NoRequest})

Change ==
    \/ Create /\ UNCHANGED <<supply, deps>>
    \/ (\E k \in Session : Commit(k)) /\ UNCHANGED <<supply, deps>>
    \/ \E s \in Supply : \E row \in SupplyRows[s] : OtherService(s, row)

Next ==
    \/ ~Done /\ changes < MaxChanges /\ Change /\ Observe
    \/ ~Done /\ Pending + changes < MaxChanges /\ Update
       /\ UNCHANGED <<supply, deps, scope, review, changes>>
    \/ ~Done /\ (\E k \in Session : Abort(k))
       /\ UNCHANGED <<supply, deps, scope, review, changes>>
    \/ \E s \in Scope : BeginSafety(s) \/ BeginMission(s) \/ BeginExpedition(s) \/ BeginImpact(s)
    \/ ReadTeams
    \/ ReadMissions
    \/ MakeCheck

Spec == OversightInit /\ [][Next]_vars

-----------------------------------------------------------------------------
(* The posture of an expedition is put together from people, teams and        *)
(* missions that three queries read, with commits between them.  As long as   *)
(* those commits change one of the three tables only, the findings, and with  *)
(* them the posture, are the ones the expedition had at some moment since the *)
(* evaluation began.                                                          *)
SafetyVerdictOfAMoment ==
    LET found == Findings(review.people, review.teams, review.missions)
    IN  scope.kind = "safety" /\ review.phase = "done" /\ Cardinality(review.touched) < 2 =>
            /\ found \in review.moments
            /\ Posture(found) \in {Posture(m) : m \in review.moments}

(* However the campaign changes under an evaluation, and whatever stale        *)
(* objects it holds: as long as nobody changes teams and no deadline moves, it *)
(* reports every finding that holds throughout and none that never holds.  It  *)
(* does not say READY with a finding standing, nor BLOCKED without a blocker.  *)
ReviewBounded ==
    scope.kind \in Kind \ {"safety"} /\ review.agenda = <<>> /\ ~review.shifted =>
        /\ review.must \subseteq review.reported
        /\ review.reported \subseteq review.may
        /\ scope.kind # "impact" =>
              /\ Verdict = "READY" => review.must = {}
              /\ Verdict = "BLOCKED" => \E f \in review.may : f.level = "BLOCKER"

(* The entities an impact names are those within its depth of the changed one, *)
(* each once and at its distance, whatever cycles, loops and parallel edges    *)
(* the dependencies have, and whichever way they are followed.  Nothing writes *)
(* the dependencies, so the start tells.                                       *)
ImpactIsTheBall ==
    scope = NoScope /\ changes = 0 /\ Pending = 0 =>
        \A root \in Node, direction \in TraversalDirection, depth \in 0 .. MAX_TRAVERSAL_DEPTH + 1 :
            LET found == TraverseGraph(deps, root, direction, depth)
            IN  /\ IsInjective([i \in DOMAIN found |-> found[i].node])
                /\ \A n \in 0 .. BoundedDepth(depth) :
                      {found[i].node : i \in {j \in DOMAIN found : found[j].depth <= n}}
                         = Ball(deps, root, direction, n) \ {root}
                /\ \A i \in DOMAIN found : found[i].depth <= BoundedDepth(depth)
=============================================================================

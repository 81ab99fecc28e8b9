-------------------------- MODULE PersonnelSafety ---------------------------
(***************************************************************************)
(* The rules by which the control tower judges whether the people and the  *)
(* teams of an expedition are fit to deploy                                *)
(* (control_tower/personnel_safety.py).  They judge the rows they are      *)
(* given: people, teams and missions are functions from the records to the *)
(* rows that were fetched, NoRow where there was none.                     *)
(***************************************************************************)
EXTENDS Campaign

(* Who the fetched rows put in a team. *)
Members(people, t) == {p \in Person : people[p] # NoRow /\ people[p].team = t}

(* A finding: the rule, whom it is about, the team, and how much it weighs. *)
Finding(rule, subject, t, status) ==
    [rule |-> rule, subject |-> subject, team |-> t, status |-> status]

(* Rule 1: members who may not be deployed. *)
DisqualifiedMembers(people, t) ==
    {Finding("PERS_READINESS_DISQUALIFIED", p, t, "BLOCKED") :
        p \in {q \in Members(people, t) : people[q].readiness \in {"NOT_CLEARED", "UNAVAILABLE"}}}

InTheField(teams, t) == teams[t].status \in {"FIELD", "DEPLOYED"}

(* Rule 2: members who are not where their team is. *)
IncompatibleMembers(people, teams, t) ==
    {Finding("PERS_MOVEMENT_INCOMPATIBLE", p, t, "BLOCKED") :
        p \in {q \in Members(people, t) :
                  /\ InTheField(teams, t)
                  /\ people[q].movement \in {"NOT_DEPLOYED", "RETURNING", "RETURNED"}}}

(* Rule 3: nobody works alone. *)
HeadcountDeficit(people, teams, t) ==
    {Finding("TEAM_HEADCOUNT_DEFICIT", t, t, "BLOCKED") :
        x \in {y \in {t} : teams[t].mission # None /\ Cardinality(Members(people, t)) < 2}}

(* Rule 4: a team with a mission has a leader, and the leader is ready.  The *)
(* leader is looked up among the people that were fetched.                   *)
LeaderUnready(people, teams, t) ==
    LET leader == teams[t].leader
        missing == leader = None \/ people[leader] = NoRow
    IN  {Finding("TEAM_LEADER_UNREADY", IF missing THEN t ELSE leader, t, "BLOCKED") :
            x \in {y \in {t} : teams[t].mission # None
                                  /\ (missing \/ people[leader].readiness # "READY")}}

(* Rule 5: somebody on a field mission keeps the others safe. *)
SafetyOfficerAbsent(people, teams, missions, t) ==
    LET m == teams[t].mission
    IN  {Finding("FIELD_SAFETY_OFFICER_ABSENT", t, t, "WARNING") :
            x \in {y \in {t} : /\ m # None /\ missions[m] # NoRow
                               /\ missions[m].type = "TRAVERSE" \/ InTheField(teams, t)
                               /\ \A p \in Members(people, t) : people[p].role # "guide"}}

FindingsOf(people, teams, missions, t) ==
    DisqualifiedMembers(people, t)
        \cup IncompatibleMembers(people, teams, t)
        \cup HeadcountDeficit(people, teams, t)
        \cup LeaderUnready(people, teams, t)
        \cup SafetyOfficerAbsent(people, teams, missions, t)

Findings(people, teams, missions) ==
    UNION {FindingsOf(people, teams, missions, t) : t \in {u \in Team : teams[u] # NoRow}}

(* The posture the findings add up to, of a team or of the expedition. *)
Posture(findings) ==
    IF \E f \in findings : f.status = "BLOCKED" THEN "BLOCKED"
    ELSE IF findings # {} THEN "WARNING" ELSE "CLEAR"
=============================================================================

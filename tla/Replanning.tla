----------------------------- MODULE Replanning -----------------------------
(***************************************************************************)
(* The replanning cycle: replans, the recommendations generated for them,  *)
(* the operators' decisions and the application of an approved             *)
(* recommendation through the domain services                              *)
(* (backend/app/domains/replanning/service.py and router.py).              *)
(*                                                                         *)
(* A request runs in a thread and a database session of its own.  The      *)
(* variables replan, recStatus, approvalState and approvals are what the   *)
(* database has committed; req is what a request holds in memory between   *)
(* its reads and its commits.  No row is locked by a read and no row       *)
(* carries a version, so every step of a request may find the rows changed *)
(* by another since it read them.  A session writes only the columns it    *)
(* changed, so a request that assigns the value it had read writes nothing.*)
(***************************************************************************)
EXTENDS Naturals, FiniteSets

CONSTANTS
    Replan,         \* replan identifiers
    Rec,            \* recommendation identifiers
    Session,        \* requests being served at the same time
    ReplanOf,       \* the replan a recommendation is generated for
    ActionOf,       \* the action type of the recommendation's option
    MaxDecisions,   \* bound: decisions requested for one recommendation
    MaxApplies      \* bound: applications begun for one recommendation

ActionType == {"MODIFY_TRANSPORT", "RESCHEDULE_MISSION", "DEFER_ACTIVITY",
               "REASSIGN_ASSET", "REASSIGN_PERSONNEL"}

ASSUME ReplanOfAssumption == ReplanOf \in [Rec -> Replan]
ASSUME ActionOfAssumption == ActionOf \in [Rec -> ActionType]
ASSUME SessionAssumption  == IsFiniteSet(Session)
ASSUME BoundsAssumption   == MaxDecisions \in Nat /\ MaxApplies \in Nat

VARIABLES
    replan,         \* [Replan -> status], "NONE" before the row exists
    recStatus,      \* [Rec -> status], "NONE" before the row exists
    approvalState,  \* [Rec -> approval_state column of the recommendation]
    approvals,      \* the decided approval records
    issued,         \* [Rec -> number of approval records created so far]
    req,            \* [Session -> the request the session serves]
    begun,          \* [Rec -> applications begun], for the bound only
    effects,        \* [Rec -> domain-service commits made on its behalf]
    executed        \* [Rec -> applications carried to the end]

vars == <<replan, recStatus, approvalState, approvals, issued, req, begun,
          effects, executed>>

-----------------------------------------------------------------------------
ReplanStatus == {"NONE", "REQUESTED", "OPTIONS_READY", "APPROVED",
                 "REJECTED", "APPLIED"}

RecommendationStatus == {"NONE", "PROPOSED", "SELECTED", "REJECTED",
                         "APPLIED", "FAILED"}

ApprovalState == {"PROPOSED", "APPROVED", "REJECTED", "IMPLEMENTED"}

Decision == {"APPROVED", "REJECTED"}

(* An approval record is created PENDING and decided in the same transaction: *)
(* every record another session can read carries a decision.                  *)
Approval == [rec : Rec, at : Nat, decision : Decision]

Idle == [op |-> "idle"]

Deciding == [op : {"decide"}, rec : Rec, at : Nat, decision : Decision,
             seen : RecommendationStatus]

Applying == [op : {"apply"}, rec : Rec, left : 0..2, committed : BOOLEAN,
             seen : RecommendationStatus]

TypeOK ==
    /\ replan \in [Replan -> ReplanStatus]
    /\ recStatus \in [Rec -> RecommendationStatus]
    /\ approvalState \in [Rec -> ApprovalState]
    /\ approvals \subseteq Approval
    /\ issued \in [Rec -> Nat]
    /\ req \in [Session -> {Idle} \cup Deciding \cup Applying]
    /\ begun \in [Rec -> Nat]
    /\ effects \in [Rec -> Nat]
    /\ executed \in [Rec -> Nat]

-----------------------------------------------------------------------------
(* Mutants of LatestDecisionIs: the record is not asked how it was decided,  *)
(* any record counts, the order by created_at is ascending.                  *)
LatestDecisionIs_Undecided(r, d) == \E a \in approvals : a.rec = r
LatestDecisionIs_Any(r, d) == \E a \in approvals : a.rec = r /\ a.decision = d
LatestDecisionIs_Oldest(r, d) ==
    \E a \in approvals :
        a.rec = r /\ a.decision = d /\ \A b \in approvals : b.rec = r => a.at <= b.at

(* The most recently created approval record of r, by created_at, decides. *)
LatestDecisionIs(r, d) ==
    \E a \in approvals :
        /\ a.rec = r
        /\ a.decision = d
        /\ \A b \in approvals : b.rec = r => b.at <= a.at

EverDecided(r, d) == \E a \in approvals : a.rec = r /\ a.decision = d

(* Mutant of DomainCommits: an action type no branch of apply executes. *)
DomainCommits_Unhandled(action) ==
    IF action = "REASSIGN_PERSONNEL" THEN {0} ELSE {1}

(* How many times the domain services called for an option commit: the team *)
(* service commits only when the displaced person leads the team, the       *)
(* person service always; an asset reassignment calls no service.           *)
DomainCommits(action) ==
    CASE action = "REASSIGN_ASSET"     -> {0}
      [] action = "REASSIGN_PERSONNEL" -> {1, 2}
      [] OTHER                         -> {1}

(* Mutant of AlreadyApplied: no idempotency check. *)
AlreadyApplied_Missing(r) == FALSE

(* The idempotency check of apply. *)
AlreadyApplied(r) == recStatus[r] = "APPLIED" \/ approvalState[r] = "IMPLEMENTED"

(* Mutants of StatusAfter: the approval's own status, the branches swapped. *)
StatusAfter_Enum(d) == d
StatusAfter_Swapped(d) == IF d = "APPROVED" THEN "REJECTED" ELSE "SELECTED"

(* The recommendation status a decision leads to. *)
StatusAfter(d) == IF d = "APPROVED" THEN "SELECTED" ELSE "REJECTED"

(* Mutant of MarkReplan: approving already counts as applying. *)
MarkReplan_Early(p, status) ==
    replan' = [replan EXCEPT ![p] = IF status = "APPROVED" THEN "APPLIED" ELSE status]

(* The parent replan takes the outcome of one of its recommendations, *)
(* whatever its own status was.                                       *)
MarkReplan(p, status) == replan' = [replan EXCEPT ![p] = status]

-----------------------------------------------------------------------------
Init ==
    /\ replan = [p \in Replan |-> "NONE"]
    /\ recStatus = [r \in Rec |-> "NONE"]
    /\ approvalState = [r \in Rec |-> "PROPOSED"]
    /\ approvals = {}
    /\ issued = [r \in Rec |-> 0]
    /\ req = [s \in Session |-> Idle]
    /\ begun = [r \in Rec |-> 0]
    /\ effects = [r \in Rec |-> 0]
    /\ executed = [r \in Rec |-> 0]

(* POST /replans *)
CreateReplanRequest(p) ==
    /\ replan[p] = "NONE"
    /\ replan' = [replan EXCEPT ![p] = "REQUESTED"]
    /\ UNCHANGED <<recStatus, approvalState, approvals, issued, req, begun,
                   effects, executed>>

(* POST /replans/{id}/generate-options: one PROPOSED recommendation for each *)
(* feasible or constrained option found, none when there is none.            *)
(* ANALYZING is flushed and overwritten in the same transaction.             *)
GenerateOptions(p) ==
    \E new \in SUBSET {r \in Rec : ReplanOf[r] = p /\ recStatus[r] = "NONE"} :
        /\ replan[p] # "NONE"
        /\ replan' = [replan EXCEPT ![p] = "OPTIONS_READY"]
        /\ recStatus' = [r \in Rec |-> IF r \in new THEN "PROPOSED" ELSE recStatus[r]]
        /\ UNCHANGED <<approvalState, approvals, issued, req, begun, effects,
                       executed>>

(* POST /recommendations/{id}/approve and /reject: request_approval loads the *)
(* recommendation and creates the approval record.                            *)
RequestApproval(s, r, d) ==
    /\ req[s] = Idle
    /\ recStatus[r] # "NONE"
    /\ issued[r] < MaxDecisions
    /\ issued' = [issued EXCEPT ![r] = @ + 1]
    /\ req' = [req EXCEPT ![s] = [op |-> "decide", rec |-> r, at |-> issued[r] + 1,
                                  decision |-> d, seen |-> recStatus[r]]]
    /\ UNCHANGED <<replan, recStatus, approvalState, approvals, begun, effects,
                   executed>>

(* decide writes the decision to the approval record, the recommendation and *)
(* the replan, and commits all three.                                        *)
Decide(s) ==
    LET q == req[s] IN
        /\ q.op = "decide"
        /\ approvals' = approvals \cup
                          {[rec |-> q.rec, at |-> q.at, decision |-> q.decision]}
        /\ approvalState' = [approvalState EXCEPT ![q.rec] = q.decision]
        /\ recStatus' = [recStatus EXCEPT
              ![q.rec] = IF q.seen = StatusAfter(q.decision) THEN @
                         ELSE StatusAfter(q.decision)]
        /\ MarkReplan(ReplanOf[q.rec], q.decision)
        /\ req' = [req EXCEPT ![s] = Idle]
        /\ UNCHANGED <<issued, begun, effects, executed>>

(* POST /recommendations/{id}/apply: the idempotency check and the human     *)
(* approval check; a request either one turns away changes nothing.          *)
BeginApply(s, r) ==
    /\ req[s] = Idle
    /\ recStatus[r] # "NONE"
    /\ ~AlreadyApplied(r)
    /\ LatestDecisionIs(r, "APPROVED")
    /\ begun[r] < MaxApplies
    /\ begun' = [begun EXCEPT ![r] = @ + 1]
    /\ \E n \in DomainCommits(ActionOf[r]) :
          req' = [req EXCEPT ![s] = [op |-> "apply", rec |-> r, left |-> n,
                                     committed |-> FALSE, seen |-> recStatus[r]]]
    /\ UNCHANGED <<replan, recStatus, approvalState, approvals, issued, effects,
                   executed>>

(* The mission, transport, team or person service changes its record and     *)
(* commits the session it shares with apply.                                 *)
RunDomainService(s) ==
    /\ req[s].op = "apply"
    /\ req[s].left > 0
    /\ req' = [req EXCEPT ![s] = [op |-> "apply", rec |-> req[s].rec,
                                  left |-> req[s].left - 1, committed |-> TRUE,
                                  seen |-> req[s].seen]]
    /\ effects' = [effects EXCEPT ![req[s].rec] = @ + 1]
    /\ UNCHANGED <<replan, recStatus, approvalState, approvals, issued, begun,
                   executed>>

(* The recommendation and its replan are marked applied and committed. *)
FinishApply(s) ==
    LET r == req[s].rec
    IN  /\ req[s].op = "apply"
        /\ req[s].left = 0
        /\ recStatus' = [recStatus EXCEPT ![r] = "APPLIED"]
        /\ approvalState' = [approvalState EXCEPT ![r] = "IMPLEMENTED"]
        /\ MarkReplan(ReplanOf[r], "APPLIED")
        /\ executed' = [executed EXCEPT ![r] = @ + 1]
        /\ req' = [req EXCEPT ![s] = Idle]
        /\ UNCHANGED <<approvals, issued, begun, effects>>

(* A check, a domain service or what follows the last of them raises: the    *)
(* handler marks the recommendation FAILED and commits, without rolling      *)
(* back, so a team member already displaced by the flush stays displaced.    *)
FailApply(s) ==
    LET q      == req[s]
        leaked == IF ActionOf[q.rec] = "REASSIGN_PERSONNEL" /\ ~q.committed
                  THEN {0, 1} ELSE {0}
    IN  /\ q.op = "apply"
        /\ recStatus' = [recStatus EXCEPT
              ![q.rec] = IF ~q.committed /\ q.seen = "FAILED" THEN @ ELSE "FAILED"]
        /\ \E n \in leaked : effects' = [effects EXCEPT ![q.rec] = @ + n]
        /\ req' = [req EXCEPT ![s] = Idle]
        /\ UNCHANGED <<replan, approvalState, approvals, issued, begun, executed>>

(* The worker dies, or the database refuses a write: get_db closes the       *)
(* session, which rolls back whatever the request had not committed.         *)
AbortRequest(s) ==
    /\ req[s] # Idle
    /\ req' = [req EXCEPT ![s] = Idle]
    /\ UNCHANGED <<replan, recStatus, approvalState, approvals, issued, begun,
                   effects, executed>>

-----------------------------------------------------------------------------
Next ==
    \/ \E p \in Replan : CreateReplanRequest(p) \/ GenerateOptions(p)
    \/ \E s \in Session, r \in Rec :
          \/ \E d \in Decision : RequestApproval(s, r, d)
          \/ BeginApply(s, r)
    \/ \E s \in Session :
          \/ Decide(s)
          \/ RunDomainService(s)
          \/ FinishApply(s)
          \/ FailApply(s)
          \/ AbortRequest(s)

Spec == Init /\ [][Next]_vars

-----------------------------------------------------------------------------
(* Nothing reaches the domain records on behalf of a recommendation no       *)
(* operator ever approved: the human control boundary of ApprovalService.    *)
HumanBoundary ==
    \A r \in Rec :
        effects[r] > 0 \/ executed[r] > 0 => EverDecided(r, "APPROVED")

(* Each lifecycle column of a recommendation rests on a recorded decision:   *)
(* no interleaving of decide, apply and the failure handler leaves a status  *)
(* whose decision does not exist.                                            *)
StatesRestOnDecisions ==
    \A r \in Rec :
        /\ approvalState[r] = "APPROVED" => EverDecided(r, "APPROVED")
        /\ approvalState[r] = "REJECTED" => EverDecided(r, "REJECTED")
        /\ recStatus[r] \in {"SELECTED", "APPLIED", "FAILED"}
              => EverDecided(r, "APPROVED")
        /\ recStatus[r] = "REJECTED" => EverDecided(r, "REJECTED")

(* A recommendation shown as IMPLEMENTED really was carried to its end, with *)
(* its domain changes committed: the audit trail never runs ahead of them.   *)
ImplementedWasExecuted ==
    \A r \in Rec :
        approvalState[r] = "IMPLEMENTED" =>
            /\ executed[r] > 0
            /\ ActionOf[r] # "REASSIGN_ASSET" => effects[r] > 0

(* What a replan's status says happened did happen to one of its             *)
(* recommendations, whichever of them wrote the status last.                 *)
ReplanRestsOnRecommendation ==
    \A p \in Replan :
        /\ \A d \in Decision : replan[p] = d =>
              \E r \in Rec : ReplanOf[r] = p /\ EverDecided(r, d)
        /\ replan[p] = "APPLIED" =>
              \E r \in Rec : ReplanOf[r] = p /\ executed[r] > 0

(* What an application in flight carries from its approval check: the        *)
(* approval it saw is on record for good, and once no domain commit is left  *)
(* at least one was made.                                                    *)
AppliesWereApproved ==
    \A s \in Session, r \in Rec :
        req[s].op = "apply" /\ req[s].rec = r => EverDecided(r, "APPROVED")

AppliesDidWork ==
    \A s \in Session :
        /\ req[s].op = "apply"
        /\ ActionOf[req[s].rec] # "REASSIGN_ASSET"
        /\ req[s].left = 0
        => effects[req[s].rec] > 0

(* The inductive invariant behind the four invariants above. *)
ReplanningInv ==
    /\ TypeOK
    /\ AppliesWereApproved
    /\ AppliesDidWork
    /\ HumanBoundary
    /\ StatesRestOnDecisions
    /\ ImplementedWasExecuted
    /\ ReplanRestsOnRecommendation

(* Retries, crashes and concurrent clicks multiply an approved change by no  *)
(* more than the requests served at once: one decision authorizes at most    *)
(* one complete application per worker.                                      *)
ExecutionsBounded ==
    \A r \in Rec :
        executed[r] <= Cardinality(Session) *
                       Cardinality({a \in approvals : a.rec = r})

(* The replanning cycle implements the control boundary it promises.         *)
Boundary == INSTANCE ApprovalBoundary
    WITH authorized <- {r \in Rec : EverDecided(r, "APPROVED")},
         changed    <- {r \in Rec : effects[r] > 0}

ImplementsBoundary == Boundary!Spec

=============================================================================

-------------------------- MODULE ReplanningHistory --------------------------
(* The replanning cycle with a history of whether requests have overlapped: *)
(* what holds as long as they come one at a time.                           *)
EXTENDS Replanning

VARIABLE overlapped     \* history: two requests have been in flight at a time

historyVars == <<vars, overlapped>>

Overlap == Cardinality({s \in Session : req[s] # Idle}) > 1

Observe == overlapped' = (overlapped \/ Overlap')

HistoryInit == Init /\ overlapped = FALSE

HistoryNext ==
    \/ \E p \in Replan : CreateReplanRequest(p) /\ Observe
    \/ \E p \in Replan : GenerateOptions(p) /\ Observe
    \/ \E s \in Session, r \in Rec : \E d \in Decision : RequestApproval(s, r, d) /\ Observe
    \/ \E s \in Session, r \in Rec : BeginApply(s, r) /\ Observe
    \/ \E s \in Session : Decide(s) /\ Observe
    \/ \E s \in Session : RunDomainService(s) /\ Observe
    \/ \E s \in Session : FinishApply(s) /\ Observe
    \/ \E s \in Session : FailApply(s) /\ Observe
    \/ \E s \in Session : AbortRequest(s) /\ Observe

HistorySpec == HistoryInit /\ [][HistoryNext]_historyVars

(* As long as requests have come one at a time an approval is spent once:   *)
(* apply, retried any number of times, with crashes between its commits,    *)
(* never completes more often than operators approved.                      *)
ExecutionsWithinApprovals ==
    ~overlapped => \A r \in Rec :
        executed[r] <= Cardinality({a \in approvals : a.rec = r /\ a.decision = "APPROVED"})

(* As long as requests have come one at a time the recommendation shows the *)
(* decision that apply will act on: the latest one.                         *)
LatestDecisionShown ==
    ~overlapped => \A r \in Rec :
        approvalState[r] \in Decision => LatestDecisionIs(r, approvalState[r])
=============================================================================

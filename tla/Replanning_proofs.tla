-------------------------- MODULE Replanning_proofs --------------------------
(***************************************************************************)
(* Proofs about Replanning for any sets of replans, recommendations and    *)
(* concurrent requests and any bounds: its type invariant, the human       *)
(* control boundary, that it implements ApprovalBoundary, how often an     *)
(* approved change is executed, and what holds while requests come one at  *)
(* a time.                                                                 *)
(***************************************************************************)
EXTENDS ReplanningHistory, FiniteSetTheorems, TLAPS

USE DEF ReplanStatus, RecommendationStatus, ApprovalState, Decision, Idle

LEMMA InitTypeOK == Init => TypeOK
BY DEF Init, TypeOK

LEMMA DomainCommitsType ==
    ASSUME NEW r \in Rec PROVE DomainCommits(ActionOf[r]) \subseteq 0..2
BY ActionOfAssumption DEF DomainCommits, ActionType

(* A request being decided or applied is a record of its kind. *)
LEMMA RequestKind ==
    ASSUME TypeOK, NEW s \in Session
    PROVE  /\ req[s].op = "decide" => req[s] \in Deciding
           /\ req[s].op = "apply" => req[s] \in Applying
BY DEF TypeOK, Deciding, Applying

LEMMA NextTypeOK == TypeOK /\ [Next]_vars => TypeOK'
<1> SUFFICES ASSUME TypeOK, [Next]_vars PROVE TypeOK'
  OBVIOUS
<1>1. ASSUME NEW p \in Replan, CreateReplanRequest(p) PROVE TypeOK'
  BY <1>1 DEF TypeOK, CreateReplanRequest
<1>2. ASSUME NEW p \in Replan, GenerateOptions(p) PROVE TypeOK'
  BY <1>2 DEF TypeOK, GenerateOptions
<1>3. ASSUME NEW s \in Session, NEW r \in Rec, NEW d \in Decision,
             RequestApproval(s, r, d)
      PROVE TypeOK'
  <2>1. [op |-> "decide", rec |-> r, at |-> issued[r] + 1, decision |-> d,
         seen |-> recStatus[r]] \in Deciding
    BY DEF TypeOK, Deciding
  <2> QED BY <1>3, <2>1 DEF TypeOK, RequestApproval
<1>4. ASSUME NEW s \in Session, NEW r \in Rec, BeginApply(s, r) PROVE TypeOK'
  <2>1. ASSUME NEW n \in DomainCommits(ActionOf[r])
        PROVE [op |-> "apply", rec |-> r, left |-> n, committed |-> FALSE,
               seen |-> recStatus[r]] \in Applying
    BY DomainCommitsType DEF TypeOK, Applying
  <2> QED BY <1>4, <2>1 DEF TypeOK, BeginApply
<1>5. ASSUME NEW s \in Session, Decide(s) PROVE TypeOK'
  <2>1. req[s] \in Deciding
    BY <1>5, RequestKind DEF Decide
  <2>2. /\ [rec |-> req[s].rec, at |-> req[s].at, decision |-> req[s].decision] \in Approval
        /\ req[s].rec \in Rec
        /\ ReplanOf[req[s].rec] \in Replan
        /\ req[s].decision \in Decision
    BY <2>1, ReplanOfAssumption DEF Deciding, Approval
  <2> QED BY <1>5, <2>2 DEF TypeOK, Decide, StatusAfter, MarkReplan
<1>6. ASSUME NEW s \in Session, RunDomainService(s) PROVE TypeOK'
  <2>1. req[s] \in Applying
    BY <1>6, RequestKind DEF RunDomainService
  <2>2. /\ req[s].rec \in Rec
        /\ req'[s] \in Applying
    BY <1>6, <2>1 DEF TypeOK, RunDomainService, Applying
  <2>3. req' = [req EXCEPT ![s] = req'[s]]
    BY <1>6 DEF TypeOK, RunDomainService
  <2> QED BY <1>6, <2>2, <2>3 DEF TypeOK, RunDomainService
<1>7. ASSUME NEW s \in Session, FinishApply(s) PROVE TypeOK'
  <2>1. req[s].rec \in Rec /\ ReplanOf[req[s].rec] \in Replan
    BY <1>7, RequestKind, ReplanOfAssumption DEF FinishApply, Applying
  <2> QED BY <1>7, <2>1 DEF TypeOK, FinishApply, MarkReplan
<1>8. ASSUME NEW s \in Session, FailApply(s) PROVE TypeOK'
  <2>1. req[s].rec \in Rec
    BY <1>8, RequestKind DEF FailApply, Applying
  <2>2. effects' \in [Rec -> Nat]
    BY <1>8, <2>1 DEF TypeOK, FailApply
  <2> QED BY <1>8, <2>1, <2>2 DEF TypeOK, FailApply
<1>9. ASSUME NEW s \in Session, AbortRequest(s) PROVE TypeOK'
  BY <1>9 DEF TypeOK, AbortRequest
<1>10. CASE UNCHANGED vars
  BY <1>10 DEF TypeOK, vars
<1> QED
  BY <1>1, <1>2, <1>3, <1>4, <1>5, <1>6, <1>7, <1>8, <1>9, <1>10 DEF Next

(* Every reachable state of the replanning cycle is well formed: statuses,   *)
(* approval records and in-flight requests keep their shape.                 *)
THEOREM TypeCorrect == Spec => []TypeOK
BY InitTypeOK, NextTypeOK, PTL DEF Spec

-----------------------------------------------------------------------------
(* Decisions are never withdrawn: a step that only adds approval records     *)
(* keeps every recorded decision.                                            *)
LEMMA DecisionsStay ==
    ASSUME approvals \subseteq approvals', NEW r \in Rec, NEW d \in Decision,
           EverDecided(r, d)
    PROVE  EverDecided(r, d)'
BY DEF EverDecided

LEMMA InitReplanningInv == Init => ReplanningInv
<1> SUFFICES ASSUME Init PROVE ReplanningInv
  OBVIOUS
<1>1. TypeOK
  BY InitTypeOK
<1>2. AppliesWereApproved /\ AppliesDidWork
  BY DEF Init, AppliesWereApproved, AppliesDidWork
<1>3. HumanBoundary
  BY DEF Init, HumanBoundary
<1>4. StatesRestOnDecisions
  <2>1. \A r \in Rec : approvalState[r] = "PROPOSED" /\ recStatus[r] = "NONE"
    BY DEF Init
  <2> QED BY <2>1 DEF StatesRestOnDecisions
<1>5. ImplementedWasExecuted
  <2>1. \A r \in Rec : approvalState[r] = "PROPOSED"
    BY DEF Init
  <2> QED BY <2>1 DEF ImplementedWasExecuted
<1>6. ReplanRestsOnRecommendation
  <2>1. \A p \in Replan : replan[p] = "NONE"
    BY DEF Init
  <2> QED BY <2>1, Zenon DEF ReplanRestsOnRecommendation
<1> QED
  BY <1>1, <1>2, <1>3, <1>4, <1>5, <1>6 DEF ReplanningInv

(* What decide adds to the approval records is the decision it was asked for. *)
LEMMA DecideAddsRecord ==
    ASSUME NEW s \in Session, Decide(s)
    PROVE  \E a : /\ approvals' = approvals \cup {a}
                  /\ a.rec = req[s].rec
                  /\ a.decision = req[s].decision
<1> DEFINE a == [rec |-> req[s].rec, at |-> req[s].at, decision |-> req[s].decision]
<1>1. a.rec = req[s].rec /\ a.decision = req[s].decision
  OBVIOUS
<1>2. approvals' = approvals \cup {a}
  BY DEF Decide
<1> HIDE DEF a
<1> QED BY <1>1, <1>2

(* A committed decision rests on the record it commits with. *)
LEMMA DecideKeepsInv ==
    ASSUME ReplanningInv, NEW s \in Session, Decide(s)
    PROVE  ReplanningInv'
<1>1. req[s] \in Deciding
  BY RequestKind DEF ReplanningInv, Decide
<1>2. PICK who \in Rec, what \in Decision : req[s].rec = who /\ req[s].decision = what
  BY <1>1 DEF Deciding
<1>3. TypeOK'
  BY NextTypeOK DEF ReplanningInv, Next
<1>4. approvals \subseteq approvals' /\ EverDecided(who, what)'
  <2>1. PICK a : approvals' = approvals \cup {a} /\ a.rec = who /\ a.decision = what
    BY <1>2, DecideAddsRecord
  <2> QED BY <2>1 DEF EverDecided
<1>5. AppliesWereApproved'
  <2> SUFFICES ASSUME NEW t \in Session, NEW r \in Rec,
                      req'[t].op = "apply", req'[t].rec = r
               PROVE  EverDecided(r, "APPROVED")'
    BY DEF AppliesWereApproved
  <2>1. req'[t] = req[t]
    BY DEF Decide, ReplanningInv, TypeOK
  <2> QED BY <1>4, <2>1, DecisionsStay DEF ReplanningInv, AppliesWereApproved
<1>6. AppliesDidWork'
  BY DEF Decide, ReplanningInv, TypeOK, AppliesDidWork
<1>7. HumanBoundary'
  BY <1>4, DecisionsStay DEF Decide, ReplanningInv, HumanBoundary
<1>8. StatesRestOnDecisions'
  <2> SUFFICES ASSUME NEW r \in Rec
      PROVE /\ approvalState'[r] = "APPROVED" => EverDecided(r, "APPROVED")'
            /\ approvalState'[r] = "REJECTED" => EverDecided(r, "REJECTED")'
            /\ recStatus'[r] \in {"SELECTED", "APPLIED", "FAILED"}
                   => EverDecided(r, "APPROVED")'
            /\ recStatus'[r] = "REJECTED" => EverDecided(r, "REJECTED")'
    BY DEF StatesRestOnDecisions
  <2>1. \/ approvalState'[r] = approvalState[r]
        \/ r = who /\ approvalState'[r] = what
    BY <1>2 DEF Decide, ReplanningInv, TypeOK
  <2>2. \/ recStatus'[r] = recStatus[r]
        \/ r = who /\ recStatus'[r] = StatusAfter(what)
    BY <1>2 DEF Decide, ReplanningInv, TypeOK
  <2>3. StatusAfter(what) = IF what = "APPROVED" THEN "SELECTED" ELSE "REJECTED"
    BY DEF StatusAfter
  <2> QED
    BY <1>4, <2>1, <2>2, <2>3, DecisionsStay DEF ReplanningInv, StatesRestOnDecisions
<1>9. ImplementedWasExecuted'
  BY <1>2 DEF Decide, ReplanningInv, TypeOK, ImplementedWasExecuted
<1>10. ReplanRestsOnRecommendation'
  <2> SUFFICES ASSUME NEW p \in Replan
      PROVE /\ \A d \in Decision : replan'[p] = d =>
                   \E r \in Rec : ReplanOf[r] = p /\ EverDecided(r, d)'
            /\ replan'[p] = "APPLIED" =>
                   \E r \in Rec : ReplanOf[r] = p /\ executed'[r] > 0
    BY DEF ReplanRestsOnRecommendation
  <2>1. executed' = executed
    BY DEF Decide
  <2>2. \/ replan'[p] = replan[p]
        \/ p = ReplanOf[who] /\ replan'[p] = what
    BY <1>2, ReplanOfAssumption DEF Decide, MarkReplan, ReplanningInv, TypeOK
  <2> QED
    BY <1>4, <2>1, <2>2, DecisionsStay DEF ReplanningInv, ReplanRestsOnRecommendation
<1> QED
  BY <1>3, <1>5, <1>6, <1>7, <1>8, <1>9, <1>10 DEF ReplanningInv

(* Steps that leave decisions, effects and executions alone only have to     *)
(* account for the requests and the statuses they change.                    *)
LEMMA QuietStepKeepsInv ==
    ASSUME ReplanningInv, TypeOK',
           UNCHANGED <<approvals, approvalState, effects, executed>>,
           AppliesWereApproved', AppliesDidWork',
           \A r \in Rec : recStatus'[r] \in {recStatus[r], "PROPOSED"},
           \A p \in Replan :
              replan'[p] \in {replan[p], "REQUESTED", "OPTIONS_READY"}
    PROVE  ReplanningInv'
<1>1. HumanBoundary' /\ ImplementedWasExecuted'
  BY DEF ReplanningInv, HumanBoundary, ImplementedWasExecuted, EverDecided
<1>2. StatesRestOnDecisions'
  BY DEF ReplanningInv, StatesRestOnDecisions, EverDecided
<1>3. ReplanRestsOnRecommendation'
  BY DEF ReplanningInv, ReplanRestsOnRecommendation, EverDecided
<1> QED
  BY <1>1, <1>2, <1>3 DEF ReplanningInv

LEMMA CreateKeepsInv ==
    ASSUME ReplanningInv, NEW p \in Replan, CreateReplanRequest(p)
    PROVE  ReplanningInv'
<1>1. TypeOK'
  BY NextTypeOK DEF ReplanningInv, Next
<1>2. AppliesWereApproved' /\ AppliesDidWork'
  BY DEF CreateReplanRequest, ReplanningInv, AppliesWereApproved, AppliesDidWork,
     EverDecided
<1>3. \A x \in Replan : replan'[x] \in {replan[x], "REQUESTED", "OPTIONS_READY"}
  BY DEF CreateReplanRequest, ReplanningInv, TypeOK
<1> QED
  BY <1>1, <1>2, <1>3, QuietStepKeepsInv DEF CreateReplanRequest

LEMMA GenerateKeepsInv ==
    ASSUME ReplanningInv, NEW p \in Replan, GenerateOptions(p)
    PROVE  ReplanningInv'
<1>1. TypeOK'
  BY NextTypeOK DEF ReplanningInv, Next
<1>2. AppliesWereApproved' /\ AppliesDidWork'
  BY DEF GenerateOptions, ReplanningInv, AppliesWereApproved, AppliesDidWork,
     EverDecided
<1>3. \A x \in Replan : replan'[x] \in {replan[x], "REQUESTED", "OPTIONS_READY"}
  BY DEF GenerateOptions, ReplanningInv, TypeOK
<1>4. \A r \in Rec : recStatus'[r] \in {recStatus[r], "PROPOSED"}
  BY DEF GenerateOptions
<1> QED
  BY <1>1, <1>2, <1>3, <1>4, QuietStepKeepsInv DEF GenerateOptions

LEMMA RequestKeepsInv ==
    ASSUME ReplanningInv, NEW s \in Session, NEW r \in Rec, NEW d \in Decision,
           RequestApproval(s, r, d)
    PROVE  ReplanningInv'
<1>1. TypeOK'
  BY NextTypeOK DEF ReplanningInv, Next
<1>2. req'[s].op = "decide" /\ \A t \in Session : t # s => req'[t] = req[t]
  BY DEF RequestApproval, ReplanningInv, TypeOK
<1>3. AppliesWereApproved' /\ AppliesDidWork'
  BY <1>2 DEF RequestApproval, ReplanningInv, AppliesWereApproved, AppliesDidWork,
     EverDecided
<1> QED
  BY <1>1, <1>3, QuietStepKeepsInv DEF RequestApproval

(* The approval check of apply is what makes the boundary hold: the request  *)
(* starts from the latest decision, which is one of the recorded ones.       *)
LEMMA BeginKeepsInv ==
    ASSUME ReplanningInv, NEW s \in Session, NEW r \in Rec, BeginApply(s, r)
    PROVE  ReplanningInv'
<1>1. TypeOK'
  BY NextTypeOK DEF ReplanningInv, Next
<1>2. PICK n \in DomainCommits(ActionOf[r]) :
        req' = [req EXCEPT ![s] = [op |-> "apply", rec |-> r, left |-> n,
                                   committed |-> FALSE, seen |-> recStatus[r]]]
  BY DEF BeginApply
<1>3. /\ req'[s].rec = r /\ req'[s].left = n
      /\ \A t \in Session : t # s => req'[t] = req[t]
  BY <1>2 DEF ReplanningInv, TypeOK
<1>4. EverDecided(r, "APPROVED")
  BY DEF BeginApply, LatestDecisionIs, EverDecided
<1>5. ActionOf[r] # "REASSIGN_ASSET" => n # 0
  BY DEF DomainCommits
<1>6. AppliesWereApproved'
  BY <1>3, <1>4 DEF BeginApply, ReplanningInv, AppliesWereApproved, EverDecided
<1>7. AppliesDidWork'
  BY <1>3, <1>5 DEF BeginApply, ReplanningInv, AppliesDidWork
<1> QED
  BY <1>1, <1>6, <1>7, QuietStepKeepsInv DEF BeginApply

LEMMA AbortKeepsInv ==
    ASSUME ReplanningInv, NEW s \in Session, AbortRequest(s)
    PROVE  ReplanningInv'
<1>1. TypeOK'
  BY NextTypeOK DEF ReplanningInv, Next
<1>2. req'[s].op = "idle" /\ \A t \in Session : t # s => req'[t] = req[t]
  BY DEF AbortRequest, ReplanningInv, TypeOK
<1>3. AppliesWereApproved' /\ AppliesDidWork'
  BY <1>2 DEF AbortRequest, ReplanningInv, AppliesWereApproved, AppliesDidWork,
     EverDecided
<1> QED
  BY <1>1, <1>3, QuietStepKeepsInv DEF AbortRequest

LEMMA DomainServiceKeepsInv ==
    ASSUME ReplanningInv, NEW s \in Session, RunDomainService(s)
    PROVE  ReplanningInv'
<1>1. TypeOK'
  BY NextTypeOK DEF ReplanningInv, Next
<1>2. PICK who \in Rec : req[s].rec = who
  BY RequestKind DEF RunDomainService, ReplanningInv, Applying
<1>3. EverDecided(who, "APPROVED")
  BY <1>2 DEF RunDomainService, ReplanningInv, AppliesWereApproved
<1>4. /\ effects' = [effects EXCEPT ![who] = effects[who] + 1]
      /\ effects \in [Rec -> Nat]
  BY <1>2 DEF RunDomainService, ReplanningInv, TypeOK
<1>5. \A r \in Rec : r # who => effects'[r] = effects[r]
  BY <1>4
<1>6. effects'[who] > 0 /\ \A r \in Rec : effects[r] > 0 => effects'[r] > 0
  BY <1>4
<1>7. req'[s].rec = who /\ \A t \in Session : t # s => req'[t] = req[t]
  BY <1>2 DEF RunDomainService, ReplanningInv, TypeOK
<1>8. AppliesWereApproved'
  BY <1>3, <1>7 DEF RunDomainService, ReplanningInv, AppliesWereApproved, EverDecided
<1>9. AppliesDidWork'
  <2> SUFFICES ASSUME NEW t \in Session, req'[t].op = "apply",
                      ActionOf[req'[t].rec] # "REASSIGN_ASSET", req'[t].left = 0
               PROVE  effects'[req'[t].rec] > 0
    BY DEF AppliesDidWork
  <2>1. CASE t = s
    BY <1>6, <1>7, <2>1
  <2>2. CASE t # s
    <3>1. req[t].rec \in Rec
      BY <1>7, <2>2, RequestKind DEF ReplanningInv, Applying
    <3> QED BY <1>6, <1>7, <2>2, <3>1 DEF ReplanningInv, AppliesDidWork
  <2> QED BY <2>1, <2>2
<1>10. HumanBoundary'
  BY <1>3, <1>5 DEF RunDomainService, ReplanningInv, HumanBoundary, EverDecided
<1>11. ImplementedWasExecuted'
  BY <1>6 DEF RunDomainService, ReplanningInv, ImplementedWasExecuted
<1>12. StatesRestOnDecisions' /\ ReplanRestsOnRecommendation'
  BY DEF RunDomainService, ReplanningInv, StatesRestOnDecisions,
     ReplanRestsOnRecommendation, EverDecided
<1> QED
  BY <1>1, <1>8, <1>9, <1>10, <1>11, <1>12 DEF ReplanningInv

LEMMA FinishKeepsInv ==
    ASSUME ReplanningInv, NEW s \in Session, FinishApply(s)
    PROVE  ReplanningInv'
<1>1. TypeOK'
  BY NextTypeOK DEF ReplanningInv, Next
<1>2. PICK who \in Rec : req[s].rec = who
  BY RequestKind DEF FinishApply, ReplanningInv, Applying
<1>3. EverDecided(who, "APPROVED")
  BY <1>2 DEF FinishApply, ReplanningInv, AppliesWereApproved
<1>4. ActionOf[who] # "REASSIGN_ASSET" => effects[who] > 0
  BY <1>2 DEF FinishApply, ReplanningInv, AppliesDidWork
<1>5. /\ recStatus'[who] = "APPLIED" /\ approvalState'[who] = "IMPLEMENTED"
      /\ \A r \in Rec : r # who => recStatus'[r] = recStatus[r]
                                   /\ approvalState'[r] = approvalState[r]
  BY <1>2 DEF FinishApply, ReplanningInv, TypeOK
<1>6. /\ executed' = [executed EXCEPT ![who] = executed[who] + 1]
      /\ executed \in [Rec -> Nat]
  BY <1>2 DEF FinishApply, ReplanningInv, TypeOK
<1>7. /\ executed'[who] > 0
      /\ \A r \in Rec : executed[r] > 0 => executed'[r] > 0
      /\ \A r \in Rec : r # who => executed'[r] = executed[r]
  BY <1>6
<1>8. req'[s].op = "idle" /\ \A t \in Session : t # s => req'[t] = req[t]
  BY DEF FinishApply, ReplanningInv, TypeOK
<1>9. AppliesWereApproved' /\ AppliesDidWork'
  BY <1>8 DEF FinishApply, ReplanningInv, AppliesWereApproved, AppliesDidWork,
     EverDecided
<1>10. HumanBoundary'
  BY <1>3, <1>7 DEF FinishApply, ReplanningInv, HumanBoundary, EverDecided
<1>11. StatesRestOnDecisions'
  BY <1>3, <1>5 DEF FinishApply, ReplanningInv, StatesRestOnDecisions, EverDecided
<1>12. ImplementedWasExecuted'
  BY <1>4, <1>5, <1>7 DEF FinishApply, ReplanningInv, ImplementedWasExecuted
<1>13. ReplanRestsOnRecommendation'
  <2> SUFFICES ASSUME NEW p \in Replan
      PROVE /\ \A d \in Decision : replan'[p] = d =>
                   \E r \in Rec : ReplanOf[r] = p /\ EverDecided(r, d)'
            /\ replan'[p] = "APPLIED" =>
                   \E r \in Rec : ReplanOf[r] = p /\ executed'[r] > 0
    BY DEF ReplanRestsOnRecommendation
  <2>1. \/ replan'[p] = replan[p]
        \/ p = ReplanOf[who] /\ replan'[p] = "APPLIED"
    <3>1. replan' = [replan EXCEPT ![ReplanOf[who]] = "APPLIED"]
      BY <1>2 DEF FinishApply, MarkReplan
    <3>2. replan \in [Replan -> ReplanStatus] /\ ReplanOf[who] \in Replan
      BY ReplanOfAssumption DEF ReplanningInv, TypeOK
    <3> QED BY <3>1, <3>2
  <2>2. \A r \in Rec, d \in Decision : EverDecided(r, d)' <=> EverDecided(r, d)
    BY DEF FinishApply, EverDecided
  <2>3. CASE replan'[p] = replan[p]
    BY <1>7, <2>2, <2>3 DEF ReplanningInv, ReplanRestsOnRecommendation
  <2>4. CASE p = ReplanOf[who] /\ replan'[p] = "APPLIED"
    BY <1>7, <2>4
  <2> QED BY <2>1, <2>3, <2>4
<1> QED
  BY <1>1, <1>9, <1>10, <1>11, <1>12, <1>13 DEF ReplanningInv

LEMMA FailKeepsInv ==
    ASSUME ReplanningInv, NEW s \in Session, FailApply(s)
    PROVE  ReplanningInv'
<1>1. TypeOK'
  BY NextTypeOK DEF ReplanningInv, Next
<1>2. PICK who \in Rec : req[s].rec = who
  BY RequestKind DEF FailApply, ReplanningInv, Applying
<1>3. EverDecided(who, "APPROVED")
  BY <1>2 DEF FailApply, ReplanningInv, AppliesWereApproved
<1>4. \A r \in Rec : \/ recStatus'[r] = recStatus[r]
                     \/ r = who /\ recStatus'[r] = "FAILED"
  BY <1>2 DEF FailApply, ReplanningInv, TypeOK
<1>5. PICK n \in {0, 1} : effects' = [effects EXCEPT ![who] = effects[who] + n]
  BY <1>2 DEF FailApply
<1>6. /\ \A r \in Rec : effects[r] > 0 => effects'[r] > 0
      /\ \A r \in Rec : r # who => effects'[r] = effects[r]
  BY <1>5 DEF ReplanningInv, TypeOK
<1>7. req'[s].op = "idle" /\ \A t \in Session : t # s => req'[t] = req[t]
  BY DEF FailApply, ReplanningInv, TypeOK
<1>8. AppliesWereApproved'
  BY <1>7 DEF FailApply, ReplanningInv, AppliesWereApproved, EverDecided
<1>9. AppliesDidWork'
  <2> SUFFICES ASSUME NEW t \in Session, req'[t].op = "apply",
                      ActionOf[req'[t].rec] # "REASSIGN_ASSET", req'[t].left = 0
               PROVE  effects'[req'[t].rec] > 0
    BY DEF AppliesDidWork
  <2>1. req'[t] = req[t]
    BY <1>7
  <2>2. req[t].rec \in Rec
    BY <2>1, RequestKind DEF ReplanningInv, Applying
  <2> QED BY <1>6, <2>1, <2>2 DEF ReplanningInv, AppliesDidWork
<1>10. HumanBoundary'
  BY <1>3, <1>6 DEF FailApply, ReplanningInv, HumanBoundary, EverDecided
<1>11. StatesRestOnDecisions'
  BY <1>3, <1>4 DEF FailApply, ReplanningInv, StatesRestOnDecisions, EverDecided
<1>12. ImplementedWasExecuted' /\ ReplanRestsOnRecommendation'
  BY <1>6 DEF FailApply, ReplanningInv, ImplementedWasExecuted,
     ReplanRestsOnRecommendation, EverDecided
<1> QED
  BY <1>1, <1>8, <1>9, <1>10, <1>11, <1>12 DEF ReplanningInv

LEMMA NextReplanningInv == ReplanningInv /\ [Next]_vars => ReplanningInv'
<1> SUFFICES ASSUME ReplanningInv, [Next]_vars PROVE ReplanningInv'
  OBVIOUS
<1>1. CASE UNCHANGED vars
  BY <1>1 DEF vars, ReplanningInv, TypeOK, AppliesWereApproved, AppliesDidWork,
     HumanBoundary, StatesRestOnDecisions, ImplementedWasExecuted,
     ReplanRestsOnRecommendation, EverDecided
<1>2. CASE Next
  BY <1>2, CreateKeepsInv, GenerateKeepsInv, RequestKeepsInv, DecideKeepsInv,
     BeginKeepsInv, DomainServiceKeepsInv, FinishKeepsInv, FailKeepsInv,
     AbortKeepsInv DEF Next
<1> QED BY <1>1, <1>2

(* The inductive invariant holds of every reachable state. *)
THEOREM ReplanningInvariant == Spec => []ReplanningInv
BY InitReplanningInv, NextReplanningInv, PTL DEF Spec

(* However many requests interleave, crash, fail or are retried, no domain   *)
(* record changes for a recommendation no operator approved                  *)
(* (ApprovalService.apply).                                                  *)
THEOREM HumanControl == Spec => []HumanBoundary
BY ReplanningInvariant, PTL DEF ReplanningInv

(* The status shown for a recommendation rests on recorded decisions         *)
(* (ApprovalService.decide).                                                 *)
THEOREM StatusesAreEarned == Spec => []StatesRestOnDecisions
BY ReplanningInvariant, PTL DEF ReplanningInv

(* IMPLEMENTED is shown only of what an application has completed, with the  *)
(* domain commits its action makes (ApprovalService.apply).                  *)
THEOREM ImplementedIsEarned == Spec => []ImplementedWasExecuted
BY ReplanningInvariant, PTL DEF ReplanningInv

(* The status of a replan is that of one of its recommendations, whichever   *)
(* of them wrote it last (decide, apply).                                    *)
THEOREM ReplanIsEarned == Spec => []ReplanRestsOnRecommendation
BY ReplanningInvariant, PTL DEF ReplanningInv

-----------------------------------------------------------------------------
(* Refinement: each step of the replanning cycle is a step of the abstract   *)
(* control boundary or leaves its two sets alone.                            *)
Authorized == {r \in Rec : EverDecided(r, "APPROVED")}
Changed    == {r \in Rec : effects[r] > 0}

LEMMA InitBoundary == Init => Boundary!Init
BY DEF Init, Boundary!Init, EverDecided

LEMMA OnlyDecideAuthorizes ==
    ASSUME ReplanningInv, NEW s \in Session, Decide(s)
    PROVE  [Boundary!Next]_(Boundary!vars)
<1>1. req[s] \in Deciding
  BY RequestKind DEF ReplanningInv, Decide
<1>2. PICK who \in Rec, what \in Decision : req[s].rec = who /\ req[s].decision = what
  BY <1>1 DEF Deciding
<1>3. Changed' = Changed
  BY DEF Decide, Changed
<1>4. CASE what = "APPROVED"
  <2>1. PICK a : approvals' = approvals \cup {a} /\ a.rec = who /\ a.decision = what
    BY <1>2, DecideAddsRecord
  <2>2. \A r \in Rec : EverDecided(r, "APPROVED")' <=>
                         EverDecided(r, "APPROVED") \/ r = who
    BY <1>4, <2>1 DEF EverDecided
  <2>3. Authorized' = Authorized \cup {who}
    BY <2>2 DEF Authorized
  <2> QED BY <1>3, <2>3 DEF Boundary!Next, Boundary!Authorize, Authorized, Changed
<1>5. CASE what # "APPROVED"
  <2>1. PICK a : approvals' = approvals \cup {a} /\ a.rec = who /\ a.decision = what
    BY <1>2, DecideAddsRecord
  <2>2. \A r \in Rec : EverDecided(r, "APPROVED")' <=> EverDecided(r, "APPROVED")
    BY <1>5, <2>1 DEF EverDecided
  <2>3. Authorized' = Authorized
    BY <2>2 DEF Authorized
  <2> QED BY <1>3, <2>3 DEF Boundary!vars, Authorized, Changed
<1> QED BY <1>4, <1>5

(* A step that changes the records of at most one recommendation, an         *)
(* approved one, is a Change step or a stutter.                              *)
LEMMA EffectsAreAuthorized ==
    ASSUME ReplanningInv, NEW who \in Rec, NEW n \in Nat,
           EverDecided(who, "APPROVED"),
           effects' = [effects EXCEPT ![who] = effects[who] + n],
           approvals' = approvals
    PROVE  [Boundary!Next]_(Boundary!vars)
<1>1. Authorized' = Authorized /\ who \in Authorized
  BY DEF Authorized, EverDecided
<1>2. CASE n = 0
  <2>1. Changed' = Changed
    BY <1>2 DEF Changed, ReplanningInv, TypeOK
  <2> QED BY <1>1, <2>1 DEF Boundary!vars, Authorized, Changed
<1>3. CASE n # 0
  <2>1. Changed' = Changed \cup {who}
    BY <1>3 DEF Changed, ReplanningInv, TypeOK
  <2> QED BY <1>1, <2>1 DEF Boundary!Next, Boundary!Change, Authorized, Changed
<1> QED BY <1>2, <1>3

LEMMA NextBoundary ==
    ReplanningInv /\ [Next]_vars => [Boundary!Next]_(Boundary!vars)
<1> SUFFICES ASSUME ReplanningInv, [Next]_vars
             PROVE  [Boundary!Next]_(Boundary!vars)
  OBVIOUS
<1>1. CASE UNCHANGED <<approvals, effects>>
  BY <1>1 DEF Boundary!vars, EverDecided
<1>2. ASSUME NEW s \in Session, Decide(s)
      PROVE  [Boundary!Next]_(Boundary!vars)
  BY <1>2, OnlyDecideAuthorizes
<1>3. ASSUME NEW s \in Session, RunDomainService(s)
      PROVE  [Boundary!Next]_(Boundary!vars)
  <2>1. PICK who \in Rec : req[s].rec = who
    BY <1>3, RequestKind DEF RunDomainService, ReplanningInv, Applying
  <2>2. EverDecided(who, "APPROVED")
    BY <1>3, <2>1 DEF RunDomainService, ReplanningInv, AppliesWereApproved
  <2> QED BY <1>3, <2>1, <2>2, EffectsAreAuthorized DEF RunDomainService
<1>4. ASSUME NEW s \in Session, FailApply(s)
      PROVE  [Boundary!Next]_(Boundary!vars)
  <2>1. PICK who \in Rec : req[s].rec = who
    BY <1>4, RequestKind DEF FailApply, ReplanningInv, Applying
  <2>2. EverDecided(who, "APPROVED")
    BY <1>4, <2>1 DEF FailApply, ReplanningInv, AppliesWereApproved
  <2>3. PICK n \in {0, 1} : effects' = [effects EXCEPT ![who] = effects[who] + n]
    BY <1>4, <2>1 DEF FailApply
  <2> QED BY <1>4, <2>2, <2>3, EffectsAreAuthorized DEF FailApply
<1> QED
  BY <1>1, <1>2, <1>3, <1>4 DEF Next, vars, CreateReplanRequest, GenerateOptions,
     RequestApproval, BeginApply, FinishApply, AbortRequest

(* The replanning cycle implements the abstract control boundary. *)
THEOREM BoundaryImplemented == Spec => ImplementsBoundary
BY ReplanningInvariant, InitBoundary, NextBoundary, PTL
   DEF Spec, ImplementsBoundary, Boundary!Spec

-----------------------------------------------------------------------------
(* How often an approved change is executed. *)

Records(kept, r) == {a \in kept : a.rec = r}

Appliers(requests, r) == {s \in Session : requests[s].op = "apply" /\ requests[s].rec = r}

(* The approval records of a recommendation are numbered apart, those about  *)
(* to be decided included.                                                   *)
Numbered ==
    /\ \A a \in approvals : a.at <= issued[a.rec]
    /\ \A a, b \in approvals : a.rec = b.rec /\ a.at = b.at => a = b
    /\ \A s \in Session : req[s].op = "decide" =>
          /\ req[s].at <= issued[req[s].rec]
          /\ \A a \in approvals : a.rec = req[s].rec => a.at # req[s].at
          /\ \A t \in Session : t # s /\ req[t].op = "decide" /\ req[t].rec = req[s].rec =>
                req[t].at # req[s].at

(* Once one application is complete no other begins until the next decision: *)
(* those in flight are at most one for each session.                         *)
Spent ==
    \A r \in Rec :
        LET done   == executed[r]
            budget == Cardinality(Session) * Cardinality(Records(approvals, r))
        IN  /\ IsFiniteSet(Records(approvals, r))
            /\ approvalState[r] = "IMPLEMENTED" =>
                  done + Cardinality(Appliers(req, r)) <= budget
            /\ approvalState[r] # "IMPLEMENTED" =>
                  done = 0 \/ done + Cardinality(Session) <= budget

(* The inductive invariant behind the bound on executions. *)
SpendingInv ==
    /\ ReplanningInv
    /\ Numbered
    /\ Spent

LEMMA InitSpendingInv == Init => SpendingInv
<1> SUFFICES ASSUME Init PROVE SpendingInv
  OBVIOUS
<1>1. Numbered
  BY DEF Init, Numbered
<1>2. Spent
  <2> SUFFICES ASSUME NEW r \in Rec
               PROVE  /\ IsFiniteSet(Records(approvals, r))
                      /\ approvalState[r] # "IMPLEMENTED" /\ executed[r] = 0
    BY DEF Spent
  <2>1. Records(approvals, r) = {}
    BY DEF Init, Records
  <2> QED BY <2>1, FS_EmptySet DEF Init
<1> QED BY <1>1, <1>2, InitReplanningInv DEF SpendingInv

(* The sizes the budget is made of. *)
LEMMA Sizes ==
    ASSUME Spent, NEW r \in Rec
    PROVE  /\ Cardinality(Session) \in Nat
           /\ Cardinality(Records(approvals, r)) \in Nat
           /\ Cardinality(Session) * Cardinality(Records(approvals, r)) \in Nat
<1>1. Cardinality(Session) \in Nat
  BY SessionAssumption, FS_CardinalityType
<1>2. IsFiniteSet(Records(approvals, r))
  BY DEF Spent
<1>3. Cardinality(Records(approvals, r)) \in Nat
  BY <1>2, FS_CardinalityType
<1> QED BY <1>1, <1>3

LEMMA ApplierCount ==
    ASSUME NEW requests, NEW r
    PROVE  /\ IsFiniteSet(Appliers(requests, r))
           /\ Cardinality(Appliers(requests, r)) \in Nat
           /\ Cardinality(Appliers(requests, r)) <= Cardinality(Session)
<1>1. Appliers(requests, r) \subseteq Session
  BY DEF Appliers
<1>2. /\ IsFiniteSet(Appliers(requests, r))
      /\ Cardinality(Appliers(requests, r)) <= Cardinality(Session)
  BY <1>1, SessionAssumption, FS_Subset
<1> QED BY <1>2, FS_CardinalityType

(* A step that decides nothing keeps the numbering. *)
LEMMA QuietNumbering ==
    ASSUME Numbered, UNCHANGED <<approvals, issued>>,
           \A s \in Session : req'[s].op = "decide" => req'[s] = req[s]
    PROVE  Numbered'
BY DEF Numbered

(* A step that completes nothing and begins nothing for what is implemented. *)
LEMMA QuietSpending ==
    ASSUME Spent, TypeOK, UNCHANGED <<approvals, approvalState, executed>>,
           \A r \in Rec : approvalState[r] = "IMPLEMENTED" =>
               Appliers(req', r) \subseteq Appliers(req, r)
    PROVE  Spent'
<1>1. ASSUME NEW r \in Rec, approvalState[r] = "IMPLEMENTED"
      PROVE  executed[r] + Cardinality(Appliers(req', r))
                <= Cardinality(Session) * Cardinality(Records(approvals, r))
  <2>1. executed[r] + Cardinality(Appliers(req, r))
           <= Cardinality(Session) * Cardinality(Records(approvals, r))
    BY <1>1 DEF Spent
  <2>2. Cardinality(Appliers(req', r)) <= Cardinality(Appliers(req, r))
    BY <1>1, ApplierCount, FS_Subset
  <2>3. executed[r] \in Nat
    BY DEF TypeOK
  <2> QED BY <2>1, <2>2, <2>3, ApplierCount, Sizes
<1> QED BY <1>1 DEF Spent

LEMMA RequestSpends ==
    ASSUME SpendingInv, NEW s \in Session, NEW r \in Rec, NEW d \in Decision,
           RequestApproval(s, r, d)
    PROVE  Numbered' /\ Spent'
<1> DEFINE q == [op |-> "decide", rec |-> r, at |-> issued[r] + 1, decision |-> d,
                 seen |-> recStatus[r]]
<1>1. /\ issued' = [issued EXCEPT ![r] = @ + 1] /\ req' = [req EXCEPT ![s] = q]
      /\ UNCHANGED <<approvals, approvalState, executed>>
  BY DEF RequestApproval
<1>2. TypeOK /\ Numbered /\ Spent
  BY DEF SpendingInv, ReplanningInv
<1>3. /\ req'[s] = q /\ \A t \in Session : t # s => req'[t] = req[t]
  BY <1>1, <1>2 DEF TypeOK
<1>4. q.op = "decide" /\ q.rec = r /\ q.at = issued[r] + 1
  OBVIOUS
<1> HIDE DEF q
<1>5. /\ issued \in [Rec -> Nat] /\ issued'[r] = issued[r] + 1
      /\ \A x \in Rec : x # r => issued'[x] = issued[x]
  BY <1>1, <1>2 DEF TypeOK
<1>6. \A x \in Rec : issued[x] <= issued'[x] /\ issued[x] \in Nat /\ issued'[x] \in Nat
  BY <1>5
<1>7. /\ \A a \in approvals : a.rec \in Rec /\ a.at \in Nat
      /\ \A t \in Session : req[t].op = "decide" => req[t].rec \in Rec /\ req[t].at \in Nat
  BY <1>2, RequestKind DEF TypeOK, Approval, Deciding
<1>8. \A a \in approvals' : a.at <= issued'[a.rec]
  BY <1>1, <1>2, <1>6, <1>7 DEF Numbered
<1>9. ASSUME NEW t \in Session, req'[t].op = "decide"
      PROVE  /\ req'[t].at <= issued'[req'[t].rec]
             /\ \A a \in approvals : a.rec = req'[t].rec => a.at # req'[t].at
             /\ \A u \in Session : u # t /\ req'[u].op = "decide" /\ req'[u].rec = req'[t].rec =>
                   req'[u].at # req'[t].at
  <2>1. \A a \in approvals : a.rec = r => a.at # issued[r] + 1
    BY <1>2, <1>6, <1>7 DEF Numbered
  <2>2. \A u \in Session : req[u].op = "decide" /\ req[u].rec = r => req[u].at # issued[r] + 1
    BY <1>2, <1>6, <1>7 DEF Numbered
  <2>3. CASE t = s
    BY <1>3, <1>4, <1>5, <2>1, <2>2, <2>3
  <2>4. CASE t # s
    <3>1. req'[t] = req[t] /\ req[t].op = "decide"
      BY <1>3, <1>9, <2>4
    <3>2. req'[t].at <= issued'[req'[t].rec]
      BY <1>2, <1>6, <1>7, <3>1 DEF Numbered
    <3>3. \A a \in approvals : a.rec = req'[t].rec => a.at # req'[t].at
      BY <1>2, <3>1 DEF Numbered
    <3>4. ASSUME NEW u \in Session, u # t, req'[u].op = "decide", req'[u].rec = req'[t].rec
          PROVE  req'[u].at # req'[t].at
      BY <1>2, <1>3, <1>4, <2>2, <3>1, <3>4 DEF Numbered
    <3> QED BY <3>2, <3>3, <3>4
  <2> QED BY <2>3, <2>4
<1>10. Numbered'
  BY <1>1, <1>2, <1>8, <1>9 DEF Numbered
<1>11. \A x \in Rec : Appliers(req', x) \subseteq Appliers(req, x)
  BY <1>3, <1>4 DEF Appliers
<1> QED BY <1>1, <1>2, <1>10, <1>11, QuietSpending

LEMMA DecideSpends ==
    ASSUME SpendingInv, NEW s \in Session, Decide(s)
    PROVE  Numbered' /\ Spent'
<1> DEFINE q == req[s]
           new == [rec |-> q.rec, at |-> q.at, decision |-> q.decision]
<1>1. /\ q.op = "decide" /\ approvals' = approvals \cup {new}
      /\ approvalState' = [approvalState EXCEPT ![q.rec] = q.decision]
      /\ req' = [req EXCEPT ![s] = Idle]
      /\ UNCHANGED <<issued, executed>>
  BY DEF Decide
<1>2. TypeOK /\ Numbered /\ Spent
  BY DEF SpendingInv, ReplanningInv
<1>3. q \in Deciding
  BY <1>1, <1>2, RequestKind
<1>4. q.rec \in Rec /\ q.at \in Nat /\ q.decision \in Decision
  BY <1>3 DEF Deciding
<1>5. new.rec = q.rec /\ new.at = q.at
  OBVIOUS
<1> HIDE DEF new
<1>6. req'[s].op = "idle" /\ \A t \in Session : t # s => req'[t] = req[t]
  BY <1>1, <1>2 DEF TypeOK
<1>7. Numbered'
  <2>1. \A a \in approvals' : a.at <= issued'[a.rec]
    BY <1>1, <1>2, <1>5 DEF Numbered
  <2>2. \A a \in approvals : ~(a.rec = new.rec /\ a.at = new.at)
    BY <1>1, <1>2, <1>5 DEF Numbered
  <2>3. \A a, b \in approvals' : a.rec = b.rec /\ a.at = b.at => a = b
    BY <1>1, <1>2, <2>2 DEF Numbered
  <2>4. ASSUME NEW t \in Session, req'[t].op = "decide"
        PROVE  /\ req'[t].at <= issued'[req'[t].rec]
               /\ \A a \in approvals' : a.rec = req'[t].rec => a.at # req'[t].at
               /\ \A u \in Session : u # t /\ req'[u].op = "decide" /\ req'[u].rec = req'[t].rec =>
                     req'[u].at # req'[t].at
    <3>1. t # s /\ req'[t] = req[t]
      BY <1>6, <2>4
    <3>2. req'[t].at <= issued'[req'[t].rec]
      BY <1>1, <1>2, <2>4, <3>1 DEF Numbered
    <3>3. \A a \in approvals' : a.rec = req'[t].rec => a.at # req'[t].at
      BY <1>1, <1>2, <1>5, <2>4, <3>1 DEF Numbered
    <3>4. \A u \in Session : u # t /\ req'[u].op = "decide" /\ req'[u].rec = req'[t].rec =>
             req'[u].at # req'[t].at
      BY <1>2, <1>6, <2>4, <3>1 DEF Numbered
    <3> QED BY <3>2, <3>3, <3>4
  <2> QED BY <2>1, <2>3, <2>4 DEF Numbered
<1>8. ASSUME NEW r \in Rec
      PROVE  /\ IsFiniteSet(Records(approvals', r))
             /\ approvalState'[r] = "IMPLEMENTED" =>
                   executed'[r] + Cardinality(Appliers(req', r))
                      <= Cardinality(Session) * Cardinality(Records(approvals', r))
             /\ approvalState'[r] # "IMPLEMENTED" =>
                   \/ executed'[r] = 0
                   \/ executed'[r] + Cardinality(Session)
                         <= Cardinality(Session) * Cardinality(Records(approvals', r))
  <2>1. Appliers(req', r) = Appliers(req, r)
    BY <1>1, <1>6 DEF Appliers
  <2>2. CASE r # q.rec
    <3>1. Records(approvals', r) = Records(approvals, r)
      BY <1>1, <1>5, <2>2 DEF Records
    <3>2. approvalState'[r] = approvalState[r]
      BY <1>1, <1>2, <1>4, <2>2 DEF TypeOK
    <3> QED BY <1>1, <1>2, <2>1, <3>1, <3>2 DEF Spent
  <2>3. CASE r = q.rec
    <3> DEFINE old == Records(approvals, r)
    <3>1. Records(approvals', r) = old \cup {new}
      BY <1>1, <1>5, <2>3 DEF Records
    <3>2. new \notin old
      BY <1>1, <1>2, <1>5 DEF Records, Numbered
    <3>3. IsFiniteSet(old)
      BY <1>2 DEF Spent
    <3> HIDE DEF old
    <3>4. IsFiniteSet(old \cup {new}) /\ Cardinality(old \cup {new}) = Cardinality(old) + 1
      BY <3>2, <3>3, FS_AddElement
    <3>5. approvalState'[r] # "IMPLEMENTED"
      BY <1>1, <1>2, <1>4, <2>3 DEF TypeOK
    <3>6. /\ Cardinality(Session) \in Nat /\ Cardinality(old) \in Nat /\ executed[r] \in Nat
          /\ Cardinality(Appliers(req, r)) \in Nat
          /\ Cardinality(Session) * Cardinality(old) \in Nat
      BY <1>2, Sizes, ApplierCount DEF TypeOK, old
    <3>7. executed[r] <= Cardinality(Session) * Cardinality(old)
      <4>1. CASE approvalState[r] = "IMPLEMENTED"
        <5>1. executed[r] + Cardinality(Appliers(req, r)) <= Cardinality(Session) * Cardinality(old)
          BY <1>2, <4>1 DEF Spent, old
        <5> QED BY <3>6, <5>1
      <4>2. CASE approvalState[r] # "IMPLEMENTED"
        <5>1. \/ executed[r] = 0
              \/ executed[r] + Cardinality(Session) <= Cardinality(Session) * Cardinality(old)
          BY <1>2, <4>2 DEF Spent, old
        <5> QED BY <3>6, <5>1
      <4> QED BY <4>1, <4>2
    <3>8. Cardinality(Session) * (Cardinality(old) + 1)
             = Cardinality(Session) * Cardinality(old) + Cardinality(Session)
      BY <3>6
    <3>9. Cardinality(Records(approvals', r)) = Cardinality(old) + 1 /\ executed'[r] = executed[r]
      BY <1>1, <3>1, <3>4
    <3>10. executed[r] + Cardinality(Session) <= Cardinality(Session) * (Cardinality(old) + 1)
      <4> DEFINE before == Cardinality(Session) * Cardinality(old)
      <4>1. before \in Nat /\ executed[r] <= before
        BY <3>6, <3>7
      <4> HIDE DEF before
      <4>2. executed[r] + Cardinality(Session) <= before + Cardinality(Session)
        BY <3>6, <4>1
      <4> QED BY <3>8, <4>2 DEF before
    <3>11. executed'[r] + Cardinality(Session)
             <= Cardinality(Session) * Cardinality(Records(approvals', r))
      BY <3>9, <3>10
    <3> QED BY <3>1, <3>4, <3>5, <3>11
  <2> QED BY <2>2, <2>3
<1> QED BY <1>7, <1>8 DEF Spent

LEMMA BeginSpends ==
    ASSUME SpendingInv, NEW s \in Session, NEW r \in Rec, BeginApply(s, r)
    PROVE  Numbered' /\ Spent'
<1>1. TypeOK /\ Numbered /\ Spent
  BY DEF SpendingInv, ReplanningInv
<1>2. UNCHANGED <<approvals, issued, approvalState, executed>>
  BY DEF BeginApply
<1>3. PICK n : req' = [req EXCEPT ![s] = [op |-> "apply", rec |-> r, left |-> n,
                                          committed |-> FALSE, seen |-> recStatus[r]]]
  BY DEF BeginApply
<1>4. /\ req'[s].op = "apply" /\ req'[s].rec = r
      /\ \A t \in Session : t # s => req'[t] = req[t]
  BY <1>1, <1>3 DEF TypeOK
<1>5. approvalState[r] # "IMPLEMENTED"
  BY DEF BeginApply, AlreadyApplied
<1>6. \A x \in Rec : approvalState[x] = "IMPLEMENTED" => Appliers(req', x) \subseteq Appliers(req, x)
  BY <1>4, <1>5 DEF Appliers
<1>7. Numbered'
  BY <1>1, <1>2, <1>4, QuietNumbering
<1> QED BY <1>1, <1>2, <1>6, <1>7, QuietSpending

LEMMA FinishSpends ==
    ASSUME SpendingInv, NEW s \in Session, FinishApply(s)
    PROVE  Numbered' /\ Spent'
<1> DEFINE r == req[s].rec
<1>1. /\ req[s].op = "apply" /\ req' = [req EXCEPT ![s] = Idle]
      /\ approvalState' = [approvalState EXCEPT ![r] = "IMPLEMENTED"]
      /\ executed' = [executed EXCEPT ![r] = @ + 1]
      /\ UNCHANGED <<approvals, issued>>
  BY DEF FinishApply
<1>2. TypeOK /\ Numbered /\ Spent /\ AppliesWereApproved
  BY DEF SpendingInv, ReplanningInv
<1>3. r \in Rec
  BY <1>1, <1>2, RequestKind DEF Applying
<1>4. req'[s].op = "idle" /\ \A t \in Session : t # s => req'[t] = req[t]
  BY <1>1, <1>2 DEF TypeOK
<1>5. Numbered'
  BY <1>1, <1>2, <1>4, QuietNumbering
<1>6. ASSUME NEW x \in Rec
      PROVE  /\ IsFiniteSet(Records(approvals, x))
             /\ approvalState'[x] = "IMPLEMENTED" =>
                   executed'[x] + Cardinality(Appliers(req', x))
                      <= Cardinality(Session) * Cardinality(Records(approvals, x))
             /\ approvalState'[x] # "IMPLEMENTED" =>
                   \/ executed'[x] = 0
                   \/ executed'[x] + Cardinality(Session)
                         <= Cardinality(Session) * Cardinality(Records(approvals, x))
  <2>1. CASE x # r
    <3>1. approvalState'[x] = approvalState[x] /\ executed'[x] = executed[x]
      BY <1>1, <1>2, <1>3, <2>1 DEF TypeOK
    <3>2. Appliers(req', x) = Appliers(req, x)
      BY <1>1, <1>4, <2>1 DEF Appliers
    <3> QED BY <1>2, <3>1, <3>2 DEF Spent
  <2>2. CASE x = r
    <3> DEFINE budget == Cardinality(Session) * Cardinality(Records(approvals, x))
    <3>1. approvalState'[x] = "IMPLEMENTED" /\ executed'[x] = executed[x] + 1
      BY <1>1, <1>2, <1>3, <2>2 DEF TypeOK
    <3>2. s \in Appliers(req, x) /\ Appliers(req', x) = Appliers(req, x) \ {s}
      BY <1>1, <1>4, <2>2 DEF Appliers
    <3>3. Cardinality(Appliers(req', x)) = Cardinality(Appliers(req, x)) - 1
      BY <3>2, ApplierCount, FS_RemoveElement
    <3>4. /\ Cardinality(Session) \in Nat /\ budget \in Nat /\ executed[x] \in Nat
          /\ Cardinality(Appliers(req, x)) \in Nat
          /\ Cardinality(Appliers(req, x)) <= Cardinality(Session)
      BY <1>2, Sizes, ApplierCount DEF TypeOK
    <3>5. Cardinality(Session) <= budget
      <4>1. Records(approvals, x) # {}
        <5>1. EverDecided(x, "APPROVED")
          BY <1>1, <1>2, <2>2 DEF AppliesWereApproved
        <5> QED BY <5>1 DEF EverDecided, Records
      <4>2. IsFiniteSet(Records(approvals, x))
        BY <1>2 DEF Spent
      <4>3. Cardinality(Records(approvals, x)) \in Nat /\ Cardinality(Records(approvals, x)) # 0
        BY <4>1, <4>2, FS_EmptySet, FS_CardinalityType
      <4> QED BY <3>4, <4>3
    <3>6. executed[x] + Cardinality(Appliers(req, x)) <= budget
      <4>1. CASE approvalState[x] = "IMPLEMENTED"
        BY <1>2, <4>1 DEF Spent
      <4>2. CASE approvalState[x] # "IMPLEMENTED"
        <5>1. executed[x] = 0 \/ executed[x] + Cardinality(Session) <= budget
          BY <1>2, <4>2 DEF Spent
        <5> HIDE DEF budget
        <5> QED BY <3>4, <3>5, <5>1
      <4> QED BY <4>1, <4>2
    <3> HIDE DEF budget
    <3>7. executed'[x] + Cardinality(Appliers(req', x)) <= budget
      BY <3>1, <3>3, <3>4, <3>6
    <3> QED BY <1>2, <3>1, <3>7 DEF Spent, budget
  <2> QED BY <2>1, <2>2
<1> QED BY <1>1, <1>5, <1>6 DEF Spent

(* The remaining steps of a request end it or carry it on. *)
LEMMA OtherStepsSpend ==
    ASSUME SpendingInv, NEW s \in Session,
           RunDomainService(s) \/ FailApply(s) \/ AbortRequest(s)
    PROVE  Numbered' /\ Spent'
<1>1. TypeOK /\ Numbered /\ Spent
  BY DEF SpendingInv, ReplanningInv
<1>2. UNCHANGED <<approvals, issued, approvalState, executed>>
  BY DEF RunDomainService, FailApply, AbortRequest
<1>3. \A t \in Session : t # s => req'[t] = req[t]
  BY <1>1 DEF RunDomainService, FailApply, AbortRequest, TypeOK
<1>4. \/ req'[s].op = "idle"
      \/ req'[s].op = "apply" /\ req[s].op = "apply" /\ req'[s].rec = req[s].rec
  BY <1>1 DEF RunDomainService, FailApply, AbortRequest, TypeOK
<1>5. Numbered'
  BY <1>1, <1>2, <1>3, <1>4, QuietNumbering
<1>6. \A x \in Rec : Appliers(req', x) \subseteq Appliers(req, x)
  BY <1>3, <1>4 DEF Appliers
<1> QED BY <1>1, <1>2, <1>5, <1>6, QuietSpending

LEMMA NextSpendingInv ==
    ASSUME SpendingInv, [Next]_vars
    PROVE  SpendingInv'
<1>1. ReplanningInv'
  BY NextReplanningInv DEF SpendingInv
<1>2. TypeOK /\ Numbered /\ Spent
  BY DEF SpendingInv, ReplanningInv
<1>3. ASSUME NEW p \in Replan, CreateReplanRequest(p) \/ GenerateOptions(p)
      PROVE  Numbered' /\ Spent'
  <2>1. UNCHANGED <<approvals, issued, approvalState, executed, req>>
    BY <1>3 DEF CreateReplanRequest, GenerateOptions
  <2> QED BY <1>2, <2>1, QuietNumbering, QuietSpending
<1>4. ASSUME UNCHANGED vars
      PROVE  Numbered' /\ Spent'
  <2>1. UNCHANGED <<approvals, issued, approvalState, executed, req>>
    BY <1>4 DEF vars
  <2> QED BY <1>2, <2>1, QuietNumbering, QuietSpending
<1>5. Numbered' /\ Spent'
  BY <1>3, <1>4, RequestSpends, DecideSpends, BeginSpends, FinishSpends, OtherStepsSpend DEF Next
<1> QED BY <1>1, <1>5 DEF SpendingInv

(* The inductive invariant behind the bound. *)
THEOREM SpendingInvariant == Spec => []SpendingInv
<1>1. SpendingInv /\ [Next]_vars => SpendingInv'
  BY NextSpendingInv
<1> QED BY <1>1, InitSpendingInv, PTL DEF Spec

(* apply checks that a recommendation is not applied yet, and only a decision *)
(* resets what the check looks at: each decision pays for one application per *)
(* worker at most, however retries, clicks and crashes interleave.            *)
THEOREM ExecutionsArePaidFor == Spec => []ExecutionsBounded
<1>1. SpendingInv => ExecutionsBounded
  <2> SUFFICES ASSUME SpendingInv, NEW r \in Rec
               PROVE  executed[r] <= Cardinality(Session) * Cardinality(Records(approvals, r))
    BY DEF ExecutionsBounded, Records
  <2> DEFINE budget == Cardinality(Session) * Cardinality(Records(approvals, r))
  <2>1. Spent /\ TypeOK
    BY DEF SpendingInv, ReplanningInv
  <2>2. /\ executed[r] \in Nat /\ budget \in Nat /\ Cardinality(Session) \in Nat
        /\ Cardinality(Appliers(req, r)) \in Nat
    BY <2>1, Sizes, ApplierCount DEF TypeOK
  <2>3. \/ executed[r] = 0
        \/ executed[r] + Cardinality(Session) <= budget
        \/ executed[r] + Cardinality(Appliers(req, r)) <= budget
    BY <2>1 DEF Spent
  <2> HIDE DEF budget
  <2>4. executed[r] <= budget
    BY <2>2, <2>3
  <2> QED BY <2>4 DEF budget
<1> QED BY <1>1, SpendingInvariant, PTL

-----------------------------------------------------------------------------
(* What holds as long as requests come one at a time. *)

(* At most one of the requests is being served. *)
Alone(requests) == \A s, t \in Session : requests[s] # Idle /\ requests[t] # Idle => s = t

(* The approval records of r that approve it. *)
Approving(kept, r) == {a \in kept : a.rec = r /\ a.decision = "APPROVED"}

(* d is how the most recent of the records kept for r was decided. *)
Latest(kept, r, d) ==
    \E a \in kept :
        a.rec = r /\ a.decision = d /\ \A b \in kept : b.rec = r => b.at <= a.at

(* A decision under way has the last record created, and an application under *)
(* way is of what is shown as approved.                                       *)
Carried ==
    \A s \in Session :
        /\ req[s].op = "decide" => req[s].at = issued[req[s].rec]
        /\ req[s].op = "apply" => approvalState[req[s].rec] = "APPROVED"

(* What a recommendation shows is its latest decision, or that it has none. *)
Shown ==
    \A r \in Rec :
        /\ approvalState[r] \in Decision => Latest(approvals, r, approvalState[r])
        /\ approvalState[r] = "PROPOSED" => Records(approvals, r) = {}

(* An approval shown is still to be spent. *)
Unspent ==
    \A r \in Rec :
        executed[r] + (IF approvalState[r] = "APPROVED" THEN 1 ELSE 0)
           <= Cardinality(Approving(approvals, r))

OneAtATime == Alone(req) /\ Carried /\ Shown /\ Unspent

(* The inductive invariant of the replanning cycle with its history. *)
HistoryInv ==
    /\ SpendingInv
    /\ overlapped \in BOOLEAN
    /\ ~overlapped => OneAtATime

LEMMA LatestIsLatest ==
    \A r, d : LatestDecisionIs(r, d) <=> Latest(approvals, r, d)
BY DEF LatestDecisionIs, Latest

LEMMA ApprovingCount ==
    ASSUME Spent, NEW r \in Rec
    PROVE  /\ IsFiniteSet(Approving(approvals, r))
           /\ Cardinality(Approving(approvals, r)) \in Nat
<1>1. IsFiniteSet(Records(approvals, r))
  BY DEF Spent
<1>2. Approving(approvals, r) \subseteq Records(approvals, r)
  BY DEF Approving, Records
<1>3. IsFiniteSet(Approving(approvals, r))
  BY <1>1, <1>2, FS_Subset
<1> QED BY <1>3, FS_CardinalityType

(* Requests that Observe does not count as overlapping are at most one. *)
LEMMA FewerThanTwo ==
    ASSUME NEW requests, ~(Cardinality({s \in Session : requests[s] # Idle}) > 1)
    PROVE  Alone(requests)
<1> DEFINE busy == {s \in Session : requests[s] # Idle}
<1> SUFFICES ASSUME NEW x \in busy, NEW y \in busy, x # y PROVE FALSE
  BY DEF Alone
<1>1. IsFiniteSet(busy)
  BY SessionAssumption, FS_Subset
<1>2. ~(Cardinality(busy) > 1)
  OBVIOUS
<1>3. ({x} \cup {y}) \in SUBSET busy
  OBVIOUS
<1> HIDE DEF busy
<1>4. IsFiniteSet({x}) /\ Cardinality({x}) = 1
  BY FS_Singleton
<1>5. Cardinality({x} \cup {y}) = 2 /\ IsFiniteSet({x} \cup {y})
  BY <1>4, FS_AddElement
<1>6. Cardinality({x} \cup {y}) <= Cardinality(busy)
  BY <1>1, <1>3, FS_Subset
<1>7. Cardinality(busy) \in Nat
  BY <1>1, FS_CardinalityType
<1> QED BY <1>2, <1>5, <1>6, <1>7

(* The history adds nothing to what the requests may do. *)
LEMMA HistorySteps ==
    ASSUME [HistoryNext]_historyVars
    PROVE  /\ [Next]_vars
           /\ Observe \/ UNCHANGED historyVars
BY DEF HistoryNext, Next, historyVars

(* A request that does not write to what is shown carries on alone. *)
LEMMA QuietOneAtATime ==
    ASSUME Carried, Shown, Unspent,
           UNCHANGED <<approvals, issued, approvalState, executed>>,
           \A s \in Session : \/ req'[s] = req[s]
                              \/ req'[s].op = "idle"
                              \/ req[s].op = "apply" /\ req'[s].op = "apply"
                                 /\ req'[s].rec = req[s].rec
    PROVE  Carried' /\ Shown' /\ Unspent'
<1>1. Carried'
  BY DEF Carried
<1>2. Shown'
  BY DEF Shown
<1>3. Unspent'
  BY DEF Unspent
<1> QED BY <1>1, <1>2, <1>3

LEMMA RequestAlone ==
    ASSUME TypeOK, Alone(req'), Carried, Shown, Unspent,
           NEW s \in Session, NEW r \in Rec, NEW d \in Decision, RequestApproval(s, r, d)
    PROVE  Carried' /\ Shown' /\ Unspent'
<1>1. /\ UNCHANGED <<approvals, approvalState, executed>>
      /\ issued' = [issued EXCEPT ![r] = issued[r] + 1]
      /\ req' = [req EXCEPT ![s] = [op |-> "decide", rec |-> r, at |-> issued[r] + 1,
                                    decision |-> d, seen |-> recStatus[r]]]
  BY DEF RequestApproval
<1>2. /\ req'[s].op = "decide" /\ req'[s].rec = r /\ req'[s].at = issued[r] + 1
      /\ issued'[r] = issued[r] + 1
  BY <1>1 DEF TypeOK
<1>3. \A t \in Session : t # s => req'[t] = Idle
  BY <1>2 DEF Alone
<1>4. Carried'
  BY <1>2, <1>3 DEF Carried
<1>5. Shown'
  BY <1>1 DEF Shown
<1>6. Unspent'
  BY <1>1 DEF Unspent
<1> QED BY <1>4, <1>5, <1>6

LEMMA BeginAlone ==
    ASSUME SpendingInv, Alone(req'), Carried, Shown, Unspent,
           NEW s \in Session, NEW r \in Rec, BeginApply(s, r)
    PROVE  Carried' /\ Shown' /\ Unspent'
<1>1. TypeOK /\ Numbered
  BY DEF SpendingInv, ReplanningInv
<1>2. /\ UNCHANGED <<approvals, issued, approvalState, executed>>
      /\ approvalState[r] # "IMPLEMENTED"
      /\ Latest(approvals, r, "APPROVED")
  BY LatestIsLatest DEF BeginApply, AlreadyApplied
<1>3. PICK n : req' = [req EXCEPT ![s] = [op |-> "apply", rec |-> r, left |-> n,
                                          committed |-> FALSE, seen |-> recStatus[r]]]
  BY DEF BeginApply
<1>4. /\ req'[s].op = "apply" /\ req'[s].rec = r
  BY <1>1, <1>3 DEF TypeOK
<1>5. \A t \in Session : t # s => req'[t] = Idle
  BY <1>4 DEF Alone
<1>6. approvalState[r] = "APPROVED"
  <2>1. PICK a \in approvals : /\ a.rec = r /\ a.decision = "APPROVED"
                               /\ \A b \in approvals : b.rec = r => b.at <= a.at
    BY <1>2 DEF Latest
  <2>2. approvalState[r] # "PROPOSED"
    BY <2>1 DEF Shown, Records
  <2>3. approvalState[r] \in Decision
    BY <1>1, <1>2, <2>2 DEF TypeOK
  <2>4. PICK b \in approvals : /\ b.rec = r /\ b.decision = approvalState[r]
                               /\ \A c \in approvals : c.rec = r => c.at <= b.at
    BY <2>3 DEF Shown, Latest
  <2>5. a.at \in Nat /\ b.at \in Nat
    BY <1>1 DEF TypeOK, Approval
  <2>6. a.at = b.at
    BY <2>1, <2>4, <2>5
  <2> QED BY <1>1, <2>1, <2>4, <2>6 DEF Numbered
<1>7. Carried'
  BY <1>2, <1>4, <1>5, <1>6 DEF Carried
<1>8. Shown'
  BY <1>2 DEF Shown
<1>9. Unspent'
  BY <1>2 DEF Unspent
<1> QED BY <1>7, <1>8, <1>9

LEMMA DecideAlone ==
    ASSUME SpendingInv, OneAtATime, NEW s \in Session, Decide(s)
    PROVE  Carried' /\ Shown' /\ Unspent'
<1> DEFINE q   == req[s]
           new == [rec |-> q.rec, at |-> q.at, decision |-> q.decision]
<1>1. /\ q.op = "decide" /\ approvals' = approvals \cup {new}
      /\ approvalState' = [approvalState EXCEPT ![q.rec] = q.decision]
      /\ req' = [req EXCEPT ![s] = Idle]
      /\ UNCHANGED <<issued, executed>>
  BY DEF Decide
<1>2. TypeOK /\ Numbered /\ Spent
  BY DEF SpendingInv, ReplanningInv
<1>3. q \in Deciding
  BY <1>1, <1>2, RequestKind
<1>4. q.rec \in Rec /\ q.at \in Nat /\ q.decision \in Decision
  BY <1>3 DEF Deciding
<1>5. \A t \in Session : req'[t] = Idle
  BY <1>1, <1>2 DEF OneAtATime, Alone, TypeOK
<1>6. q.at = issued[q.rec]
  BY <1>1 DEF OneAtATime, Carried
<1>7. new.rec = q.rec /\ new.at = q.at /\ new.decision = q.decision
  OBVIOUS
<1>8. \A a \in approvals : a.rec = q.rec => a.at <= new.at
  BY <1>2, <1>6, <1>7 DEF Numbered
<1>9. \A a \in approvals : a.rec = q.rec => a.at # new.at
  BY <1>1, <1>2, <1>7 DEF Numbered
<1>10. approvalState'[q.rec] = q.decision
       /\ \A r \in Rec : r # q.rec => approvalState'[r] = approvalState[r]
  BY <1>1, <1>2, <1>4 DEF TypeOK
<1> HIDE DEF new
<1>11. Carried'
  BY <1>5 DEF Carried
<1>12. ASSUME NEW r \in Rec
       PROVE  /\ approvalState'[r] \in Decision => Latest(approvals', r, approvalState'[r])
              /\ approvalState'[r] = "PROPOSED" => Records(approvals', r) = {}
  <2>1. CASE r # q.rec
    <3>1. Records(approvals', r) = Records(approvals, r)
      BY <1>1, <1>7, <2>1 DEF Records
    <3>2. approvalState[r] \in Decision => Latest(approvals, r, approvalState[r])
      BY DEF OneAtATime, Shown
    <3>3. approvalState[r] \in Decision => Latest(approvals', r, approvalState[r])
      BY <1>1, <1>7, <2>1, <3>2 DEF Latest
    <3> QED BY <1>10, <2>1, <3>1, <3>3 DEF OneAtATime, Shown
  <2>2. CASE r = q.rec
    <3>1. new \in approvals' /\ \A b \in approvals' : b.rec = r => b.at <= new.at
      BY <1>1, <1>4, <1>7, <1>8, <2>2
    <3>2. Latest(approvals', r, q.decision)
      BY <1>7, <2>2, <3>1 DEF Latest
    <3> QED BY <1>4, <1>10, <2>2, <3>2
  <2> QED BY <2>1, <2>2
<1>13. Shown'
  BY <1>12 DEF Shown
<1>14. ASSUME NEW r \in Rec
       PROVE  executed'[r] + (IF approvalState'[r] = "APPROVED" THEN 1 ELSE 0)
                 <= Cardinality(Approving(approvals', r))
  <2> DEFINE old == Approving(approvals, r)
  <2>1. /\ executed[r] + (IF approvalState[r] = "APPROVED" THEN 1 ELSE 0) <= Cardinality(old)
        /\ executed'[r] = executed[r] /\ executed[r] \in Nat
    BY <1>1, <1>2 DEF OneAtATime, Unspent, TypeOK
  <2>2. IsFiniteSet(old) /\ Cardinality(old) \in Nat
    BY <1>2, ApprovingCount
  <2>3. CASE r = q.rec /\ q.decision = "APPROVED"
    <3>1. Approving(approvals', r) = old \cup {new}
      BY <1>1, <1>7, <2>3 DEF Approving
    <3>2. new \notin old
      BY <1>7, <1>9, <2>3 DEF Approving
    <3> HIDE DEF old
    <3>3. Cardinality(old \cup {new}) = Cardinality(old) + 1
      BY <2>2, <3>2, FS_AddElement
    <3> QED BY <2>1, <2>2, <3>1, <3>3
  <2>4. CASE ~(r = q.rec /\ q.decision = "APPROVED")
    <3>1. Approving(approvals', r) = old
      BY <1>1, <1>7, <2>4 DEF Approving
    <3>2. approvalState'[r] = "APPROVED" => approvalState[r] = "APPROVED"
      BY <1>10, <2>4
    <3> HIDE DEF old
    <3> QED BY <2>1, <2>2, <3>1, <3>2
  <2> QED BY <2>3, <2>4
<1>15. Unspent'
  BY <1>14 DEF Unspent
<1> QED BY <1>11, <1>13, <1>15

LEMMA FinishAlone ==
    ASSUME SpendingInv, OneAtATime, NEW s \in Session, FinishApply(s)
    PROVE  Carried' /\ Shown' /\ Unspent'
<1> DEFINE r == req[s].rec
<1>1. /\ req[s].op = "apply" /\ req' = [req EXCEPT ![s] = Idle]
      /\ approvalState' = [approvalState EXCEPT ![r] = "IMPLEMENTED"]
      /\ executed' = [executed EXCEPT ![r] = executed[r] + 1]
      /\ UNCHANGED <<approvals, issued>>
  BY DEF FinishApply
<1>2. TypeOK /\ Spent
  BY DEF SpendingInv, ReplanningInv
<1>3. r \in Rec
  BY <1>1, <1>2, RequestKind DEF Applying
<1>4. \A t \in Session : req'[t] = Idle
  BY <1>1, <1>2 DEF OneAtATime, Alone, TypeOK
<1>5. Carried'
  BY <1>4 DEF Carried
<1>6. /\ approvalState'[r] = "IMPLEMENTED" /\ executed'[r] = executed[r] + 1
      /\ \A x \in Rec : x # r => /\ approvalState'[x] = approvalState[x]
                                 /\ executed'[x] = executed[x]
  BY <1>1, <1>2, <1>3 DEF TypeOK
<1>7. approvalState[r] = "APPROVED"
  BY <1>1 DEF OneAtATime, Carried
<1>8. Shown'
  BY <1>1, <1>6 DEF OneAtATime, Shown
<1>9. ASSUME NEW x \in Rec
      PROVE  executed'[x] + (IF approvalState'[x] = "APPROVED" THEN 1 ELSE 0)
                <= Cardinality(Approving(approvals', x))
  <2>1. /\ executed[x] + (IF approvalState[x] = "APPROVED" THEN 1 ELSE 0)
              <= Cardinality(Approving(approvals, x))
        /\ executed[x] \in Nat /\ Cardinality(Approving(approvals, x)) \in Nat
    BY <1>2, ApprovingCount DEF OneAtATime, Unspent, TypeOK
  <2>2. CASE x = r
    BY <1>1, <1>6, <1>7, <2>1, <2>2
  <2>3. CASE x # r
    BY <1>1, <1>6, <2>1, <2>3
  <2> QED BY <2>2, <2>3
<1>10. Unspent'
  BY <1>9 DEF Unspent
<1> QED BY <1>5, <1>8, <1>10

(* The other steps write to nothing that is shown. *)
LEMMA OtherStepsAlone ==
    ASSUME TypeOK, Carried, Shown, Unspent, NEW s \in Session,
           RunDomainService(s) \/ FailApply(s) \/ AbortRequest(s)
    PROVE  Carried' /\ Shown' /\ Unspent'
<1>1. UNCHANGED <<approvals, issued, approvalState, executed>>
  BY DEF RunDomainService, FailApply, AbortRequest
<1>2. \A t \in Session : t # s => req'[t] = req[t]
  BY DEF RunDomainService, FailApply, AbortRequest, TypeOK
<1>3. \/ req'[s].op = "idle"
      \/ req[s].op = "apply" /\ req'[s].op = "apply" /\ req'[s].rec = req[s].rec
  BY DEF RunDomainService, FailApply, AbortRequest, TypeOK
<1> QED BY <1>1, <1>2, <1>3, QuietOneAtATime

LEMMA NextOneAtATime ==
    ASSUME SpendingInv, OneAtATime, [Next]_vars, Alone(req')
    PROVE  OneAtATime'
<1>1. TypeOK
  BY DEF SpendingInv, ReplanningInv
<1>2. Carried /\ Shown /\ Unspent
  BY DEF OneAtATime
<1>3. ASSUME NEW p \in Replan, CreateReplanRequest(p) \/ GenerateOptions(p)
      PROVE  Carried' /\ Shown' /\ Unspent'
  <2>1. UNCHANGED <<approvals, issued, approvalState, executed, req>>
    BY <1>3 DEF CreateReplanRequest, GenerateOptions
  <2> QED BY <1>2, <2>1, QuietOneAtATime
<1>4. ASSUME UNCHANGED vars
      PROVE  Carried' /\ Shown' /\ Unspent'
  <2>1. UNCHANGED <<approvals, issued, approvalState, executed, req>>
    BY <1>4 DEF vars
  <2> QED BY <1>2, <2>1, QuietOneAtATime
<1>5. Carried' /\ Shown' /\ Unspent'
  BY <1>1, <1>2, <1>3, <1>4, RequestAlone, BeginAlone, DecideAlone, FinishAlone,
     OtherStepsAlone DEF Next
<1> QED BY <1>5 DEF OneAtATime, Alone

LEMMA InitHistoryInv == HistoryInit => HistoryInv
<1> SUFFICES ASSUME HistoryInit PROVE HistoryInv
  OBVIOUS
<1>1. Init /\ overlapped = FALSE
  BY DEF HistoryInit
<1>2. SpendingInv
  BY <1>1, InitSpendingInv
<1>3. Alone(req) /\ Carried
  BY <1>1 DEF Init, Alone, Carried
<1>4. Shown
  BY <1>1 DEF Init, Shown, Records
<1>5. Unspent
  <2> SUFFICES ASSUME NEW r \in Rec
               PROVE  /\ executed[r] = 0 /\ approvalState[r] # "APPROVED"
                      /\ Cardinality(Approving(approvals, r)) = 0
    BY DEF Unspent
  <2>1. Approving(approvals, r) = {}
    BY <1>1 DEF Init, Approving
  <2> QED BY <1>1, <2>1, FS_EmptySet DEF Init
<1> QED BY <1>1, <1>2, <1>3, <1>4, <1>5 DEF HistoryInv, OneAtATime

LEMMA NextHistoryInv ==
    ASSUME HistoryInv, [HistoryNext]_historyVars
    PROVE  HistoryInv'
<1>1. SpendingInv'
  BY HistorySteps, NextSpendingInv DEF HistoryInv
<1>2. overlapped' \in BOOLEAN
  <2>1. CASE Observe
    BY <2>1 DEF Observe, HistoryInv
  <2>2. CASE UNCHANGED historyVars
    BY <2>2 DEF historyVars, HistoryInv
  <2> QED BY <2>1, <2>2, HistorySteps
<1>3. ASSUME ~overlapped'
      PROVE  OneAtATime'
  <2>1. ~overlapped
    BY <1>3, HistorySteps DEF Observe, historyVars
  <2>2. SpendingInv /\ OneAtATime
    BY <2>1 DEF HistoryInv
  <2>3. Alone(req')
    <3>1. CASE Observe
      <4>1. ~(Cardinality({s \in Session : req'[s] # Idle}) > 1)
        BY <1>3, <3>1 DEF Observe, Overlap
      <4> QED BY <4>1, FewerThanTwo
    <3>2. CASE UNCHANGED historyVars
      BY <2>2, <3>2 DEF historyVars, vars, OneAtATime, Alone
    <3> QED BY <3>1, <3>2, HistorySteps
  <2> QED BY <2>2, <2>3, HistorySteps, NextOneAtATime
<1> QED BY <1>1, <1>2, <1>3 DEF HistoryInv

(* The inductive invariant of the cycle with its history. *)
THEOREM HistoryInvariant == HistorySpec => []HistoryInv
<1>1. HistoryInv /\ [HistoryNext]_historyVars => HistoryInv'
  BY NextHistoryInv
<1> QED BY <1>1, InitHistoryInv, PTL DEF HistorySpec

(* Watching whether requests overlap changes nothing: every behaviour with   *)
(* the history is a behaviour of create_replan_request, request_approval,    *)
(* decide and apply, and what is proved of Spec holds of it.                 *)
THEOREM HistoryIsReplanning == HistorySpec => Spec
<1>1. HistoryInit => Init
  BY DEF HistoryInit
<1>2. [HistoryNext]_historyVars => [Next]_vars
  BY HistorySteps
<1> QED BY <1>1, <1>2, PTL DEF HistorySpec, Spec

(* Served one at a time, apply never completes more often than operators     *)
(* approved: it takes an approval that is shown, and marks it implemented.   *)
THEOREM ApprovalIsSpentOnce == HistorySpec => []ExecutionsWithinApprovals
<1>1. HistoryInv => ExecutionsWithinApprovals
  <2> SUFFICES ASSUME HistoryInv, ~overlapped, NEW r \in Rec
               PROVE  executed[r] <= Cardinality(Approving(approvals, r))
    BY DEF ExecutionsWithinApprovals, Approving
  <2>1. Unspent /\ Spent /\ TypeOK
    BY DEF HistoryInv, OneAtATime, SpendingInv, ReplanningInv
  <2>2. /\ executed[r] + (IF approvalState[r] = "APPROVED" THEN 1 ELSE 0)
              <= Cardinality(Approving(approvals, r))
        /\ executed[r] \in Nat /\ Cardinality(Approving(approvals, r)) \in Nat
    BY <2>1, ApprovingCount DEF Unspent, TypeOK
  <2> QED BY <2>2
<1> QED BY <1>1, HistoryInvariant, PTL

(* Served one at a time, what a recommendation shows is the decision that    *)
(* apply will look up: decide writes both in the order the records came.     *)
THEOREM ShownIsLatest == HistorySpec => []LatestDecisionShown
<1>1. HistoryInv => LatestDecisionShown
  BY LatestIsLatest DEF HistoryInv, OneAtATime, Shown, LatestDecisionShown
<1> QED BY <1>1, HistoryInvariant, PTL
=============================================================================

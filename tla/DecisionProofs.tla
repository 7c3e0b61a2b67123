---------------------------- MODULE DecisionProofs ----------------------------
(***************************************************************************)
(* What AutonomyController guarantees of proposals, for any number of      *)
(* events, policies, actions, operators and crashes: an invariant about    *)
(* approvals in progress (Approvals) and about the calls of action tools   *)
(* (Uncalled), and the refinement of ProposalLife.                         *)
(***************************************************************************)
EXTENDS AutonomyProofs

(* a proposal under execution belongs to the holder of the lock *)
Approvals ==
  \A o \in Operator :
    operator[o].stage \in Executing =>
      /\ proposals[operator[o].proposal].status = "executing"
      /\ operator[o].stage = "execute" => calls[operator[o].proposal] = 0
      /\ operator[o].stage = "succeeded" => calls[operator[o].proposal] = 1

(* a proposal nobody approved was not executed *)
Uncalled ==
  \A p \in 1..MaxProposals :
    /\ calls[p] <= 1
    /\ p \notin ProposalId => calls[p] = 0
    /\ p \in ProposalId /\ proposals[p].status \in {"pending", "rejected", "superseded"}
         => calls[p] = 0
    /\ p \in ProposalId /\ proposals[p].status = "executed" => calls[p] = 1

ApprovalInv == TypeInv /\ Locks /\ Approvals /\ Uncalled

-----------------------------------------------------------------------------
(* What the steps do to proposals: a start and an assessment supersede open  *)
(* ones, an assessment creates one, operators decide; the rest is quiet.     *)
QuietDecision ==
  /\ UNCHANGED <<proposals, calls>>
  /\ \A o \in Operator : operator'[o].stage \in Executing => operator'[o] = operator[o]

Superseding ==
  /\ UNCHANGED <<operator, calls>>
  /\ \E P \in SUBSET ProposalId : (\A p \in P : IsPending(p)) /\ MarkTx(P, "superseded")

NewRow(policy, action, e, id) == CreateTx(policy, action, e, policy # Generic, id)

Creating ==
  /\ UNCHANGED <<operator, calls>>
  /\ eval.stage = "create" /\ eval'.stage = "decide"
  /\ \E e \in Event, action \in Action, id \in 1..MaxProposals :
       e = eval.event /\ NewRow(PolicyFor(e), action, e, id)

DecisionStep ==
  \/ Superseding \/ Creating
  \/ \E o \in Operator : ApprovalStep(o)
  \/ \E p \in ProposalId : Reject(p)

LEMMA OnlyDecisionSteps ==
  ASSUME TypeInv, [Next]_vars
  PROVE  DecisionStep \/ QuietDecision
<1> /\ operator \in [Operator -> Call]
    /\ eval.stage # "idle" => eval.event \in Event
    /\ eval.stage = "create" => eval.outcome \in Action
    /\ eval \in Evaluation
  BY DEF TypeInv, TypeOK, ApprovalTypeOK, Locals, EvalLocals
<1> USE DEF QuietDecision, Executing, Call, threadVars, lifeVars, histVars, storeVars, queueVars
<1>1. ASSUME NEW d \in Deployments, Boot(d) PROVE DecisionStep \/ QuietDecision
  BY <1>1 DEF Boot, SupersedeUnregisteredTx, Superseding, DecisionStep
<1>2. ASSUME Start PROVE DecisionStep \/ QuietDecision
  BY <1>2 DEF Start, RecoverTx
<1>3. ASSUME StopSet PROVE DecisionStep \/ QuietDecision
  BY <1>3 DEF StopSet
<1>4. ASSUME StopWake PROVE DecisionStep \/ QuietDecision
  BY <1>4 DEF StopWake
<1>5. ASSUME StopJoin PROVE DecisionStep \/ QuietDecision
  BY <1>5 DEF StopJoin
<1>6. ASSUME Die PROVE DecisionStep \/ QuietDecision
  BY <1>6 DEF Die, NoCalls, NoCall
<1>7. ASSUME NEW e \in Event, EnqueueEvent(e) PROVE DecisionStep \/ QuietDecision
  BY <1>7 DEF EnqueueEvent, EnqueueTx
<1>8. ASSUME NEW e \in Event, SetWake(e) PROVE DecisionStep \/ QuietDecision
  BY <1>8 DEF SetWake
<1>9. ASSUME NEW e \in DirectEvents, ReceiveEvent(e) PROVE DecisionStep \/ QuietDecision
  BY <1>9 DEF ReceiveEvent, RecordEventTx, InEvaluation
<1>10. ASSUME CheckStop PROVE DecisionStep \/ QuietDecision
  BY <1>10 DEF CheckStop
<1>11. ASSUME WaitWake PROVE DecisionStep \/ QuietDecision
  BY <1>11 DEF WaitWake
<1>12. ASSUME ClearWake PROVE DecisionStep \/ QuietDecision
  BY <1>12 DEF ClearWake
<1>13. ASSUME Drain PROVE DecisionStep \/ QuietDecision
  BY <1>13 DEF Drain
<1>14. ASSUME ClaimEvent PROVE DecisionStep \/ QuietDecision
  BY <1>14 DEF ClaimEvent, ClaimEventTx
<1>15. ASSUME FinishEvent PROVE DecisionStep \/ QuietDecision
  BY <1>15 DEF FinishEvent, CompleteEventTx, FailEventTx
<1>16. ASSUME BeginReserved PROVE DecisionStep \/ QuietDecision
  BY <1>16 DEF BeginReserved, SaveDecisionTx, InEvaluation
<1>17. ASSUME BeginDirect PROVE DecisionStep \/ QuietDecision
  BY <1>17 DEF BeginDirect, SaveDecisionTx, InEvaluation
<1>18. ASSUME EvaluateFails PROVE DecisionStep \/ QuietDecision
  BY <1>18 DEF EvaluateFails, SaveDecisionTx, InEvaluation
<1>19. ASSUME Forget PROVE DecisionStep \/ QuietDecision
  BY <1>19 DEF Forget, ForgetEventTx, InEvaluation
<1>20. ASSUME NEW outcome \in Action \cup {NoAction}, Evaluate(outcome) PROVE DecisionStep \/ QuietDecision
  BY <1>20 DEF Evaluate, InEvaluation
<1>21. ASSUME Supersede PROVE DecisionStep \/ QuietDecision
  BY <1>21 DEF Supersede, SupersedePendingTx, PendingOf, InEvaluation, Superseding, DecisionStep
<1>22. ASSUME Activate PROVE DecisionStep \/ QuietDecision
  BY <1>22 DEF Activate, SetPolicyActiveTx, InEvaluation
<1>23. ASSUME Create PROVE DecisionStep \/ QuietDecision
  BY <1>23 DEF Create, InEvaluation, Evaluation, Creating, NewRow, DecisionStep
<1>24. ASSUME Decide PROVE DecisionStep \/ QuietDecision
  BY <1>24 DEF Decide, SaveDecisionTx, InEvaluation
<1>25. ASSUME NEW o \in Operator, Approve(o) PROVE DecisionStep \/ QuietDecision
  BY <1>25 DEF ApprovalStep, DecisionStep
<1>26. ASSUME NEW o \in Operator, RefuseExecution(o) PROVE DecisionStep \/ QuietDecision
  BY <1>26 DEF ApprovalStep, DecisionStep
<1>27. ASSUME NEW o \in Operator, CompleteProposal(o) PROVE DecisionStep \/ QuietDecision
  BY <1>27 DEF ApprovalStep, DecisionStep
<1>28. ASSUME NEW o \in Operator, NEW result \in {"succeeded", "failed"}, CallTool(o, result) PROVE DecisionStep \/ QuietDecision
  BY <1>28 DEF ApprovalStep, DecisionStep
<1>29. ASSUME NEW o \in Operator, NEW p \in ProposalId, AskApprove(o, p) PROVE DecisionStep \/ QuietDecision
  BY <1>29 DEF AskApprove
<1>30. ASSUME NEW p \in ProposalId, Reject(p) PROVE DecisionStep \/ QuietDecision
  BY <1>30 DEF DecisionStep
<1>31. ASSUME TimePasses PROVE DecisionStep \/ QuietDecision
  BY <1>31 DEF TimePasses
<1>32. ASSUME UNCHANGED vars PROVE DecisionStep \/ QuietDecision
  BY <1>32 DEF vars
<1>33. QED BY <1>1, <1>2, <1>3, <1>4, <1>5, <1>6, <1>7, <1>8, <1>9, <1>10, <1>11, <1>12, <1>13, <1>14, <1>15, <1>16, <1>17, <1>18, <1>19, <1>20, <1>21, <1>22, <1>23, <1>24, <1>25, <1>26, <1>27, <1>28, <1>29, <1>30, <1>31, <1>32
  DEF Next, WorkerStep, EvaluationStep, ApprovalStep

-----------------------------------------------------------------------------
(* What marking a set of rows and creating a row do to a status. *)
LEMMA MarkEffect ==
  ASSUME StoreTypeOK, NEW P \in SUBSET ProposalId, NEW s \in ProposalStatus, MarkTx(P, s)
  PROVE  /\ ProposalId' = ProposalId
         /\ \A p \in ProposalId : proposals'[p] =
              IF p \in P THEN [proposals[p] EXCEPT !.status = s] ELSE proposals[p]
         /\ \A p \in P : proposals'[p].status = s
<1>1. ProposalId' = ProposalId
  BY MarkTxType
<1>2. \A p \in ProposalId : proposals'[p] =
        IF p \in P THEN [proposals[p] EXCEPT !.status = s] ELSE proposals[p]
  BY DEF MarkTx, Marked
<1>3. \A p \in ProposalId : proposals[p] \in Proposal
  BY DEF StoreTypeOK, ProposalId
<1>4. QED BY <1>1, <1>2, <1>3 DEF Proposal

LEMMA CreateEffect ==
  ASSUME StoreTypeOK, NEW policy \in Policy, NEW action \in Action, NEW e \in Event,
         NEW id \in 1..MaxProposals,
         NewRow(policy, action, e, id)
  PROVE  \/ UNCHANGED proposals
         \/ /\ id = Len(proposals) + 1 /\ id \notin ProposalId
            /\ ProposalId' = ProposalId \cup {id}
            /\ proposals'[id] = [policy |-> policy, action |-> action, event |-> e,
                                 status |-> "pending"]
            /\ \A p \in ProposalId : proposals'[p] =
                 IF policy # Generic /\ p \in PendingOf(policy)
                 THEN [proposals[p] EXCEPT !.status = "superseded"] ELSE proposals[p]
            /\ \A q \in PendingOf(policy) : proposals[q].action # action
<1> DEFINE kept == IF policy # Generic THEN Marked(PendingOf(policy), "superseded") ELSE proposals
           row  == [policy |-> policy, action |-> action, event |-> e, status |-> "pending"]
<1>1. SUFFICES ASSUME proposals' # proposals
               PROVE  /\ id = Len(proposals) + 1 /\ id \notin ProposalId
                      /\ ProposalId' = ProposalId \cup {id}
                      /\ proposals'[id] = row
                      /\ \A p \in ProposalId : proposals'[p] =
                           IF policy # Generic /\ p \in PendingOf(policy)
                           THEN [proposals[p] EXCEPT !.status = "superseded"] ELSE proposals[p]
                      /\ \A q \in PendingOf(policy) : proposals[q].action # action
  OBVIOUS
<1>2. /\ proposals' = Append(kept, row) /\ id = Len(proposals) + 1
      /\ SameAsPending(policy, action) = {}
  BY <1>1 DEF NewRow, CreateTx
<1>3. kept \in Seq(Proposal) /\ Len(kept) = Len(proposals)
  BY MarkedProposals DEF StoreTypeOK, ProposalStatus
<1>4. row \in Proposal
  BY DEF Proposal, ProposalStatus
<1>5. \A p \in ProposalId : kept[p] =
        IF policy # Generic /\ p \in PendingOf(policy)
        THEN [proposals[p] EXCEPT !.status = "superseded"] ELSE proposals[p]
  BY DEF Marked
<1> HIDE DEF kept, row
<1>6. /\ Len(proposals') = Len(proposals) + 1 /\ proposals' \in Seq(Proposal)
      /\ \A p \in 1..Len(proposals) : proposals'[p] = kept[p]
      /\ proposals'[Len(proposals) + 1] = row
  BY <1>2, <1>3, <1>4, AppendProperties
<1>7. ProposalId = 1..Len(proposals) /\ ProposalId' = 1..(Len(proposals) + 1)
      /\ Len(proposals) \in Nat
  BY <1>6 DEF ProposalId, StoreTypeOK
<1>8. \A q \in PendingOf(policy) : proposals[q].action # action
  BY <1>2 DEF SameAsPending
<1>9. QED BY <1>2, <1>5, <1>6, <1>7, <1>8

LEMMA StatusType ==
  ASSUME StoreTypeOK
  PROVE  \A p \in ProposalId : proposals[p] \in Proposal /\ proposals[p].status \in ProposalStatus
<1>1. \A p \in ProposalId : proposals[p] \in Proposal
  BY DEF StoreTypeOK, ProposalId
<1>2. QED BY <1>1 DEF Proposal

LEMMA MarkOneEffect ==
  ASSUME StoreTypeOK, NEW p \in ProposalId, NEW s \in ProposalStatus, MarkTx({p}, s)
  PROVE  /\ ProposalId' = ProposalId /\ proposals'[p].status = s
         /\ \A q \in ProposalId : q # p => proposals'[q] = proposals[q]
<1>1. {p} \in SUBSET ProposalId
  OBVIOUS
<1>2. QED BY <1>1, MarkEffect

(* The same, of the statuses alone. *)
LEMMA NewProposal ==
  ASSUME StoreTypeOK, NEW policy \in Policy, NEW action \in Action, NEW e \in Event,
         NEW id \in 1..MaxProposals,
         NewRow(policy, action, e, id),
         proposals' # proposals
  PROVE  /\ ProposalId' = ProposalId \cup {id} /\ id \notin ProposalId
         /\ proposals'[id].status = "pending"
         /\ \A p \in ProposalId :
              \/ proposals'[p] = proposals[p]
              \/ proposals'[p].status = "superseded" /\ proposals[p].status = "pending"
<1>1. ProposalId' = ProposalId \cup {id}
  BY CreateEffect
<1>2. id \notin ProposalId
  BY CreateEffect
<1>3. proposals'[id].status = "pending"
  <2>1. proposals'[id] = [policy |-> policy, action |-> action, event |-> e, status |-> "pending"]
    BY CreateEffect
  <2>2. QED BY <2>1
<1>4. ASSUME NEW p \in ProposalId
      PROVE  \/ proposals'[p] = proposals[p]
             \/ proposals'[p].status = "superseded" /\ proposals[p].status = "pending"
  <2>1. proposals'[p] = IF policy # Generic /\ p \in PendingOf(policy)
                        THEN [proposals[p] EXCEPT !.status = "superseded"] ELSE proposals[p]
    BY CreateEffect
  <2>2. proposals[p] \in Proposal
    BY StatusType
  <2>3. p \in PendingOf(policy) => proposals[p].status = "pending"
    BY DEF PendingOf, IsPending
  <2>4. QED BY <2>1, <2>2, <2>3 DEF Proposal
<1>5. QED BY <1>1, <1>2, <1>3, <1>4

(* An approval that runs is the only one, and its proposal is its own. *)
LEMMA ApprovalOwner ==
  ASSUME TypeInv, Locks, NEW o \in Operator, operator[o].stage \in Executing
  PROVE  /\ operator[o].proposal \in ProposalId
         /\ \A q \in Operator : operator[q].stage \in Executing => q = o
BY DEF TypeInv, Locals, OperatorLocals, Locks, Executing

(* Every step keeps what a running approval relies on, and the count of calls. *)
LEMMA ApprovalStepKeeps ==
  ASSUME ApprovalInv, [Next]_vars
  PROVE  Approvals' /\ Uncalled'
<1> /\ StoreTypeOK /\ operator \in [Operator -> Call] /\ calls \in [1..MaxProposals -> Nat]
    /\ TypeInv /\ Locks
    /\ \A p \in ProposalId : proposals[p] \in Proposal /\ p \in 1..MaxProposals
    /\ \A o \in Operator : operator[o].stage # "idle" => operator[o].proposal \in ProposalId
  BY StatusType, BoundAssumption
  DEF ApprovalInv, TypeInv, TypeOK, ApprovalTypeOK, Locals, OperatorLocals, StoreTypeOK, ProposalId
<1> Approvals /\ Uncalled
  BY DEF ApprovalInv
<1> USE DEF Executing
<1>1. CASE QuietDecision
  <2>1. UNCHANGED <<proposals, calls>> /\ ProposalId' = ProposalId
    BY <1>1 DEF QuietDecision, ProposalId
  <2>2. QED BY <1>1, <2>1 DEF QuietDecision, Approvals, Uncalled
<1>2. CASE Superseding
  <2>1. PICK P \in SUBSET ProposalId : (\A p \in P : IsPending(p)) /\ MarkTx(P, "superseded")
    BY <1>2 DEF Superseding
  <2>2. /\ ProposalId' = ProposalId /\ UNCHANGED <<operator, calls>>
        /\ \A p \in P : proposals'[p].status = "superseded" /\ proposals[p].status = "pending"
        /\ \A p \in ProposalId : p \notin P => proposals'[p] = proposals[p]
    <3>1. "superseded" \in ProposalStatus
      BY DEF ProposalStatus
    <3>2. /\ ProposalId' = ProposalId
          /\ \A p \in P : proposals'[p].status = "superseded"
          /\ \A p \in ProposalId : p \notin P => proposals'[p] = proposals[p]
      BY <2>1, <3>1, MarkEffect
    <3>3. QED BY <1>2, <2>1, <3>2 DEF Superseding, IsPending
  <2>3. QED BY <2>2 DEF Approvals, Uncalled
<1>3. CASE Creating
  <2>1. PICK e \in Event, action \in Action, id \in 1..MaxProposals :
          e = eval.event /\ NewRow(PolicyFor(e), action, e, id)
    BY <1>3 DEF Creating
  <2>2. UNCHANGED <<operator, calls>>
    BY <1>3 DEF Creating
  <2>3. CASE UNCHANGED proposals
    BY <2>2, <2>3 DEF Approvals, Uncalled, ProposalId
  <2>4. CASE proposals' # proposals
    <3>1. /\ ProposalId' = ProposalId \cup {id} /\ id \notin ProposalId
          /\ proposals'[id].status = "pending"
          /\ \A p \in ProposalId :
               \/ proposals'[p] = proposals[p]
               \/ proposals'[p].status = "superseded" /\ proposals[p].status = "pending"
      BY <2>1, <2>4, NewProposal, PolicyForType
    <3>2. QED BY <2>2, <3>1 DEF Approvals, Uncalled
  <2>5. QED BY <2>3, <2>4
<1>4. ASSUME NEW o \in Operator, Approve(o) PROVE Approvals' /\ Uncalled'
  <2> DEFINE p == operator[o].proposal
  <2>0. p \in ProposalId /\ UNCHANGED calls /\ operator[o].stage = "blocked" /\ holder = Free
    BY <1>4 DEF Approve, histVars
  <2>1. CASE ClaimProposalTx(p)
    <3>1. /\ ProposalId' = ProposalId
          /\ proposals'[p].status = "executing" /\ proposals[p].status = "pending"
          /\ \A q \in ProposalId : q # p => proposals'[q] = proposals[q]
      BY <2>0, <2>1, MarkOneEffect DEF ClaimProposalTx, ProposalStatus, IsPending
    <3>2. operator' = [operator EXCEPT ![o].stage = "execute"]
      BY <1>4, <2>1 DEF Approve, ClaimProposalTx
    <3>3. \A q \in Operator : operator[q].stage \notin Executing
      BY <2>0, NameAssumption DEF Locks, Free
    <3>4. calls[p] = 0
      BY <2>0, <3>1 DEF Uncalled
    <3>5. Approvals'
      BY <2>0, <3>1, <3>2, <3>3, <3>4 DEF Approvals, Call
    <3>6. Uncalled'
      BY <2>0, <3>1, <3>4 DEF Uncalled
    <3>7. QED BY <3>5, <3>6
  <2>2. CASE Returns(o) /\ UNCHANGED storeVars
    BY <2>0, <2>2 DEF Returns, NoCall, Approvals, Uncalled, storeVars, ProposalId
  <2>3. QED BY <1>4, <2>1, <2>2, Zenon DEF Approve
<1>5. ASSUME NEW o \in Operator, RefuseExecution(o) PROVE Approvals' /\ Uncalled'
  BY <1>5 DEF RefuseExecution, Approvals, Uncalled, storeVars, histVars, ProposalId, Call
<1>6. ASSUME NEW o \in Operator, NEW result \in {"succeeded", "failed"}, CallTool(o, result)
      PROVE Approvals' /\ Uncalled'
  <2> DEFINE p == operator[o].proposal
  <2>1. /\ operator[o].stage = "execute" /\ p \in ProposalId /\ UNCHANGED proposals
        /\ calls' = [calls EXCEPT ![p] = @ + 1]
        /\ operator' = [operator EXCEPT ![o].stage = result]
        /\ ProposalId' = ProposalId
    BY <1>6 DEF CallTool, storeVars, ProposalId
  <2>2. /\ \A q \in Operator : operator[q].stage \in Executing => q = o
        /\ calls[p] = 0 /\ proposals[p].status = "executing"
    BY <2>1, ApprovalOwner DEF Approvals
  <2>3. calls'[p] = 1 /\ \A q \in 1..MaxProposals : q # p => calls'[q] = calls[q]
    BY <2>1, <2>2
  <2>4. Approvals'
    BY <2>1, <2>2, <2>3 DEF Approvals, Call
  <2>5. Uncalled'
    BY <2>1, <2>2, <2>3 DEF Uncalled
  <2>6. QED BY <2>4, <2>5
<1>7. ASSUME NEW o \in Operator, CompleteProposal(o) PROVE Approvals' /\ Uncalled'
  <2> DEFINE p == operator[o].proposal
             s == IF operator[o].stage = "succeeded" THEN "executed" ELSE "failed"
  <2>1. /\ operator[o].stage \in {"succeeded", "failed"} /\ p \in ProposalId
        /\ UNCHANGED calls /\ MarkTx({p}, s)
        /\ operator' = [operator EXCEPT ![o] = NoCall]
    BY <1>7 DEF CompleteProposal, CompleteTx, Returns, histVars
  <2>2. /\ ProposalId' = ProposalId /\ proposals'[p].status = s
        /\ \A q \in ProposalId : q # p => proposals'[q] = proposals[q]
    BY <2>1, MarkOneEffect DEF ProposalStatus
  <2>3. \A q \in Operator : operator[q].stage \in Executing => q = o
    BY <2>1, ApprovalOwner
  <2>4. Approvals'
    BY <2>1, <2>2, <2>3 DEF Approvals, NoCall
  <2>5. Uncalled'
    BY <2>1, <2>2 DEF Uncalled, Approvals
  <2>6. QED BY <2>4, <2>5
<1>8. ASSUME NEW p \in ProposalId, Reject(p) PROVE Approvals' /\ Uncalled'
  <2>1. /\ ProposalId' = ProposalId /\ UNCHANGED <<operator, calls>>
        /\ proposals'[p].status = "rejected" /\ proposals[p].status = "pending"
        /\ \A q \in ProposalId : q # p => proposals'[q] = proposals[q]
    BY <1>8, MarkOneEffect DEF Reject, RejectTx, ProposalStatus, IsPending, OperatorOnly, histVars
  <2>2. QED BY <2>1 DEF Approvals, Uncalled
<1>9. QED BY <1>1, <1>2, <1>3, <1>4, <1>5, <1>6, <1>7, <1>8, OnlyDecisionSteps
  DEF DecisionStep, ApprovalStep

LEMMA ApprovalInvariant == Spec => []ApprovalInv
<1>1. Init => ApprovalInv
  <2> SUFFICES ASSUME Init PROVE ApprovalInv
    OBVIOUS
  <2>1. TypeInv /\ Locks
    BY LineInit DEF LineInv
  <2>2. Approvals /\ Uncalled
    BY DEF Init, StoreInit, NoCalls, NoCall, Approvals, Uncalled, Executing, ProposalId
  <2>3. QED BY <2>1, <2>2 DEF ApprovalInv
<1>2. ApprovalInv /\ [Next]_vars => ApprovalInv'
  BY TypeStep, LockStep, ApprovalStepKeeps DEF ApprovalInv
<1>3. QED BY <1>1, <1>2, PTL DEF Spec

(* For any number of operators and proposals, the action tool of a proposal is *)
(* called at most once, never without an approval, and what is recorded as     *)
(* executed was called.                                                        *)
THEOREM CalledOnce == Spec => []CallsMatchStatus
<1>1. ApprovalInv => CallsMatchStatus
  <2> SUFFICES ASSUME ApprovalInv PROVE CallsMatchStatus
    OBVIOUS
  <2>1. \A p \in ProposalId : proposals[p].status \in ProposalStatus
    BY StatusType DEF ApprovalInv, TypeInv, TypeOK
  <2>2. calls \in [1..MaxProposals -> Nat] /\ Uncalled
    BY DEF ApprovalInv, TypeInv, TypeOK, ApprovalTypeOK
  <2>3. QED BY <2>1, <2>2 DEF Uncalled, CallsMatchStatus, ProposalStatus
<1>2. QED BY <1>1, ApprovalInvariant, PTL

-----------------------------------------------------------------------------
(* Only an open proposal and one under execution change their status. *)
LEMMA DecidedStays ==
  ASSUME ApprovalInv, [Next]_vars, NEW p \in ProposalId,
         proposals[p].status \in {"executed", "failed", "rejected", "superseded"}
  PROVE  proposals'[p] = proposals[p]
<1> TypeInv /\ Locks /\ Approvals /\ StoreTypeOK
  BY DEF ApprovalInv, TypeInv, TypeOK
<1>1. CASE QuietDecision
  BY <1>1 DEF QuietDecision
<1>2. CASE Superseding
  <2>1. PICK P \in SUBSET ProposalId : (\A q \in P : IsPending(q)) /\ MarkTx(P, "superseded")
    BY <1>2 DEF Superseding
  <2>2. p \notin P
    BY <2>1 DEF IsPending
  <2>3. "superseded" \in ProposalStatus
    BY DEF ProposalStatus
  <2>4. \A q \in ProposalId : proposals'[q] =
          IF q \in P THEN [proposals[q] EXCEPT !.status = "superseded"] ELSE proposals[q]
    BY <2>1, <2>3, MarkEffect
  <2>5. QED BY <2>2, <2>4
<1>3. CASE Creating
  <2>1. PICK e \in Event, action \in Action, id \in 1..MaxProposals :
          e = eval.event /\ NewRow(PolicyFor(e), action, e, id)
    BY <1>3 DEF Creating
  <2>2. QED BY <2>1, NewProposal, PolicyForType
<1>4. ASSUME NEW o \in Operator, Approve(o) PROVE proposals'[p] = proposals[p]
  <2>1. CASE ClaimProposalTx(operator[o].proposal)
    BY <2>1, MarkOneEffect DEF ClaimProposalTx, IsPending, ProposalStatus
  <2>2. CASE UNCHANGED storeVars
    BY <2>2 DEF storeVars
  <2>3. QED BY <1>4, <2>1, <2>2, Zenon DEF Approve
<1>5. ASSUME NEW o \in Operator,
             RefuseExecution(o) \/ \E result \in {"succeeded", "failed"} : CallTool(o, result)
      PROVE  proposals'[p] = proposals[p]
  BY <1>5 DEF RefuseExecution, CallTool, storeVars
<1>6. ASSUME NEW o \in Operator, CompleteProposal(o) PROVE proposals'[p] = proposals[p]
  <2>1. /\ proposals[operator[o].proposal].status = "executing"
        /\ operator[o].proposal \in ProposalId
    BY <1>6, ApprovalOwner DEF CompleteProposal, Approvals, Executing
  <2>2. PICK s \in ProposalStatus : MarkTx({operator[o].proposal}, s)
    BY <1>6 DEF CompleteProposal, CompleteTx, ProposalStatus
  <2>3. QED BY <2>1, <2>2, MarkOneEffect
<1>7. ASSUME NEW q \in ProposalId, Reject(q) PROVE proposals'[p] = proposals[p]
  BY <1>7, MarkOneEffect DEF Reject, RejectTx, IsPending, ProposalStatus
<1>8. QED BY <1>1, <1>2, <1>3, <1>4, <1>5, <1>6, <1>7, OnlyDecisionSteps
  DEF DecisionStep, ApprovalStep

(* A decided proposal stays decided, although complete() has no guard: for any *)
(* number of operators, proposals, crashes and deployments.                    *)
THEOREM DecidedForGood == Spec => DecidedIsFinal
<1> DEFINE Kept == \A p \in ProposalId :
             proposals[p].status \in {"executed", "failed", "rejected", "superseded"}
               => proposals'[p] = proposals[p]
<1>1. ApprovalInv /\ [Next]_vars => [Kept]_vars
  BY DecidedStays
<1>2. QED BY <1>1, ApprovalInvariant, PTL DEF Spec, DecidedIsFinal

-----------------------------------------------------------------------------
(* The refinement of ProposalLife. *)
statusOf == [p \in ProposalId |-> proposals[p].status]
calledOf == {p \in 1..MaxProposals : calls[p] > 0}

LEMMA MarkMoves ==
  ASSUME StoreTypeOK, NEW P \in SUBSET ProposalId, NEW s \in ProposalStatus, MarkTx(P, s)
  PROVE  statusOf' = Life!Moved(P, s)
<1>1. /\ ProposalId' = ProposalId
      /\ \A p \in P : proposals'[p].status = s
      /\ \A p \in ProposalId : p \notin P => proposals'[p] = proposals[p]
  BY MarkEffect
<1>2. statusOf' = [p \in ProposalId |-> IF p \in P THEN s ELSE proposals[p].status]
  BY <1>1 DEF statusOf
<1>3. QED BY <1>2 DEF Life!Moved

LEMMA OpenIsPending == Life!Open = {p \in ProposalId : IsPending(p)}
BY DEF Life!Open, IsPending

LEMMA LifeStutter ==
  ASSUME UNCHANGED <<proposals, calls>>
  PROVE  UNCHANGED Life!vars
BY DEF Life!vars, ProposalId

(* A row that create() adds is a new proposal, which may replace open ones. *)
LEMMA CreateProposes ==
  ASSUME StoreTypeOK, NEW policy \in Policy, NEW action \in Action, NEW e \in Event,
         NEW id \in 1..MaxProposals, NewRow(policy, action, e, id),
         proposals' # proposals, UNCHANGED calls
  PROVE  Life!Propose
<1> DEFINE P == IF policy # Generic THEN PendingOf(policy) ELSE {}
           moved == Life!Moved(P, "superseded")
<1>1. ProposalId' = ProposalId \cup {id}
  BY CreateEffect
<1>2. id = Len(proposals) + 1
  BY CreateEffect
<1>3. proposals'[id].status = "pending"
  BY NewProposal
<1>4. ASSUME NEW p \in ProposalId
      PROVE  proposals'[p].status = IF p \in P THEN "superseded" ELSE proposals[p].status
  <2>1. proposals'[p] = IF policy # Generic /\ p \in PendingOf(policy)
                        THEN [proposals[p] EXCEPT !.status = "superseded"] ELSE proposals[p]
    BY CreateEffect
  <2>2. proposals[p] \in Proposal
    BY StatusType
  <2>3. QED BY <2>1, <2>2 DEF Proposal
<1>5. ProposalId = 1..Len(proposals) /\ Len(proposals) \in Nat
  BY DEF StoreTypeOK, ProposalId
<1>6. moved = [p \in 1..Len(proposals) |-> IF p \in P THEN "superseded" ELSE proposals[p].status]
  BY <1>5 DEF Life!Moved
<1>7. moved \in Seq(ProposalStatus) /\ Len(moved) = Len(proposals)
  <2>1. \A p \in ProposalId : (IF p \in P THEN "superseded" ELSE proposals[p].status) \in ProposalStatus
    BY StatusType DEF ProposalStatus
  <2>2. moved \in [1..Len(proposals) -> ProposalStatus]
    BY <1>5, <1>6, <2>1
  <2>3. QED BY <1>5, <2>2, SeqDef, LenProperties
<1> HIDE DEF moved
<1>8. /\ Append(moved, "pending") \in Seq(ProposalStatus)
      /\ Len(Append(moved, "pending")) = Len(proposals) + 1
      /\ \A p \in 1..Len(proposals) : Append(moved, "pending")[p] = moved[p]
      /\ Append(moved, "pending")[Len(proposals) + 1] = "pending"
  BY <1>7, AppendProperties DEF ProposalStatus
<1>9. Append(moved, "pending") =
        [p \in 1..(Len(proposals) + 1) |-> Append(moved, "pending")[p]]
  BY <1>8, LenProperties
<1>10. statusOf' = [p \in 1..(Len(proposals) + 1) |-> proposals'[p].status]
  BY <1>1, <1>2, <1>5 DEF statusOf
<1>11. \A p \in 1..(Len(proposals) + 1) : proposals'[p].status = Append(moved, "pending")[p]
  BY <1>2, <1>3, <1>4, <1>5, <1>6, <1>8
<1>12. statusOf' = Append(moved, "pending")
  BY <1>9, <1>10, <1>11
<1>13. P \in SUBSET Life!Open
  BY OpenIsPending DEF PendingOf, IsPending
<1>14. calledOf' = calledOf
  BY DEF calledOf
<1>15. QED BY <1>12, <1>13, <1>14 DEF Life!Propose, moved, statusOf, calledOf

LEMMA LifeSimulation == ApprovalInv /\ [Next]_vars => [Life!Next]_(Life!vars)
<1> SUFFICES ASSUME ApprovalInv, [Next]_vars PROVE Life!Next \/ UNCHANGED Life!vars
  OBVIOUS
<1> /\ TypeInv /\ Locks /\ Approvals /\ StoreTypeOK /\ operator \in [Operator -> Call]
    /\ calls \in [1..MaxProposals -> Nat]
    /\ \A p \in ProposalId : p \in 1..MaxProposals
    /\ \A o \in Operator : operator[o].stage # "idle" => operator[o].proposal \in ProposalId
  BY BoundAssumption
  DEF ApprovalInv, TypeInv, TypeOK, ApprovalTypeOK, Locals, OperatorLocals, StoreTypeOK, ProposalId
<1>0. DOMAIN statusOf = ProposalId /\ \A p \in ProposalId : statusOf[p] = proposals[p].status
  BY DEF statusOf
<1>1. CASE QuietDecision
  BY <1>1, LifeStutter DEF QuietDecision
<1>2. CASE Superseding
  <2>1. PICK P \in SUBSET ProposalId : (\A p \in P : IsPending(p)) /\ MarkTx(P, "superseded")
    BY <1>2 DEF Superseding
  <2>2. P \in SUBSET Life!Open
    BY <2>1, OpenIsPending
  <2>3. statusOf' = Life!Moved(P, "superseded")
    BY <2>1, MarkMoves DEF ProposalStatus
  <2>4. calledOf' = calledOf
    BY <1>2 DEF Superseding, calledOf
  <2>5. QED BY <2>2, <2>3, <2>4 DEF Life!Supersede, Life!Next, statusOf, calledOf
<1>3. CASE Creating
  <2>1. PICK e \in Event, action \in Action, id \in 1..MaxProposals :
          e = eval.event /\ NewRow(PolicyFor(e), action, e, id)
    BY <1>3 DEF Creating
  <2>2. CASE UNCHANGED proposals
    BY <1>3, <2>2, LifeStutter DEF Creating
  <2>3. CASE proposals' # proposals
    BY <1>3, <2>1, <2>3, CreateProposes, PolicyForType DEF Creating, Life!Next
  <2>4. QED BY <2>2, <2>3
<1>4. ASSUME NEW o \in Operator, Approve(o) PROVE Life!Next \/ UNCHANGED Life!vars
  <2> DEFINE p == operator[o].proposal
  <2>0. p \in ProposalId /\ UNCHANGED calls
    BY <1>4 DEF Approve, histVars
  <2>1. CASE ClaimProposalTx(p)
    <3>1. p \in Life!Open
      BY <2>1, OpenIsPending DEF ClaimProposalTx, IsPending
    <3>2. statusOf' = Life!Moved({p}, "executing")
      BY <2>0, <2>1, MarkMoves DEF ClaimProposalTx, ProposalStatus
    <3>3. calledOf' = calledOf
      BY <2>0 DEF calledOf
    <3>4. Life!Decide(p, "executing")
      BY <3>1, <3>2, <3>3 DEF Life!Decide, statusOf, calledOf
    <3>5. QED BY <1>0, <2>0, <3>4 DEF Life!Approve, Life!Next, statusOf
  <2>2. CASE UNCHANGED storeVars
    BY <2>0, <2>2, LifeStutter DEF storeVars
  <2>3. QED BY <1>4, <2>1, <2>2, Zenon DEF Approve
<1>5. ASSUME NEW o \in Operator, RefuseExecution(o) PROVE UNCHANGED Life!vars
  BY <1>5, LifeStutter DEF RefuseExecution, storeVars, histVars
<1>6. ASSUME NEW o \in Operator, NEW result \in {"succeeded", "failed"}, CallTool(o, result)
      PROVE Life!Next
  <2> PICK p \in ProposalId : p = operator[o].proposal
    BY <1>6 DEF CallTool
  <2>1. /\ operator[o].stage = "execute" /\ p \in ProposalId /\ UNCHANGED proposals
        /\ calls' = [calls EXCEPT ![p] = @ + 1]
    BY <1>6 DEF CallTool, storeVars
  <2>2. calls[p] = 0 /\ proposals[p].status = "executing"
    BY <2>1 DEF Approvals, Executing
  <2>3. calledOf' = calledOf \cup {p} /\ p \notin calledOf
    BY <2>1, <2>2 DEF calledOf
  <2>4. statusOf' = statusOf
    BY <2>1 DEF statusOf, ProposalId
  <2>5. statusOf[p] = "executing"
    BY <1>0, <2>1, <2>2
  <2>6. Life!CallTool(p)
    BY <2>3, <2>4, <2>5, Zenon DEF Life!CallTool, statusOf, calledOf
  <2>7. QED BY <1>0, <2>1, <2>6 DEF Life!Next, statusOf
<1>7. ASSUME NEW o \in Operator, CompleteProposal(o) PROVE Life!Next
  <2> PICK p \in ProposalId : p = operator[o].proposal
    BY <1>7 DEF CompleteProposal
  <2> DEFINE s == IF operator[o].stage = "succeeded" THEN "executed" ELSE "failed"
  <2>1. /\ operator[o].stage \in {"succeeded", "failed"} /\ p \in ProposalId
        /\ UNCHANGED calls /\ MarkTx({p}, s)
    BY <1>7 DEF CompleteProposal, CompleteTx, histVars
  <2>2. statusOf[p] = "executing" /\ (s = "executed" => p \in calledOf)
    BY <1>0, <2>1 DEF Approvals, Executing, calledOf
  <2>3. statusOf' = Life!Moved({p}, s) /\ s \in {"executed", "failed"}
    BY <2>1, MarkMoves DEF ProposalStatus
  <2>4. calledOf' = calledOf
    BY <2>1 DEF calledOf
  <2>5. Life!Finish(p)
    <3>1. \/ statusOf' = Life!Moved({p}, "failed")
          \/ p \in calledOf /\ statusOf' = Life!Moved({p}, "executed")
      BY <2>2, <2>3
    <3>2. QED BY <2>2, <2>4, <3>1, Zenon DEF Life!Finish, statusOf, calledOf
  <2>6. QED BY <1>0, <2>1, <2>5 DEF Life!Next, statusOf
<1>8. ASSUME NEW p \in ProposalId, Reject(p) PROVE Life!Next
  <2>1. p \in Life!Open
    BY <1>8, OpenIsPending DEF Reject, RejectTx, IsPending
  <2>2. statusOf' = Life!Moved({p}, "rejected")
    BY <1>8, MarkMoves DEF Reject, RejectTx, ProposalStatus
  <2>3. calledOf' = calledOf
    BY <1>8 DEF Reject, calledOf, histVars
  <2>4. Life!Decide(p, "rejected")
    BY <2>1, <2>2, <2>3 DEF Life!Decide, statusOf, calledOf
  <2>5. QED BY <1>0, <2>4 DEF Life!Reject, Life!Next, statusOf
<1>9. QED BY <1>1, <1>2, <1>3, <1>4, <1>5, <1>6, <1>7, <1>8, OnlyDecisionSteps
  DEF DecisionStep, ApprovalStep

(* Assessments and operators, under two different locks, give every proposal   *)
(* the life of ProposalLife, for any number of them.                           *)
THEOREM ProposalsLive == Spec => ImplementsLife
<1>1. Init => Life!Init
  <2>1. Init => ProposalId = {}
    BY DEF Init, StoreInit, ProposalId
  <2>2. QED BY <2>1 DEF Init, StoreInit, Life!Init
<1>2. QED BY <1>1, LifeSimulation, ApprovalInvariant, PTL DEF Spec, ImplementsLife, Life!Spec

-----------------------------------------------------------------------------
(***************************************************************************)
(* What the proposals that operators see mean: they are distinct, they     *)
(* stand for the present state of their policy, and the running deployment *)
(* has that policy.  An invariant (Evaluating) says what a running         *)
(* assessment knows of the state of its policy at each of its steps.       *)
(***************************************************************************)

(* the running assessment knows its policy's state, and leaves the open *)
(* proposals fit for what it is about to do                             *)
Evaluating ==
  LET policy == PolicyFor(eval.event)
  IN /\ eval.stage # "idle" => Supported(eval.event)
     /\ eval.stage \in {"evaluate", "supersede", "activate"} => eval.wasActive = active[policy]
     /\ eval.stage = "activate" /\ eval.outcome = NoAction /\ policy # Generic
          => PendingOf(policy) = {}
     /\ eval.stage = "create" /\ policy # Generic => active[policy]

OfferInv ==
  /\ ApprovalInv
  /\ Evaluating /\ PendingMatchesActive /\ PendingAreDistinct /\ PendingIsRegistered

-----------------------------------------------------------------------------
(* No step changes what a row proposes, none opens a decided one again, and *)
(* only an assessment adds a row.                                           *)
Kept(p) ==
  /\ p \in ProposalId'
  /\ proposals'[p].policy = proposals[p].policy /\ proposals'[p].action = proposals[p].action
  /\ proposals'[p].status = "pending" => proposals[p].status = "pending"

LEMMA RowsKept ==
  ASSUME ApprovalInv, [Next]_vars
  PROVE  /\ \A p \in ProposalId : Kept(p)
         /\ ProposalId' = ProposalId \/ Creating
<1> /\ TypeInv /\ StoreTypeOK
    /\ \A o \in Operator : operator[o].stage # "idle" => operator[o].proposal \in ProposalId
    /\ \A p \in ProposalId : proposals[p] \in Proposal
  BY StatusType DEF ApprovalInv, TypeInv, TypeOK, Locals, OperatorLocals
<1>1. ASSUME NEW P \in SUBSET ProposalId, NEW s \in ProposalStatus \ {"pending"}, MarkTx(P, s)
      PROVE  ProposalId' = ProposalId /\ \A p \in ProposalId : Kept(p)
  <2>1. /\ ProposalId' = ProposalId
        /\ \A p \in ProposalId : proposals'[p] =
             IF p \in P THEN [proposals[p] EXCEPT !.status = s] ELSE proposals[p]
    BY <1>1, MarkEffect
  <2>2. QED BY <2>1 DEF Kept, Proposal
<1>2. UNCHANGED proposals => ProposalId' = ProposalId /\ \A p \in ProposalId : Kept(p)
  BY DEF Kept, ProposalId
<1>3. CASE QuietDecision
  BY <1>2, <1>3 DEF QuietDecision
<1>4. CASE Superseding
  BY <1>1, <1>4 DEF Superseding, ProposalStatus
<1>5. CASE Creating
  <2>1. PICK e \in Event, action \in Action, id \in 1..MaxProposals :
          e = eval.event /\ NewRow(PolicyFor(e), action, e, id)
    BY <1>5 DEF Creating
  <2>2. CASE proposals' # proposals
    <3>1. PICK policy \in Policy : policy = PolicyFor(e)
      BY PolicyForType
    <3>2. ProposalId' = ProposalId \cup {id}
      BY <2>1, <2>2, <3>1, NewProposal
    <3>3. \A p \in ProposalId : proposals'[p] =
            IF policy # Generic /\ p \in PendingOf(policy)
            THEN [proposals[p] EXCEPT !.status = "superseded"] ELSE proposals[p]
      BY <2>1, <2>2, <3>1, CreateEffect
    <3>4. QED BY <1>5, <3>2, <3>3 DEF Kept, Proposal
  <2>3. QED BY <1>2, <1>5, <2>2
<1>6. ASSUME NEW o \in Operator, ApprovalStep(o)
      PROVE  ProposalId' = ProposalId /\ \A p \in ProposalId : Kept(p)
  <2>1. CASE UNCHANGED storeVars
    BY <1>2, <2>1 DEF storeVars
  <2>2. CASE ClaimProposalTx(operator[o].proposal)
    BY <1>1, <2>2 DEF ClaimProposalTx, IsPending, ProposalStatus
  <2>3. CASE CompleteProposal(o)
    BY <1>1, <2>3 DEF CompleteProposal, CompleteTx, ProposalStatus
  <2>4. QED BY <1>6, <2>1, <2>2, <2>3 DEF ApprovalStep, Approve, RefuseExecution, CallTool
<1>7. ASSUME NEW p \in ProposalId, Reject(p)
      PROVE  ProposalId' = ProposalId /\ \A q \in ProposalId : Kept(q)
  BY <1>1, <1>7 DEF Reject, RejectTx, ProposalStatus
<1>8. QED BY <1>3, <1>4, <1>5, <1>6, <1>7, OnlyDecisionSteps DEF DecisionStep

(* The row an assessment adds. *)
LEMMA AddedRow ==
  ASSUME ApprovalInv, [Next]_vars, NEW p \in ProposalId', p \notin ProposalId
  PROVE  /\ Creating
         /\ proposals'[p].policy = PolicyFor(eval.event)
         /\ \A q \in PendingOf(PolicyFor(eval.event)) :
              /\ proposals[q].action # proposals'[p].action
              /\ PolicyFor(eval.event) # Generic => proposals'[q].status # "pending"
         /\ ProposalId' = ProposalId \cup {p}
<1> TypeInv /\ StoreTypeOK /\ \A q \in ProposalId : proposals[q] \in Proposal
  BY StatusType DEF ApprovalInv, TypeInv, TypeOK
<1>1. Creating
  BY RowsKept
<1>2. PICK e \in Event, action \in Action, id \in 1..MaxProposals :
        e = eval.event /\ NewRow(PolicyFor(e), action, e, id)
  BY <1>1 DEF Creating
<1>3. PICK policy \in Policy : policy = PolicyFor(e)
  BY PolicyForType
<1>4. proposals' # proposals
  BY DEF ProposalId
<1>5. ProposalId' = ProposalId \cup {id}
  BY <1>2, <1>3, <1>4, NewProposal
<1>6. proposals'[id] = [policy |-> policy, action |-> action, event |-> e, status |-> "pending"]
  BY <1>2, <1>3, <1>4, CreateEffect
<1>7. \A q \in ProposalId : proposals'[q] =
        IF policy # Generic /\ q \in PendingOf(policy)
        THEN [proposals[q] EXCEPT !.status = "superseded"] ELSE proposals[q]
  BY <1>2, <1>3, <1>4, CreateEffect
<1>8. \A q \in PendingOf(policy) : proposals[q].action # action
  BY <1>2, <1>3, <1>4, CreateEffect
<1>9. \A q \in PendingOf(policy) : q \in ProposalId
  BY DEF PendingOf
<1>10. p = id
  BY <1>5
<1>11. \A q \in PendingOf(policy) : policy # Generic => proposals'[q].status = "superseded"
  BY <1>7, <1>9 DEF Proposal
<1>12. QED BY <1>1, <1>2, <1>3, <1>5, <1>6, <1>8, <1>10, <1>11

(* Open proposals of a policy stay distinct. *)
LEMMA DistinctStep ==
  ASSUME ApprovalInv, PendingAreDistinct, [Next]_vars
  PROVE  PendingAreDistinct'
<1> SUFFICES ASSUME NEW p \in ProposalId', NEW q \in ProposalId', p # q,
                    proposals'[p].status = "pending", proposals'[q].status = "pending",
                    proposals'[p].policy = proposals'[q].policy
             PROVE  proposals'[p].action # proposals'[q].action /\ proposals'[p].policy = Generic
  BY DEF PendingAreDistinct, IsPending
<1>1. CASE p \in ProposalId /\ q \in ProposalId
  BY <1>1, RowsKept DEF PendingAreDistinct, IsPending, Kept
<1>2. ASSUME NEW r \in ProposalId', NEW s \in ProposalId', r \notin ProposalId, s \in ProposalId,
             proposals'[s].status = "pending", proposals'[r].policy = proposals'[s].policy
      PROVE  proposals'[r].action # proposals'[s].action /\ proposals'[r].policy = Generic
  <2>1. /\ proposals[s].status = "pending" /\ proposals[s].policy = proposals'[s].policy
        /\ proposals[s].action = proposals'[s].action
    BY <1>2, RowsKept DEF Kept
  <2>2. proposals'[r].policy = PolicyFor(eval.event)
    BY <1>2, AddedRow
  <2>3. s \in PendingOf(PolicyFor(eval.event))
    BY <1>2, <2>1, <2>2 DEF PendingOf, IsPending
  <2>4. QED BY <1>2, <2>1, <2>2, <2>3, AddedRow
<1>3. p \in ProposalId \/ q \in ProposalId
  BY AddedRow
<1>4. QED BY <1>1, <1>2, <1>3

-----------------------------------------------------------------------------
(* The steps that change a policy's state, the running assessment or the     *)
(* deployment, and all the others.                                           *)
QuietAssessment ==
  /\ UNCHANGED <<active, registered>>
  /\ eval' = eval \/ eval'.stage = "idle"
  /\ main = "down" => main' = "down"

AssessmentStep ==
  \/ \E d \in Deployments : Boot(d)
  \/ \E e \in DirectEvents : ReceiveEvent(e)
  \/ BeginReserved \/ BeginDirect \/ EvaluateFails
  \/ \E outcome \in Action \cup {NoAction} : Evaluate(outcome)
  \/ Supersede \/ Activate \/ Create

LEMMA OnlyAssessmentSteps ==
  ASSUME [Next]_vars
  PROVE  AssessmentStep \/ QuietAssessment
<1> USE DEF QuietAssessment, threadVars, lifeVars, histVars, storeVars, queueVars
<1>1. ASSUME NEW d \in Deployments, Boot(d) PROVE AssessmentStep \/ QuietAssessment
  BY <1>1 DEF AssessmentStep
<1>2. ASSUME Start PROVE AssessmentStep \/ QuietAssessment
  BY <1>2 DEF Start, RecoverTx
<1>3. ASSUME StopSet PROVE AssessmentStep \/ QuietAssessment
  BY <1>3 DEF StopSet
<1>4. ASSUME StopWake PROVE AssessmentStep \/ QuietAssessment
  BY <1>4 DEF StopWake
<1>5. ASSUME StopJoin PROVE AssessmentStep \/ QuietAssessment
  BY <1>5 DEF StopJoin
<1>6. ASSUME Die PROVE AssessmentStep \/ QuietAssessment
  BY <1>6 DEF Die, NoEvaluation
<1>7. ASSUME NEW e \in Event, EnqueueEvent(e) PROVE AssessmentStep \/ QuietAssessment
  BY <1>7 DEF EnqueueEvent, EnqueueTx
<1>8. ASSUME NEW e \in Event, SetWake(e) PROVE AssessmentStep \/ QuietAssessment
  BY <1>8 DEF SetWake
<1>9. ASSUME NEW e \in DirectEvents, ReceiveEvent(e) PROVE AssessmentStep \/ QuietAssessment
  BY <1>9 DEF AssessmentStep
<1>10. ASSUME CheckStop PROVE AssessmentStep \/ QuietAssessment
  BY <1>10 DEF CheckStop
<1>11. ASSUME WaitWake PROVE AssessmentStep \/ QuietAssessment
  BY <1>11 DEF WaitWake
<1>12. ASSUME ClearWake PROVE AssessmentStep \/ QuietAssessment
  BY <1>12 DEF ClearWake
<1>13. ASSUME Drain PROVE AssessmentStep \/ QuietAssessment
  BY <1>13 DEF Drain
<1>14. ASSUME ClaimEvent PROVE AssessmentStep \/ QuietAssessment
  BY <1>14 DEF ClaimEvent, ClaimEventTx
<1>15. ASSUME FinishEvent PROVE AssessmentStep \/ QuietAssessment
  BY <1>15 DEF FinishEvent, CompleteEventTx, FailEventTx
<1>16. ASSUME BeginReserved PROVE AssessmentStep \/ QuietAssessment
  BY <1>16 DEF AssessmentStep
<1>17. ASSUME BeginDirect PROVE AssessmentStep \/ QuietAssessment
  BY <1>17 DEF AssessmentStep
<1>18. ASSUME EvaluateFails PROVE AssessmentStep \/ QuietAssessment
  BY <1>18 DEF AssessmentStep
<1>19. ASSUME Forget PROVE AssessmentStep \/ QuietAssessment
  BY <1>19 DEF Forget, ForgetEventTx, InEvaluation, Leave, NoEvaluation
<1>20. ASSUME NEW outcome \in Action \cup {NoAction}, Evaluate(outcome) PROVE AssessmentStep \/ QuietAssessment
  BY <1>20 DEF AssessmentStep
<1>21. ASSUME Supersede PROVE AssessmentStep \/ QuietAssessment
  BY <1>21 DEF AssessmentStep
<1>22. ASSUME Activate PROVE AssessmentStep \/ QuietAssessment
  BY <1>22 DEF AssessmentStep
<1>23. ASSUME Create PROVE AssessmentStep \/ QuietAssessment
  BY <1>23 DEF AssessmentStep
<1>24. ASSUME Decide PROVE AssessmentStep \/ QuietAssessment
  BY <1>24 DEF Decide, SaveDecisionTx, InEvaluation, Leave, NoEvaluation
<1>25. ASSUME NEW o \in Operator, Approve(o) PROVE AssessmentStep \/ QuietAssessment
  BY <1>25 DEF Approve, ClaimProposalTx, MarkTx, OperatorOnly
<1>26. ASSUME NEW o \in Operator, RefuseExecution(o) PROVE AssessmentStep \/ QuietAssessment
  BY <1>26 DEF RefuseExecution, OperatorOnly
<1>27. ASSUME NEW o \in Operator, CompleteProposal(o) PROVE AssessmentStep \/ QuietAssessment
  BY <1>27 DEF CompleteProposal, CompleteTx, MarkTx, OperatorOnly
<1>28. ASSUME NEW o \in Operator, NEW result \in {"succeeded", "failed"}, CallTool(o, result) PROVE AssessmentStep \/ QuietAssessment
  BY <1>28 DEF CallTool, OperatorOnly
<1>29. ASSUME NEW o \in Operator, NEW p \in ProposalId, AskApprove(o, p) PROVE AssessmentStep \/ QuietAssessment
  BY <1>29 DEF AskApprove, OperatorOnly
<1>30. ASSUME NEW p \in ProposalId, Reject(p) PROVE AssessmentStep \/ QuietAssessment
  BY <1>30 DEF Reject, RejectTx, MarkTx, OperatorOnly
<1>31. ASSUME TimePasses PROVE AssessmentStep \/ QuietAssessment
  BY <1>31 DEF TimePasses
<1>32. ASSUME UNCHANGED vars PROVE AssessmentStep \/ QuietAssessment
  BY <1>32 DEF vars
<1>33. QED BY <1>1, <1>2, <1>3, <1>4, <1>5, <1>6, <1>7, <1>8, <1>9, <1>10, <1>11, <1>12, <1>13, <1>14, <1>15, <1>16, <1>17, <1>18, <1>19, <1>20, <1>21, <1>22, <1>23, <1>24, <1>25, <1>26, <1>27, <1>28, <1>29, <1>30, <1>31, <1>32
  DEF Next, WorkerStep, EvaluationStep, ApprovalStep

(* The running assessment keeps knowing the state of its policy. *)
LEMMA EvaluatingStep ==
  ASSUME OfferInv, [Next]_vars
  PROVE  Evaluating'
<1> /\ ApprovalInv /\ Evaluating /\ PendingMatchesActive
    /\ eval \in Evaluation /\ active \in [Policy -> BOOLEAN] /\ StoreTypeOK
    /\ eval.stage # "idle" => eval.event \in Event
    /\ worker \in InHand => workerEvent \in Event
    /\ main = "down" => eval.stage = "idle"
    /\ holder = Free => eval.stage = "idle"
  BY NameAssumption
  DEF OfferInv, ApprovalInv, TypeInv, TypeOK, StoreTypeOK, Locals, EvalLocals, WorkerLocals, Locks,
      Free, Worker, Caller
<1>k. ASSUME NEW policy, ~Creating, PendingOf(policy) = {} PROVE PendingOf(policy)' = {}
  BY <1>k, RowsKept DEF Kept, PendingOf, IsPending
<1>c. Creating => eval.stage = "create" /\ eval'.stage = "decide"
  BY DEF Creating
<1>r. UNCHANGED registered => \A e \in Event : Supported(e)' = Supported(e) /\ PolicyFor(e)' = PolicyFor(e)
  BY DEF Supported, PolicyFor
<1>i. eval'.stage = "idle" => Evaluating'
  BY DEF Evaluating
<1>1. CASE QuietAssessment
  <2>1. CASE eval' = eval /\ eval.stage # "idle"
    <3>1. /\ UNCHANGED <<active, registered>> /\ eval.event \in Event
          /\ Supported(eval.event)' = Supported(eval.event)
          /\ PolicyFor(eval.event)' = PolicyFor(eval.event)
      BY <1>1, <2>1 DEF QuietAssessment, Supported, PolicyFor
    <3>2. PendingOf(PolicyFor(eval.event)) = {} => PendingOf(PolicyFor(eval.event))' = {}
      <4>1. PICK policy : policy = PolicyFor(eval.event)
        OBVIOUS
      <4>2. PolicyFor(eval.event)' = policy
        BY <3>1, <4>1
      <4>3. QED BY <1>k, <1>c, <2>1, <4>1, <4>2 DEF PendingOf, IsPending
    <3>3. QED BY <2>1, <3>1, <3>2 DEF Evaluating
  <2>2. QED BY <1>1, <1>i, <2>1 DEF QuietAssessment
<1>2. ASSUME NEW d \in Deployments, Boot(d) PROVE Evaluating'
  BY <1>2, <1>i DEF Boot, threadVars
<1>3. ASSUME NEW e \in DirectEvents, ReceiveEvent(e) PROVE Evaluating'
  BY <1>3, <1>r, PolicyAssumption DEF ReceiveEvent, InEvaluation, lifeVars, NoEvaluation, Evaluating
<1>4. CASE BeginReserved
  <2>1. worker = "contend" /\ holder = Free /\ UNCHANGED registered /\ workerEvent \in Event
    BY <1>4 DEF BeginReserved, InEvaluation, lifeVars, InHand
  <2>2. CASE eval' = eval
    BY <1>i, <2>1, <2>2
  <2>3. CASE Supported(workerEvent) /\ eval' = Assess(workerEvent) /\ UNCHANGED active
    BY <1>r, <2>1, <2>3 DEF NoEvaluation, Assess, Evaluating
  <2>4. QED BY <1>4, <2>2, <2>3 DEF BeginReserved, SaveDecisionTx
<1>5. CASE BeginDirect
  BY <1>5, <1>r
  DEF BeginDirect, InEvaluation, lifeVars, NoEvaluation, Assess, SaveDecisionTx, Evaluating
<1>6. CASE EvaluateFails
  BY <1>6, <1>i, <1>r
  DEF EvaluateFails, Leave, EvalStep, InEvaluation, lifeVars, NoEvaluation, Evaluation, Evaluating
<1>7. ASSUME NEW outcome \in Action \cup {NoAction}, Evaluate(outcome) PROVE Evaluating'
  <2>1. PICK policy \in Policy : policy = PolicyFor(eval.event)
    BY <1>7, PolicyForType DEF Evaluate
  <2>2. /\ eval.stage = "evaluate" /\ eval.event \in Event /\ UNCHANGED <<active, registered, proposals>>
        /\ eval' = [eval EXCEPT !.stage = IF policy # Generic /\ eval.wasActive # (outcome # NoAction)
                                          THEN "supersede" ELSE "activate",
                                !.outcome = outcome]
    BY <1>7, <2>1 DEF Evaluate, InEvaluation, storeVars, lifeVars
  <2>3. /\ eval'.event = eval.event /\ eval'.wasActive = eval.wasActive /\ eval'.outcome = outcome
        /\ eval'.stage \in {"supersede", "activate"}
        /\ eval'.stage = "activate" /\ outcome = NoAction /\ policy # Generic => ~eval.wasActive
    BY <2>2 DEF Evaluation
  <2>4. eval.wasActive = active[policy] /\ Supported(eval.event)
    BY <2>1, <2>2 DEF Evaluating
  <2>5. ~active[policy] /\ policy # Generic => PendingOf(policy) = {}
    BY DEF PendingMatchesActive, PendingOf
  <2>6. PendingOf(policy)' = PendingOf(policy)
    BY <2>2 DEF PendingOf, IsPending, ProposalId
  <2>7. PolicyFor(eval.event)' = policy /\ Supported(eval.event)'
    BY <2>1, <2>2, <2>3, <2>4 DEF PolicyFor, Supported
  <2>8. PendingOf(PolicyFor(eval.event))' = PendingOf(policy)'
    BY <2>3, <2>7 DEF PendingOf, IsPending
  <2>9. QED BY <2>2, <2>3, <2>4, <2>5, <2>6, <2>7, <2>8 DEF Evaluating
<1>8. CASE Supersede
  <2>1. PICK policy \in Policy : policy = PolicyFor(eval.event)
    BY <1>8, PolicyForType DEF Supersede, EvalStep
  <2>2. /\ eval.stage = "supersede" /\ eval.event \in Event /\ UNCHANGED <<active, registered>>
        /\ eval' = [eval EXCEPT !.stage = "activate"]
        /\ MarkTx(PendingOf(policy), "superseded")
    BY <1>8, <2>1
    DEF Supersede, EvalStep, SupersedePendingTx, MarkTx, InEvaluation, lifeVars
  <2>3. /\ eval'.event = eval.event /\ eval'.wasActive = eval.wasActive /\ eval'.stage = "activate"
    BY <2>2 DEF Evaluation
  <2>4. eval.wasActive = active[policy] /\ Supported(eval.event)
    BY <2>1, <2>2 DEF Evaluating
  <2>5. PolicyFor(eval.event)' = policy /\ Supported(eval.event)'
    BY <2>1, <2>2, <2>3, <2>4 DEF PolicyFor, Supported
  <2>6. PendingOf(policy)' = {}
    <3>1. PendingOf(policy) \in SUBSET ProposalId /\ "superseded" \in ProposalStatus
      BY DEF PendingOf, ProposalStatus
    <3>2. /\ ProposalId' = ProposalId
          /\ \A p \in PendingOf(policy) : proposals'[p].status = "superseded"
      BY <2>2, <3>1, MarkEffect
    <3>3. \A p \in ProposalId : Kept(p)
      BY RowsKept
    <3>4. QED BY <3>2, <3>3 DEF PendingOf, IsPending, Kept
  <2>7. PendingOf(PolicyFor(eval.event))' = PendingOf(policy)'
    BY <2>3, <2>5 DEF PendingOf, IsPending
  <2>8. QED BY <2>2, <2>3, <2>4, <2>5, <2>6, <2>7 DEF Evaluating
<1>9. CASE Activate
  <2>1. PICK policy \in Policy : policy = PolicyFor(eval.event)
    BY <1>9, PolicyForType DEF Activate, EvalStep
  <2>2. /\ eval.stage = "activate" /\ eval.event \in Event /\ UNCHANGED registered
        /\ eval' = [eval EXCEPT !.stage = IF eval.outcome = NoAction THEN "decide" ELSE "create"]
        /\ active' = [active EXCEPT ![policy] = eval.outcome # NoAction]
    BY <1>9, <2>1 DEF Activate, EvalStep, SetPolicyActiveTx, InEvaluation, lifeVars
  <2>3. /\ eval'.event = eval.event /\ eval'.stage \in {"decide", "create"}
        /\ eval'.stage = "create" => eval.outcome # NoAction
    BY <2>2 DEF Evaluation
  <2>4. eval'.stage = "create" => active'[policy]
    BY <2>2, <2>3
  <2>5. Supported(eval.event)
    BY <2>2 DEF Evaluating
  <2>6. PolicyFor(eval.event)' = policy /\ Supported(eval.event)'
    BY <2>1, <2>2, <2>3, <2>5 DEF PolicyFor, Supported
  <2>7. QED BY <2>3, <2>4, <2>6 DEF Evaluating
<1>10. CASE Create
  <2>1. /\ eval.stage = "create" /\ eval.event \in Event /\ UNCHANGED registered
        /\ eval'.stage = "decide" /\ eval'.event = eval.event
    BY <1>10 DEF Create, InEvaluation, lifeVars, Evaluation
  <2>2. QED BY <1>r, <2>1 DEF Evaluating
<1>11. QED BY <1>1, <1>2, <1>3, <1>4, <1>5, <1>6, <1>7, <1>8, <1>9, <1>10, OnlyAssessmentSteps
  DEF AssessmentStep

(* An open proposal keeps standing for the state of its policy. *)
LEMMA MatchesStep ==
  ASSUME OfferInv, [Next]_vars
  PROVE  PendingMatchesActive'
<1> /\ ApprovalInv /\ Evaluating /\ PendingMatchesActive
    /\ eval \in Evaluation /\ active \in [Policy -> BOOLEAN]
    /\ eval.stage # "idle" => eval.event \in Event
  BY DEF OfferInv, ApprovalInv, TypeInv, TypeOK, StoreTypeOK, Locals, EvalLocals
<1> SUFFICES ASSUME NEW p \in ProposalId', proposals'[p].status = "pending",
                    proposals'[p].policy # Generic
             PROVE  active'[proposals'[p].policy]
  BY DEF PendingMatchesActive, IsPending
<1>1. active' = active \/ Activate
  BY OnlyAssessmentSteps
  DEF AssessmentStep, QuietAssessment, Boot, SupersedeUnregisteredTx, MarkTx, ReceiveEvent, RecordEventTx,
      BeginReserved, BeginDirect, EvaluateFails, SaveDecisionTx, Evaluate, Supersede,
      SupersedePendingTx, Create, CreateTx, storeVars
<1>2. CASE p \in ProposalId
  <2>1. /\ proposals[p].status = "pending" /\ proposals'[p].policy = proposals[p].policy
    BY <1>2, RowsKept DEF Kept
  <2>2. active[proposals[p].policy]
    BY <1>2, <2>1 DEF PendingMatchesActive, IsPending
  <2>3. CASE Activate
    <3>1. /\ active' = [active EXCEPT ![PolicyFor(eval.event)] = eval.outcome # NoAction]
          /\ eval.stage = "activate"
      BY <2>3 DEF Activate, EvalStep, SetPolicyActiveTx
    <3>2. CASE proposals[p].policy = PolicyFor(eval.event)
      <4>1. eval.outcome # NoAction
        BY <1>2, <2>1, <3>1, <3>2 DEF Evaluating, PendingOf, IsPending
      <4>2. PolicyFor(eval.event) \in Policy
        BY <3>1, PolicyForType
      <4>3. QED BY <2>1, <3>1, <3>2, <4>1, <4>2
    <3>3. QED BY <2>1, <2>2, <3>1, <3>2
  <2>4. QED BY <1>1, <2>1, <2>2, <2>3
<1>3. CASE p \notin ProposalId
  <2>1. Creating /\ proposals'[p].policy = PolicyFor(eval.event)
    BY <1>3, AddedRow
  <2>2. active[PolicyFor(eval.event)] /\ eval.stage = "create"
    BY <2>1 DEF Creating, Evaluating
  <2>3. active' = active
    BY <1>1, <2>2 DEF Activate, EvalStep
  <2>4. QED BY <2>1, <2>2, <2>3
<1>4. QED BY <1>2, <1>3

(* An open proposal, and one about to be executed, keeps a policy of the       *)
(* running deployment.                                                         *)
LEMMA RegisteredStep ==
  ASSUME OfferInv, [Next]_vars
  PROVE  PendingIsRegistered'
<1> /\ ApprovalInv /\ Evaluating /\ PendingIsRegistered /\ StoreTypeOK
    /\ operator \in [Operator -> Call]
    /\ eval.stage # "idle" => eval.event \in Event
    /\ \A o \in Operator : operator[o].stage # "idle" => operator[o].proposal \in ProposalId
    /\ main = "down" => \A o \in Operator : operator[o].stage = "idle"
    /\ main = "down" => eval.stage = "idle"
  BY NameAssumption
  DEF OfferInv, ApprovalInv, TypeInv, TypeOK, ApprovalTypeOK, Locals, OperatorLocals, EvalLocals, Locks,
      Free, Worker, Caller
<1>1. CASE \E d \in Deployments : Boot(d)
  <2>1. PICK d \in Deployments : Boot(d)
    BY <1>1
  <2> DEFINE P == {p \in ProposalId : IsPending(p) /\ proposals[p].policy \notin d}
  <2>2. /\ main = "down" /\ registered' = d /\ UNCHANGED operator /\ MarkTx(P, "superseded")
    BY <2>1 DEF Boot, SupersedeUnregisteredTx
  <2>3. /\ ProposalId' = ProposalId /\ \A p \in P : proposals'[p].status = "superseded"
    BY <2>2, MarkEffect DEF ProposalStatus
  <2>4. \A p \in ProposalId : Kept(p)
    BY RowsKept
  <2>5. \A p \in ProposalId' : proposals'[p].status = "pending" => proposals'[p].policy \in d
    BY <2>3, <2>4 DEF Kept, IsPending
  <2>6. \A o \in Operator : operator'[o].stage # "execute"
    BY <2>2
  <2>7. QED BY <2>2, <2>5, <2>6 DEF PendingIsRegistered, IsPending
<1>2. CASE ~\E d \in Deployments : Boot(d)
  <2>1. registered' = registered /\ (main' # "down" => main # "down")
    BY <1>2, OnlyAssessmentSteps
    DEF AssessmentStep, QuietAssessment, ReceiveEvent, BeginReserved, BeginDirect, EvaluateFails,
        Evaluate, Supersede, Activate, Create, InEvaluation, lifeVars
  <2>2. ASSUME NEW p \in ProposalId', main' # "down", proposals'[p].status = "pending"
        PROVE  proposals'[p].policy \in registered
    <3>1. CASE p \in ProposalId
      BY <2>1, <2>2, <3>1, RowsKept DEF Kept, PendingIsRegistered, IsPending
    <3>2. CASE p \notin ProposalId
      <4>1. proposals'[p].policy = PolicyFor(eval.event) /\ eval.stage = "create"
        BY <2>2, <3>2, AddedRow DEF Creating
      <4>2. Supported(eval.event)
        BY <4>1 DEF Evaluating
      <4>3. QED BY <4>1, <4>2 DEF Supported, PolicyFor
    <3>3. QED BY <3>1, <3>2
  <2>3. ASSUME NEW o \in Operator, operator'[o].stage = "execute"
        PROVE  /\ operator'[o].proposal \in ProposalId
               /\ proposals[operator'[o].proposal].policy \in registered
    <3>1. CASE operator'[o] = operator[o]
      BY <2>3, <3>1 DEF PendingIsRegistered
    <3>2. CASE operator'[o] # operator[o]
      <4>1. Approve(o) /\ ClaimProposalTx(operator[o].proposal)
        <5>1. PICK q \in Operator : ApprovalStep(q)
          BY <2>3, <3>2, OnlyDecisionSteps
          DEF ApprovalInv, DecisionStep, QuietDecision, Superseding, Creating, Executing, Reject,
              OperatorOnly
        <5>2. Approve(q)
          BY <2>3, <3>2, <5>1
          DEF ApprovalStep, RefuseExecution, CallTool, CompleteProposal, Returns, NoCall, Call
        <5>3. QED BY <2>3, <3>2, <5>2 DEF Approve, Returns, NoCall, Call
      <4>2. operator'[o].proposal = operator[o].proposal /\ operator[o].stage = "blocked"
        BY <4>1 DEF Approve, ClaimProposalTx, Returns, Call
      <4>3. IsPending(operator[o].proposal) /\ main # "down"
        BY <4>1, <4>2 DEF ClaimProposalTx
      <4>4. QED BY <4>2, <4>3 DEF PendingIsRegistered, IsPending
    <3>3. QED BY <3>1, <3>2
  <2>4. \A p \in ProposalId : proposals'[p].policy = proposals[p].policy
    BY RowsKept DEF Kept
  <2>5. QED BY <2>1, <2>2, <2>3, <2>4 DEF PendingIsRegistered, IsPending
<1>3. QED BY <1>1, <1>2

LEMMA OfferInvariant == Spec => []OfferInv
<1>1. Init => OfferInv
  <2> SUFFICES ASSUME Init PROVE OfferInv
    OBVIOUS
  <2>1. TypeInv /\ Locks
    BY LineInit DEF LineInv
  <2>2. ProposalId = {}
    BY DEF Init, StoreInit, ProposalId
  <2>3. Approvals /\ Uncalled
    BY <2>2 DEF Init, NoCalls, NoCall, Approvals, Uncalled, Executing
  <2>4. Evaluating
    BY DEF Init, NoEvaluation, Evaluating
  <2>5. QED BY <2>1, <2>2, <2>3, <2>4
    DEF OfferInv, ApprovalInv, PendingMatchesActive, PendingAreDistinct, PendingIsRegistered
<1>2. OfferInv /\ [Next]_vars => OfferInv'
  BY TypeStep, LockStep, ApprovalStepKeeps, EvaluatingStep, MatchesStep, DistinctStep, RegisteredStep
  DEF OfferInv, ApprovalInv
<1>3. QED BY <1>1, <1>2, PTL DEF Spec

(* However assessments, rejections and restarts interleave, no policy has two  *)
(* open proposals of one action, and a policy with a state has one at most.    *)
THEOREM OffersAreDistinct == Spec => []PendingAreDistinct
<1>1. OfferInv => PendingAreDistinct
  BY DEF OfferInv
<1>2. QED BY <1>1, OfferInvariant, PTL

(* An open proposal of a policy with a state stands for its present state,     *)
(* although superseding, recording and creating are transactions of their own. *)
THEOREM OffersMatchState == Spec => []PendingMatchesActive
<1>1. OfferInv => PendingMatchesActive
  BY DEF OfferInv
<1>2. QED BY <1>1, OfferInvariant, PTL

(* Whatever deployments follow each other, what can be approved or is about to *)
(* be executed belongs to the running one.                                     *)
THEOREM OffersAreServed == Spec => []PendingIsRegistered
<1>1. OfferInv => PendingIsRegistered
  BY DEF OfferInv
<1>2. QED BY <1>1, OfferInvariant, PTL
=============================================================================

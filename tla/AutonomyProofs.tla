---------------------------- MODULE AutonomyProofs ----------------------------
(***************************************************************************)
(* What AutonomyController guarantees of events, for any number of events, *)
(* policies, actions, operators, crashes and stops.  The theorems rest on  *)
(* one inductive invariant, whose parts say what the threads hold (Locals, *)
(* Locks), what the queue says of them (InProcess, Sequenced, Lined) and   *)
(* what the tables say of each other (Remembered, Agreed).                 *)
(***************************************************************************)
EXTENDS AutonomyController, SequenceTheorems, TLAPS

InHand     == {"contend", "inside", "complete", "fail"}
Executing  == {"execute", "succeeded", "failed"}
Settled    == {"completed", "failed"}
Assessed   == {"pending", "no_action"}

(* the locals of a thread are meaningful where it reads them *)
EvalLocals ==
  /\ eval.stage # "idle" => eval.event \in Event
  /\ eval.stage = "create" => eval.outcome \in Action
WorkerLocals ==
  /\ worker \in InHand => workerEvent \in Event
  /\ holder = Worker => worker = "inside"
  /\ main \in {"down", "built", "stopped"} => worker \in {"none", "done"}
OperatorLocals ==
  \A o \in Operator : operator[o].stage # "idle" => operator[o].proposal \in ProposalId
Locals == EvalLocals /\ WorkerLocals /\ OperatorLocals

(* who is inside _event_lock *)
Locks ==
  /\ main = "down" => holder = Free /\ \A o \in Operator : operator[o].stage = "idle"
  /\ worker = "inside" => holder = Worker
  /\ holder \in {Worker, Caller} <=> eval.stage # "idle"
  /\ \A o \in Operator : operator[o].stage \in Executing <=> holder = o
  /\ holder = Worker => eval.event = workerEvent /\ eval.stage \notin {"reserved", "forget"}
  /\ holder = Caller => eval.event \in DirectEvents

(* a row in process is the worker's, or waits for recovery after a crash *)
InProcess ==
  /\ OneInProcess
  /\ worker \in InHand => queue[workerEvent] = "processing"
  /\ \A e \in Event : queue[e] = "processing" /\ main \notin {"down", "built"}
                        => worker \in InHand /\ workerEvent = e

(* sequence numbers are handed out once, in growing order *)
Sequenced ==
  \A e \in Event :
    /\ sequence[e] <= lastSequence
    /\ queue[e] # "absent" => sequence[e] # 0
    /\ \A f \in Event : e # f /\ sequence[e] = sequence[f] => sequence[e] = 0

(* settled rows precede the row in process, which precedes the waiting ones *)
Lined ==
  \A e, f \in Event :
    /\ queue[e] \in {"queued", "processing"} /\ queue[f] \in Settled => sequence[f] < sequence[e]
    /\ queue[e] = "queued" /\ queue[f] = "processing" => sequence[f] < sequence[e]

(* an accepted event is remembered, and so is an assessed one *)
Remembered ==
  /\ \A e \in Event :
       /\ queue[e] \in {"queued", "processing", "completed"} => e \in received
       /\ decision[e].status \in Assessed => e \in received /\ queue[e] # "queued"
  /\ holder = Caller => /\ eval.event \in received
                        /\ queue[eval.event] \in {"absent", "failed"}
                        /\ decision[eval.event].status \notin Assessed

(* the decision of an event the worker is about to complete *)
Agreed ==
  /\ TablesAgree
  /\ worker = "complete" /\ workerEvent \notin DirectEvents
       => decision[workerEvent].status \in Assessed

QueueInv == TypeOK /\ Locals /\ Locks /\ InProcess /\ Sequenced /\ Lined /\ Remembered /\ Agreed

-----------------------------------------------------------------------------
(* Marking rows keeps the table a sequence of proposals of the same length. *)
LEMMA MarkedProposals ==
  ASSUME proposals \in Seq(Proposal), NEW P, NEW s \in ProposalStatus
  PROVE  /\ Marked(P, s) \in Seq(Proposal)
         /\ Len(Marked(P, s)) = Len(proposals)
         /\ DOMAIN Marked(P, s) = ProposalId
<1>1. Len(proposals) \in Nat /\ ProposalId = 1..Len(proposals)
  BY DEF ProposalId
<1>2. ASSUME NEW p \in ProposalId
      PROVE  (IF p \in P THEN [proposals[p] EXCEPT !.status = s] ELSE proposals[p]) \in Proposal
  <2>1. proposals[p] \in Proposal
    BY <1>1, <1>2
  <2>2. QED BY <2>1 DEF Proposal
<1>3. Marked(P, s) \in [1..Len(proposals) -> Proposal]
  BY <1>1, <1>2 DEF Marked
<1>4. Marked(P, s) \in Seq(Proposal)
  BY <1>1, <1>3, SeqDef
<1>5. DOMAIN Marked(P, s) = ProposalId
  BY DEF Marked
<1>6. Len(Marked(P, s)) = Len(proposals)
  BY <1>1, <1>4, <1>5, LenProperties
<1>7. QED BY <1>4, <1>5, <1>6

(* A transaction that marks rows keeps the tables typed and moves no row. *)
LEMMA MarkTxType ==
  ASSUME StoreTypeOK, NEW P, NEW s \in ProposalStatus, MarkTx(P, s)
  PROVE  StoreTypeOK' /\ Len(proposals') = Len(proposals) /\ ProposalId' = ProposalId
BY MarkedProposals DEF MarkTx, StoreTypeOK, queueVars, ProposalId

LEMMA CreateTxType ==
  ASSUME StoreTypeOK, NEW policy \in Policy, NEW action \in Action, NEW e \in Event,
         NEW replacePending, NEW id \in 1..MaxProposals,
         CreateTx(policy, action, e, replacePending, id)
  PROVE  /\ StoreTypeOK'
         /\ Len(proposals') >= Len(proposals)
         /\ ProposalId \subseteq ProposalId'
<1>1. CASE UNCHANGED proposals
  BY <1>1 DEF CreateTx, StoreTypeOK, queueVars, ProposalId
<1>2. CASE proposals' # proposals
  <2> DEFINE kept == IF replacePending THEN Marked(PendingOf(policy), "superseded") ELSE proposals
             row  == [policy |-> policy, action |-> action, event |-> e, status |-> "pending"]
  <2>1. kept \in Seq(Proposal) /\ Len(kept) = Len(proposals)
    BY MarkedProposals DEF StoreTypeOK, ProposalStatus
  <2>2. row \in Proposal
    BY DEF Proposal, ProposalStatus
  <2>3. proposals' = Append(kept, row) /\ Len(proposals) < MaxProposals
    BY <1>2 DEF CreateTx
  <2> HIDE DEF kept, row
  <2>4. proposals' \in Seq(Proposal) /\ Len(proposals') = Len(proposals) + 1
    BY <2>1, <2>2, <2>3
  <2>5. ProposalId = 1..Len(proposals) /\ ProposalId' = 1..Len(proposals')
    BY <2>4 DEF ProposalId, StoreTypeOK
  <2>6. Len(proposals) \in Nat /\ MaxProposals \in Nat
    BY BoundAssumption DEF StoreTypeOK
  <2>7. QED BY <2>3, <2>4, <2>5, <2>6 DEF CreateTx, StoreTypeOK, queueVars
<1>3. QED BY <1>1, <1>2

(* The transactions on the event tables keep the tables typed. *)
LEMMA EventTxType ==
  ASSUME StoreTypeOK, NEW e \in Event,
         \/ EnqueueTx(e) \/ ClaimEventTx(e) \/ CompleteEventTx(e)
         \/ FailEventTx(e) \/ RecordEventTx(e) \/ ForgetEventTx(e)
  PROVE  StoreTypeOK' /\ UNCHANGED proposals
<1> USE DEF StoreTypeOK, QueueStatus, DecisionStatus, Decision, Decided, NoProposal, queueVars
<1>1. CASE EnqueueTx(e)
  <2>1. CASE UNCHANGED storeVars
    BY <2>1 DEF storeVars
  <2>2. CASE ~UNCHANGED storeVars
    <3>1. /\ lastSequence' = lastSequence + 1
          /\ sequence' = [sequence EXCEPT ![e] = lastSequence + 1]
          /\ queue' = [queue EXCEPT ![e] = "queued"]
          /\ received' = received \cup {e}
          /\ decision' = [decision EXCEPT ![e] = Decided("queued")]
          /\ UNCHANGED <<active, proposals>>
      BY <1>1, <2>2, Zenon DEF EnqueueTx
    <3>2. QED BY <3>1
  <2>3. QED BY <2>1, <2>2
<1>3. CASE ClaimEventTx(e)
  BY <1>3 DEF ClaimEventTx
<1>4. CASE CompleteEventTx(e)
  BY <1>4 DEF CompleteEventTx
<1>5. CASE FailEventTx(e)
  BY <1>5 DEF FailEventTx
<1>6. CASE RecordEventTx(e)
  BY <1>6 DEF RecordEventTx
<1>7. CASE ForgetEventTx(e)
  BY <1>7 DEF ForgetEventTx
<1>8. QED BY <1>1, <1>3, <1>4, <1>5, <1>6, <1>7

LEMMA RecoverTxType ==
  ASSUME StoreTypeOK, RecoverTx
  PROVE  StoreTypeOK' /\ UNCHANGED proposals
BY DEF RecoverTx, StoreTypeOK, QueueStatus, DecisionStatus, Decision, Decided, NoProposal

LEMMA SaveDecisionTxType ==
  ASSUME StoreTypeOK, NEW e \in Event, NEW payload \in Decision, SaveDecisionTx(e, payload)
  PROVE  StoreTypeOK' /\ UNCHANGED proposals
BY DEF SaveDecisionTx, StoreTypeOK, queueVars

LEMMA SetPolicyActiveTxType ==
  ASSUME StoreTypeOK, NEW policy \in Policy, NEW flag \in BOOLEAN,
         SetPolicyActiveTx(policy, flag)
  PROVE  StoreTypeOK' /\ UNCHANGED proposals
BY DEF SetPolicyActiveTx, StoreTypeOK, queueVars

LEMMA UnchangedStoreType ==
  ASSUME StoreTypeOK, UNCHANGED storeVars
  PROVE  StoreTypeOK' /\ UNCHANGED proposals
BY DEF storeVars, queueVars, StoreTypeOK

LEMMA PolicyForType == \A e \in Event : PolicyFor(e) \in Policy
BY PolicyAssumption DEF PolicyFor

LEMMA DecidedType == \A s \in DecisionStatus : Decided(s) \in Decision
BY DEF Decided, Decision, NoProposal

(* Rows are never removed: what named a proposal still does. *)
Grows == ProposalId \subseteq ProposalId' /\ Len(proposals) <= Len(proposals')

LEMMA StoreStep ==
  ASSUME TypeOK, Locals, [Next]_vars
  PROVE  StoreTypeOK' /\ Grows
<1> USE DEF Locals, EvalLocals, WorkerLocals, OperatorLocals
<1> StoreTypeOK /\ Len(proposals) \in Nat
  BY DEF TypeOK, StoreTypeOK
<1>u. UNCHANGED storeVars => StoreTypeOK' /\ Grows
  BY UnchangedStoreType DEF Grows, ProposalId
<1>p. StoreTypeOK' /\ UNCHANGED proposals => StoreTypeOK' /\ Grows
  BY DEF Grows, ProposalId
<1>1. ASSUME NEW d \in Deployments, Boot(d) PROVE StoreTypeOK' /\ Grows
  BY <1>1, MarkTxType DEF Boot, SupersedeUnregisteredTx, ProposalStatus, Grows
<1>2. ASSUME Start PROVE StoreTypeOK' /\ Grows
  BY <1>2, <1>p, RecoverTxType DEF Start
<1>3. ASSUME StopSet PROVE StoreTypeOK' /\ Grows
  BY <1>3, <1>u DEF StopSet
<1>4. ASSUME StopWake PROVE StoreTypeOK' /\ Grows
  BY <1>4, <1>u DEF StopWake
<1>5. ASSUME StopJoin PROVE StoreTypeOK' /\ Grows
  BY <1>5, <1>u DEF StopJoin
<1>6. ASSUME Die PROVE StoreTypeOK' /\ Grows
  BY <1>6, <1>u DEF Die
<1>7. ASSUME NEW e \in Event, EnqueueEvent(e) PROVE StoreTypeOK' /\ Grows
  BY <1>7, <1>p, EventTxType DEF EnqueueEvent
<1>8. ASSUME NEW e \in Event, SetWake(e) PROVE StoreTypeOK' /\ Grows
  BY <1>8, <1>u DEF SetWake
<1>9. ASSUME NEW e \in DirectEvents, ReceiveEvent(e) PROVE StoreTypeOK' /\ Grows
  BY <1>9, <1>p, EventTxType, PolicyAssumption DEF ReceiveEvent
<1>10. ASSUME CheckStop PROVE StoreTypeOK' /\ Grows
  BY <1>10, <1>u DEF CheckStop
<1>11. ASSUME WaitWake PROVE StoreTypeOK' /\ Grows
  BY <1>11, <1>u DEF WaitWake
<1>12. ASSUME ClearWake PROVE StoreTypeOK' /\ Grows
  BY <1>12, <1>u DEF ClearWake
<1>13. ASSUME Drain PROVE StoreTypeOK' /\ Grows
  BY <1>13, <1>u DEF Drain
<1>14. ASSUME ClaimEvent PROVE StoreTypeOK' /\ Grows
  BY <1>14, <1>p, <1>u, EventTxType DEF ClaimEvent, storeVars
<1>15. ASSUME FinishEvent PROVE StoreTypeOK' /\ Grows
  BY <1>15, <1>p, EventTxType DEF FinishEvent, InHand
<1>16. ASSUME BeginReserved PROVE StoreTypeOK' /\ Grows
  BY <1>16, <1>p, <1>u, SaveDecisionTxType, DecidedType DEF BeginReserved, InHand, DecisionStatus
<1>17. ASSUME BeginDirect PROVE StoreTypeOK' /\ Grows
  BY <1>17, <1>p, SaveDecisionTxType, DecidedType DEF BeginDirect, DecisionStatus
<1>18. ASSUME EvaluateFails PROVE StoreTypeOK' /\ Grows
  BY <1>18, <1>p, SaveDecisionTxType, DecidedType DEF EvaluateFails, DecisionStatus
<1>19. ASSUME Forget PROVE StoreTypeOK' /\ Grows
  BY <1>19, <1>p, EventTxType DEF Forget
<1>20. ASSUME NEW outcome \in Action \cup {NoAction}, Evaluate(outcome) PROVE StoreTypeOK' /\ Grows
  BY <1>20, <1>u DEF Evaluate
<1>21. ASSUME Supersede PROVE StoreTypeOK' /\ Grows
  BY <1>21, MarkTxType DEF Supersede, SupersedePendingTx, ProposalStatus, Grows
<1>22. ASSUME Activate PROVE StoreTypeOK' /\ Grows
  BY <1>22, <1>p, SetPolicyActiveTxType, PolicyForType DEF Activate, EvalStep
<1>23. ASSUME Create PROVE StoreTypeOK' /\ Grows
  BY <1>23, CreateTxType, PolicyForType DEF Create, Grows
<1>24. ASSUME Decide PROVE StoreTypeOK' /\ Grows
  BY <1>24, <1>p, SaveDecisionTxType DEF Decide, Decision, DecisionStatus, TypeOK, Evaluation
<1>25. ASSUME NEW o \in Operator, Approve(o) PROVE StoreTypeOK' /\ Grows
  BY <1>25, <1>u, MarkTxType DEF Approve, ClaimProposalTx, ProposalStatus, Grows
<1>26. ASSUME NEW o \in Operator, RefuseExecution(o) PROVE StoreTypeOK' /\ Grows
  BY <1>26, <1>u DEF RefuseExecution
<1>27. ASSUME NEW o \in Operator, CompleteProposal(o) PROVE StoreTypeOK' /\ Grows
  BY <1>27, MarkTxType DEF CompleteProposal, CompleteTx, ProposalStatus, Grows
<1>28. ASSUME NEW o \in Operator, NEW result \in {"succeeded", "failed"}, CallTool(o, result) PROVE StoreTypeOK' /\ Grows
  BY <1>28, <1>u DEF CallTool
<1>29. ASSUME NEW o \in Operator, NEW p \in ProposalId, AskApprove(o, p) PROVE StoreTypeOK' /\ Grows
  BY <1>29, <1>u DEF AskApprove
<1>30. ASSUME NEW p \in ProposalId, Reject(p) PROVE StoreTypeOK' /\ Grows
  BY <1>30, MarkTxType DEF Reject, RejectTx, ProposalStatus, Grows
<1>31. ASSUME TimePasses PROVE StoreTypeOK' /\ Grows
  BY <1>31, <1>u DEF TimePasses
<1>32. ASSUME UNCHANGED vars PROVE StoreTypeOK' /\ Grows
  BY <1>32, <1>u DEF vars
<1>33. QED BY <1>1, <1>2, <1>3, <1>4, <1>5, <1>6, <1>7, <1>8, <1>9, <1>10, <1>11, <1>12, <1>13, <1>14, <1>15, <1>16, <1>17, <1>18, <1>19, <1>20, <1>21, <1>22, <1>23, <1>24, <1>25, <1>26, <1>27, <1>28, <1>29, <1>30, <1>31, <1>32
  DEF Next, WorkerStep, EvaluationStep, ApprovalStep

(* Every step keeps the threads' control typed. *)
LEMMA ControlStep ==
  ASSUME ControlTypeOK, WorkerLocals, [Next]_vars
  PROVE  ControlTypeOK' /\ WorkerLocals'
<1> USE PolicyAssumption, NameAssumption
    DEF ControlTypeOK, WorkerLocals, InHand, WorkerStage, MainStage, Free, Worker, Caller,
        threadVars, lifeVars, histVars
<1>1. ASSUME NEW d \in Deployments, Boot(d) PROVE ControlTypeOK' /\ WorkerLocals'
  BY <1>1 DEF Boot
<1>2. ASSUME Start PROVE ControlTypeOK' /\ WorkerLocals'
  BY <1>2 DEF Start
<1>3. ASSUME StopSet PROVE ControlTypeOK' /\ WorkerLocals'
  BY <1>3 DEF StopSet
<1>4. ASSUME StopWake PROVE ControlTypeOK' /\ WorkerLocals'
  BY <1>4 DEF StopWake
<1>5. ASSUME StopJoin PROVE ControlTypeOK' /\ WorkerLocals'
  BY <1>5 DEF StopJoin
<1>6. ASSUME Die PROVE ControlTypeOK' /\ WorkerLocals'
  BY <1>6 DEF Die
<1>7. ASSUME NEW e \in Event, EnqueueEvent(e) PROVE ControlTypeOK' /\ WorkerLocals'
  BY <1>7 DEF EnqueueEvent
<1>8. ASSUME NEW e \in Event, SetWake(e) PROVE ControlTypeOK' /\ WorkerLocals'
  BY <1>8 DEF SetWake
<1>9. ASSUME NEW e \in DirectEvents, ReceiveEvent(e) PROVE ControlTypeOK' /\ WorkerLocals'
  BY <1>9 DEF ReceiveEvent, InEvaluation
<1>10. ASSUME CheckStop PROVE ControlTypeOK' /\ WorkerLocals'
  BY <1>10 DEF CheckStop, WorkerGoes
<1>11. ASSUME WaitWake PROVE ControlTypeOK' /\ WorkerLocals'
  BY <1>11 DEF WaitWake, WorkerGoes
<1>12. ASSUME ClearWake PROVE ControlTypeOK' /\ WorkerLocals'
  BY <1>12 DEF ClearWake, WorkerGoes
<1>13. ASSUME Drain PROVE ControlTypeOK' /\ WorkerLocals'
  BY <1>13 DEF Drain, WorkerGoes
<1>14. ASSUME ClaimEvent PROVE ControlTypeOK' /\ WorkerLocals'
  BY <1>14 DEF ClaimEvent, WorkerGoes
<1>15. ASSUME FinishEvent PROVE ControlTypeOK' /\ WorkerLocals'
  BY <1>15 DEF FinishEvent
<1>16. ASSUME BeginReserved PROVE ControlTypeOK' /\ WorkerLocals'
  BY <1>16 DEF BeginReserved, InEvaluation
<1>17. ASSUME BeginDirect PROVE ControlTypeOK' /\ WorkerLocals'
  BY <1>17 DEF BeginDirect, InEvaluation
<1>18. ASSUME EvaluateFails PROVE ControlTypeOK' /\ WorkerLocals'
  BY <1>18 DEF EvaluateFails, Leave, InEvaluation
<1>19. ASSUME Forget PROVE ControlTypeOK' /\ WorkerLocals'
  BY <1>19 DEF Forget, Leave, InEvaluation
<1>20. ASSUME NEW outcome \in Action \cup {NoAction}, Evaluate(outcome) PROVE ControlTypeOK' /\ WorkerLocals'
  BY <1>20 DEF Evaluate, InEvaluation
<1>21. ASSUME Supersede PROVE ControlTypeOK' /\ WorkerLocals'
  BY <1>21 DEF Supersede, InEvaluation
<1>22. ASSUME Activate PROVE ControlTypeOK' /\ WorkerLocals'
  BY <1>22 DEF Activate, InEvaluation
<1>23. ASSUME Create PROVE ControlTypeOK' /\ WorkerLocals'
  BY <1>23 DEF Create, InEvaluation
<1>24. ASSUME Decide PROVE ControlTypeOK' /\ WorkerLocals'
  BY <1>24 DEF Decide, Leave, InEvaluation
<1>25. ASSUME NEW o \in Operator, Approve(o) PROVE ControlTypeOK' /\ WorkerLocals'
  BY <1>25 DEF Approve, OperatorOnly
<1>26. ASSUME NEW o \in Operator, RefuseExecution(o) PROVE ControlTypeOK' /\ WorkerLocals'
  BY <1>26 DEF RefuseExecution, OperatorOnly
<1>27. ASSUME NEW o \in Operator, CompleteProposal(o) PROVE ControlTypeOK' /\ WorkerLocals'
  BY <1>27 DEF CompleteProposal, OperatorOnly
<1>28. ASSUME NEW o \in Operator, NEW result \in {"succeeded", "failed"}, CallTool(o, result) PROVE ControlTypeOK' /\ WorkerLocals'
  BY <1>28 DEF CallTool, OperatorOnly
<1>29. ASSUME NEW o \in Operator, NEW p \in ProposalId, AskApprove(o, p) PROVE ControlTypeOK' /\ WorkerLocals'
  BY <1>29 DEF AskApprove, OperatorOnly
<1>30. ASSUME NEW p \in ProposalId, Reject(p) PROVE ControlTypeOK' /\ WorkerLocals'
  BY <1>30 DEF Reject, OperatorOnly
<1>31. ASSUME TimePasses PROVE ControlTypeOK' /\ WorkerLocals'
  BY <1>31 DEF TimePasses
<1>32. ASSUME UNCHANGED vars PROVE ControlTypeOK' /\ WorkerLocals'
  BY <1>32 DEF vars
<1>33. QED BY <1>1, <1>2, <1>3, <1>4, <1>5, <1>6, <1>7, <1>8, <1>9, <1>10, <1>11, <1>12, <1>13, <1>14, <1>15, <1>16, <1>17, <1>18, <1>19, <1>20, <1>21, <1>22, <1>23, <1>24, <1>25, <1>26, <1>27, <1>28, <1>29, <1>30, <1>31, <1>32
  DEF Next, WorkerStep, EvaluationStep, ApprovalStep

LEMMA FlagStep ==
  ASSUME stop \in BOOLEAN, wake \in BOOLEAN, [Next]_vars
  PROVE  stop' \in BOOLEAN /\ wake' \in BOOLEAN
<1> USE Zenon DEF threadVars, lifeVars, histVars
<1>1. ASSUME NEW d \in Deployments, Boot(d) PROVE stop' \in BOOLEAN /\ wake' \in BOOLEAN
  BY <1>1 DEF Boot
<1>2. ASSUME Start PROVE stop' \in BOOLEAN /\ wake' \in BOOLEAN
  BY <1>2 DEF Start
<1>3. ASSUME StopSet PROVE stop' \in BOOLEAN /\ wake' \in BOOLEAN
  BY <1>3 DEF StopSet
<1>4. ASSUME StopWake PROVE stop' \in BOOLEAN /\ wake' \in BOOLEAN
  BY <1>4 DEF StopWake
<1>5. ASSUME StopJoin PROVE stop' \in BOOLEAN /\ wake' \in BOOLEAN
  BY <1>5 DEF StopJoin
<1>6. ASSUME Die PROVE stop' \in BOOLEAN /\ wake' \in BOOLEAN
  BY <1>6 DEF Die
<1>7. ASSUME NEW e \in Event, EnqueueEvent(e) PROVE stop' \in BOOLEAN /\ wake' \in BOOLEAN
  BY <1>7 DEF EnqueueEvent
<1>8. ASSUME NEW e \in Event, SetWake(e) PROVE stop' \in BOOLEAN /\ wake' \in BOOLEAN
  BY <1>8 DEF SetWake
<1>9. ASSUME NEW e \in DirectEvents, ReceiveEvent(e) PROVE stop' \in BOOLEAN /\ wake' \in BOOLEAN
  BY <1>9 DEF ReceiveEvent, InEvaluation
<1>10. ASSUME CheckStop PROVE stop' \in BOOLEAN /\ wake' \in BOOLEAN
  BY <1>10 DEF CheckStop
<1>11. ASSUME WaitWake PROVE stop' \in BOOLEAN /\ wake' \in BOOLEAN
  BY <1>11 DEF WaitWake
<1>12. ASSUME ClearWake PROVE stop' \in BOOLEAN /\ wake' \in BOOLEAN
  BY <1>12 DEF ClearWake
<1>13. ASSUME Drain PROVE stop' \in BOOLEAN /\ wake' \in BOOLEAN
  BY <1>13 DEF Drain
<1>14. ASSUME ClaimEvent PROVE stop' \in BOOLEAN /\ wake' \in BOOLEAN
  BY <1>14 DEF ClaimEvent
<1>15. ASSUME FinishEvent PROVE stop' \in BOOLEAN /\ wake' \in BOOLEAN
  BY <1>15 DEF FinishEvent
<1>16. ASSUME BeginReserved PROVE stop' \in BOOLEAN /\ wake' \in BOOLEAN
  BY <1>16 DEF BeginReserved, InEvaluation
<1>17. ASSUME BeginDirect PROVE stop' \in BOOLEAN /\ wake' \in BOOLEAN
  BY <1>17 DEF BeginDirect, InEvaluation
<1>18. ASSUME EvaluateFails PROVE stop' \in BOOLEAN /\ wake' \in BOOLEAN
  BY <1>18 DEF EvaluateFails, InEvaluation
<1>19. ASSUME Forget PROVE stop' \in BOOLEAN /\ wake' \in BOOLEAN
  BY <1>19 DEF Forget, InEvaluation
<1>20. ASSUME NEW outcome \in Action \cup {NoAction}, Evaluate(outcome) PROVE stop' \in BOOLEAN /\ wake' \in BOOLEAN
  BY <1>20 DEF Evaluate, InEvaluation
<1>21. ASSUME Supersede PROVE stop' \in BOOLEAN /\ wake' \in BOOLEAN
  BY <1>21 DEF Supersede, InEvaluation
<1>22. ASSUME Activate PROVE stop' \in BOOLEAN /\ wake' \in BOOLEAN
  BY <1>22 DEF Activate, InEvaluation
<1>23. ASSUME Create PROVE stop' \in BOOLEAN /\ wake' \in BOOLEAN
  BY <1>23 DEF Create, InEvaluation
<1>24. ASSUME Decide PROVE stop' \in BOOLEAN /\ wake' \in BOOLEAN
  BY <1>24 DEF Decide, InEvaluation
<1>25. ASSUME NEW o \in Operator, Approve(o) PROVE stop' \in BOOLEAN /\ wake' \in BOOLEAN
  BY <1>25 DEF Approve, OperatorOnly
<1>26. ASSUME NEW o \in Operator, RefuseExecution(o) PROVE stop' \in BOOLEAN /\ wake' \in BOOLEAN
  BY <1>26 DEF RefuseExecution, OperatorOnly
<1>27. ASSUME NEW o \in Operator, CompleteProposal(o) PROVE stop' \in BOOLEAN /\ wake' \in BOOLEAN
  BY <1>27 DEF CompleteProposal, OperatorOnly
<1>28. ASSUME NEW o \in Operator, NEW result \in {"succeeded", "failed"}, CallTool(o, result) PROVE stop' \in BOOLEAN /\ wake' \in BOOLEAN
  BY <1>28 DEF CallTool, OperatorOnly
<1>29. ASSUME NEW o \in Operator, NEW p \in ProposalId, AskApprove(o, p) PROVE stop' \in BOOLEAN /\ wake' \in BOOLEAN
  BY <1>29 DEF AskApprove, OperatorOnly
<1>30. ASSUME NEW p \in ProposalId, Reject(p) PROVE stop' \in BOOLEAN /\ wake' \in BOOLEAN
  BY <1>30 DEF Reject, OperatorOnly
<1>31. ASSUME TimePasses PROVE stop' \in BOOLEAN /\ wake' \in BOOLEAN
  BY <1>31 DEF TimePasses
<1>32. ASSUME UNCHANGED vars PROVE stop' \in BOOLEAN /\ wake' \in BOOLEAN
  BY <1>32 DEF vars
<1>33. QED BY <1>1, <1>2, <1>3, <1>4, <1>5, <1>6, <1>7, <1>8, <1>9, <1>10, <1>11, <1>12, <1>13, <1>14, <1>15, <1>16, <1>17, <1>18, <1>19, <1>20, <1>21, <1>22, <1>23, <1>24, <1>25, <1>26, <1>27, <1>28, <1>29, <1>30, <1>31, <1>32
  DEF Next, WorkerStep, EvaluationStep, ApprovalStep

(* Every step keeps the locals of the evaluation typed and meaningful. *)
LEMMA EvalStepType ==
  ASSUME StoreTypeOK, WorkerLocals, eval \in Evaluation, EvalLocals, [Next]_vars
  PROVE  eval' \in Evaluation /\ EvalLocals'
<1> USE PolicyAssumption
    DEF EvalLocals, Evaluation, Stage, threadVars, lifeVars, histVars
<1>n. NoEvaluation \in Evaluation /\ NoEvaluation.stage = "idle"
  BY DEF NoEvaluation, NoProposal
<1>a. \A e \in Event : active[PolicyFor(e)] \in BOOLEAN
  BY PolicyForType DEF StoreTypeOK
<1>b. ASSUME NEW e \in Event
      PROVE  Assess(e) \in Evaluation /\ Assess(e).stage = "evaluate" /\ Assess(e).event = e
  BY <1>a DEF Assess, NoEvaluation, NoProposal
<1>1. ASSUME NEW d \in Deployments, Boot(d) PROVE eval' \in Evaluation /\ EvalLocals'
  BY <1>1 DEF Boot
<1>2. ASSUME Start PROVE eval' \in Evaluation /\ EvalLocals'
  BY <1>2 DEF Start
<1>3. ASSUME StopSet PROVE eval' \in Evaluation /\ EvalLocals'
  BY <1>3 DEF StopSet
<1>4. ASSUME StopWake PROVE eval' \in Evaluation /\ EvalLocals'
  BY <1>4 DEF StopWake
<1>5. ASSUME StopJoin PROVE eval' \in Evaluation /\ EvalLocals'
  BY <1>5 DEF StopJoin
<1>6. ASSUME Die PROVE eval' \in Evaluation /\ EvalLocals'
  BY <1>6, <1>n DEF Die
<1>7. ASSUME NEW e \in Event, EnqueueEvent(e) PROVE eval' \in Evaluation /\ EvalLocals'
  BY <1>7 DEF EnqueueEvent
<1>8. ASSUME NEW e \in Event, SetWake(e) PROVE eval' \in Evaluation /\ EvalLocals'
  BY <1>8 DEF SetWake
<1>9. ASSUME NEW e \in DirectEvents, ReceiveEvent(e) PROVE eval' \in Evaluation /\ EvalLocals'
  BY <1>9 DEF ReceiveEvent, NoEvaluation, NoProposal
<1>10. ASSUME CheckStop PROVE eval' \in Evaluation /\ EvalLocals'
  BY <1>10 DEF CheckStop
<1>11. ASSUME WaitWake PROVE eval' \in Evaluation /\ EvalLocals'
  BY <1>11 DEF WaitWake
<1>12. ASSUME ClearWake PROVE eval' \in Evaluation /\ EvalLocals'
  BY <1>12 DEF ClearWake
<1>13. ASSUME Drain PROVE eval' \in Evaluation /\ EvalLocals'
  BY <1>13 DEF Drain
<1>14. ASSUME ClaimEvent PROVE eval' \in Evaluation /\ EvalLocals'
  BY <1>14 DEF ClaimEvent
<1>15. ASSUME FinishEvent PROVE eval' \in Evaluation /\ EvalLocals'
  BY <1>15 DEF FinishEvent
<1>16. ASSUME BeginReserved PROVE eval' \in Evaluation /\ EvalLocals'
  BY <1>16, <1>b DEF BeginReserved, WorkerLocals, InHand
<1>17. ASSUME BeginDirect PROVE eval' \in Evaluation /\ EvalLocals'
  BY <1>17, <1>b DEF BeginDirect
<1>18. ASSUME EvaluateFails PROVE eval' \in Evaluation /\ EvalLocals'
  BY <1>18, <1>n DEF EvaluateFails, Leave, EvalStep
<1>19. ASSUME Forget PROVE eval' \in Evaluation /\ EvalLocals'
  BY <1>19, <1>n DEF Forget, Leave
<1>20. ASSUME NEW outcome \in Action \cup {NoAction}, Evaluate(outcome) PROVE eval' \in Evaluation /\ EvalLocals'
  BY <1>20 DEF Evaluate
<1>21. ASSUME Supersede PROVE eval' \in Evaluation /\ EvalLocals'
  BY <1>21 DEF Supersede, EvalStep
<1>22. ASSUME Activate PROVE eval' \in Evaluation /\ EvalLocals'
  BY <1>22 DEF Activate, EvalStep
<1>23. ASSUME Create PROVE eval' \in Evaluation /\ EvalLocals'
  <2>1. PICK id \in 1..MaxProposals : eval' = [eval EXCEPT !.stage = "decide", !.proposal = id]
    BY <1>23 DEF Create
  <2>2. id \in Nat
    BY BoundAssumption
  <2>3. eval.stage = "create"
    BY <1>23 DEF Create
  <2>4. QED BY <2>1, <2>2, <2>3
<1>24. ASSUME Decide PROVE eval' \in Evaluation /\ EvalLocals'
  BY <1>24, <1>n DEF Decide, Leave
<1>25. ASSUME NEW o \in Operator, Approve(o) PROVE eval' \in Evaluation /\ EvalLocals'
  BY <1>25 DEF Approve, OperatorOnly
<1>26. ASSUME NEW o \in Operator, RefuseExecution(o) PROVE eval' \in Evaluation /\ EvalLocals'
  BY <1>26 DEF RefuseExecution, OperatorOnly
<1>27. ASSUME NEW o \in Operator, CompleteProposal(o) PROVE eval' \in Evaluation /\ EvalLocals'
  BY <1>27 DEF CompleteProposal, OperatorOnly
<1>28. ASSUME NEW o \in Operator, NEW result \in {"succeeded", "failed"}, CallTool(o, result) PROVE eval' \in Evaluation /\ EvalLocals'
  BY <1>28 DEF CallTool, OperatorOnly
<1>29. ASSUME NEW o \in Operator, NEW p \in ProposalId, AskApprove(o, p) PROVE eval' \in Evaluation /\ EvalLocals'
  BY <1>29 DEF AskApprove, OperatorOnly
<1>30. ASSUME NEW p \in ProposalId, Reject(p) PROVE eval' \in Evaluation /\ EvalLocals'
  BY <1>30 DEF Reject, OperatorOnly
<1>31. ASSUME TimePasses PROVE eval' \in Evaluation /\ EvalLocals'
  BY <1>31 DEF TimePasses
<1>32. ASSUME UNCHANGED vars PROVE eval' \in Evaluation /\ EvalLocals'
  BY <1>32 DEF vars
<1>33. QED BY <1>1, <1>2, <1>3, <1>4, <1>5, <1>6, <1>7, <1>8, <1>9, <1>10, <1>11, <1>12, <1>13, <1>14, <1>15, <1>16, <1>17, <1>18, <1>19, <1>20, <1>21, <1>22, <1>23, <1>24, <1>25, <1>26, <1>27, <1>28, <1>29, <1>30, <1>31, <1>32
  DEF Next, WorkerStep, EvaluationStep, ApprovalStep

(* Every step keeps the approvals typed: rows they name are never removed. *)
LEMMA ApprovalStepType ==
  ASSUME StoreTypeOK, StoreTypeOK', Grows, ApprovalTypeOK, OperatorLocals, [Next]_vars
  PROVE  ApprovalTypeOK' /\ OperatorLocals'
<1> USE DEF ApprovalTypeOK, OperatorLocals, Grows, Call, threadVars, lifeVars, histVars
<1>l. /\ Len(proposals) \in Nat /\ ProposalId = 1..Len(proposals)
      /\ Len(proposals') \in Nat /\ ProposalId' = 1..Len(proposals')
  BY DEF StoreTypeOK, ProposalId
<1>n. NoCall \in Call /\ NoCall.stage = "idle"
  BY DEF NoCall, NoProposal
<1>u. UNCHANGED <<operator, expired, calls>> => ApprovalTypeOK' /\ OperatorLocals'
  BY <1>l
<1>1. ASSUME NEW d \in Deployments, Boot(d) PROVE ApprovalTypeOK' /\ OperatorLocals'
  BY <1>1, <1>u DEF Boot
<1>2. ASSUME Start PROVE ApprovalTypeOK' /\ OperatorLocals'
  BY <1>2, <1>u DEF Start
<1>3. ASSUME StopSet PROVE ApprovalTypeOK' /\ OperatorLocals'
  BY <1>3, <1>u DEF StopSet
<1>4. ASSUME StopWake PROVE ApprovalTypeOK' /\ OperatorLocals'
  BY <1>4, <1>u DEF StopWake
<1>5. ASSUME StopJoin PROVE ApprovalTypeOK' /\ OperatorLocals'
  BY <1>5, <1>u DEF StopJoin
<1>6. ASSUME Die PROVE ApprovalTypeOK' /\ OperatorLocals'
  BY <1>6, <1>l, <1>n DEF Die, NoCalls
<1>7. ASSUME NEW e \in Event, EnqueueEvent(e) PROVE ApprovalTypeOK' /\ OperatorLocals'
  BY <1>7, <1>u DEF EnqueueEvent
<1>8. ASSUME NEW e \in Event, SetWake(e) PROVE ApprovalTypeOK' /\ OperatorLocals'
  BY <1>8, <1>u DEF SetWake
<1>9. ASSUME NEW e \in DirectEvents, ReceiveEvent(e) PROVE ApprovalTypeOK' /\ OperatorLocals'
  BY <1>9, <1>u DEF ReceiveEvent, InEvaluation
<1>10. ASSUME CheckStop PROVE ApprovalTypeOK' /\ OperatorLocals'
  BY <1>10, <1>u DEF CheckStop
<1>11. ASSUME WaitWake PROVE ApprovalTypeOK' /\ OperatorLocals'
  BY <1>11, <1>u DEF WaitWake
<1>12. ASSUME ClearWake PROVE ApprovalTypeOK' /\ OperatorLocals'
  BY <1>12, <1>u DEF ClearWake
<1>13. ASSUME Drain PROVE ApprovalTypeOK' /\ OperatorLocals'
  BY <1>13, <1>u DEF Drain
<1>14. ASSUME ClaimEvent PROVE ApprovalTypeOK' /\ OperatorLocals'
  BY <1>14, <1>u DEF ClaimEvent
<1>15. ASSUME FinishEvent PROVE ApprovalTypeOK' /\ OperatorLocals'
  BY <1>15, <1>u DEF FinishEvent
<1>16. ASSUME BeginReserved PROVE ApprovalTypeOK' /\ OperatorLocals'
  BY <1>16, <1>u DEF BeginReserved, InEvaluation
<1>17. ASSUME BeginDirect PROVE ApprovalTypeOK' /\ OperatorLocals'
  BY <1>17, <1>u DEF BeginDirect, InEvaluation
<1>18. ASSUME EvaluateFails PROVE ApprovalTypeOK' /\ OperatorLocals'
  BY <1>18, <1>u DEF EvaluateFails, InEvaluation
<1>19. ASSUME Forget PROVE ApprovalTypeOK' /\ OperatorLocals'
  BY <1>19, <1>u DEF Forget, InEvaluation
<1>20. ASSUME NEW outcome \in Action \cup {NoAction}, Evaluate(outcome) PROVE ApprovalTypeOK' /\ OperatorLocals'
  BY <1>20, <1>u DEF Evaluate, InEvaluation
<1>21. ASSUME Supersede PROVE ApprovalTypeOK' /\ OperatorLocals'
  BY <1>21, <1>u DEF Supersede, InEvaluation
<1>22. ASSUME Activate PROVE ApprovalTypeOK' /\ OperatorLocals'
  BY <1>22, <1>u DEF Activate, InEvaluation
<1>23. ASSUME Create PROVE ApprovalTypeOK' /\ OperatorLocals'
  BY <1>23, <1>u DEF Create, InEvaluation
<1>24. ASSUME Decide PROVE ApprovalTypeOK' /\ OperatorLocals'
  BY <1>24, <1>u DEF Decide, InEvaluation
<1>25. ASSUME NEW o \in Operator, Approve(o) PROVE ApprovalTypeOK' /\ OperatorLocals'
  <2>1. UNCHANGED <<expired, calls>>
    BY <1>25 DEF Approve
  <2>2. \/ operator' = [operator EXCEPT ![o].stage = "execute"]
        \/ operator' = [operator EXCEPT ![o] = NoCall]
    BY <1>25 DEF Approve, Returns
  <2>3. operator[o].stage = "blocked"
    BY <1>25 DEF Approve
  <2>4. QED BY <2>1, <2>2, <2>3, <1>l, <1>n
<1>26. ASSUME NEW o \in Operator, RefuseExecution(o) PROVE ApprovalTypeOK' /\ OperatorLocals'
  BY <1>26, <1>l, <1>n DEF RefuseExecution
<1>27. ASSUME NEW o \in Operator, CompleteProposal(o) PROVE ApprovalTypeOK' /\ OperatorLocals'
  BY <1>27, <1>l, <1>n DEF CompleteProposal, Returns
<1>28. ASSUME NEW o \in Operator, NEW result \in {"succeeded", "failed"}, CallTool(o, result) PROVE ApprovalTypeOK' /\ OperatorLocals'
  <2>1. /\ calls' = [calls EXCEPT ![operator[o].proposal] = @ + 1]
        /\ operator' = [operator EXCEPT ![o].stage = result]
        /\ UNCHANGED expired
        /\ operator[o].stage = "execute"
    BY <1>28 DEF CallTool
  <2>2. calls' \in [1..MaxProposals -> Nat]
    <3>1. operator[o].proposal \in 1..MaxProposals
      BY <2>1, <1>l, BoundAssumption DEF StoreTypeOK
    <3>2. calls[operator[o].proposal] + 1 \in Nat
      BY <3>1
    <3>3. QED BY <2>1, <3>1, <3>2
  <2>3. operator' \in [Operator -> Call] /\ OperatorLocals'
    BY <2>1
  <2>4. QED BY <2>1, <2>2, <2>3, <1>l
<1>29. ASSUME NEW o \in Operator, NEW p \in ProposalId, AskApprove(o, p) PROVE ApprovalTypeOK' /\ OperatorLocals'
  BY <1>29, <1>l, <1>n DEF AskApprove
<1>30. ASSUME NEW p \in ProposalId, Reject(p) PROVE ApprovalTypeOK' /\ OperatorLocals'
  BY <1>30, <1>u DEF Reject
<1>31. ASSUME TimePasses PROVE ApprovalTypeOK' /\ OperatorLocals'
  BY <1>31, <1>l, <1>n DEF TimePasses
<1>32. ASSUME UNCHANGED vars PROVE ApprovalTypeOK' /\ OperatorLocals'
  BY <1>32, <1>u DEF vars
<1>33. QED BY <1>1, <1>2, <1>3, <1>4, <1>5, <1>6, <1>7, <1>8, <1>9, <1>10, <1>11, <1>12, <1>13, <1>14, <1>15, <1>16, <1>17, <1>18, <1>19, <1>20, <1>21, <1>22, <1>23, <1>24, <1>25, <1>26, <1>27, <1>28, <1>29, <1>30, <1>31, <1>32
  DEF Next, WorkerStep, EvaluationStep, ApprovalStep

TypeInv == TypeOK /\ Locals

LEMMA TypeInit == Init => TypeInv
<1> SUFFICES ASSUME Init PROVE TypeInv
  OBVIOUS
<1> USE DEF Init
<1>1. StoreTypeOK
  BY BoundAssumption, EmptySeq
  DEF StoreInit, StoreTypeOK, QueueStatus, Decision, Decided, DecisionStatus, NoProposal
<1>2. ControlTypeOK /\ WorkerLocals
  BY DEF ControlTypeOK, WorkerLocals, WorkerStage, MainStage, InHand, Free, Worker
<1>3. eval \in Evaluation /\ EvalLocals
  BY DEF NoEvaluation, NoProposal, Evaluation, Stage, EvalLocals
<1>4. ApprovalTypeOK /\ OperatorLocals
  <2>1. Len(proposals) \in Nat
    BY <1>1 DEF StoreTypeOK
  <2>2. QED
    BY <2>1 DEF NoCalls, NoCall, NoProposal, ApprovalTypeOK, OperatorLocals, Call
<1>5. QED BY <1>1, <1>2, <1>3, <1>4 DEF TypeInv, TypeOK, Locals

LEMMA TypeStep == TypeInv /\ [Next]_vars => TypeInv'
<1> SUFFICES ASSUME TypeInv, [Next]_vars PROVE TypeInv'
  OBVIOUS
<1> USE DEF TypeInv, TypeOK, Locals
<1>1. StoreTypeOK' /\ Grows
  BY StoreStep
<1>2. ControlTypeOK' /\ WorkerLocals'
  BY ControlStep
<1>3. stop' \in BOOLEAN /\ wake' \in BOOLEAN
  BY FlagStep
<1>4. eval' \in Evaluation /\ EvalLocals'
  BY EvalStepType
<1>5. ApprovalTypeOK' /\ OperatorLocals'
  BY <1>1, ApprovalStepType
<1>6. QED BY <1>1, <1>2, <1>3, <1>4, <1>5

(* Every variable keeps the values its Python counterpart can have, whatever   *)
(* the numbers of events, policies, actions, operators, crashes and stops.     *)
THEOREM TypeCorrect == Spec => []TypeOK
<1>1. Spec => []TypeInv
  BY TypeInit, TypeStep, PTL DEF Spec
<1>2. TypeInv => TypeOK
  BY DEF TypeInv
<1>3. QED BY <1>1, <1>2, PTL

-----------------------------------------------------------------------------
(* Every step keeps the threads' claims on _event_lock consistent. *)
LEMMA LockStep ==
  ASSUME TypeInv, Locks, [Next]_vars
  PROVE  Locks'
<1> USE NameAssumption
    DEF TypeInv, TypeOK, Locals, ControlTypeOK, WorkerLocals, ApprovalTypeOK, Locks,
        Executing, Free, Worker, Caller, threadVars, lifeVars, histVars
<1>1. ASSUME NEW d \in Deployments, Boot(d) PROVE Locks'
  BY <1>1 DEF Boot
<1>2. ASSUME Start PROVE Locks'
  BY <1>2 DEF Start
<1>3. ASSUME StopSet PROVE Locks'
  BY <1>3 DEF StopSet
<1>4. ASSUME StopWake PROVE Locks'
  BY <1>4 DEF StopWake
<1>5. ASSUME StopJoin PROVE Locks'
  BY <1>5 DEF StopJoin
<1>6. ASSUME Die PROVE Locks'
  BY <1>6 DEF Die, NoEvaluation, NoCalls, NoCall
<1>7. ASSUME NEW e \in Event, EnqueueEvent(e) PROVE Locks'
  BY <1>7 DEF EnqueueEvent
<1>8. ASSUME NEW e \in Event, SetWake(e) PROVE Locks'
  BY <1>8 DEF SetWake
<1>9. ASSUME NEW e \in DirectEvents, ReceiveEvent(e) PROVE Locks'
  <2>1. holder = Free /\ holder' = Caller /\ UNCHANGED <<worker, workerEvent, operator, main>>
    BY <1>9 DEF ReceiveEvent, InEvaluation
  <2>2. eval'.stage = "reserved" /\ eval'.event = e /\ main # "down"
    BY <1>9 DEF ReceiveEvent, NoEvaluation, Up
  <2>3. QED BY <1>9, <2>1, <2>2
<1>10. ASSUME CheckStop PROVE Locks'
  BY <1>10 DEF CheckStop, WorkerGoes
<1>11. ASSUME WaitWake PROVE Locks'
  BY <1>11 DEF WaitWake, WorkerGoes
<1>12. ASSUME ClearWake PROVE Locks'
  BY <1>12 DEF ClearWake, WorkerGoes
<1>13. ASSUME Drain PROVE Locks'
  BY <1>13 DEF Drain, WorkerGoes
<1>14. ASSUME ClaimEvent PROVE Locks'
  BY <1>14 DEF ClaimEvent, WorkerGoes
<1>15. ASSUME FinishEvent PROVE Locks'
  BY <1>15 DEF FinishEvent
<1>16. ASSUME BeginReserved PROVE Locks'
  <2>1. UNCHANGED <<main, workerEvent, operator>> /\ holder = Free /\ worker = "contend"
    BY <1>16 DEF BeginReserved, InEvaluation
  <2>2. CASE Supported(workerEvent)
    <3>1. holder' = Worker /\ worker' = "inside" /\ eval' = Assess(workerEvent)
      BY <1>16, <2>2 DEF BeginReserved
    <3>2. Assess(workerEvent).event = workerEvent /\ Assess(workerEvent).stage = "evaluate"
      BY DEF Assess, NoEvaluation
    <3>3. QED BY <2>1, <3>1, <3>2
  <2>3. CASE ~Supported(workerEvent)
    BY <1>16, <2>1, <2>3 DEF BeginReserved
  <2>4. QED BY <2>2, <2>3
<1>17. ASSUME BeginDirect PROVE Locks'
  BY <1>17 DEF BeginDirect, InEvaluation, Assess, NoEvaluation, Evaluation
<1>18. ASSUME EvaluateFails PROVE Locks'
  BY <1>18 DEF EvaluateFails, InEvaluation, Leave, EvalStep, NoEvaluation, Evaluation
<1>19. ASSUME Forget PROVE Locks'
  BY <1>19 DEF Forget, InEvaluation, Leave, NoEvaluation, Evaluation
<1>20. ASSUME NEW outcome \in Action \cup {NoAction}, Evaluate(outcome) PROVE Locks'
  BY <1>20 DEF Evaluate, InEvaluation, Evaluation
<1>21. ASSUME Supersede PROVE Locks'
  BY <1>21 DEF Supersede, InEvaluation, EvalStep, Evaluation
<1>22. ASSUME Activate PROVE Locks'
  BY <1>22 DEF Activate, InEvaluation, EvalStep, Evaluation
<1>23. ASSUME Create PROVE Locks'
  BY <1>23 DEF Create, InEvaluation, Evaluation
<1>24. ASSUME Decide PROVE Locks'
  BY <1>24 DEF Decide, InEvaluation, Leave, NoEvaluation, Evaluation
<1>25. ASSUME NEW o \in Operator, Approve(o) PROVE Locks'
  <2>1. CASE IsPending(operator[o].proposal)
    <3>1. operator' = [operator EXCEPT ![o].stage = "execute"] /\ holder' = o
      BY <1>25, <2>1 DEF Approve
    <3>2. /\ holder = Free /\ operator[o].stage = "blocked"
          /\ UNCHANGED <<main, worker, workerEvent, eval>>
      BY <1>25 DEF Approve, OperatorOnly
    <3>3. o \notin {Free, Worker, Caller} /\ operator \in [Operator -> Call]
      OBVIOUS
    <3>4. \A q \in Operator : operator'[q].stage = IF q = o THEN "execute" ELSE operator[q].stage
      BY <3>1, <3>3 DEF Call
    <3>5. \A q \in Operator : operator'[q].stage \in Executing <=> holder' = q
      BY <3>1, <3>2, <3>3, <3>4
    <3>6. QED BY <3>1, <3>2, <3>3, <3>5
  <2>2. CASE ~IsPending(operator[o].proposal)
    <3>1. operator' = [operator EXCEPT ![o] = NoCall] /\ holder' = holder
      BY <1>25, <2>2 DEF Approve, Returns, ClaimProposalTx
    <3>2. /\ operator[o].stage = "blocked" /\ NoCall.stage = "idle"
          /\ UNCHANGED <<main, worker, workerEvent, eval>>
      BY <1>25 DEF Approve, OperatorOnly, NoCall
    <3>3. QED BY <3>1, <3>2
  <2>3. QED BY <2>1, <2>2
<1>26. ASSUME NEW o \in Operator, RefuseExecution(o) PROVE Locks'
  BY <1>26 DEF RefuseExecution, OperatorOnly, Call
<1>27. ASSUME NEW o \in Operator, CompleteProposal(o) PROVE Locks'
  BY <1>27 DEF CompleteProposal, OperatorOnly, Returns, NoCall, Call
<1>28. ASSUME NEW o \in Operator, NEW result \in {"succeeded", "failed"}, CallTool(o, result) PROVE Locks'
  BY <1>28 DEF CallTool, OperatorOnly, Call
<1>29. ASSUME NEW o \in Operator, NEW p \in ProposalId, AskApprove(o, p) PROVE Locks'
  BY <1>29 DEF AskApprove, OperatorOnly, Call, Up
<1>30. ASSUME NEW p \in ProposalId, Reject(p) PROVE Locks'
  BY <1>30 DEF Reject, OperatorOnly
<1>31. ASSUME TimePasses PROVE Locks'
  BY <1>31 DEF TimePasses
<1>32. ASSUME UNCHANGED vars PROVE Locks'
  BY <1>32 DEF vars
<1>33. QED BY <1>1, <1>2, <1>3, <1>4, <1>5, <1>6, <1>7, <1>8, <1>9, <1>10, <1>11, <1>12, <1>13, <1>14, <1>15, <1>16, <1>17, <1>18, <1>19, <1>20, <1>21, <1>22, <1>23, <1>24, <1>25, <1>26, <1>27, <1>28, <1>29, <1>30, <1>31, <1>32
  DEF Next, WorkerStep, EvaluationStep, ApprovalStep

-----------------------------------------------------------------------------
(* The transactions that write event_queue are those of five operations. *)
QueueStep ==
  \/ UNCHANGED queueVars
  \/ \E e \in Event : EnqueueTx(e) /\ ~IsDuplicate(e)
  \/ RecoverTx
  \/ \E e \in Event : ClaimEventTx(e)
  \/ worker = "complete" /\ CompleteEventTx(workerEvent)
  \/ worker = "fail" /\ FailEventTx(workerEvent)

LEMMA OnlyQueueSteps == [Next]_vars => QueueStep
<1> SUFFICES ASSUME [Next]_vars PROVE QueueStep
  OBVIOUS
<1> USE DEF QueueStep, storeVars
<1>1. ASSUME NEW d \in Deployments, Boot(d) PROVE QueueStep
  BY <1>1 DEF Boot, SupersedeUnregisteredTx, MarkTx
<1>2. ASSUME Start PROVE QueueStep
  BY <1>2 DEF Start
<1>3. ASSUME StopSet PROVE QueueStep
  BY <1>3 DEF StopSet
<1>4. ASSUME StopWake PROVE QueueStep
  BY <1>4 DEF StopWake
<1>5. ASSUME StopJoin PROVE QueueStep
  BY <1>5 DEF StopJoin
<1>6. ASSUME Die PROVE QueueStep
  BY <1>6 DEF Die
<1>7. ASSUME NEW e \in Event, EnqueueEvent(e) PROVE QueueStep
  BY <1>7 DEF EnqueueEvent, EnqueueTx
<1>8. ASSUME NEW e \in Event, SetWake(e) PROVE QueueStep
  BY <1>8 DEF SetWake
<1>9. ASSUME NEW e \in DirectEvents, ReceiveEvent(e) PROVE QueueStep
  BY <1>9 DEF ReceiveEvent, RecordEventTx
<1>10. ASSUME CheckStop PROVE QueueStep
  BY <1>10 DEF CheckStop
<1>11. ASSUME WaitWake PROVE QueueStep
  BY <1>11 DEF WaitWake
<1>12. ASSUME ClearWake PROVE QueueStep
  BY <1>12 DEF ClearWake
<1>13. ASSUME Drain PROVE QueueStep
  BY <1>13 DEF Drain
<1>14. ASSUME ClaimEvent PROVE QueueStep
  BY <1>14 DEF ClaimEvent
<1>15. ASSUME FinishEvent PROVE QueueStep
  BY <1>15 DEF FinishEvent
<1>16. ASSUME BeginReserved PROVE QueueStep
  BY <1>16 DEF BeginReserved, SaveDecisionTx
<1>17. ASSUME BeginDirect PROVE QueueStep
  BY <1>17 DEF BeginDirect, SaveDecisionTx
<1>18. ASSUME EvaluateFails PROVE QueueStep
  BY <1>18 DEF EvaluateFails, SaveDecisionTx
<1>19. ASSUME Forget PROVE QueueStep
  BY <1>19 DEF Forget, ForgetEventTx
<1>20. ASSUME NEW outcome \in Action \cup {NoAction}, Evaluate(outcome) PROVE QueueStep
  BY <1>20 DEF Evaluate
<1>21. ASSUME Supersede PROVE QueueStep
  BY <1>21 DEF Supersede, SupersedePendingTx, MarkTx
<1>22. ASSUME Activate PROVE QueueStep
  BY <1>22 DEF Activate, SetPolicyActiveTx
<1>23. ASSUME Create PROVE QueueStep
  BY <1>23 DEF Create, CreateTx
<1>24. ASSUME Decide PROVE QueueStep
  BY <1>24 DEF Decide, SaveDecisionTx
<1>25. ASSUME NEW o \in Operator, Approve(o) PROVE QueueStep
  BY <1>25 DEF Approve, ClaimProposalTx, MarkTx
<1>26. ASSUME NEW o \in Operator, RefuseExecution(o) PROVE QueueStep
  BY <1>26 DEF RefuseExecution
<1>27. ASSUME NEW o \in Operator, CompleteProposal(o) PROVE QueueStep
  BY <1>27 DEF CompleteProposal, CompleteTx, MarkTx
<1>28. ASSUME NEW o \in Operator, NEW result \in {"succeeded", "failed"}, CallTool(o, result) PROVE QueueStep
  BY <1>28 DEF CallTool
<1>29. ASSUME NEW o \in Operator, NEW p \in ProposalId, AskApprove(o, p) PROVE QueueStep
  BY <1>29 DEF AskApprove
<1>30. ASSUME NEW p \in ProposalId, Reject(p) PROVE QueueStep
  BY <1>30 DEF Reject, RejectTx, MarkTx
<1>31. ASSUME TimePasses PROVE QueueStep
  BY <1>31 DEF TimePasses
<1>32. ASSUME UNCHANGED vars PROVE QueueStep
  BY <1>32 DEF vars
<1>33. QED BY <1>1, <1>2, <1>3, <1>4, <1>5, <1>6, <1>7, <1>8, <1>9, <1>10, <1>11, <1>12, <1>13, <1>14, <1>15, <1>16, <1>17, <1>18, <1>19, <1>20, <1>21, <1>22, <1>23, <1>24, <1>25, <1>26, <1>27, <1>28, <1>29, <1>30, <1>31, <1>32
  DEF Next, WorkerStep, EvaluationStep, ApprovalStep

(* Every step keeps the rows in the order in which they were accepted. *)
LEMMA LineStep ==
  ASSUME TypeInv, InProcess, Sequenced, Lined, [Next]_vars
  PROVE  Sequenced' /\ Lined'
<1> /\ queue \in [Event -> QueueStatus] /\ sequence \in [Event -> Nat] /\ lastSequence \in Nat
    /\ worker \in InHand => workerEvent \in Event
  BY DEF TypeInv, TypeOK, StoreTypeOK, Locals, WorkerLocals
<1> USE DEF Sequenced, Lined, Settled, QueueStatus
<1>1. CASE UNCHANGED queueVars
  BY <1>1 DEF queueVars
<1>2. ASSUME NEW e \in Event, EnqueueTx(e), ~IsDuplicate(e) PROVE Sequenced' /\ Lined'
  <2>1. /\ lastSequence' = lastSequence + 1
        /\ sequence' = [sequence EXCEPT ![e] = lastSequence + 1]
        /\ queue' = [queue EXCEPT ![e] = "queued"]
    BY <1>2 DEF EnqueueTx
  <2>2. \A f \in Event : sequence'[f] = IF f = e THEN lastSequence + 1 ELSE sequence[f]
    BY <2>1
  <2>3. \A f \in Event : queue'[f] = IF f = e THEN "queued" ELSE queue[f]
    BY <2>1
  <2>4. Sequenced'
    BY <2>1, <2>2, <2>3
  <2>5. Lined'
    BY <2>1, <2>2, <2>3
  <2>6. QED BY <2>4, <2>5
<1>3. CASE RecoverTx
  <2>1. UNCHANGED <<sequence, lastSequence>>
    BY <1>3 DEF RecoverTx
  <2>2. \A f \in Event : queue'[f] = IF queue[f] = "processing" THEN "queued" ELSE queue[f]
    BY <1>3 DEF RecoverTx, Interrupted
  <2>3. QED BY <2>1, <2>2
<1>4. ASSUME NEW e \in Event, ClaimEventTx(e) PROVE Sequenced' /\ Lined'
  <2>1. UNCHANGED <<sequence, lastSequence>>
    BY <1>4 DEF ClaimEventTx
  <2>2. \A f \in Event : queue'[f] = IF f = e THEN "processing" ELSE queue[f]
    BY <1>4 DEF ClaimEventTx
  <2>3. queue[e] = "queued" /\ \A f \in Event : queue[f] = "queued" => sequence[e] <= sequence[f]
    BY <1>4 DEF ClaimEventTx, IsOldestQueued, Queued
  <2>4. Sequenced'
    BY <2>1, <2>2, <2>3
  <2>5. Lined'
    BY <2>1, <2>2, <2>3
  <2>6. QED BY <2>4, <2>5
<1>5. ASSUME worker \in {"complete", "fail"},
             CompleteEventTx(workerEvent) \/ FailEventTx(workerEvent)
      PROVE  Sequenced' /\ Lined'
  <2>1. UNCHANGED <<sequence, lastSequence>>
    BY <1>5 DEF CompleteEventTx, FailEventTx
  <2>2. workerEvent \in Event /\ queue[workerEvent] = "processing" /\ OneInProcess
    BY <1>5 DEF InHand, InProcess
  <2>3. \E s \in Settled : \A f \in Event : queue'[f] = IF f = workerEvent THEN s ELSE queue[f]
    BY <1>5 DEF CompleteEventTx, FailEventTx
  <2>4. QED BY <2>1, <2>2, <2>3 DEF OneInProcess
<1>6. QED BY <1>1, <1>2, <1>3, <1>4, <1>5, OnlyQueueSteps DEF QueueStep

(* Every step keeps at most one row in process, and that one the worker's. *)
LEMMA InProcessStep ==
  ASSUME TypeInv, Locks, InProcess, [Next]_vars
  PROVE  InProcess'
<1> /\ queue \in [Event -> QueueStatus]
    /\ worker \in InHand => workerEvent \in Event
    /\ main \in {"down", "built", "stopped"} => worker \in {"none", "done"}
    /\ holder = Worker => worker = "inside"
    /\ main \in MainStage
  BY DEF TypeInv, TypeOK, StoreTypeOK, ControlTypeOK, Locals, WorkerLocals
<1> USE DEF InProcess, OneInProcess, InHand, QueueStatus, MainStage, threadVars, lifeVars, histVars, storeVars, queueVars
<1>1. ASSUME NEW d \in Deployments, Boot(d) PROVE InProcess'
  BY <1>1 DEF Boot, SupersedeUnregisteredTx, MarkTx
<1>2. ASSUME Start PROVE InProcess'
  BY <1>2 DEF Start, RecoverTx, Interrupted
<1>3. ASSUME StopSet PROVE InProcess'
  BY <1>3 DEF StopSet
<1>4. ASSUME StopWake PROVE InProcess'
  BY <1>4 DEF StopWake
<1>5. ASSUME StopJoin PROVE InProcess'
  BY <1>5 DEF StopJoin
<1>6. ASSUME Die PROVE InProcess'
  BY <1>6 DEF Die
<1>7. ASSUME NEW e \in Event, EnqueueEvent(e) PROVE InProcess'
  BY <1>7 DEF EnqueueEvent, EnqueueTx, IsDuplicate
<1>8. ASSUME NEW e \in Event, SetWake(e) PROVE InProcess'
  BY <1>8 DEF SetWake
<1>9. ASSUME NEW e \in DirectEvents, ReceiveEvent(e) PROVE InProcess'
  BY <1>9 DEF ReceiveEvent, RecordEventTx, InEvaluation
<1>10. ASSUME CheckStop PROVE InProcess'
  BY <1>10 DEF CheckStop, WorkerGoes
<1>11. ASSUME WaitWake PROVE InProcess'
  BY <1>11 DEF WaitWake, WorkerGoes
<1>12. ASSUME ClearWake PROVE InProcess'
  BY <1>12 DEF ClearWake, WorkerGoes
<1>13. ASSUME Drain PROVE InProcess'
  BY <1>13 DEF Drain, WorkerGoes
<1>14. ASSUME ClaimEvent PROVE InProcess'
  BY <1>14 DEF ClaimEvent, WorkerGoes, ClaimEventTx, IsOldestQueued, Queued
<1>15. ASSUME FinishEvent PROVE InProcess'
  BY <1>15 DEF FinishEvent, CompleteEventTx, FailEventTx
<1>16. ASSUME BeginReserved PROVE InProcess'
  BY <1>16 DEF BeginReserved, SaveDecisionTx, InEvaluation
<1>17. ASSUME BeginDirect PROVE InProcess'
  BY <1>17 DEF BeginDirect, SaveDecisionTx, InEvaluation
<1>18. ASSUME EvaluateFails PROVE InProcess'
  BY <1>18 DEF EvaluateFails, SaveDecisionTx, InEvaluation, Leave
<1>19. ASSUME Forget PROVE InProcess'
  BY <1>19 DEF Forget, ForgetEventTx, InEvaluation, Leave
<1>20. ASSUME NEW outcome \in Action \cup {NoAction}, Evaluate(outcome) PROVE InProcess'
  BY <1>20 DEF Evaluate, InEvaluation
<1>21. ASSUME Supersede PROVE InProcess'
  BY <1>21 DEF Supersede, SupersedePendingTx, MarkTx, InEvaluation
<1>22. ASSUME Activate PROVE InProcess'
  BY <1>22 DEF Activate, SetPolicyActiveTx, InEvaluation
<1>23. ASSUME Create PROVE InProcess'
  BY <1>23 DEF Create, CreateTx, InEvaluation
<1>24. ASSUME Decide PROVE InProcess'
  BY <1>24 DEF Decide, SaveDecisionTx, InEvaluation, Leave
<1>25. ASSUME NEW o \in Operator, Approve(o) PROVE InProcess'
  BY <1>25 DEF Approve, ClaimProposalTx, MarkTx, OperatorOnly
<1>26. ASSUME NEW o \in Operator, RefuseExecution(o) PROVE InProcess'
  BY <1>26 DEF RefuseExecution, OperatorOnly
<1>27. ASSUME NEW o \in Operator, CompleteProposal(o) PROVE InProcess'
  BY <1>27 DEF CompleteProposal, CompleteTx, MarkTx, OperatorOnly
<1>28. ASSUME NEW o \in Operator, NEW result \in {"succeeded", "failed"}, CallTool(o, result) PROVE InProcess'
  BY <1>28 DEF CallTool, OperatorOnly
<1>29. ASSUME NEW o \in Operator, NEW p \in ProposalId, AskApprove(o, p) PROVE InProcess'
  BY <1>29 DEF AskApprove, OperatorOnly
<1>30. ASSUME NEW p \in ProposalId, Reject(p) PROVE InProcess'
  BY <1>30 DEF Reject, RejectTx, MarkTx, OperatorOnly
<1>31. ASSUME TimePasses PROVE InProcess'
  BY <1>31 DEF TimePasses
<1>32. ASSUME UNCHANGED vars PROVE InProcess'
  BY <1>32 DEF vars
<1>33. QED BY <1>1, <1>2, <1>3, <1>4, <1>5, <1>6, <1>7, <1>8, <1>9, <1>10, <1>11, <1>12, <1>13, <1>14, <1>15, <1>16, <1>17, <1>18, <1>19, <1>20, <1>21, <1>22, <1>23, <1>24, <1>25, <1>26, <1>27, <1>28, <1>29, <1>30, <1>31, <1>32
  DEF Next, WorkerStep, EvaluationStep, ApprovalStep

(* The part of the invariant that makes the queue a line with one reader. *)
LineInv == TypeInv /\ Locks /\ InProcess /\ Sequenced /\ Lined

LEMMA LineInit == Init => LineInv
<1> SUFFICES ASSUME Init PROVE LineInv
  OBVIOUS
<1>1. TypeInv
  BY TypeInit
<1>2. Locks
  BY NameAssumption DEF Init, Locks, NoCalls, NoCall, NoEvaluation, Free, Worker, Caller, Executing
<1>3. InProcess
  BY DEF Init, StoreInit, InProcess, OneInProcess, InHand
<1>4. Sequenced /\ Lined
  BY DEF Init, StoreInit, Sequenced, Lined
<1>5. QED BY <1>1, <1>2, <1>3, <1>4 DEF LineInv

LEMMA LineInvariant == Spec => []LineInv
<1>1. LineInv /\ [Next]_vars => LineInv'
  BY TypeStep, LockStep, InProcessStep, LineStep DEF LineInv
<1>2. QED BY LineInit, <1>1, PTL DEF Spec

(* At most one event is in process, across crashes, stops and restarts: the   *)
(* worker's, or the one that waits for recovery.                               *)
THEOREM OneInProcessAlways == Spec => []OneInProcess
<1>1. LineInv => OneInProcess
  BY DEF LineInv, InProcess
<1>2. QED BY <1>1, LineInvariant, PTL

(* Events are picked up in the order in which they were accepted, whatever the *)
(* number of events, failures, resubmissions, crashes and restarts.            *)
THEOREM FirstComeFirstServed == Spec => []InOrder
<1>1. LineInv => InOrder
  BY DEF LineInv, Lined, InOrder, Settled
<1>2. QED BY <1>1, LineInvariant, PTL


-----------------------------------------------------------------------------
(* The refinement of EventLine: accepting is the transaction that inserts a  *)
(* row, settling the one that finishes it, every other step is a stutter.    *)
ticketOf  == [e \in Event |-> IF queue[e] \in {"queued", "processing"} THEN sequence[e] ELSE 0]
outcomeOf == [e \in Event |-> IF queue[e] \in Settled THEN queue[e] ELSE "none"]

LEMMA LineStutter ==
  ASSUME UNCHANGED <<ticketOf, lastSequence, outcomeOf>>
  PROVE  UNCHANGED Line!vars
BY DEF ticketOf, outcomeOf, Line!vars, Settled

LEMMA LineSimulation == LineInv /\ [Next]_vars => [Line!Next]_(Line!vars)
<1> SUFFICES ASSUME LineInv, [Next]_vars PROVE Line!Next \/ UNCHANGED Line!vars
  OBVIOUS
<1> /\ queue \in [Event -> QueueStatus] /\ sequence \in [Event -> Nat] /\ lastSequence \in Nat
    /\ worker \in InHand => workerEvent \in Event /\ queue[workerEvent] = "processing"
    /\ OneInProcess /\ Sequenced /\ Lined
  BY DEF LineInv, TypeInv, TypeOK, StoreTypeOK, Locals, WorkerLocals, InProcess
<1> USE DEF QueueStatus
<1>1. CASE UNCHANGED queueVars
  BY <1>1, LineStutter DEF queueVars, ticketOf, outcomeOf
<1>2. ASSUME NEW e \in Event, EnqueueTx(e), ~IsDuplicate(e) PROVE Line!Accept(e)
  <2>1. /\ lastSequence' = lastSequence + 1
        /\ sequence' = [sequence EXCEPT ![e] = lastSequence + 1]
        /\ queue' = [queue EXCEPT ![e] = "queued"]
    BY <1>2 DEF EnqueueTx
  <2>2. queue[e] \in {"absent", "failed"}
    BY <1>2 DEF IsDuplicate
  <2>3. ticketOf' = [ticketOf EXCEPT ![e] = lastSequence + 1]
    BY <2>1 DEF ticketOf
  <2>4. outcomeOf' = [outcomeOf EXCEPT ![e] = "none"]
    BY <2>1 DEF outcomeOf, Settled
  <2>5. ticketOf[e] = 0 /\ outcomeOf[e] # "completed"
    BY <2>2 DEF ticketOf, outcomeOf, Settled
  <2>6. QED BY <2>1, <2>3, <2>4, <2>5 DEF Line!Accept, Line!Waiting, ticketOf, outcomeOf, Settled
<1>3. CASE RecoverTx
  <2>1. UNCHANGED <<sequence, lastSequence>>
    BY <1>3 DEF RecoverTx
  <2>2. \A f \in Event : queue'[f] = IF queue[f] = "processing" THEN "queued" ELSE queue[f]
    BY <1>3 DEF RecoverTx, Interrupted
  <2>3. ticketOf' = ticketOf /\ outcomeOf' = outcomeOf
    BY <2>1, <2>2 DEF ticketOf, outcomeOf, Settled
  <2>4. QED BY <2>1, <2>3, LineStutter
<1>4. ASSUME NEW e \in Event, ClaimEventTx(e) PROVE UNCHANGED Line!vars
  <2>1. UNCHANGED <<sequence, lastSequence>>
    BY <1>4 DEF ClaimEventTx
  <2>2. \A f \in Event : queue'[f] = IF f = e THEN "processing" ELSE queue[f]
    BY <1>4 DEF ClaimEventTx
  <2>3. queue[e] = "queued"
    BY <1>4 DEF ClaimEventTx, IsOldestQueued, Queued
  <2>4. ticketOf' = ticketOf /\ outcomeOf' = outcomeOf
    BY <2>1, <2>2, <2>3 DEF ticketOf, outcomeOf, Settled
  <2>5. QED BY <2>1, <2>4, LineStutter
<1>5. ASSUME worker \in InHand, NEW result \in Settled,
             queue' = [queue EXCEPT ![workerEvent] = result],
             UNCHANGED <<sequence, lastSequence>>
      PROVE  Line!Settle(workerEvent, result)
  <2>1. queue[workerEvent] = "processing" /\ workerEvent \in Event
    BY <1>5
  <2>2. ticketOf' = [ticketOf EXCEPT ![workerEvent] = 0]
    BY <1>5, <2>1 DEF ticketOf, Settled
  <2>3. outcomeOf' = [outcomeOf EXCEPT ![workerEvent] = result]
    BY <1>5, <2>1 DEF outcomeOf, Settled
  <2>4. ticketOf[workerEvent] # 0
    BY <2>1 DEF ticketOf, Sequenced
  <2>5. \A f \in Event : ticketOf[f] # 0 => ticketOf[workerEvent] <= ticketOf[f]
    BY <2>1 DEF ticketOf, Lined, OneInProcess
  <2>6. QED BY <1>5, <2>1, <2>2, <2>3, <2>4, <2>5
    DEF Line!Settle, Line!Waiting, ticketOf, outcomeOf, Settled
<1>6. CASE worker = "complete" /\ CompleteEventTx(workerEvent)
  BY <1>5, <1>6 DEF CompleteEventTx, InHand, Settled, Line!Next
<1>7. CASE worker = "fail" /\ FailEventTx(workerEvent)
  BY <1>5, <1>7 DEF FailEventTx, InHand, Settled, Line!Next
<1>8. QED BY <1>1, <1>2, <1>3, <1>4, <1>6, <1>7, OnlyQueueSteps DEF QueueStep, Line!Next

(* The queue with its worker, wake-ups, crashes and recovery implements the    *)
(* first-in first-out line of EventLine for any number of events.              *)
THEOREM QueueIsALine == Spec => ImplementsLine
<1>1. Init => Line!Init
  BY DEF Init, StoreInit, Line!Init
<1>2. QED BY <1>1, LineSimulation, LineInvariant, PTL DEF Spec, ImplementsLine, Line!Spec

-----------------------------------------------------------------------------
(* The steps that touch what the event tables say, and all the others, which *)
(* leave the tables alone and never hand anybody an event to complete.       *)
Quiet ==
  /\ UNCHANGED <<queue, received, decision>>
  /\ holder' = Caller => holder = Caller /\ eval'.event = eval.event
  /\ worker' = "complete" => worker = "complete" /\ workerEvent' = workerEvent

TableStep ==
  \/ Start \/ ClaimEvent \/ FinishEvent \/ BeginReserved \/ BeginDirect
  \/ EvaluateFails \/ Forget \/ Decide
  \/ \E e \in Event : EnqueueEvent(e)
  \/ \E e \in DirectEvents : ReceiveEvent(e)

LEMMA OnlyTableSteps ==
  ASSUME TypeInv, [Next]_vars
  PROVE  TableStep \/ Quiet
<1> eval \in Evaluation
  BY DEF TypeInv, TypeOK
<1> USE NameAssumption
    DEF Quiet, Evaluation, Free, Worker, Caller, threadVars, lifeVars, histVars, storeVars, queueVars
<1>1. ASSUME NEW d \in Deployments, Boot(d) PROVE TableStep \/ Quiet
  BY <1>1 DEF Boot, SupersedeUnregisteredTx, MarkTx
<1>2. ASSUME Start PROVE TableStep \/ Quiet
  BY <1>2 DEF TableStep
<1>3. ASSUME StopSet PROVE TableStep \/ Quiet
  BY <1>3 DEF StopSet
<1>4. ASSUME StopWake PROVE TableStep \/ Quiet
  BY <1>4 DEF StopWake
<1>5. ASSUME StopJoin PROVE TableStep \/ Quiet
  BY <1>5 DEF StopJoin
<1>6. ASSUME Die PROVE TableStep \/ Quiet
  BY <1>6 DEF Die
<1>7. ASSUME NEW e \in Event, EnqueueEvent(e) PROVE TableStep \/ Quiet
  BY <1>7 DEF TableStep
<1>8. ASSUME NEW e \in Event, SetWake(e) PROVE TableStep \/ Quiet
  BY <1>8 DEF SetWake
<1>9. ASSUME NEW e \in DirectEvents, ReceiveEvent(e) PROVE TableStep \/ Quiet
  BY <1>9 DEF TableStep
<1>10. ASSUME CheckStop PROVE TableStep \/ Quiet
  BY <1>10 DEF CheckStop, WorkerGoes
<1>11. ASSUME WaitWake PROVE TableStep \/ Quiet
  BY <1>11 DEF WaitWake, WorkerGoes
<1>12. ASSUME ClearWake PROVE TableStep \/ Quiet
  BY <1>12 DEF ClearWake, WorkerGoes
<1>13. ASSUME Drain PROVE TableStep \/ Quiet
  BY <1>13 DEF Drain, WorkerGoes
<1>14. ASSUME ClaimEvent PROVE TableStep \/ Quiet
  BY <1>14 DEF TableStep
<1>15. ASSUME FinishEvent PROVE TableStep \/ Quiet
  BY <1>15 DEF TableStep
<1>16. ASSUME BeginReserved PROVE TableStep \/ Quiet
  BY <1>16 DEF TableStep
<1>17. ASSUME BeginDirect PROVE TableStep \/ Quiet
  BY <1>17 DEF TableStep
<1>18. ASSUME EvaluateFails PROVE TableStep \/ Quiet
  BY <1>18 DEF TableStep
<1>19. ASSUME Forget PROVE TableStep \/ Quiet
  BY <1>19 DEF TableStep
<1>20. ASSUME NEW outcome \in Action \cup {NoAction}, Evaluate(outcome) PROVE TableStep \/ Quiet
  BY <1>20 DEF Evaluate, InEvaluation
<1>21. ASSUME Supersede PROVE TableStep \/ Quiet
  BY <1>21 DEF Supersede, SupersedePendingTx, MarkTx, InEvaluation, EvalStep
<1>22. ASSUME Activate PROVE TableStep \/ Quiet
  BY <1>22 DEF Activate, SetPolicyActiveTx, InEvaluation, EvalStep
<1>23. ASSUME Create PROVE TableStep \/ Quiet
  BY <1>23 DEF Create, CreateTx, InEvaluation
<1>24. ASSUME Decide PROVE TableStep \/ Quiet
  BY <1>24 DEF TableStep
<1>25. ASSUME NEW o \in Operator, Approve(o) PROVE TableStep \/ Quiet
  BY <1>25 DEF Approve, ClaimProposalTx, MarkTx, OperatorOnly
<1>26. ASSUME NEW o \in Operator, RefuseExecution(o) PROVE TableStep \/ Quiet
  BY <1>26 DEF RefuseExecution, OperatorOnly
<1>27. ASSUME NEW o \in Operator, CompleteProposal(o) PROVE TableStep \/ Quiet
  BY <1>27 DEF CompleteProposal, CompleteTx, MarkTx, OperatorOnly
<1>28. ASSUME NEW o \in Operator, NEW result \in {"succeeded", "failed"}, CallTool(o, result) PROVE TableStep \/ Quiet
  BY <1>28 DEF CallTool, OperatorOnly
<1>29. ASSUME NEW o \in Operator, NEW p \in ProposalId, AskApprove(o, p) PROVE TableStep \/ Quiet
  BY <1>29 DEF AskApprove, OperatorOnly
<1>30. ASSUME NEW p \in ProposalId, Reject(p) PROVE TableStep \/ Quiet
  BY <1>30 DEF Reject, RejectTx, MarkTx, OperatorOnly
<1>31. ASSUME TimePasses PROVE TableStep \/ Quiet
  BY <1>31 DEF TimePasses
<1>32. ASSUME UNCHANGED vars PROVE TableStep \/ Quiet
  BY <1>32 DEF vars
<1>33. QED BY <1>1, <1>2, <1>3, <1>4, <1>5, <1>6, <1>7, <1>8, <1>9, <1>10, <1>11, <1>12, <1>13, <1>14, <1>15, <1>16, <1>17, <1>18, <1>19, <1>20, <1>21, <1>22, <1>23, <1>24, <1>25, <1>26, <1>27, <1>28, <1>29, <1>30, <1>31, <1>32
  DEF Next, WorkerStep, EvaluationStep, ApprovalStep

(* What the event tables say of an event that is held by a thread. *)
LEMMA HeldEvent ==
  ASSUME TypeInv, Locks, InProcess, Remembered, eval.stage # "idle"
  PROVE  /\ eval.event \in Event
         /\ eval.event \in received
         /\ \/ holder = Caller /\ queue[eval.event] \in {"absent", "failed"}
            \/ holder = Worker /\ queue[eval.event] = "processing" /\ eval.event = workerEvent
         /\ eval.stage \in {"reserved", "forget"} => holder = Caller
         /\ holder = Caller => eval.event \in DirectEvents
BY DEF TypeInv, Locals, EvalLocals, WorkerLocals, Locks, InProcess, Remembered, InHand, Worker, Caller

LEMMA HandedEvent ==
  ASSUME TypeInv, InProcess, Remembered, worker \in InHand
  PROVE  workerEvent \in Event /\ queue[workerEvent] = "processing" /\ workerEvent \in received
BY DEF TypeInv, Locals, WorkerLocals, InProcess, Remembered

(* Every step keeps accepted and assessed events remembered. *)
LEMMA RememberedStep ==
  ASSUME TypeInv, Locks, InProcess, Remembered, [Next]_vars
  PROVE  Remembered'
<1> /\ queue \in [Event -> QueueStatus] /\ decision \in [Event -> Decision]
    /\ eval \in Evaluation
    /\ holder = Worker => worker = "inside"
  BY DEF TypeInv, TypeOK, StoreTypeOK, Locals, WorkerLocals
<1> USE NameAssumption
    DEF Remembered, QueueStatus, Decision, Decided, Assessed, Evaluation, Free, Worker, Caller,
        threadVars, lifeVars, histVars, storeVars, queueVars
<1>1. CASE Quiet
  BY <1>1 DEF Quiet
<1>2. CASE Start
  <2>1. UNCHANGED <<received, eval, holder>>
    BY <1>2 DEF Start, RecoverTx
  <2>2. /\ \A f \in Event : queue'[f] = IF queue[f] = "processing" THEN "queued" ELSE queue[f]
        /\ \A f \in Event : decision'[f] =
             IF queue[f] = "processing" THEN Decided("queued") ELSE decision[f]
    BY <1>2 DEF Start, RecoverTx, Interrupted
  <2>3. holder = Caller => eval.event \in Event
    BY HeldEvent DEF Locks
  <2>4. QED BY <2>1, <2>2, <2>3
<1>3. CASE ClaimEvent
  <2>1. UNCHANGED <<received, eval, holder>>
    BY <1>3 DEF ClaimEvent, ClaimEventTx
  <2>2. CASE UNCHANGED <<queue, decision>>
    BY <2>1, <2>2
  <2>3. ASSUME NEW e \in Event, ClaimEventTx(e) PROVE Remembered'
    <3>1. /\ queue[e] = "queued"
          /\ queue' = [queue EXCEPT ![e] = "processing"]
          /\ decision' = [decision EXCEPT ![e] = Decided("processing")]
      BY <2>3 DEF ClaimEventTx, IsOldestQueued, Queued
    <3>2. holder = Caller => eval.event \in Event /\ eval.event # e
      BY <3>1, HeldEvent DEF Locks
    <3>3. QED BY <2>1, <3>1, <3>2
  <2>4. QED BY <1>3, <2>2, <2>3 DEF ClaimEvent
<1>4. CASE FinishEvent
  <2>1. /\ UNCHANGED <<eval, holder>> /\ workerEvent \in received
        /\ workerEvent \in Event /\ queue[workerEvent] = "processing"
    BY <1>4, HandedEvent DEF FinishEvent, InHand
  <2>2. holder = Caller => eval.event \in Event /\ eval.event # workerEvent
    BY <2>1, HeldEvent DEF Locks
  <2>3. CASE CompleteEventTx(workerEvent)
    BY <2>1, <2>2, <2>3 DEF CompleteEventTx
  <2>4. CASE FailEventTx(workerEvent)
    BY <2>1, <2>2, <2>4 DEF FailEventTx
  <2>5. QED BY <1>4, <2>3, <2>4 DEF FinishEvent
<1>5. CASE BeginReserved
  BY <1>5, HandedEvent DEF BeginReserved, SaveDecisionTx, InEvaluation, InHand
<1>6. CASE BeginDirect
  BY <1>6, HeldEvent DEF BeginDirect, SaveDecisionTx, InEvaluation, Assess, NoEvaluation
<1>7. CASE EvaluateFails
  BY <1>7, HeldEvent DEF EvaluateFails, SaveDecisionTx, InEvaluation, Leave, EvalStep
<1>8. CASE Forget
  BY <1>8, HeldEvent DEF Forget, ForgetEventTx, InEvaluation, Leave
<1>9. CASE Decide
  BY <1>9, HeldEvent DEF Decide, SaveDecisionTx, InEvaluation, Leave
<1>10. ASSUME NEW e \in Event, EnqueueEvent(e) PROVE Remembered'
  <2>1. UNCHANGED <<eval, holder>>
    BY <1>10 DEF EnqueueEvent
  <2>2. holder = Caller => eval.event \in Event
    BY HeldEvent DEF Locks
  <2>3. CASE UNCHANGED storeVars
    BY <2>1, <2>3
  <2>4. CASE /\ e \notin received
             /\ queue' = [queue EXCEPT ![e] = "queued"]
             /\ received' = received \cup {e}
             /\ decision' = [decision EXCEPT ![e] = Decided("queued")]
    BY <2>1, <2>2, <2>4
  <2>5. QED BY <1>10, <2>3, <2>4, Zenon DEF EnqueueEvent, EnqueueTx, IsDuplicate
<1>11. ASSUME NEW e \in DirectEvents, ReceiveEvent(e) PROVE Remembered'
  BY <1>11, PolicyAssumption DEF ReceiveEvent, RecordEventTx, InEvaluation, NoEvaluation
<1>12. QED BY <1>1, <1>2, <1>3, <1>4, <1>5, <1>6, <1>7, <1>8, <1>9, <1>10, <1>11, OnlyTableSteps
  DEF TableStep

(* Every step keeps what the tables say of one event in agreement. *)
LEMMA AgreedStep ==
  ASSUME TypeInv, Locks, InProcess, Remembered, Agreed, [Next]_vars
  PROVE  Agreed'
<1> /\ queue \in [Event -> QueueStatus] /\ decision \in [Event -> Decision]
    /\ eval \in Evaluation
    /\ holder = Worker => worker = "inside"
    /\ main \in {"down", "built", "stopped"} => worker \in {"none", "done"}
    /\ eval.stage = "evaluate" => holder \in {Worker, Caller}
  BY DEF TypeInv, TypeOK, StoreTypeOK, Locals, WorkerLocals, Locks
<1> USE NameAssumption
    DEF Agreed, TablesAgree, QueueStatus, Decision, Decided, Assessed, Evaluation,
        Free, Worker, Caller, threadVars, lifeVars, histVars, storeVars, queueVars
<1>1. CASE Quiet
  BY <1>1 DEF Quiet
<1>2. CASE Start
  BY <1>2 DEF Start, RecoverTx, Interrupted
<1>3. CASE ClaimEvent
  BY <1>3 DEF ClaimEvent, ClaimEventTx, IsOldestQueued, Queued, WorkerGoes
<1>4. CASE FinishEvent
  BY <1>4, HandedEvent DEF FinishEvent, CompleteEventTx, FailEventTx, InHand
<1>5. CASE BeginReserved
  BY <1>5, HandedEvent DEF BeginReserved, SaveDecisionTx, InEvaluation, InHand
<1>6. CASE BeginDirect
  BY <1>6, HeldEvent DEF BeginDirect, SaveDecisionTx, InEvaluation
<1>7. CASE EvaluateFails
  BY <1>7, HeldEvent DEF EvaluateFails, SaveDecisionTx, InEvaluation, Leave
<1>8. CASE Forget
  BY <1>8, HeldEvent DEF Forget, ForgetEventTx, InEvaluation, Leave
<1>9. CASE Decide
  BY <1>9, HeldEvent DEF Decide, SaveDecisionTx, InEvaluation, Leave
<1>10. ASSUME NEW e \in Event, EnqueueEvent(e) PROVE Agreed'
  BY <1>10, HandedEvent DEF EnqueueEvent, EnqueueTx, IsDuplicate, InHand
<1>11. ASSUME NEW e \in DirectEvents, ReceiveEvent(e) PROVE Agreed'
  BY <1>11 DEF ReceiveEvent, RecordEventTx, InEvaluation
<1>12. QED BY <1>1, <1>2, <1>3, <1>4, <1>5, <1>6, <1>7, <1>8, <1>9, <1>10, <1>11, OnlyTableSteps
  DEF TableStep

LEMMA QueueInvariant == Spec => []QueueInv
<1>1. Init => QueueInv
  <2> SUFFICES ASSUME Init PROVE QueueInv
    OBVIOUS
  <2>1. Remembered /\ Agreed
    BY DEF Init, StoreInit, Remembered, Agreed, TablesAgree, Assessed, Decided, Free, Caller
  <2>2. QED BY <2>1, LineInit DEF QueueInv, LineInv, TypeInv
<1>2. QueueInv /\ [Next]_vars => QueueInv'
  BY TypeStep, LockStep, InProcessStep, LineStep, RememberedStep, AgreedStep
  DEF QueueInv, TypeInv
<1>3. QED BY <1>1, <1>2, PTL DEF Spec

(* For any number of events, crashes and restarts, event_queue, received_events*)
(* and event_decisions agree on every event that came through the queue.       *)
THEOREM TablesAlwaysAgree == Spec => []TablesAgree
<1>1. QueueInv => TablesAgree
  BY DEF QueueInv, Agreed
<1>2. QED BY <1>1, QueueInvariant, PTL

(* The decision of an assessed event is never touched again.                   *)
THEOREM AssessedAtMostOnce == Spec => AssessedOnce
<1> DEFINE Kept == \A e \in Event :
             decision[e].status \in {"pending", "no_action"} /\ queue[e] # "processing"
               => decision'[e] = decision[e]
<1>1. QueueInv /\ [Next]_vars => Kept
  <2> SUFFICES ASSUME QueueInv, [Next]_vars,
                      NEW e \in Event,
                      decision[e].status \in {"pending", "no_action"}, queue[e] # "processing"
               PROVE  decision'[e] = decision[e]
    OBVIOUS
  <2> /\ TypeInv /\ Locks /\ InProcess /\ Remembered
      /\ decision \in [Event -> Decision]
    BY DEF QueueInv, TypeInv, TypeOK, StoreTypeOK
  <2>0. e \in received /\ queue[e] \notin {"queued", "processing"}
    BY DEF Remembered, Assessed
  <2>1. eval.stage # "idle" => eval.event # e /\ eval.event \in Event
    BY HeldEvent DEF Remembered, Assessed
  <2>2. worker \in InHand => workerEvent # e /\ workerEvent \in Event
    BY HandedEvent
  <2> USE <2>0, <2>1, <2>2 DEF InHand, storeVars
  <2>3. CASE Quiet
    BY <2>3 DEF Quiet
  <2>4. CASE Start
    BY <2>4 DEF Start, RecoverTx, Interrupted
  <2>5. CASE ClaimEvent \/ FinishEvent
    BY <2>5
    DEF ClaimEvent, ClaimEventTx, IsOldestQueued, Queued, FinishEvent, CompleteEventTx, FailEventTx
  <2>6. CASE BeginReserved \/ BeginDirect \/ EvaluateFails \/ Forget \/ Decide
    BY <2>6 DEF BeginReserved, BeginDirect, EvaluateFails, Forget, Decide, SaveDecisionTx, ForgetEventTx
  <2>7. ASSUME NEW f \in Event, EnqueueEvent(f) PROVE decision'[e] = decision[e]
    BY <2>7 DEF EnqueueEvent, EnqueueTx, IsDuplicate
  <2>8. ASSUME NEW f \in DirectEvents, ReceiveEvent(f) PROVE decision'[e] = decision[e]
    BY <2>8 DEF ReceiveEvent, RecordEventTx
  <2>9. QED BY <2>3, <2>4, <2>5, <2>6, <2>7, <2>8, OnlyTableSteps DEF TableStep
<1>2. QueueInv /\ [Next]_vars => [Kept]_vars
  BY <1>1
<1>3. QED BY <1>2, QueueInvariant, PTL DEF Spec, AssessedOnce
=============================================================================

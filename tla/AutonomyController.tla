------------------------- MODULE AutonomyController -------------------------
(***************************************************************************)
(* The operator server's event path: autonomy/controller.py over the store *)
(* of ProposalStore.  Threads: the main thread (start, stop), one worker   *)
(* (_work_events), HTTP threads that submit events and decide proposals,   *)
(* and callers of the synchronous receive_event.  The process may crash    *)
(* between any two steps; the tables survive, everything else is lost.     *)
(***************************************************************************)
EXTENDS ProposalStore

CONSTANTS
  NoEvent,      (* no event: the worker's variable before its first claim    *)
  Generic,      (* the policy registered for "*" (HermesEventAgent)          *)
  TypePolicy,   (* per event, the policy registered for its very event_type  *)
                (* in the deployments that have one, else Generic            *)
  Deployments,  (* the sets of policies a start of the process may register  *)
  DirectEvents, (* events also submitted through receive_event               *)
  Operator,     (* HTTP threads that approve and reject                      *)
  MaxCrashes,   (* bound: crashes                                            *)
  MaxStops      (* bound: calls of stop()                                    *)

ASSUME PolicyAssumption ==
  /\ NoEvent \notin Event
  /\ Generic \in Policy
  /\ TypePolicy \in [Event -> Policy]
  /\ Deployments \subseteq SUBSET Policy
  /\ DirectEvents \subseteq Event
  /\ MaxCrashes \in Nat /\ MaxStops \in Nat

NoAction == "no action"
Free     == "free"
Worker   == "worker"
Caller   == "caller"
ASSUME NameAssumption ==
  NoAction \notin Action /\ Operator \cap {Free, Worker, Caller} = {}

VARIABLES
  main,        (* where the main thread is                                   *)
  registered,  (* self.policy_ids                                            *)
  stop, wake,  (* the two threading.Events                                   *)
  worker,      (* where the worker thread is                                 *)
  workerEvent, (* the worker's claimed event                                 *)
  holder,      (* who holds _event_lock                                      *)
  eval,        (* the locals of the _receive_event that runs under it        *)
  operator,    (* where each approve call is, and the proposal it is for     *)
  notify,      (* enqueue calls that committed and have not set wake yet     *)
  expired,     (* proposals 1..expired were evaluated over 300 s ago         *)
  calls,       (* history: how often a proposal's action tool was called     *)
  crashes, stops

threadVars == <<worker, workerEvent, holder, eval>>
lifeVars   == <<main, registered, stop>>
histVars   == <<expired, calls, crashes, stops>>
vars == <<storeVars, threadVars, lifeVars, wake, operator, notify, histVars>>

Stage == {"idle", "reserved", "evaluate", "supersede", "activate", "create", "decide", "forget"}
Evaluation ==
  [event : Event \cup {NoEvent}, stage : Stage, wasActive : BOOLEAN,
   outcome : Action \cup {NoAction}, proposal : Nat]
Call == [stage : {"idle", "blocked", "execute", "succeeded", "failed"},
         proposal : Nat]

NoEvaluation == [event |-> NoEvent, stage |-> "idle", wasActive |-> FALSE,
                 outcome |-> NoAction, proposal |-> NoProposal]
NoCall == [stage |-> "idle", proposal |-> NoProposal]

Up == main \notin {"down", "built"}
Supported(e) == TypePolicy[e] \in registered \/ Generic \in registered
PolicyFor(e) == IF TypePolicy[e] \in registered THEN TypePolicy[e] ELSE Generic

NoCalls == [o \in Operator |-> NoCall]

Init ==
  /\ StoreInit
  /\ worker = "none" /\ workerEvent = NoEvent /\ holder = Free /\ eval = NoEvaluation
  /\ operator = NoCalls /\ notify = {} /\ stop = FALSE /\ wake = FALSE
  /\ main = "down" /\ registered = {}
  /\ expired = 0
  /\ calls = [p \in 1..MaxProposals |-> 0]
  /\ crashes = 0 /\ stops = 0

-----------------------------------------------------------------------------
(* The main thread *)

(* AutonomyController.__init__ *)
Boot(deployment) ==
  /\ main = "down"
  /\ main' = "built"
  /\ registered' = deployment
  /\ SupersedeUnregisteredTx(deployment)
  /\ UNCHANGED <<threadVars, stop, wake, operator, notify, histVars>>

(* start, under _worker_lock *)
Start ==
  /\ main \in {"built", "stopped"}
  /\ main' = "running"
  /\ RecoverTx
  /\ stop' = FALSE
  /\ wake' = TRUE
  /\ worker' = "check"
  /\ UNCHANGED <<workerEvent, holder, eval, registered, operator, notify, histVars>>

(* stop: _stop.set(), then _wake.set(), then join *)
StopSet ==
  /\ main = "running"
  /\ stops < MaxStops
  /\ stops' = stops + 1
  /\ main' = "stopping"
  /\ stop' = TRUE
  /\ UNCHANGED <<storeVars, threadVars, registered, wake, operator, notify, expired, calls, crashes>>

(* slip: stop does not set _wake *)
StopWakeSilent ==
  /\ main = "stopping"
  /\ main' = "joining"
  /\ UNCHANGED <<storeVars, threadVars, registered, stop, wake, operator, notify, histVars>>

StopWake ==
  /\ main = "stopping"
  /\ main' = "joining"
  /\ wake' = TRUE
  /\ UNCHANGED <<storeVars, threadVars, registered, stop, operator, notify, histVars>>

StopJoin ==
  /\ main = "joining"
  /\ worker = "done"
  /\ main' = "stopped"
  /\ UNCHANGED <<storeVars, threadVars, registered, stop, wake, operator, notify, histVars>>

(* the process ends: after stop returned, or killed at any point *)
Die ==
  /\ main # "down"
  /\ IF main = "stopped" THEN UNCHANGED crashes
     ELSE crashes < MaxCrashes /\ crashes' = crashes + 1
  /\ main' = "down"
  /\ worker' = "none" /\ workerEvent' = NoEvent /\ holder' = Free /\ eval' = NoEvaluation
  /\ operator' = NoCalls /\ notify' = {} /\ stop' = FALSE /\ wake' = FALSE
  /\ UNCHANGED <<storeVars, registered, expired, calls, stops>>

-----------------------------------------------------------------------------
(* Producers: POST /autonomy/events *)

(* enqueue_event: an unsupported event is refused before the transaction *)
EnqueueEvent(e) ==
  /\ Up
  /\ Supported(e)
  /\ EnqueueTx(e)
  /\ notify' = notify \cup {e}
  /\ UNCHANGED <<threadVars, lifeVars, wake, operator, histVars>>

(* slip: a producer wakes only a worker that waits *)
SetWakeIfWaiting(e) ==
  /\ e \in notify
  /\ notify' = notify \ {e}
  /\ wake' = (wake \/ worker = "wait")
  /\ UNCHANGED <<storeVars, threadVars, lifeVars, operator, histVars>>

(* ... and the _wake.set() that follows it *)
SetWake(e) ==
  /\ e \in notify
  /\ notify' = notify \ {e}
  /\ wake' = TRUE
  /\ UNCHANGED <<storeVars, threadVars, lifeVars, operator, histVars>>

-----------------------------------------------------------------------------
(* The worker thread: _work_events *)

WorkerGoes(from, to) == worker = from /\ worker' = to

CheckStop ==
  /\ WorkerGoes("check", IF stop THEN "done" ELSE "wait")
  /\ UNCHANGED <<storeVars, workerEvent, holder, eval, lifeVars, wake, operator, notify, histVars>>

WaitWake ==
  /\ wake
  /\ WorkerGoes("wait", "clear")
  /\ UNCHANGED <<storeVars, workerEvent, holder, eval, lifeVars, wake, operator, notify, histVars>>

ClearWake ==
  /\ WorkerGoes("clear", "drain")
  /\ wake' = FALSE
  /\ UNCHANGED <<storeVars, workerEvent, holder, eval, lifeVars, operator, notify, histVars>>

Drain ==
  /\ WorkerGoes("drain", IF stop THEN "check" ELSE "claim")
  /\ UNCHANGED <<storeVars, workerEvent, holder, eval, lifeVars, wake, operator, notify, histVars>>

ClaimEvent ==
  /\ \/ /\ Queued = {}
        /\ WorkerGoes("claim", "check")
        /\ UNCHANGED <<storeVars, workerEvent>>
     \/ \E e \in Event :
          /\ ClaimEventTx(e)
          /\ WorkerGoes("claim", "contend")
          /\ workerEvent' = e
  /\ UNCHANGED <<holder, eval, lifeVars, wake, operator, notify, histVars>>

(* finish_event, after _event_lock is released *)
FinishEvent ==
  /\ \/ worker = "complete" /\ CompleteEventTx(workerEvent)
     \/ worker = "fail" /\ FailEventTx(workerEvent)
  /\ worker' = "drain"
  /\ workerEvent' = NoEvent
  /\ UNCHANGED <<holder, eval, lifeVars, wake, operator, notify, histVars>>

-----------------------------------------------------------------------------
(* _receive_event, under _event_lock: run by the worker (reserved=True) or *)
(* by a caller of receive_event.  Each store call is a step of its own.    *)

EvalStep(from, to) == eval.stage = from /\ eval' = [eval EXCEPT !.stage = to]

InEvaluation == UNCHANGED <<workerEvent, lifeVars, wake, operator, notify, histVars>>

(* the holder leaves; the worker goes on to finish_event *)
Leave(next) ==
  /\ holder' = Free
  /\ eval' = NoEvaluation
  /\ worker' = IF holder = Worker THEN next ELSE worker

Assess(e) == [NoEvaluation EXCEPT !.event = e, !.stage = "evaluate",
                                  !.wasActive = active[PolicyFor(e)]]

(* the worker takes the lock; _validate_event may refuse what an earlier *)
(* deployment accepted                                                    *)
BeginReserved ==
  /\ worker = "contend" /\ holder = Free
  /\ IF Supported(workerEvent)
     THEN /\ SaveDecisionTx(workerEvent, Decided("processing"))
          /\ holder' = Worker
          /\ worker' = "inside"
          /\ eval' = Assess(workerEvent)
     ELSE worker' = "fail" /\ UNCHANGED <<storeVars, holder, eval>>
  /\ InEvaluation

(* receive_event: a known id is a duplicate and changes nothing *)
ReceiveEvent(e) ==
  /\ Up /\ holder = Free
  /\ Supported(e)
  /\ RecordEventTx(e)
  /\ holder' = Caller
  /\ eval' = [NoEvaluation EXCEPT !.event = e, !.stage = "reserved"]
  /\ UNCHANGED worker /\ InEvaluation

BeginDirect ==
  /\ eval.stage = "reserved"
  /\ eval' = Assess(eval.event)
  /\ SaveDecisionTx(eval.event, Decided("processing"))
  /\ UNCHANGED <<worker, holder>> /\ InEvaluation

(* slip: pending proposals go only when the condition begins, not when it ends *)
EvaluateRising(outcome) ==
  LET policy == PolicyFor(eval.event)
      rises  == policy # Generic /\ ~eval.wasActive /\ outcome # NoAction
  IN /\ eval.stage = "evaluate"
     /\ eval' = [eval EXCEPT !.stage = IF rises THEN "supersede" ELSE "activate",
                             !.outcome = outcome]
     /\ UNCHANGED <<storeVars, worker, holder>> /\ InEvaluation

(* the policy returns an action or none *)
Evaluate(outcome) ==
  LET policy == PolicyFor(eval.event)
      flips  == policy # Generic /\ eval.wasActive # (outcome # NoAction)
  IN /\ eval.stage = "evaluate"
     /\ eval' = [eval EXCEPT !.stage = IF flips THEN "supersede" ELSE "activate",
                             !.outcome = outcome]
     /\ UNCHANGED <<storeVars, worker, holder>> /\ InEvaluation

(* slip: the lock is not released when the policy raises *)
EvaluateFailsLocked ==
  /\ eval.stage = "evaluate"
  /\ SaveDecisionTx(eval.event, Decided("failed"))
  /\ IF holder = Worker
     THEN eval' = NoEvaluation /\ worker' = "fail" /\ UNCHANGED holder
     ELSE EvalStep("evaluate", "forget") /\ UNCHANGED <<worker, holder>>
  /\ InEvaluation

(* the context read or the policy raises *)
EvaluateFails ==
  /\ eval.stage = "evaluate"
  /\ SaveDecisionTx(eval.event, Decided("failed"))
  /\ IF holder = Worker
     THEN Leave("fail")
     ELSE EvalStep("evaluate", "forget") /\ UNCHANGED <<worker, holder>>
  /\ InEvaluation

Forget ==
  /\ eval.stage = "forget"
  /\ ForgetEventTx(eval.event)
  /\ Leave("fail")
  /\ InEvaluation

Supersede ==
  /\ EvalStep("supersede", "activate")
  /\ SupersedePendingTx(PolicyFor(eval.event))
  /\ UNCHANGED <<worker, holder>> /\ InEvaluation

Activate ==
  /\ EvalStep("activate", IF eval.outcome = NoAction THEN "decide" ELSE "create")
  /\ SetPolicyActiveTx(PolicyFor(eval.event), eval.outcome # NoAction)
  /\ UNCHANGED <<worker, holder>> /\ InEvaluation

Create ==
  /\ eval.stage = "create"
  /\ \E id \in 1..MaxProposals :
       /\ CreateTx(PolicyFor(eval.event), eval.outcome, eval.event,
                   PolicyFor(eval.event) # Generic, id)
       /\ eval' = [eval EXCEPT !.stage = "decide", !.proposal = id]
  /\ UNCHANGED <<worker, holder>> /\ InEvaluation

Decide ==
  /\ eval.stage = "decide"
  /\ SaveDecisionTx(eval.event,
       [status   |-> IF eval.outcome = NoAction THEN "no_action" ELSE "pending",
        proposal |-> eval.proposal])
  /\ Leave("complete")
  /\ InEvaluation

EvaluationStep ==
  \/ BeginDirect \/ EvaluateFails \/ Forget
  \/ \E outcome \in Action \cup {NoAction} : Evaluate(outcome)
  \/ Supersede \/ Activate \/ Create \/ Decide

WorkerStep ==
  \/ CheckStop \/ WaitWake \/ ClearWake \/ Drain \/ ClaimEvent \/ FinishEvent
  \/ BeginReserved

-----------------------------------------------------------------------------
(* Operators: POST /autonomy/proposals/{id}/approve and .../reject *)

Returns(o)   == operator' = [operator EXCEPT ![o] = NoCall]
OperatorOnly == UNCHANGED <<worker, workerEvent, eval, lifeVars, wake, notify>>

(* The request arrives and waits for _event_lock.  A request for a decided   *)
(* proposal is answered 409 when it gets the lock and changes nothing: only  *)
(* those that find the proposal pending on arrival are followed.             *)
AskApprove(o, p) ==
  /\ Up /\ operator[o].stage = "idle"
  /\ IsPending(p)
  /\ operator' = [operator EXCEPT ![o] = [stage |-> "blocked", proposal |-> p]]
  /\ UNCHANGED <<storeVars, holder, histVars>> /\ OperatorOnly

(* approve takes the lock and claims; ValueError is answered 409 *)
Approve(o) ==
  /\ operator[o].stage = "blocked" /\ holder = Free
  /\ \/ /\ ClaimProposalTx(operator[o].proposal)
        /\ operator' = [operator EXCEPT ![o].stage = "execute"]
        /\ holder' = o
     \/ /\ ~IsPending(operator[o].proposal)
        /\ Returns(o)
        /\ UNCHANGED <<storeVars, holder>>
  /\ UNCHANGED histVars /\ OperatorOnly

(* HermesEventAgent.execute_approved refuses an old evaluation *)
IsExpired(p) == proposals[p].policy = Generic /\ p <= expired

(* the action tool is called: it may do the work and yet be reported failed *)
CallTool(o, result) ==
  LET p == operator[o].proposal
  IN /\ operator[o].stage = "execute"
     /\ proposals[p].policy \in registered
     /\ ~IsExpired(p)
     /\ calls' = [calls EXCEPT ![p] = @ + 1]
     /\ operator' = [operator EXCEPT ![o].stage = result]
     /\ UNCHANGED <<storeVars, holder, expired, crashes, stops>> /\ OperatorOnly

(* expired, no longer permitted, stale or unreadable context: any exception *)
(* raised before the action tool is called                                   *)
RefuseExecution(o) ==
  /\ operator[o].stage = "execute"
  /\ operator' = [operator EXCEPT ![o].stage = "failed"]
  /\ UNCHANGED <<storeVars, holder, histVars>> /\ OperatorOnly

CompleteProposal(o) ==
  /\ operator[o].stage \in {"succeeded", "failed"}
  /\ CompleteTx(operator[o].proposal, operator[o].stage = "succeeded")
  /\ holder' = Free
  /\ Returns(o)
  /\ UNCHANGED histVars /\ OperatorOnly

(* reject takes no lock; a decided proposal is answered 409 and stays *)
Reject(p) ==
  /\ Up
  /\ RejectTx(p)
  /\ UNCHANGED <<holder, operator, histVars>> /\ OperatorOnly

ApprovalStep(o) ==
  \/ Approve(o) \/ RefuseExecution(o) \/ CompleteProposal(o)
  \/ \E result \in {"succeeded", "failed"} : CallTool(o, result)

(* five minutes pass for the oldest evaluations; only execute_approved of *)
(* the generic policy looks at the time                                   *)
TimePasses ==
  /\ expired' \in {p \in ProposalId : p > expired /\ proposals[p].policy = Generic}
  /\ UNCHANGED <<storeVars, threadVars, lifeVars, wake, operator, notify, calls, crashes, stops>>

-----------------------------------------------------------------------------
Next ==
  \/ \E d \in Deployments : Boot(d)
  \/ Start \/ StopSet \/ StopWake \/ StopJoin \/ Die
  \/ \E e \in Event : EnqueueEvent(e) \/ SetWake(e)
  \/ \E e \in DirectEvents : ReceiveEvent(e)
  \/ WorkerStep \/ EvaluationStep
  \/ \E o \in Operator : ApprovalStep(o) \/ \E p \in ProposalId : AskApprove(o, p)
  \/ \E p \in ProposalId : Reject(p)
  \/ TimePasses

Spec == Init /\ [][Next]_vars

(* Threads are scheduled, the model and tool calls time out, and the        *)
(* container restarts the process; nobody has to submit, decide or stop.    *)
Fairness ==
  /\ WF_vars(\E d \in Deployments : Boot(d)) /\ WF_vars(main = "built" /\ Start)
  /\ WF_vars(StopWake) /\ WF_vars(StopJoin)
  /\ \A e \in Event : WF_vars(SetWake(e))
  /\ WF_vars(WorkerStep) /\ WF_vars(EvaluationStep)
  /\ \A o \in Operator : WF_vars(ApprovalStep(o))

FairSpec == Spec /\ Fairness

-----------------------------------------------------------------------------
(* Properties *)

WorkerStage == {"none", "check", "wait", "clear", "drain", "claim", "contend",
                "inside", "complete", "fail", "done"}
MainStage   == {"down", "built", "running", "stopping", "joining", "stopped"}

StoreTypeOK ==
  /\ queue \in [Event -> QueueStatus]
  /\ sequence \in [Event -> Nat]
  /\ lastSequence \in Nat
  /\ received \subseteq Event
  /\ decision \in [Event -> Decision]
  /\ active \in [Policy -> BOOLEAN]
  /\ proposals \in Seq(Proposal)
  /\ Len(proposals) <= MaxProposals

ControlTypeOK ==
  /\ main \in MainStage
  /\ registered \subseteq Policy
  /\ worker \in WorkerStage
  /\ workerEvent \in Event \cup {NoEvent}
  /\ holder \in {Free, Worker, Caller} \cup Operator
  /\ notify \subseteq Event
  /\ crashes \in Nat /\ stops \in Nat

ApprovalTypeOK ==
  /\ operator \in [Operator -> Call]
  /\ expired \in 0..Len(proposals)
  /\ calls \in [1..MaxProposals -> Nat]

(* Every variable has the values its Python counterpart can have. *)
TypeOK ==
  /\ StoreTypeOK
  /\ ControlTypeOK
  /\ stop \in BOOLEAN /\ wake \in BOOLEAN
  /\ eval \in Evaluation
  /\ ApprovalTypeOK

(* What event_queue says of an event that only came through the queue is what *)
(* received_events and event_decisions say of it, whatever step a crash or a  *)
(* restart fell on: an id is remembered exactly while its event is waiting,   *)
(* being assessed or assessed; a failed one is forgotten (store.py:67-135).   *)
TablesAgree ==
  \A e \in Event \ DirectEvents :
    /\ e \in received <=> queue[e] \in {"queued", "processing", "completed"}
    /\ decision[e].status \in
         CASE queue[e] = "absent"     -> {"absent"}
           [] queue[e] = "queued"     -> {"queued"}
           [] queue[e] = "processing" -> {"processing", "failed", "pending", "no_action"}
           [] queue[e] = "completed"  -> {"pending", "no_action"}
           [] queue[e] = "failed"     -> {"failed"}

(* An event that was assessed to the end is not assessed again, whether it    *)
(* came through the queue, through receive_event or through both              *)
(* (store.py:76, 163-172; controller.py:112).                                 *)
AssessedOnce ==
  [][\A e \in Event :
       decision[e].status \in {"pending", "no_action"} /\ queue[e] # "processing"
         => decision'[e] = decision[e]]_vars

(* Events are picked up in acceptance order: while an event still waits, none *)
(* accepted after it has been picked up.  It needs recovery to keep the row's *)
(* sequence and a resubmission to take a new one (autonomy.md:103-116).       *)
InOrder ==
  \A e, f \in Event :
    queue[e] = "queued" /\ queue[f] \in {"processing", "completed", "failed"}
      => sequence[f] < sequence[e]

(* One event is assessed at a time: the row being processed is the worker's,  *)
(* unless a crash left it for recovery (controller.py:69-83).                 *)
OneInProcess ==
  \A e, f \in Event : queue[e] = "processing" /\ queue[f] = "processing" => e = f

(* An operator never sees two open proposals for the same action of a policy, *)
(* nor two open proposals of a policy that replaces its pending one, however  *)
(* evaluations, rejections and restarts interleave (store.py:220-261).        *)
PendingAreDistinct ==
  \A p, q \in ProposalId :
    /\ p # q
    /\ IsPending(p) /\ IsPending(q)
    /\ proposals[p].policy = proposals[q].policy
    => /\ proposals[p].action # proposals[q].action
       /\ proposals[p].policy = Generic

(* An open proposal of a policy with a state of its own stands for that state:*)
(* when the condition ends the proposal goes with it, even when a crash falls *)
(* between superseding and recording the new state (controller.py:137-140).   *)
PendingMatchesActive ==
  \A p \in ProposalId :
    IsPending(p) /\ proposals[p].policy # Generic => active[proposals[p].policy]

(* While the server is up no open proposal, and none being executed, belongs  *)
(* to a policy this deployment does not have: what an earlier deployment left *)
(* was superseded at the start (controller.py:38, 157-160).                   *)
PendingIsRegistered ==
  \A p \in ProposalId :
    /\ main # "down" /\ IsPending(p) => proposals[p].policy \in registered
    /\ \A o \in Operator : operator[o].stage = "execute" /\ operator[o].proposal = p
                              => proposals[p].policy \in registered

(* The action tool of a proposal is called at most once, and only for a       *)
(* proposal an operator approved; `executed' means it was called              *)
(* (controller.py:154-167, store.py:314-335).                                 *)
CallsMatchStatus ==
  \A p \in 1..MaxProposals :
    /\ calls[p] <= 1
    /\ calls[p] = 1 => /\ p \in ProposalId
                       /\ proposals[p].status \in {"executing", "executed", "failed"}
    /\ p \in ProposalId /\ proposals[p].status = "executed" => calls[p] = 1

(* A decided proposal stays decided: complete has no guard on the status, so  *)
(* this rests on the claim and on _event_lock (store.py:328-335).             *)
DecidedIsFinal ==
  [][\A p \in ProposalId :
       proposals[p].status \in {"executed", "failed", "rejected", "superseded"}
         => proposals'[p] = proposals[p]]_vars

(* Every accepted event is assessed to the end unless the server is stopped,  *)
(* although wake-ups, crashes and the event lock come in between              *)
(* (controller.py:46-83).                                                     *)
EventSettles ==
  \A e \in Event : queue[e] \in {"queued", "processing"}
                    ~> (queue[e] \in {"completed", "failed"} \/ main = "stopped")

(* stop() returns: the worker sees the flag wherever it is, also when it is   *)
(* about to wait (controller.py:56-61).                                       *)
StopReturns == (main = "joining") ~> (main # "joining")

(* An approval that waits for the event lock is answered, unless the process  *)
(* dies first (controller.py:150-152).                                        *)
ApprovalAnswered ==
  \A o \in Operator : (operator[o].stage # "idle") ~> (operator[o].stage = "idle")

-----------------------------------------------------------------------------
(* What the producers and the operators are promised *)

Line == INSTANCE EventLine WITH
  ticket  <- [e \in Event |-> IF queue[e] \in {"queued", "processing"} THEN sequence[e] ELSE 0],
  issued  <- lastSequence,
  outcome <- [e \in Event |-> IF queue[e] \in {"completed", "failed"} THEN queue[e] ELSE "none"]

(* The queue with its worker, wake-ups, crashes and recovery is a FIFO line   *)
(* of accepted events (store.py:67-135, controller.py:46-83).                 *)
ImplementsLine == Line!Spec

Life == INSTANCE ProposalLife WITH
  status <- [p \in ProposalId |-> proposals[p].status],
  called <- {p \in 1..MaxProposals : calls[p] > 0}

(* Proposals created by evaluations and decided by operators under two        *)
(* different locks follow the life of ProposalLife (store.py:220-360).        *)
ImplementsLife == Life!Spec

-----------------------------------------------------------------------------
(* What the documents say and the code does not do *)

(* SERVICE_OWNER_GUIDE.md:47: each event produces at most one proposed action.*)
OneProposalPerEvent ==
  \A p, q \in ProposalId : proposals[p].event = proposals[q].event => p = q
=============================================================================

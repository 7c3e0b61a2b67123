---------------------------- MODULE ProposalStore ----------------------------
(***************************************************************************)
(* The SQLite database of autonomy/store.py.  Every method of the class    *)
(* runs as one transaction under the store's lock, so every operator below *)
(* that primes a table is one atomic step; the threads that call them are  *)
(* in AutonomyController.  Timestamps, payload texts and results are left  *)
(* out: an event is its id, an action stands for a tool with its arguments *)
(* (the two columns that `create' compares).                               *)
(***************************************************************************)
EXTENDS Naturals, Sequences

CONSTANTS
  Event,         (* events, named by their event_id                          *)
  Policy,        (* policy ids that some deployment registers                *)
  Action,        (* the actions (tool and arguments) evaluations may propose *)
  MaxSequence,   (* bound: rows ever inserted into event_queue               *)
  MaxProposals   (* bound: rows ever inserted into proposals                 *)

ASSUME BoundAssumption == MaxSequence \in Nat /\ MaxProposals \in Nat

QueueStatus    == {"absent", "queued", "processing", "completed", "failed"}
DecisionStatus == {"absent", "queued", "processing", "failed", "pending", "no_action"}
ProposalStatus == {"pending", "executing", "executed", "failed", "rejected", "superseded"}
NoProposal     == 0

VARIABLES
  queue,         (* event_queue.status per event, "absent" without a row     *)
  sequence,      (* event_queue.sequence per event, 0 without a row          *)
  lastSequence,  (* the AUTOINCREMENT counter of event_queue                 *)
  received,      (* the ids in received_events                               *)
  decision,      (* event_decisions: status and proposal_id of the payload   *)
  active,        (* policy_state                                             *)
  proposals      (* the rows of proposals in the order of their created_at   *)

queueVars == <<queue, sequence, lastSequence>>
storeVars == <<queueVars, received, decision, active, proposals>>

Proposal   == [policy : Policy, action : Action, event : Event, status : ProposalStatus]
ProposalId == DOMAIN proposals
Decision   == [status : DecisionStatus, proposal : Nat]

Decided(s)        == [status |-> s, proposal |-> NoProposal]
IsPending(p)      == p \in ProposalId /\ proposals[p].status = "pending"
PendingOf(policy) == {p \in ProposalId : IsPending(p) /\ proposals[p].policy = policy}

(* proposals after UPDATE ... SET status = s for the rows in P *)
Marked(P, s) ==
  [p \in ProposalId |-> IF p \in P THEN [proposals[p] EXCEPT !.status = s] ELSE proposals[p]]

StoreInit ==
  /\ queue = [e \in Event |-> "absent"]
  /\ sequence = [e \in Event |-> 0]
  /\ lastSequence = 0
  /\ received = {}
  /\ decision = [e \in Event |-> Decided("absent")]
  /\ active = [policy \in Policy |-> FALSE]
  /\ proposals = <<>>

-----------------------------------------------------------------------------
(* Transactions on the event tables *)

(* slip: only the queue is asked, not received_events *)
IsDuplicateInQueue(e) == queue[e] \notin {"absent", "failed"}

IsDuplicate(e) == e \in received \/ queue[e] \notin {"absent", "failed"}

(* slip: a failed row is updated in place and keeps its sequence *)
EnqueueTxInPlace(e) ==
  \/ IsDuplicate(e) /\ UNCHANGED storeVars
  \/ /\ ~IsDuplicate(e)
     /\ lastSequence < MaxSequence
     /\ lastSequence' = lastSequence + 1
     /\ sequence' = [sequence EXCEPT ![e] = IF queue[e] = "failed" THEN @ ELSE lastSequence + 1]
     /\ queue' = [queue EXCEPT ![e] = "queued"]
     /\ received' = received \cup {e}
     /\ decision' = [decision EXCEPT ![e] = Decided("queued")]
     /\ UNCHANGED <<active, proposals>>

(* enqueue_event: a failed row is deleted and inserted again, at the end *)
EnqueueTx(e) ==
  \/ IsDuplicate(e) /\ UNCHANGED storeVars
  \/ /\ ~IsDuplicate(e)
     /\ lastSequence < MaxSequence
     /\ lastSequence' = lastSequence + 1
     /\ sequence' = [sequence EXCEPT ![e] = lastSequence + 1]
     /\ queue' = [queue EXCEPT ![e] = "queued"]
     /\ received' = received \cup {e}
     /\ decision' = [decision EXCEPT ![e] = Decided("queued")]
     /\ UNCHANGED <<active, proposals>>

Interrupted == {e \in Event : queue[e] = "processing"}

(* slip: an interrupted event is inserted again, behind the others *)
RecoverTxAtEnd ==
  /\ queue' = [e \in Event |-> IF e \in Interrupted THEN "queued" ELSE queue[e]]
  /\ sequence' = [e \in Event |-> IF e \in Interrupted THEN lastSequence + 1 ELSE sequence[e]]
  /\ lastSequence' = lastSequence + (IF Interrupted = {} THEN 0 ELSE 1)
  /\ decision' = [e \in Event |-> IF e \in Interrupted THEN Decided("queued") ELSE decision[e]]
  /\ UNCHANGED <<received, active, proposals>>

(* recover_events: the row keeps its sequence, so it is claimed first again *)
RecoverTx ==
  /\ queue' = [e \in Event |-> IF e \in Interrupted THEN "queued" ELSE queue[e]]
  /\ decision' = [e \in Event |-> IF e \in Interrupted THEN Decided("queued") ELSE decision[e]]
  /\ UNCHANGED <<sequence, lastSequence, received, active, proposals>>

Queued == {e \in Event : queue[e] = "queued"}

(* the row SELECT ... ORDER BY sequence LIMIT 1 returns *)
IsOldestQueued(e) == e \in Queued /\ \A f \in Queued : sequence[e] <= sequence[f]

ClaimEventTx(e) ==
  /\ IsOldestQueued(e)
  /\ queue' = [queue EXCEPT ![e] = "processing"]
  /\ decision' = [decision EXCEPT ![e] = Decided("processing")]
  /\ UNCHANGED <<sequence, lastSequence, received, active, proposals>>

(* finish_event(event) *)
CompleteEventTx(e) ==
  /\ queue' = [queue EXCEPT ![e] = "completed"]
  /\ UNCHANGED <<sequence, lastSequence, received, decision, active, proposals>>

(* slip: a failed event stays in received_events *)
FailEventTxRemembers(e) ==
  /\ queue' = [queue EXCEPT ![e] = "failed"]
  /\ decision' = [decision EXCEPT ![e] = Decided("failed")]
  /\ UNCHANGED <<sequence, lastSequence, received, active, proposals>>

(* finish_event(event, error): forgets the id, so it may be sent again *)
FailEventTx(e) ==
  /\ queue' = [queue EXCEPT ![e] = "failed"]
  /\ received' = received \ {e}
  /\ decision' = [decision EXCEPT ![e] = Decided("failed")]
  /\ UNCHANGED <<sequence, lastSequence, active, proposals>>

RecordEventTx(e) ==
  /\ e \notin received
  /\ received' = received \cup {e}
  /\ UNCHANGED <<queueVars, decision, active, proposals>>

ForgetEventTx(e) ==
  /\ received' = received \ {e}
  /\ UNCHANGED <<queueVars, decision, active, proposals>>

SaveDecisionTx(e, payload) ==
  /\ decision' = [decision EXCEPT ![e] = payload]
  /\ UNCHANGED <<queueVars, received, active, proposals>>

-----------------------------------------------------------------------------
(* Transactions on policy_state and proposals *)

SetPolicyActiveTx(policy, flag) ==
  /\ active' = [active EXCEPT ![policy] = flag]
  /\ UNCHANGED <<queueVars, received, decision, proposals>>

(* UPDATE proposals SET status = s for the rows in P *)
MarkTx(P, s) ==
  /\ proposals' = Marked(P, s)
  /\ UNCHANGED <<queueVars, received, decision, active>>

SupersedePendingTx(policy) == MarkTx(PendingOf(policy), "superseded")

(* slip: proposals of an earlier deployment are kept *)
SupersedeUnregisteredTxSkipped(registered) == UNCHANGED storeVars

SupersedeUnregisteredTx(registered) ==
  MarkTx({p \in ProposalId : IsPending(p) /\ proposals[p].policy \notin registered},
         "superseded")

(* pending rows of the policy with the same tool and arguments *)
SameAsPending(policy, action) ==
  {p \in PendingOf(policy) : proposals[p].action = action}

(* slip: replacePending is ignored *)
CreateTxKeepsPending(policy, action, e, replacePending, id) ==
  /\ UNCHANGED <<queueVars, received, decision, active>>
  /\ \/ id \in SameAsPending(policy, action) /\ UNCHANGED proposals
     \/ /\ SameAsPending(policy, action) = {}
        /\ Len(proposals) < MaxProposals
        /\ id = Len(proposals) + 1
        /\ proposals' = Append(proposals, [policy |-> policy, action |-> action,
                                          event |-> e, status |-> "pending"])

(* create: returns a matching pending row as it is, or supersedes and inserts; *)
(* id is the returned row                                                      *)
CreateTx(policy, action, e, replacePending, id) ==
  /\ UNCHANGED <<queueVars, received, decision, active>>
  /\ \/ /\ id \in SameAsPending(policy, action)
        /\ UNCHANGED proposals
     \/ /\ SameAsPending(policy, action) = {}
        /\ Len(proposals) < MaxProposals
        /\ id = Len(proposals) + 1
        /\ proposals' =
             Append(IF replacePending THEN Marked(PendingOf(policy), "superseded")
                                      ELSE proposals,
                    [policy |-> policy, action |-> action, event |-> e,
                     status |-> "pending"])

(* slip: the UPDATE has no AND status = 'pending' *)
ClaimProposalTxUnguarded(p) == p \in ProposalId /\ MarkTx({p}, "executing")
ClaimProposalTx(p) == IsPending(p) /\ MarkTx({p}, "executing")
(* slip: a status that no reader knows *)
CompleteTxMisnamed(p, succeeded) == MarkTx({p}, IF succeeded THEN "completed" ELSE "failed")
(* slip: a failed execution is offered again *)
CompleteTxReopens(p, succeeded) == MarkTx({p}, IF succeeded THEN "executed" ELSE "pending")
CompleteTx(p, succeeded) == MarkTx({p}, IF succeeded THEN "executed" ELSE "failed")
RejectTx(p) == IsPending(p) /\ MarkTx({p}, "rejected")
=============================================================================

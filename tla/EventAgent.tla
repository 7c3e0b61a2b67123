----------------------------- MODULE EventAgent -----------------------------
(***************************************************************************)
(* HermesEventAgent of autonomy/event_agent.py: the assessment of ONE      *)
(* event by rounds of a model (evaluate_event), and the execution of the   *)
(* action it proposed once an operator approves it (execute_approved).     *)
(*                                                                         *)
(* The model may answer anything.  A service answers a context read with   *)
(* its state at that moment, in a snapshot that may already be old (its    *)
(* clock), refuses the read (ValueError), fails (RuntimeError) or replies  *)
(* with a body that is not one JSON value (JSONDecodeError).  The services'*)
(* state and the age of what was read change between any two steps.        *)
(* Snapshots are abstracted to what the owner validators tell apart:       *)
(* whether the change is still wanted, and whether they are fresh (at most *)
(* 120 s old).                                                             *)
(***************************************************************************)
EXTENDS Naturals, FiniteSets, Functions

CONSTANTS
  Skill, Read, Action,   (* registered skills, read tools and action tools   *)
  Learned,        (* the operator-taught skills, which cover this event type *)
  ToolsOf,        (* the tools a skill lists                                 *)
  RequiredReads,  (* the context an action needs                             *)
  CheckedReads,   (* the part of it that its owner validator looks at        *)
  RuleTool,       (* the action that a learned skill's rule sets             *)
  RuleReads,      (* the snapshots that its conditions are about             *)
  ReadArgument,   (* arguments a model may give a read tool                  *)
  DefaultArgument,(* {}                                                      *)
  NotRead,        (* the tool is not in observations                         *)
  MaxRounds,      (* self.max_rounds                                         *)
  MaxReads,       (* calls in one answer: 4 in the code                      *)
  MaxChanges,     (* bound: changes of the services' state                   *)
  MaxAgings,      (* bound: times that snapshots become old                  *)
  MaxRefreshes    (* bound: later refreshes of the learned skills            *)

ASSUME CatalogAssumption ==
  /\ Learned \subseteq Skill
  /\ Read \cap Action = {} /\ NotRead \notin [wanted : BOOLEAN, fresh : BOOLEAN]
  /\ ToolsOf \in [Skill -> SUBSET (Read \cup Action)]
  /\ RequiredReads \in [Action -> (SUBSET Read) \ {{}}]
  /\ CheckedReads \in [Action -> SUBSET Read]
  /\ \A a \in Action : CheckedReads[a] \subseteq RequiredReads[a]
  /\ \A s \in Skill : \A a \in ToolsOf[s] \cap Action : RequiredReads[a] \subseteq ToolsOf[s]
  /\ RuleTool \in [Learned -> Action] /\ RuleReads \in [Learned -> SUBSET Read]
  /\ DefaultArgument \in ReadArgument /\ NotRead \notin ReadArgument
  /\ MaxRounds \in Nat /\ MaxReads \in Nat
  /\ MaxChanges \in Nat /\ MaxAgings \in Nat /\ MaxRefreshes \in Nat

VARIABLES
  at,            (* where evaluate_event is, or execute_approved             *)
  round,         (* rounds begun                                             *)
  repair,        (* the next prompt is a repair_prompt                       *)
  selected,      (* skills whose guidance is loaded                          *)
  observations,  (* per read tool, its snapshot or NotRead                   *)
  readArguments, (* ... and the arguments it was read with                   *)
  trace,         (* the evidence's "reads": per tool, the last one's arguments *)
  asked,         (* the calls that are still to be made                      *)
  proposed,      (* the action under assessment, then the proposal           *)
  shown,         (* history: the observations in the last full prompt        *)
  garbled,       (* history: a service's reply caused the last repair_prompt *)
  live,          (* execute_approved's own snapshots                         *)
  registered,    (* skills now in the catalog                                *)
  world,         (* per read tool, whether its service wants the change      *)
  wantedSince,   (* history: ... or did at some moment since the approval    *)
  expired,       (* the evaluation ended more than 300 s ago                 *)
  changes, agings, refreshes

agentVars    == <<round, repair, selected, observations, readArguments, trace, proposed, shown, garbled>>
externalVars == <<registered, world, wantedSince, expired, changes, agings, refreshes>>
vars == <<at, asked, live, agentVars, externalVars>>

Snapshot  == [wanted : BOOLEAN, fresh : BOOLEAN]
Snapshots == [Read -> Snapshot \cup {NotRead}]
ReadCall  == [tool : Read, arguments : ReadArgument]
(* The arguments of an action satisfy its schema, or lack what a learned   *)
(* rule may supply.  An answer wrong in any other way is AnswerRejected.   *)
Proposal  == [tool : Action, complete : BOOLEAN]
NoProposal == [tool |-> NotRead, complete |-> FALSE]

Location == {"prompt", "answer", "read", "assess", "refresh", "refreshed",
             "no_action", "error",
             "proposed", "replay", "call", "executed", "failed"}

Nothing == [r \in Read |-> NotRead]

Init ==
  /\ at = "prompt" /\ round = 0 /\ repair = FALSE
  /\ selected = Learned
  /\ observations = Nothing /\ readArguments = Nothing /\ trace = Nothing /\ asked = {}
  /\ proposed = NoProposal /\ shown = Nothing /\ garbled = FALSE /\ live = Nothing
  /\ registered = Skill
  /\ world \in [Read -> BOOLEAN]
  /\ wantedSince = [r \in Read |-> FALSE] /\ expired = FALSE
  /\ changes = 0 /\ agings = 0 /\ refreshes = 0

-----------------------------------------------------------------------------
(* The catalog's checks *)

Observed(obs) == {r \in Read : obs[r] # NotRead}

(* _allowed *)
Allowed(skills) == UNION {ToolsOf[s] : s \in skills}

(* validate_action, in the order of its checks: the schema, the context that *)
(* the action requires, and the owner validator: _fresh, then its own rules. *)
(* A discovered action has a validator that accepts everything.              *)
Verdict(p, obs) ==
  IF ~p.complete \/ ~(RequiredReads[p.tool] \subseteq Observed(obs)) THEN "rejected"
  ELSE IF \E r \in CheckedReads[p.tool] : ~obs[r].fresh THEN "stale"
  ELSE IF \E r \in CheckedReads[p.tool] : ~obs[r].wanted THEN "rejected"
  ELSE "accepted"

(* _learned_matches: the actions whose settings a loaded rule supplies *)
LearnedMatches(skills, obs) ==
  IF Observed(obs) = {} THEN {}
  ELSE {RuleTool[s] : s \in {s \in skills \cap Learned :
          \A r \in RuleReads[s] : obs[r] # NotRead /\ obs[r].wanted}}

(* _learned_action: a stale one is left to the caller to refresh *)
LearnedActions(skills, obs) ==
  {a \in LearnedMatches(skills, obs) \cap Allowed(skills) :
     Verdict([tool |-> a, complete |-> TRUE], obs) \in {"accepted", "stale"}}

(* the model's own arguments, completed where that makes the action valid *)
Merged(p) ==
  LET merged == [p EXCEPT !.complete = TRUE] IN
  IF p.tool \in LearnedMatches(selected, observations) /\ Verdict(merged, observations) = "accepted"
  THEN merged ELSE p

(* slip: only the operator-taught skills' context is insisted on *)
ContextReadOfLearned ==
  \A s \in selected \cap Learned : ToolsOf[s] \cap Observed(observations) # {}

(* "read the selected skill's MCP context before deciding, even for no action" *)
ContextRead == \A s \in selected : ToolsOf[s] \cap Observed(observations) # {}

Missing(a) == {r \in RequiredReads[a] : observations[r] = NotRead}

-----------------------------------------------------------------------------
(* evaluate_event *)

(* slip: a repair takes no round *)
PromptFreeRepair ==
  /\ at = "prompt" /\ round < MaxRounds
  /\ at' = "answer"
  /\ round' = IF repair THEN round ELSE round + 1
  /\ repair' = FALSE
  /\ shown' = IF repair THEN shown ELSE observations
  /\ garbled' = (repair /\ garbled)
  /\ UNCHANGED <<asked, live, selected, observations, readArguments, trace, proposed, externalVars>>

Prompt ==
  /\ at = "prompt" /\ round < MaxRounds
  /\ at' = "answer"
  /\ round' = round + 1
  /\ repair' = FALSE
  /\ shown' = IF repair THEN shown ELSE observations
  /\ garbled' = (repair /\ garbled)
  /\ UNCHANGED <<asked, live, selected, observations, readArguments, trace, proposed, externalVars>>

(* "Hermes event decision exceeded {self.max_rounds} rounds" *)
Exhausted ==
  /\ at = "prompt" /\ round = MaxRounds
  /\ at' = "error"
  /\ UNCHANGED <<asked, live, agentVars, externalVars>>

(* the runner or a tool listing fails: RuntimeError is not caught *)
ModelFails ==
  /\ at = "answer"
  /\ at' = "error"
  /\ UNCHANGED <<asked, live, agentVars, externalVars>>

(* the answer is not JSON, or a schema that its check asks for is not *)
AnswerMalformed ==
  /\ at = "answer"
  /\ at' = "prompt"
  /\ repair' = TRUE
  /\ UNCHANGED <<asked, live, round, selected, observations, readArguments, trace, proposed, shown, garbled, externalVars>>

(* a ValueError, TypeError or KeyError of an answer's own: feedback.  The    *)
(* skills that it named before an unknown one are loaded all the same.       *)
AnswerRejected ==
  /\ at = "answer"
  /\ at' = "prompt"
  /\ \E names \in SUBSET registered : selected' = selected \cup names
  /\ UNCHANGED <<asked, live, round, repair, observations, readArguments, trace, proposed, shown, garbled, externalVars>>

(* {"skills", "reads"} *)
AnswerReads ==
  /\ at = "answer"
  /\ \E names \in SUBSET registered, calls \in SUBSET ReadCall :
       /\ Cardinality(calls) <= MaxReads
       /\ selected' = selected \cup names
       /\ asked' = calls
  /\ at' = "read"
  /\ UNCHANGED <<live, round, repair, observations, readArguments, trace, proposed, shown, garbled, externalVars>>

(* {"summary", "action": null}; a learned rule may still make a proposal *)
AnswerNoAction ==
  /\ at = "answer"
  /\ ContextRead
  /\ \/ /\ LearnedActions(selected, observations) = {}
        /\ at' = "no_action"
        /\ UNCHANGED proposed
     \/ \E a \in LearnedActions(selected, observations) :
          /\ at' = "assess"
          /\ proposed' = [tool |-> a, complete |-> TRUE]
  /\ UNCHANGED <<asked, live, round, repair, selected, observations, readArguments, trace, shown, garbled, externalVars>>

(* {"summary", "action"}: required context that was not read is read now,    *)
(* and the action is only assessed when the model proposes it again          *)
AnswerAction ==
  /\ at = "answer"
  /\ ContextRead
  /\ \E p \in Proposal :
       /\ p.tool \in Allowed(selected)
       /\ \/ /\ Missing(p.tool) = {}
             /\ at' = "assess"
             /\ proposed' = p
             /\ UNCHANGED asked
          \/ /\ Missing(p.tool) # {}
             /\ at' = "read"
             /\ asked' = [tool : Missing(p.tool), arguments : {DefaultArgument}]
             /\ UNCHANGED proposed
  /\ UNCHANGED <<live, round, repair, selected, observations, readArguments, trace, shown, garbled, externalVars>>

(* one MCP read of a call: the service's state now, old already if its clock *)
(* is behind ours                                                            *)
ReadInto(call) ==
  /\ \E f \in BOOLEAN :
       observations' = [observations EXCEPT ![call.tool] = [wanted |-> world[call.tool], fresh |-> f]]
  /\ readArguments' = [readArguments EXCEPT ![call.tool] = call.arguments]
  /\ trace' = [trace EXCEPT ![call.tool] = call.arguments]

(* slip: a read with other arguments is recorded though it is not made *)
ReadNextRecordsAll ==
  /\ at = "read"
  /\ \E call \in asked :
       /\ call.tool \in Allowed(selected)
       /\ asked' = asked \ {call}
       /\ \/ observations[call.tool] = NotRead /\ ReadInto(call)
          \/ /\ observations[call.tool] # NotRead
             /\ trace' = [trace EXCEPT ![call.tool] = call.arguments]
             /\ UNCHANGED <<observations, readArguments>>
  /\ UNCHANGED <<at, live, round, repair, selected, proposed, shown, garbled, externalVars>>

(* the loop over the reads that were asked for, or are missing *)
ReadNext ==
  /\ at = "read"
  /\ \E call \in asked :
       /\ call.tool \in Allowed(selected)
       /\ asked' = asked \ {call}
       /\ \/ observations[call.tool] = NotRead /\ ReadInto(call)
          \/ /\ readArguments[call.tool] = call.arguments
             /\ UNCHANGED <<observations, readArguments, trace>>
  /\ UNCHANGED <<at, live, round, repair, selected, proposed, shown, garbled, externalVars>>

ReadsDone ==
  /\ at = "read" /\ asked = {}
  /\ at' = "prompt"
  /\ UNCHANGED <<asked, live, agentVars, externalVars>>

(* validate_action, after the settings that learned rules add *)
Assess ==
  /\ at = "assess"
  /\ LET p == Merged(proposed)
         verdict == Verdict(p, observations) IN
     \/ /\ verdict = "accepted"
        /\ at' = "proposed"
        /\ proposed' = p
        /\ UNCHANGED asked
     \/ /\ verdict = "rejected"
        /\ at' = "prompt"
        /\ proposed' = NoProposal
        /\ UNCHANGED asked
     \/ /\ verdict = "stale"
        /\ at' = "refresh"
        /\ asked' = {[tool |-> r, arguments |-> readArguments[r]] : r \in RequiredReads[p.tool]}
        /\ UNCHANGED proposed
  /\ UNCHANGED <<live, round, repair, selected, observations, readArguments, trace, shown, garbled, externalVars>>

(* except StaleContextError: the required context is read again ... *)
RefreshNext ==
  /\ at = "refresh"
  /\ \E call \in asked :
       /\ asked' = asked \ {call}
       /\ ReadInto(call)
  /\ UNCHANGED <<at, live, round, repair, selected, proposed, shown, garbled, externalVars>>

(* slip: what was proposed before the refresh is accepted after it *)
RefreshedAccepts ==
  /\ at = "refresh" /\ asked = {}
  /\ LET verdict == Verdict(proposed, observations) IN
     \/ verdict = "stale" /\ at' = "error" /\ proposed' = NoProposal
     \/ verdict = "rejected" /\ at' = "prompt" /\ proposed' = NoProposal
     \/ verdict = "accepted" /\ at' = "proposed" /\ UNCHANGED proposed
  /\ UNCHANGED <<asked, live, round, repair, selected, observations, readArguments, trace, shown, garbled, externalVars>>

(* ... and the model must reassess, unless a snapshot is stale when read *)
Refreshed ==
  /\ at = "refresh" /\ asked = {}
  /\ at' = IF Verdict(proposed, observations) = "stale" THEN "error" ELSE "prompt"
  /\ proposed' = NoProposal
  /\ UNCHANGED <<asked, live, round, repair, selected, observations, readArguments, trace, shown, garbled, externalVars>>

(* a call is not permitted, asks again with other arguments, or its service *)
(* refuses it: ValueError, feedback.  What was read before it stays.        *)
ReadRefused ==
  /\ at \in {"read", "refresh"} /\ asked # {}
  /\ at' = "prompt"
  /\ asked' = {}
  /\ proposed' = NoProposal
  /\ UNCHANGED <<live, round, repair, selected, observations, readArguments, trace, shown, garbled, externalVars>>

(* a service's reply is not one JSON value.  The handler takes this for the  *)
(* model's error and has the model repair an answer that was sound, without  *)
(* showing it what was read before.                                          *)
ReadGarbled ==
  /\ at \in {"read", "refresh"} /\ asked # {}
  /\ at' = "prompt"
  /\ repair' = TRUE /\ garbled' = TRUE
  /\ asked' = {}
  /\ proposed' = NoProposal
  /\ UNCHANGED <<live, round, selected, observations, readArguments, trace, shown, externalVars>>

(* the service does not answer: RuntimeError ends the evaluation *)
ReadFails ==
  /\ at \in {"read", "refresh"} /\ asked # {}
  /\ at' = "error"
  /\ asked' = {}
  /\ proposed' = NoProposal
  /\ UNCHANGED <<live, round, repair, selected, observations, readArguments, trace, shown, garbled, externalVars>>

-----------------------------------------------------------------------------
(* execute_approved *)

Approve ==
  /\ at = "proposed"
  /\ \/ /\ \/ expired
           \/ proposed.tool \notin Allowed(selected \cap registered)
           \/ \E r \in RequiredReads[proposed.tool] : trace[r] = NotRead
        /\ at' = "failed"
        /\ UNCHANGED <<asked, wantedSince>>
     \/ /\ ~expired
        /\ proposed.tool \in Allowed(selected \cap registered)
        /\ \A r \in RequiredReads[proposed.tool] : trace[r] # NotRead
        /\ at' = "replay"
        /\ asked' = {[tool |-> r, arguments |-> trace[r]] : r \in RequiredReads[proposed.tool]}
        /\ wantedSince' = world
  /\ UNCHANGED <<live, agentVars, registered, world, expired, changes, agings, refreshes>>

ReplayNext ==
  /\ at = "replay"
  /\ \E call \in asked, f \in BOOLEAN :
       /\ asked' = asked \ {call}
       /\ live' = [live EXCEPT ![call.tool] = [wanted |-> world[call.tool], fresh |-> f]]
  /\ UNCHANGED <<at, agentVars, externalVars>>

ReplayFails ==
  /\ at = "replay" /\ asked # {}
  /\ at' = "failed"
  /\ asked' = {}
  /\ UNCHANGED <<live, agentVars, externalVars>>

(* slip: the evidence is validated, not the context read for the approval *)
ReplayedOnEvidence ==
  /\ at = "replay" /\ asked = {}
  /\ at' = IF Verdict(proposed, observations) = "accepted" THEN "call" ELSE "failed"
  /\ UNCHANGED <<asked, live, agentVars, externalVars>>

Replayed ==
  /\ at = "replay" /\ asked = {}
  /\ at' = IF Verdict(proposed, live) = "accepted" THEN "call" ELSE "failed"
  /\ UNCHANGED <<asked, live, agentVars, externalVars>>

CallTool ==
  /\ at = "call"
  /\ at' \in {"executed", "failed"}
  /\ UNCHANGED <<asked, live, agentVars, externalVars>>

-----------------------------------------------------------------------------
(* What the agent does not control *)

WorldChanges(r) ==
  /\ changes < MaxChanges
  /\ changes' = changes + 1
  /\ world' = [world EXCEPT ![r] = ~@]
  /\ wantedSince' = [wantedSince EXCEPT ![r] = @ \/ world'[r]]
  /\ UNCHANGED <<at, asked, live, agentVars, registered, expired, agings, refreshes>>

(* snapshots pass the age of 120 s; each carries the time of its service *)
Aged(obs, old) == [r \in Read |-> IF r \in old THEN [obs[r] EXCEPT !.fresh = FALSE] ELSE obs[r]]

SnapshotsAge ==
  /\ agings < MaxAgings
  /\ agings' = agings + 1
  /\ \/ /\ \E old \in SUBSET Observed(observations) : observations' = Aged(observations, old)
        /\ UNCHANGED live
     \/ /\ \E old \in SUBSET Observed(live) : live' = Aged(live, old)
        /\ UNCHANGED observations
  /\ UNCHANGED <<at, asked, round, repair, selected, readArguments, trace, proposed, shown, garbled,
                 registered, world, wantedSince, expired, changes, refreshes>>

Expire ==
  /\ at = "proposed"
  /\ expired' = TRUE
  /\ UNCHANGED <<at, asked, live, agentVars, registered, world, wantedSince, changes, agings, refreshes>>

(* The worker begins another event while the proposal waits: refresh_skills *)
(* removes every learned skill, then registers those it finds one by one.   *)
UnregisterLearned ==
  /\ at = "proposed" /\ refreshes < MaxRefreshes
  /\ refreshes' = refreshes + 1
  /\ registered' = registered \ Learned
  /\ UNCHANGED <<at, asked, live, agentVars, world, wantedSince, expired, changes, agings>>

RegisterLearned(s) ==
  /\ at = "proposed"
  /\ registered' = registered \cup {s}
  /\ UNCHANGED <<at, asked, live, agentVars, world, wantedSince, expired, changes, agings, refreshes>>

-----------------------------------------------------------------------------
Assessment ==
  \/ Prompt \/ Exhausted \/ ModelFails
  \/ AnswerMalformed \/ AnswerRejected \/ AnswerReads \/ AnswerNoAction \/ AnswerAction
  \/ ReadNext \/ ReadsDone \/ Assess \/ RefreshNext \/ Refreshed \/ ReadRefused \/ ReadGarbled \/ ReadFails

Execution == ReplayNext \/ ReplayFails \/ Replayed \/ CallTool

External ==
  \/ \E r \in Read : WorldChanges(r)
  \/ SnapshotsAge \/ Expire \/ UnregisterLearned
  \/ \E s \in Learned \ registered : RegisterLearned(s)

Next == Assessment \/ Approve \/ Execution \/ External

Spec == Init /\ [][Next]_vars

(* The runner and the MCP clients have timeouts, so every call returns and  *)
(* the thread goes on; nobody need approve.                                 *)
FairSpec == Spec /\ WF_vars(Assessment) /\ WF_vars(Execution)

-----------------------------------------------------------------------------
(* Properties *)

Proposed == {"proposed", "replay", "call", "executed"}
Ended    == Proposed \cup {"no_action", "error", "failed"}

TypeOK ==
  /\ at \in Location
  /\ round \in 0..MaxRounds /\ repair \in BOOLEAN /\ garbled \in BOOLEAN
  /\ selected \subseteq Skill /\ registered \subseteq Skill
  /\ observations \in Snapshots /\ shown \in Snapshots /\ live \in Snapshots
  /\ readArguments \in [Read -> ReadArgument \cup {NotRead}]
  /\ trace \in [Read -> ReadArgument \cup {NotRead}]
  /\ asked \subseteq ReadCall
  /\ proposed \in Proposal \cup {NoProposal}
  /\ world \in [Read -> BOOLEAN] /\ wantedSince \in [Read -> BOOLEAN]
  /\ expired \in BOOLEAN
  /\ changes \in 0..MaxChanges /\ agings \in 0..MaxAgings /\ refreshes \in 0..MaxRefreshes

(* A proposal rests on what the model was shown: every context it requires   *)
(* was in the last prompt, and says now what it said then.  An action that   *)
(* was answered before its context was read, or whose context was refreshed  *)
(* since, is not accepted before the model has seen the new context; only    *)
(* the repair that a service's garbled reply causes evades this.             *)
RestsOnWhatWasShown ==
  at \in Proposed /\ ~garbled =>
    \A r \in RequiredReads[proposed.tool] :
      shown[r] # NotRead /\ observations[r].wanted = shown[r].wanted

(* "No action" is not concluded blindly either: the last prompt showed       *)
(* context of every skill that had been loaded, with the same exception.     *)
NoActionIsInformed ==
  at = "no_action" /\ ~garbled => \A s \in selected : \E r \in ToolsOf[s] \cap Read : shown[r] # NotRead

(* The approval can ask again exactly what the proposal rests on: the reads  *)
(* recorded in the evidence name every required context, with the arguments  *)
(* that its snapshot in the evidence was read with.                          *)
ReplayAsksTheSame ==
  at \in Proposed =>
    \A r \in RequiredReads[proposed.tool] : trace[r] # NotRead /\ trace[r] = readArguments[r]

(* The tool is called only for a change that its service wanted at some      *)
(* moment after the approval, however long the proposal had waited and       *)
(* whatever changed meanwhile.                                               *)
CalledOnlyIfWanted ==
  at \in {"call", "executed"} => \A r \in CheckedReads[proposed.tool] : wantedSince[r]

(* Every evaluation ends: with a proposal, without an action or in an error. *)
(* Whatever the model answers, and however often the context gets stale.     *)
EvaluationEnds == <>(at \in Ended)
=============================================================================

-------------------------- MODULE EventAgentProofs --------------------------
(***************************************************************************)
(* What an assessment by HermesEventAgent guarantees for any catalog, any  *)
(* number of rounds and of changes around it.  The invariant says where    *)
(* the model's view is still current (Shown), that evidence and snapshots  *)
(* are recorded together (Recorded), what the proposal in hand rests on    *)
(* (InHand), and what the approval has read again (Live).                  *)
(***************************************************************************)
EXTENDS EventAgent, TLAPS

Approved == {"replay", "call", "executed"}

(* the model's view of the store is the current one ... *)
SameContext ==
  \A r \in Read :
    /\ shown[r] = NotRead <=> observations[r] = NotRead
    /\ shown[r] # NotRead => shown[r].wanted = observations[r].wanted

(* ... except after a garbled reply *)
Shown ==
  /\ repair => at \in {"prompt", "error"}
  /\ ~garbled /\ (repair \/ at \in {"answer", "assess", "no_action"} \cup Proposed) => SameContext
  /\ at = "no_action" => ContextRead

Recorded ==
  /\ trace = readArguments
  /\ \A r \in Read : readArguments[r] = NotRead <=> observations[r] = NotRead

InHand ==
  at \in {"assess", "refresh"} \cup Proposed =>
    /\ proposed \in Proposal
    /\ \A r \in RequiredReads[proposed.tool] : observations[r] # NotRead

Live ==
  /\ at \in Approved \cup {"failed"} \/ live = Nothing
  /\ at \in Approved =>
       \A r \in Read : world[r] \/ (live[r] # NotRead /\ live[r].wanted) => wantedSince[r]
  /\ at \in {"call", "executed"} =>
       \A r \in CheckedReads[proposed.tool] : live[r] # NotRead /\ live[r].wanted

AgentInv == TypeOK /\ Shown /\ Recorded /\ InHand /\ Live

(* A snapshot is not the mark of a tool that was not read. *)
LEMMA SnapshotsDiffer == \A x \in Snapshot : x # NotRead
BY CatalogAssumption DEF Snapshot

(* A read stores a snapshot and its arguments, and nothing of other tools. *)
LEMMA ReadIntoEffect ==
  ASSUME TypeOK, Recorded, NEW call \in ReadCall, ReadInto(call)
  PROVE  /\ observations' \in Snapshots
         /\ readArguments' \in [Read -> ReadArgument \cup {NotRead}]
         /\ trace' \in [Read -> ReadArgument \cup {NotRead}]
         /\ Recorded'
         /\ \A r \in Read : observations[r] # NotRead => observations'[r] # NotRead
<1>1. call.tool \in Read /\ call.arguments \in ReadArgument /\ call.arguments # NotRead
  BY CatalogAssumption DEF ReadCall
<1>2. PICK f \in BOOLEAN :
        observations' = [observations EXCEPT ![call.tool] = [wanted |-> world[call.tool], fresh |-> f]]
  BY DEF ReadInto
<1> DEFINE x == [wanted |-> world[call.tool], fresh |-> f]
<1>3. x \in Snapshot /\ x # NotRead
  BY <1>1, SnapshotsDiffer DEF TypeOK, Snapshot
<1>4. observations' = [observations EXCEPT ![call.tool] = x]
  BY <1>2
<1> HIDE DEF x
<1>5. observations' \in Snapshots
  BY <1>1, <1>3, <1>4 DEF TypeOK, Snapshots
<1>6. /\ readArguments' = [readArguments EXCEPT ![call.tool] = call.arguments]
      /\ trace' = [trace EXCEPT ![call.tool] = call.arguments]
  BY DEF ReadInto
<1>7. \A r \in Read : observations'[r] = NotRead <=> (r # call.tool /\ observations[r] = NotRead)
  BY <1>1, <1>3, <1>4 DEF TypeOK, Snapshots
<1>8. \A r \in Read : readArguments'[r] = NotRead <=> (r # call.tool /\ readArguments[r] = NotRead)
  BY <1>1, <1>6 DEF TypeOK
<1>9. Recorded'
  BY <1>6, <1>7, <1>8 DEF Recorded
<1>10. /\ readArguments' \in [Read -> ReadArgument \cup {NotRead}]
       /\ trace' \in [Read -> ReadArgument \cup {NotRead}]
  BY <1>1, <1>6 DEF TypeOK
<1>11. QED
  BY <1>5, <1>7, <1>9, <1>10

(* Ageing changes no snapshot but for its freshness. *)
LEMMA AgedEffect ==
  ASSUME NEW obs \in Snapshots, NEW old \in SUBSET Observed(obs)
  PROVE  /\ Aged(obs, old) \in Snapshots
         /\ \A r \in Read : /\ Aged(obs, old)[r] = NotRead <=> obs[r] = NotRead
                            /\ obs[r] # NotRead => Aged(obs, old)[r].wanted = obs[r].wanted
         /\ obs = Nothing => Aged(obs, old) = Nothing
<1>1. ASSUME NEW r \in Read, r \in old
      PROVE  /\ [obs[r] EXCEPT !.fresh = FALSE] \in Snapshot
             /\ [obs[r] EXCEPT !.fresh = FALSE].wanted = obs[r].wanted
             /\ obs[r] # NotRead
  BY <1>1 DEF Observed, Snapshots, Snapshot
<1>2. Aged(obs, old) \in Snapshots
  BY <1>1 DEF Aged, Snapshots
<1>3. ASSUME NEW r \in Read
      PROVE  /\ Aged(obs, old)[r] = NotRead <=> obs[r] = NotRead
             /\ obs[r] # NotRead => Aged(obs, old)[r].wanted = obs[r].wanted
  <2>1. CASE r \in old
    <3>1. Aged(obs, old)[r] = [obs[r] EXCEPT !.fresh = FALSE]
      BY <2>1 DEF Aged
    <3>2. QED
      BY <1>1, <2>1, <3>1, SnapshotsDiffer
  <2>2. CASE r \notin old
    BY <2>2 DEF Aged
  <2>3. QED BY <2>1, <2>2
<1>4. obs = Nothing => old = {}
  BY DEF Observed, Nothing
<1>5. obs = Nothing => Aged(obs, old) = Nothing
  BY <1>4 DEF Aged, Nothing
<1>6. QED BY <1>2, <1>3, <1>5

(* What validate_action has found when it does not reject. *)
LEMMA VerdictMeans ==
  ASSUME NEW p \in Proposal, NEW obs \in Snapshots
  PROVE  /\ Verdict(p, obs) \in {"accepted", "rejected", "stale"}
         /\ Verdict(p, obs) # "rejected" =>
              p.complete /\ \A r \in RequiredReads[p.tool] : r \in Read /\ obs[r] # NotRead
         /\ Verdict(p, obs) = "accepted" =>
              \A r \in CheckedReads[p.tool] : r \in Read /\ obs[r] # NotRead /\ obs[r].wanted
<1>1. p.tool \in Action /\ CheckedReads[p.tool] \subseteq RequiredReads[p.tool]
  BY CatalogAssumption DEF Proposal
<1>2. Verdict(p, obs) # "rejected" => p.complete /\ RequiredReads[p.tool] \subseteq Observed(obs)
  BY DEF Verdict
<1>3. Verdict(p, obs) = "accepted" => \A r \in CheckedReads[p.tool] : obs[r].wanted
  BY DEF Verdict
<1>4. Verdict(p, obs) \in {"accepted", "rejected", "stale"}
  BY DEF Verdict
<1>5. QED
  BY <1>1, <1>2, <1>3, <1>4 DEF Observed

(* Merging the learned settings changes the arguments, not the tool. *)
LEMMA MergedProposal ==
  ASSUME NEW p \in Proposal
  PROVE  Merged(p) \in Proposal /\ Merged(p).tool = p.tool
BY DEF Merged, Proposal

(* A learned rule proposes an action whose context was read. *)
LEMMA LearnedActionsRead ==
  ASSUME TypeOK, NEW a \in LearnedActions(selected, observations)
  PROVE  /\ a \in Action
         /\ \A r \in RequiredReads[a] : r \in Read /\ observations[r] # NotRead
<1>1. a \in Action
  BY CatalogAssumption DEF LearnedActions, LearnedMatches
<1> DEFINE p == [tool |-> a, complete |-> TRUE]
<1>2. p \in Proposal /\ p.tool = a
  BY <1>1 DEF Proposal
<1>3. Verdict(p, observations) # "rejected"
  BY DEF LearnedActions
<1>4. QED
  BY <1>1, <1>2, <1>3, VerdictMeans DEF TypeOK

(* every step keeps the types *)
LEMMA TypeKept == AgentInv /\ [Next]_vars => TypeOK'
<1> SUFFICES ASSUME AgentInv, [Next]_vars PROVE TypeOK'
  OBVIOUS
<1>1. ASSUME Prompt PROVE TypeOK'
  <2>1. round' \in 0..MaxRounds
    BY <1>1, CatalogAssumption DEF AgentInv, TypeOK, Prompt
  <2>2. shown' \in Snapshots
    BY <1>1 DEF AgentInv, TypeOK, Prompt
  <2>3. QED
    BY <1>1, <2>1, <2>2 DEF AgentInv, TypeOK, Prompt, Location, externalVars
<1>2. ASSUME Exhausted PROVE TypeOK'
  BY <1>2 DEF AgentInv, TypeOK, Location, Exhausted, agentVars, externalVars
<1>3. ASSUME ModelFails PROVE TypeOK'
  BY <1>3 DEF AgentInv, TypeOK, Location, ModelFails, agentVars, externalVars
<1>4. ASSUME AnswerMalformed PROVE TypeOK'
  BY <1>4 DEF AgentInv, TypeOK, Location, AnswerMalformed, externalVars
<1>5. ASSUME AnswerRejected PROVE TypeOK'
  BY <1>5 DEF AgentInv, TypeOK, Location, AnswerRejected, externalVars
<1>6. ASSUME AnswerReads PROVE TypeOK'
  BY <1>6 DEF AgentInv, TypeOK, Location, AnswerReads, externalVars
<1>7. ASSUME AnswerNoAction PROVE TypeOK'
  <2>1. proposed' \in Proposal \cup {NoProposal}
    <3>1. CASE UNCHANGED proposed
      BY <3>1 DEF AgentInv, TypeOK
    <3>2. CASE \E a \in LearnedActions(selected, observations) :
                 proposed' = [tool |-> a, complete |-> TRUE]
      BY <3>2, LearnedActionsRead DEF AgentInv, Proposal
    <3>3. QED BY <1>7, <3>1, <3>2 DEF AnswerNoAction
  <2>2. at' \in Location
    BY <1>7 DEF AnswerNoAction, Location
  <2>3. QED
    BY <1>7, <2>1, <2>2 DEF AgentInv, TypeOK, AnswerNoAction, externalVars
<1>8. ASSUME AnswerAction PROVE TypeOK'
  <2>1. PICK p \in Proposal :
          \/ at' = "assess" /\ proposed' = p /\ UNCHANGED asked
          \/ /\ at' = "read" /\ asked' = [tool : Missing(p.tool), arguments : {DefaultArgument}]
             /\ UNCHANGED proposed
    BY <1>8 DEF AnswerAction
  <2>2. Missing(p.tool) \subseteq Read
    BY CatalogAssumption DEF Missing, Proposal
  <2>3. asked' \subseteq ReadCall
    <3>1. CASE UNCHANGED asked
      BY <3>1 DEF AgentInv, TypeOK
    <3>2. CASE asked' = [tool : Missing(p.tool), arguments : {DefaultArgument}]
      <4>1. DefaultArgument \in ReadArgument
        BY CatalogAssumption
      <4>2. QED
        BY <2>2, <3>2, <4>1 DEF ReadCall
    <3>3. QED BY <2>1, <3>1, <3>2
  <2>4. at' \in Location /\ proposed' \in Proposal \cup {NoProposal}
    BY <2>1 DEF AgentInv, TypeOK, Location
  <2>5. QED
    BY <1>8, <2>3, <2>4 DEF AgentInv, TypeOK, AnswerAction, externalVars
<1>9. ASSUME ReadNext PROVE TypeOK'
  <2>1. PICK call \in asked :
          /\ asked' = asked \ {call}
          /\ \/ ReadInto(call)
             \/ UNCHANGED <<observations, readArguments, trace>>
    BY <1>9 DEF ReadNext
  <2>2. call \in ReadCall
    BY DEF AgentInv, TypeOK
  <2>3. CASE ReadInto(call)
    BY <1>9, <2>1, <2>2, <2>3, ReadIntoEffect DEF AgentInv, TypeOK, ReadNext, externalVars
  <2>4. CASE UNCHANGED <<observations, readArguments, trace>>
    BY <1>9, <2>1, <2>4 DEF AgentInv, TypeOK, ReadNext, externalVars
  <2>5. QED BY <2>1, <2>3, <2>4
<1>10. ASSUME ReadsDone PROVE TypeOK'
  BY <1>10 DEF AgentInv, TypeOK, Location, ReadsDone, agentVars, externalVars
<1>11. ASSUME Assess PROVE TypeOK'
  <2>1. proposed \in Proposal /\ \A r \in RequiredReads[proposed.tool] : observations[r] # NotRead
    BY <1>11 DEF AgentInv, InHand, Assess
  <2> DEFINE p == Merged(proposed)
  <2>2. p \in Proposal /\ p.tool = proposed.tool
    BY <2>1, MergedProposal
  <2>3. RequiredReads[p.tool] \subseteq Read
    BY <2>2, CatalogAssumption DEF Proposal
  <2>4. \A r \in RequiredReads[p.tool] : [tool |-> r, arguments |-> readArguments[r]] \in ReadCall
    BY <2>1, <2>2, <2>3 DEF AgentInv, TypeOK, Recorded, ReadCall
  <2>5. /\ at' \in {"proposed", "prompt", "refresh"}
        /\ proposed' \in {p, NoProposal, proposed}
        /\ \/ asked' = asked
           \/ asked' = {[tool |-> r, arguments |-> readArguments[r]] : r \in RequiredReads[p.tool]}
    BY <1>11 DEF Assess
  <2>6. asked' \subseteq ReadCall
    BY <2>4, <2>5 DEF AgentInv, TypeOK
  <2>7. proposed' \in Proposal \cup {NoProposal} /\ at' \in Location
    BY <2>1, <2>2, <2>5 DEF Location
  <2> HIDE DEF p
  <2>8. QED
    BY <1>11, <2>6, <2>7 DEF AgentInv, TypeOK, Assess, externalVars
<1>12. ASSUME RefreshNext PROVE TypeOK'
  <2>1. PICK call \in asked : asked' = asked \ {call} /\ ReadInto(call)
    BY <1>12 DEF RefreshNext
  <2>2. call \in ReadCall
    BY DEF AgentInv, TypeOK
  <2>3. QED
    BY <1>12, <2>1, <2>2, ReadIntoEffect DEF AgentInv, TypeOK, RefreshNext, externalVars
<1>13. ASSUME Refreshed PROVE TypeOK'
  BY <1>13 DEF AgentInv, TypeOK, Location, Refreshed, externalVars
<1>14. ASSUME ReadRefused PROVE TypeOK'
  BY <1>14 DEF AgentInv, TypeOK, Location, ReadRefused, externalVars
<1>15. ASSUME ReadGarbled PROVE TypeOK'
  BY <1>15 DEF AgentInv, TypeOK, Location, ReadGarbled, externalVars
<1>16. ASSUME ReadFails PROVE TypeOK'
  BY <1>16 DEF AgentInv, TypeOK, Location, ReadFails, externalVars
<1>17. ASSUME Approve PROVE TypeOK'
  <2>1. proposed \in Proposal
    BY <1>17 DEF AgentInv, InHand, Approve, Proposed
  <2>2. RequiredReads[proposed.tool] \subseteq Read
    BY <2>1, CatalogAssumption DEF Proposal
  <2>3. CASE at' = "failed" /\ UNCHANGED <<asked, wantedSince>>
    BY <1>17, <2>3 DEF AgentInv, TypeOK, Approve, agentVars, Location
  <2>4. CASE /\ \A r \in RequiredReads[proposed.tool] : trace[r] # NotRead
             /\ at' = "replay"
             /\ asked' = {[tool |-> r, arguments |-> trace[r]] : r \in RequiredReads[proposed.tool]}
             /\ wantedSince' = world
    <3>1. asked' \subseteq ReadCall
      BY <2>2, <2>4 DEF AgentInv, TypeOK, ReadCall
    <3>2. QED
      BY <1>17, <2>4, <3>1 DEF AgentInv, TypeOK, Approve, agentVars, Location
  <2>5. QED BY <1>17, <2>3, <2>4 DEF Approve
<1>18. ASSUME ReplayNext PROVE TypeOK'
  <2>1. PICK call \in asked, f \in BOOLEAN :
          /\ asked' = asked \ {call}
          /\ live' = [live EXCEPT ![call.tool] = [wanted |-> world[call.tool], fresh |-> f]]
    BY <1>18 DEF ReplayNext
  <2>2. call.tool \in Read
    BY DEF AgentInv, TypeOK, ReadCall
  <2>3. [wanted |-> world[call.tool], fresh |-> f] \in Snapshot
    BY <2>2 DEF AgentInv, TypeOK, Snapshot
  <2>4. live' \in Snapshots
    BY <2>1, <2>2, <2>3 DEF AgentInv, TypeOK, Snapshots
  <2>5. QED
    BY <1>18, <2>1, <2>4 DEF AgentInv, TypeOK, ReplayNext, agentVars, externalVars
<1>19. ASSUME ReplayFails PROVE TypeOK'
  BY <1>19 DEF AgentInv, TypeOK, Location, ReplayFails, agentVars, externalVars
<1>20. ASSUME Replayed PROVE TypeOK'
  BY <1>20 DEF AgentInv, TypeOK, Location, Replayed, agentVars, externalVars
<1>21. ASSUME CallTool PROVE TypeOK'
  BY <1>21 DEF AgentInv, TypeOK, Location, CallTool, agentVars, externalVars
<1>22. ASSUME NEW r \in Read, WorldChanges(r) PROVE TypeOK'
  <2>1. changes' \in 0..MaxChanges
    BY <1>22, CatalogAssumption DEF AgentInv, TypeOK, WorldChanges
  <2>2. world' \in [Read -> BOOLEAN] /\ wantedSince' \in [Read -> BOOLEAN]
    BY <1>22 DEF AgentInv, TypeOK, WorldChanges
  <2>3. QED
    BY <1>22, <2>1, <2>2 DEF AgentInv, TypeOK, WorldChanges, agentVars
<1>23. ASSUME SnapshotsAge PROVE TypeOK'
  <2>0. agings' \in 0..MaxAgings
    BY <1>23, CatalogAssumption DEF AgentInv, TypeOK, SnapshotsAge
  <2>1. CASE /\ \E old \in SUBSET Observed(observations) : observations' = Aged(observations, old)
             /\ UNCHANGED live
    <3>1. PICK old \in SUBSET Observed(observations) : observations' = Aged(observations, old)
      BY <2>1
    <3>2. QED
      BY <1>23, <2>0, <2>1, <3>1, AgedEffect DEF AgentInv, SnapshotsAge, TypeOK
  <2>2. CASE /\ \E old \in SUBSET Observed(live) : live' = Aged(live, old)
             /\ UNCHANGED observations
    <3>1. PICK old \in SUBSET Observed(live) : live' = Aged(live, old)
      BY <2>2
    <3>2. QED
      BY <1>23, <2>0, <2>2, <3>1, AgedEffect DEF AgentInv, SnapshotsAge, TypeOK
  <2>3. QED BY <1>23, <2>1, <2>2 DEF SnapshotsAge
<1>24. ASSUME Expire PROVE TypeOK'
  BY <1>24 DEF AgentInv, TypeOK, Location, Expire, agentVars
<1>25. ASSUME UnregisterLearned PROVE TypeOK'
  <2>1. refreshes' \in 0..MaxRefreshes
    BY <1>25, CatalogAssumption DEF AgentInv, TypeOK, UnregisterLearned
  <2>2. QED
    BY <1>25, <2>1 DEF AgentInv, TypeOK, UnregisterLearned, agentVars
<1>26. ASSUME NEW s \in Learned, RegisterLearned(s) PROVE TypeOK'
  <2>1. Learned \subseteq Skill
    BY CatalogAssumption
  <2>2. QED
    BY <1>26, <2>1 DEF AgentInv, TypeOK, RegisterLearned, agentVars
<1>27. ASSUME UNCHANGED vars PROVE TypeOK'
  BY <1>27 DEF AgentInv, TypeOK, Location, vars, agentVars, externalVars
<1>28. QED
  BY <1>1, <1>2, <1>3, <1>4, <1>5, <1>6, <1>7, <1>8, <1>9, <1>10, <1>11, <1>12, <1>13,
     <1>14, <1>15, <1>16, <1>17, <1>18, <1>19, <1>20, <1>21, <1>22, <1>23, <1>24, <1>25, <1>26,
     <1>27
  DEF Next, Assessment, Execution, External

(* the model's view *)
LEMMA ShownKept == AgentInv /\ [Next]_vars => Shown'
<1> SUFFICES ASSUME AgentInv, [Next]_vars PROVE Shown'
  OBVIOUS
<1>1. ASSUME Prompt PROVE Shown'
  BY <1>1 DEF AgentInv, Shown, SameContext, Proposed, ContextRead, Prompt, externalVars
<1>2. ASSUME Exhausted PROVE Shown'
  BY <1>2 DEF AgentInv, Exhausted, Shown, SameContext, ContextRead, Proposed, agentVars
<1>3. ASSUME ModelFails PROVE Shown'
  BY <1>3 DEF AgentInv, Shown, SameContext, Proposed, ContextRead, ModelFails, agentVars, externalVars
<1>4. ASSUME AnswerMalformed PROVE Shown'
  BY <1>4 DEF AgentInv, Shown, SameContext, Proposed, ContextRead, AnswerMalformed, externalVars
<1>5. ASSUME AnswerRejected PROVE Shown'
  BY <1>5 DEF AgentInv, Shown, SameContext, Proposed, ContextRead, AnswerRejected, externalVars
<1>6. ASSUME AnswerReads PROVE Shown'
  BY <1>6 DEF AgentInv, Shown, SameContext, Proposed, ContextRead, AnswerReads, externalVars
<1>7. ASSUME AnswerNoAction PROVE Shown'
  BY <1>7 DEF AgentInv, Shown, SameContext, Proposed, ContextRead, AnswerNoAction, externalVars
<1>8. ASSUME AnswerAction PROVE Shown'
  BY <1>8 DEF AgentInv, Shown, SameContext, Proposed, ContextRead, AnswerAction, externalVars
<1>9. ASSUME ReadNext PROVE Shown'
  BY <1>9 DEF AgentInv, Shown, SameContext, Proposed, ContextRead, ReadNext, externalVars
<1>10. ASSUME ReadsDone PROVE Shown'
  BY <1>10 DEF AgentInv, Shown, SameContext, Proposed, ContextRead, ReadsDone, agentVars, externalVars
<1>11. ASSUME Assess PROVE Shown'
  BY <1>11 DEF AgentInv, Shown, SameContext, Proposed, ContextRead, Assess, externalVars
<1>12. ASSUME RefreshNext PROVE Shown'
  BY <1>12 DEF AgentInv, Shown, SameContext, Proposed, ContextRead, RefreshNext, externalVars
<1>13. ASSUME Refreshed PROVE Shown'
  BY <1>13 DEF AgentInv, Shown, SameContext, Proposed, ContextRead, Refreshed, externalVars
<1>14. ASSUME ReadRefused PROVE Shown'
  BY <1>14 DEF AgentInv, Shown, SameContext, Proposed, ContextRead, ReadRefused, externalVars
<1>15. ASSUME ReadGarbled PROVE Shown'
  BY <1>15 DEF AgentInv, Shown, SameContext, Proposed, ContextRead, ReadGarbled, externalVars
<1>16. ASSUME ReadFails PROVE Shown'
  BY <1>16 DEF AgentInv, Shown, SameContext, Proposed, ContextRead, ReadFails, externalVars
<1>17. ASSUME Approve PROVE Shown'
  BY <1>17 DEF AgentInv, Shown, SameContext, Proposed, ContextRead, Approve, agentVars
<1>18. ASSUME ReplayNext PROVE Shown'
  BY <1>18 DEF AgentInv, Shown, SameContext, Proposed, ContextRead, ReplayNext, agentVars, externalVars
<1>19. ASSUME ReplayFails PROVE Shown'
  BY <1>19 DEF AgentInv, Shown, SameContext, Proposed, ContextRead, ReplayFails, agentVars, externalVars
<1>20. ASSUME Replayed PROVE Shown'
  BY <1>20 DEF AgentInv, Shown, SameContext, Proposed, ContextRead, Replayed, agentVars, externalVars
<1>21. ASSUME CallTool PROVE Shown'
  BY <1>21 DEF AgentInv, Shown, SameContext, Proposed, ContextRead, CallTool, agentVars, externalVars
<1>22. ASSUME NEW r \in Read, WorldChanges(r) PROVE Shown'
  BY <1>22 DEF AgentInv, Shown, SameContext, Proposed, ContextRead, WorldChanges, agentVars
<1>23. ASSUME SnapshotsAge PROVE Shown'
  <2>1. CASE /\ \E old \in SUBSET Observed(observations) : observations' = Aged(observations, old)
             /\ UNCHANGED live
    <3>1. PICK old \in SUBSET Observed(observations) : observations' = Aged(observations, old)
      BY <2>1
    <3>2. QED
      BY <1>23, <2>1, <3>1, AgedEffect DEF AgentInv, SnapshotsAge, TypeOK, Shown, SameContext, ContextRead, Observed
  <2>2. CASE /\ \E old \in SUBSET Observed(live) : live' = Aged(live, old)
             /\ UNCHANGED observations
    <3>1. PICK old \in SUBSET Observed(live) : live' = Aged(live, old)
      BY <2>2
    <3>2. QED
      BY <1>23, <2>2, <3>1, AgedEffect DEF AgentInv, SnapshotsAge, TypeOK, Shown, SameContext, ContextRead, Observed
  <2>3. QED BY <1>23, <2>1, <2>2 DEF SnapshotsAge
<1>24. ASSUME Expire PROVE Shown'
  BY <1>24 DEF AgentInv, Shown, SameContext, Proposed, ContextRead, Expire, agentVars
<1>25. ASSUME UnregisterLearned PROVE Shown'
  BY <1>25 DEF AgentInv, Shown, SameContext, Proposed, ContextRead, UnregisterLearned, agentVars
<1>26. ASSUME NEW s \in Learned, RegisterLearned(s) PROVE Shown'
  BY <1>26 DEF AgentInv, Shown, SameContext, Proposed, ContextRead, RegisterLearned, agentVars
<1>27. ASSUME UNCHANGED vars PROVE Shown'
  BY <1>27 DEF AgentInv, Shown, SameContext, Proposed, ContextRead, vars, agentVars, externalVars
<1>28. QED
  BY <1>1, <1>2, <1>3, <1>4, <1>5, <1>6, <1>7, <1>8, <1>9, <1>10, <1>11, <1>12, <1>13,
     <1>14, <1>15, <1>16, <1>17, <1>18, <1>19, <1>20, <1>21, <1>22, <1>23, <1>24, <1>25, <1>26,
     <1>27
  DEF Next, Assessment, Execution, External

(* evidence and snapshots *)
LEMMA RecordedKept == AgentInv /\ [Next]_vars => Recorded'
<1> SUFFICES ASSUME AgentInv, [Next]_vars PROVE Recorded'
  OBVIOUS
<1>1. ASSUME Prompt PROVE Recorded'
  BY <1>1 DEF AgentInv, Recorded, Prompt, externalVars
<1>2. ASSUME Exhausted PROVE Recorded'
  BY <1>2 DEF AgentInv, Recorded, Exhausted, agentVars, externalVars
<1>3. ASSUME ModelFails PROVE Recorded'
  BY <1>3 DEF AgentInv, Recorded, ModelFails, agentVars, externalVars
<1>4. ASSUME AnswerMalformed PROVE Recorded'
  BY <1>4 DEF AgentInv, Recorded, AnswerMalformed, externalVars
<1>5. ASSUME AnswerRejected PROVE Recorded'
  BY <1>5 DEF AgentInv, Recorded, AnswerRejected, externalVars
<1>6. ASSUME AnswerReads PROVE Recorded'
  BY <1>6 DEF AgentInv, Recorded, AnswerReads, externalVars
<1>7. ASSUME AnswerNoAction PROVE Recorded'
  BY <1>7 DEF AgentInv, Recorded, AnswerNoAction, externalVars
<1>8. ASSUME AnswerAction PROVE Recorded'
  BY <1>8 DEF AgentInv, Recorded, AnswerAction, externalVars
<1>9. ASSUME ReadNext PROVE Recorded'
  <2>1. PICK call \in asked :
          /\ asked' = asked \ {call}
          /\ \/ ReadInto(call)
             \/ UNCHANGED <<observations, readArguments, trace>>
    BY <1>9 DEF ReadNext
  <2>2. call \in ReadCall
    BY DEF AgentInv, TypeOK
  <2>3. QED
    BY <2>1, <2>2, ReadIntoEffect DEF AgentInv, Recorded
<1>10. ASSUME ReadsDone PROVE Recorded'
  BY <1>10 DEF AgentInv, Recorded, ReadsDone, agentVars, externalVars
<1>11. ASSUME Assess PROVE Recorded'
  BY <1>11 DEF AgentInv, Recorded, Assess, externalVars
<1>12. ASSUME RefreshNext PROVE Recorded'
  <2>1. PICK call \in asked : asked' = asked \ {call} /\ ReadInto(call)
    BY <1>12 DEF RefreshNext
  <2>2. call \in ReadCall
    BY DEF AgentInv, TypeOK
  <2>3. QED
    BY <2>1, <2>2, ReadIntoEffect DEF AgentInv
<1>13. ASSUME Refreshed PROVE Recorded'
  BY <1>13 DEF AgentInv, Recorded, Refreshed, externalVars
<1>14. ASSUME ReadRefused PROVE Recorded'
  BY <1>14 DEF AgentInv, Recorded, ReadRefused, externalVars
<1>15. ASSUME ReadGarbled PROVE Recorded'
  BY <1>15 DEF AgentInv, Recorded, ReadGarbled, externalVars
<1>16. ASSUME ReadFails PROVE Recorded'
  BY <1>16 DEF AgentInv, Recorded, ReadFails, externalVars
<1>17. ASSUME Approve PROVE Recorded'
  BY <1>17 DEF AgentInv, Recorded, Approve, agentVars
<1>18. ASSUME ReplayNext PROVE Recorded'
  BY <1>18 DEF AgentInv, Recorded, ReplayNext, agentVars, externalVars
<1>19. ASSUME ReplayFails PROVE Recorded'
  BY <1>19 DEF AgentInv, Recorded, ReplayFails, agentVars, externalVars
<1>20. ASSUME Replayed PROVE Recorded'
  BY <1>20 DEF AgentInv, Recorded, Replayed, agentVars, externalVars
<1>21. ASSUME CallTool PROVE Recorded'
  BY <1>21 DEF AgentInv, Recorded, CallTool, agentVars, externalVars
<1>22. ASSUME NEW r \in Read, WorldChanges(r) PROVE Recorded'
  BY <1>22 DEF AgentInv, Recorded, WorldChanges, agentVars
<1>23. ASSUME SnapshotsAge PROVE Recorded'
  <2>1. CASE /\ \E old \in SUBSET Observed(observations) : observations' = Aged(observations, old)
             /\ UNCHANGED live
    <3>1. PICK old \in SUBSET Observed(observations) : observations' = Aged(observations, old)
      BY <2>1
    <3>2. QED
      BY <1>23, <2>1, <3>1, AgedEffect DEF AgentInv, SnapshotsAge, TypeOK, Recorded
  <2>2. CASE /\ \E old \in SUBSET Observed(live) : live' = Aged(live, old)
             /\ UNCHANGED observations
    <3>1. PICK old \in SUBSET Observed(live) : live' = Aged(live, old)
      BY <2>2
    <3>2. QED
      BY <1>23, <2>2, <3>1, AgedEffect DEF AgentInv, SnapshotsAge, TypeOK, Recorded
  <2>3. QED BY <1>23, <2>1, <2>2 DEF SnapshotsAge
<1>24. ASSUME Expire PROVE Recorded'
  BY <1>24 DEF AgentInv, Recorded, Expire, agentVars
<1>25. ASSUME UnregisterLearned PROVE Recorded'
  BY <1>25 DEF AgentInv, Recorded, UnregisterLearned, agentVars
<1>26. ASSUME NEW s \in Learned, RegisterLearned(s) PROVE Recorded'
  BY <1>26 DEF AgentInv, Recorded, RegisterLearned, agentVars
<1>27. ASSUME UNCHANGED vars PROVE Recorded'
  BY <1>27 DEF AgentInv, Recorded, vars, agentVars, externalVars
<1>28. QED
  BY <1>1, <1>2, <1>3, <1>4, <1>5, <1>6, <1>7, <1>8, <1>9, <1>10, <1>11, <1>12, <1>13,
     <1>14, <1>15, <1>16, <1>17, <1>18, <1>19, <1>20, <1>21, <1>22, <1>23, <1>24, <1>25, <1>26,
     <1>27
  DEF Next, Assessment, Execution, External

(* the proposal in hand *)
LEMMA InHandKept == AgentInv /\ [Next]_vars => InHand'
<1> SUFFICES ASSUME AgentInv, [Next]_vars PROVE InHand'
  OBVIOUS
<1>1. ASSUME Prompt PROVE InHand'
  BY <1>1 DEF AgentInv, InHand, Proposed, Prompt, externalVars
<1>2. ASSUME Exhausted PROVE InHand'
  BY <1>2 DEF AgentInv, InHand, Proposed, Exhausted, agentVars, externalVars
<1>3. ASSUME ModelFails PROVE InHand'
  BY <1>3 DEF AgentInv, InHand, Proposed, ModelFails, agentVars, externalVars
<1>4. ASSUME AnswerMalformed PROVE InHand'
  BY <1>4 DEF AgentInv, InHand, Proposed, AnswerMalformed, externalVars
<1>5. ASSUME AnswerRejected PROVE InHand'
  BY <1>5 DEF AgentInv, InHand, Proposed, AnswerRejected, externalVars
<1>6. ASSUME AnswerReads PROVE InHand'
  BY <1>6 DEF AgentInv, InHand, Proposed, AnswerReads, externalVars
<1>7. ASSUME AnswerNoAction PROVE InHand'
  <2>1. CASE at' = "no_action"
    BY <2>1 DEF InHand, Proposed
  <2>2. CASE \E a \in LearnedActions(selected, observations) :
               at' = "assess" /\ proposed' = [tool |-> a, complete |-> TRUE]
    <3>1. PICK a \in LearnedActions(selected, observations) :
            at' = "assess" /\ proposed' = [tool |-> a, complete |-> TRUE]
      BY <2>2
    <3>2. a \in Action /\ \A r \in RequiredReads[a] : observations[r] # NotRead
      BY LearnedActionsRead DEF AgentInv
    <3>3. proposed' \in Proposal /\ proposed'.tool = a
      BY <3>1, <3>2 DEF Proposal
    <3>4. UNCHANGED observations
      BY <1>7 DEF AnswerNoAction
    <3>5. QED
      BY <3>2, <3>3, <3>4 DEF InHand
  <2>3. QED BY <1>7, <2>1, <2>2 DEF AnswerNoAction
<1>8. ASSUME AnswerAction PROVE InHand'
  <2>1. PICK p \in Proposal :
          \/ Missing(p.tool) = {} /\ at' = "assess" /\ proposed' = p
          \/ at' = "read"
    BY <1>8 DEF AnswerAction
  <2>2. UNCHANGED observations
    BY <1>8 DEF AnswerAction
  <2>3. QED
    BY <2>1, <2>2 DEF InHand, Missing, Proposed
<1>9. ASSUME ReadNext PROVE InHand'
  BY <1>9 DEF AgentInv, InHand, Proposed, ReadNext, externalVars
<1>10. ASSUME ReadsDone PROVE InHand'
  BY <1>10 DEF AgentInv, InHand, Proposed, ReadsDone, agentVars, externalVars
<1>11. ASSUME Assess PROVE InHand'
  <2>1. proposed \in Proposal /\ \A r \in RequiredReads[proposed.tool] : observations[r] # NotRead
    BY <1>11 DEF AgentInv, InHand, Assess
  <2> DEFINE p == Merged(proposed)
  <2>2. p \in Proposal /\ p.tool = proposed.tool
    BY <2>1, MergedProposal
  <2>3. \/ at' = "prompt"
        \/ at' = "proposed" /\ proposed' = p
        \/ at' = "refresh" /\ proposed' = proposed
    BY <1>11 DEF Assess
  <2>4. UNCHANGED observations
    BY <1>11 DEF Assess
  <2> HIDE DEF p
  <2>5. QED
    BY <2>1, <2>2, <2>3, <2>4 DEF InHand, Proposed
<1>12. ASSUME RefreshNext PROVE InHand'
  <2>1. PICK call \in asked : asked' = asked \ {call} /\ ReadInto(call)
    BY <1>12 DEF RefreshNext
  <2>2. call \in ReadCall
    BY DEF AgentInv, TypeOK
  <2>3. proposed \in Proposal /\ \A r \in RequiredReads[proposed.tool] : observations[r] # NotRead
    BY <1>12 DEF AgentInv, InHand, RefreshNext
  <2>4. RequiredReads[proposed.tool] \subseteq Read
    BY <2>3, CatalogAssumption DEF Proposal
  <2>5. \A r \in Read : observations[r] # NotRead => observations'[r] # NotRead
    BY <2>1, <2>2, ReadIntoEffect DEF AgentInv
  <2>6. UNCHANGED <<at, proposed>>
    BY <1>12 DEF RefreshNext
  <2>7. QED
    BY <2>3, <2>4, <2>5, <2>6 DEF InHand
<1>13. ASSUME Refreshed PROVE InHand'
  BY <1>13 DEF AgentInv, InHand, Proposed, Refreshed, externalVars
<1>14. ASSUME ReadRefused PROVE InHand'
  BY <1>14 DEF AgentInv, InHand, Proposed, ReadRefused, externalVars
<1>15. ASSUME ReadGarbled PROVE InHand'
  BY <1>15 DEF AgentInv, InHand, Proposed, ReadGarbled, externalVars
<1>16. ASSUME ReadFails PROVE InHand'
  BY <1>16 DEF AgentInv, InHand, Proposed, ReadFails, externalVars
<1>17. ASSUME Approve PROVE InHand'
  BY <1>17 DEF AgentInv, InHand, Proposed, Approve, agentVars
<1>18. ASSUME ReplayNext PROVE InHand'
  BY <1>18 DEF AgentInv, InHand, Proposed, ReplayNext, agentVars, externalVars
<1>19. ASSUME ReplayFails PROVE InHand'
  BY <1>19 DEF AgentInv, InHand, Proposed, ReplayFails, agentVars, externalVars
<1>20. ASSUME Replayed PROVE InHand'
  BY <1>20 DEF AgentInv, InHand, Proposed, Replayed, agentVars, externalVars
<1>21. ASSUME CallTool PROVE InHand'
  BY <1>21 DEF AgentInv, InHand, Proposed, CallTool, agentVars, externalVars
<1>22. ASSUME NEW r \in Read, WorldChanges(r) PROVE InHand'
  BY <1>22 DEF AgentInv, InHand, Proposed, WorldChanges, agentVars
<1>23. ASSUME SnapshotsAge PROVE InHand'
  <2>1. /\ UNCHANGED <<at, proposed>>
        /\ \A r \in Read : observations[r] # NotRead => observations'[r] # NotRead
    <3>1. CASE UNCHANGED observations
      BY <1>23, <3>1 DEF SnapshotsAge
    <3>2. CASE \E old \in SUBSET Observed(observations) : observations' = Aged(observations, old)
      BY <1>23, <3>2, AgedEffect DEF AgentInv, TypeOK, SnapshotsAge
    <3>3. QED BY <1>23, <3>1, <3>2 DEF SnapshotsAge
  <2>2. CASE at \in {"assess", "refresh"} \cup Proposed
    <3>1. proposed \in Proposal /\ \A r \in RequiredReads[proposed.tool] : observations[r] # NotRead
      BY <2>2 DEF AgentInv, InHand
    <3>2. RequiredReads[proposed.tool] \subseteq Read
      BY <3>1, CatalogAssumption DEF Proposal
    <3>3. QED
      BY <2>1, <3>1, <3>2 DEF InHand
  <2>3. QED
    BY <2>1, <2>2 DEF InHand
<1>24. ASSUME Expire PROVE InHand'
  BY <1>24 DEF AgentInv, InHand, Proposed, Expire, agentVars
<1>25. ASSUME UnregisterLearned PROVE InHand'
  BY <1>25 DEF AgentInv, InHand, Proposed, UnregisterLearned, agentVars
<1>26. ASSUME NEW s \in Learned, RegisterLearned(s) PROVE InHand'
  BY <1>26 DEF AgentInv, InHand, Proposed, RegisterLearned, agentVars
<1>27. ASSUME UNCHANGED vars PROVE InHand'
  BY <1>27 DEF AgentInv, InHand, Proposed, vars, agentVars, externalVars
<1>28. QED
  BY <1>1, <1>2, <1>3, <1>4, <1>5, <1>6, <1>7, <1>8, <1>9, <1>10, <1>11, <1>12, <1>13,
     <1>14, <1>15, <1>16, <1>17, <1>18, <1>19, <1>20, <1>21, <1>22, <1>23, <1>24, <1>25, <1>26,
     <1>27
  DEF Next, Assessment, Execution, External

(* the approval's own reads *)
LEMMA LiveKept == AgentInv /\ [Next]_vars => Live'
<1> SUFFICES ASSUME AgentInv, [Next]_vars PROVE Live'
  OBVIOUS
<1>1. ASSUME Prompt PROVE Live'
  BY <1>1 DEF AgentInv, Live, Approved, Prompt, externalVars
<1>2. ASSUME Exhausted PROVE Live'
  BY <1>2 DEF AgentInv, Live, Approved, Exhausted, agentVars, externalVars
<1>3. ASSUME ModelFails PROVE Live'
  BY <1>3 DEF AgentInv, Live, Approved, ModelFails, agentVars, externalVars
<1>4. ASSUME AnswerMalformed PROVE Live'
  BY <1>4 DEF AgentInv, Live, Approved, AnswerMalformed, externalVars
<1>5. ASSUME AnswerRejected PROVE Live'
  BY <1>5 DEF AgentInv, Live, Approved, AnswerRejected, externalVars
<1>6. ASSUME AnswerReads PROVE Live'
  BY <1>6 DEF AgentInv, Live, Approved, AnswerReads, externalVars
<1>7. ASSUME AnswerNoAction PROVE Live'
  BY <1>7 DEF AgentInv, Live, Approved, AnswerNoAction, externalVars
<1>8. ASSUME AnswerAction PROVE Live'
  BY <1>8 DEF AgentInv, Live, Approved, AnswerAction, externalVars
<1>9. ASSUME ReadNext PROVE Live'
  BY <1>9 DEF AgentInv, Live, Approved, ReadNext, externalVars
<1>10. ASSUME ReadsDone PROVE Live'
  BY <1>10 DEF AgentInv, Live, Approved, ReadsDone, agentVars, externalVars
<1>11. ASSUME Assess PROVE Live'
  BY <1>11 DEF AgentInv, Live, Approved, Assess, externalVars
<1>12. ASSUME RefreshNext PROVE Live'
  BY <1>12 DEF AgentInv, Live, Approved, RefreshNext, externalVars
<1>13. ASSUME Refreshed PROVE Live'
  BY <1>13 DEF AgentInv, Live, Approved, Refreshed, externalVars
<1>14. ASSUME ReadRefused PROVE Live'
  BY <1>14 DEF AgentInv, Live, Approved, ReadRefused, externalVars
<1>15. ASSUME ReadGarbled PROVE Live'
  BY <1>15 DEF AgentInv, Live, Approved, ReadGarbled, externalVars
<1>16. ASSUME ReadFails PROVE Live'
  BY <1>16 DEF AgentInv, Live, Approved, ReadFails, externalVars
<1>17. ASSUME Approve PROVE Live'
  <2>1. UNCHANGED live /\ live = Nothing
    BY <1>17 DEF AgentInv, Live, Approve, agentVars, Approved
  <2>2. CASE at' = "failed"
    BY <2>2 DEF Live, Approved
  <2>3. CASE at' = "replay" /\ wantedSince' = world
    <3>1. UNCHANGED world
      BY <1>17 DEF Approve
    <3>2. QED
      BY <2>1, <2>3, <3>1 DEF Live, Approved, Nothing
  <2>4. QED BY <1>17, <2>2, <2>3 DEF Approve
<1>18. ASSUME ReplayNext PROVE Live'
  BY <1>18 DEF AgentInv, Live, Approved, ReplayNext, agentVars, externalVars
<1>19. ASSUME ReplayFails PROVE Live'
  BY <1>19 DEF AgentInv, Live, Approved, ReplayFails, agentVars, externalVars
<1>20. ASSUME Replayed PROVE Live'
  <2>1. proposed \in Proposal /\ live \in Snapshots
    BY <1>20 DEF AgentInv, TypeOK, InHand, Proposed, Replayed
  <2>2. at' = "call" => \A r \in CheckedReads[proposed.tool] : live[r] # NotRead /\ live[r].wanted
    BY <1>20, <2>1, VerdictMeans DEF Replayed
  <2>3. QED
    BY <1>20, <2>2 DEF AgentInv, Live, Approved, Replayed, agentVars, externalVars
<1>21. ASSUME CallTool PROVE Live'
  BY <1>21 DEF AgentInv, Live, Approved, CallTool, agentVars, externalVars
<1>22. ASSUME NEW r \in Read, WorldChanges(r) PROVE Live'
  <2>1. /\ UNCHANGED <<at, live, proposed>>
        /\ \A q \in Read : /\ wantedSince[q] => wantedSince'[q]
                           /\ world'[q] => world[q] \/ wantedSince'[q]
    BY <1>22 DEF AgentInv, TypeOK, WorldChanges, agentVars
  <2>2. CASE at \in {"call", "executed"}
    <3>1. \A q \in CheckedReads[proposed.tool] : live[q] # NotRead /\ live[q].wanted
      BY <2>2 DEF AgentInv, Live
    <3>2. QED
      BY <2>1, <2>2, <3>1 DEF AgentInv, Live, Approved
  <2>3. QED
    BY <2>1, <2>2 DEF AgentInv, Live, Approved
<1>23. ASSUME SnapshotsAge PROVE Live'
  <2>1. /\ UNCHANGED <<at, proposed, world, wantedSince>>
        /\ live = Nothing => live' = Nothing
        /\ \A r \in Read : /\ live'[r] = NotRead <=> live[r] = NotRead
                           /\ live[r] # NotRead => live'[r].wanted = live[r].wanted
    <3>1. CASE UNCHANGED live
      BY <1>23, <3>1 DEF SnapshotsAge
    <3>2. CASE \E old \in SUBSET Observed(live) : live' = Aged(live, old)
      BY <1>23, <3>2, AgedEffect DEF AgentInv, TypeOK, SnapshotsAge
    <3>3. QED BY <1>23, <3>1, <3>2 DEF SnapshotsAge
  <2>2. CASE at \in {"call", "executed"}
    <3>1. proposed \in Proposal
      BY <2>2 DEF AgentInv, InHand, Proposed
    <3>2. CheckedReads[proposed.tool] \subseteq Read
      BY <3>1, CatalogAssumption DEF Proposal
    <3>3. QED
      BY <2>1, <2>2, <3>2 DEF AgentInv, Live, Approved
  <2>3. QED
    BY <2>1, <2>2 DEF AgentInv, Live, Approved
<1>24. ASSUME Expire PROVE Live'
  BY <1>24 DEF AgentInv, Live, Approved, Expire, agentVars
<1>25. ASSUME UnregisterLearned PROVE Live'
  BY <1>25 DEF AgentInv, Live, Approved, UnregisterLearned, agentVars
<1>26. ASSUME NEW s \in Learned, RegisterLearned(s) PROVE Live'
  BY <1>26 DEF AgentInv, Live, Approved, RegisterLearned, agentVars
<1>27. ASSUME UNCHANGED vars PROVE Live'
  BY <1>27 DEF AgentInv, Live, Approved, vars, agentVars, externalVars
<1>28. QED
  BY <1>1, <1>2, <1>3, <1>4, <1>5, <1>6, <1>7, <1>8, <1>9, <1>10, <1>11, <1>12, <1>13,
     <1>14, <1>15, <1>16, <1>17, <1>18, <1>19, <1>20, <1>21, <1>22, <1>23, <1>24, <1>25, <1>26,
     <1>27
  DEF Next, Assessment, Execution, External

(* The invariant holds in the initial states ... *)
LEMMA InvInit == Init => AgentInv
<1> SUFFICES ASSUME Init PROVE AgentInv
  OBVIOUS
<1>1. Nothing \in Snapshots /\ \A S : Nothing \in [Read -> S \cup {NotRead}]
  BY DEF Nothing, Snapshots
<1>2. TypeOK
  <2>1. 0 \in 0..MaxRounds /\ 0 \in 0..MaxChanges /\ 0 \in 0..MaxAgings /\ 0 \in 0..MaxRefreshes
    BY CatalogAssumption
  <2>2. Learned \subseteq Skill
    BY CatalogAssumption
  <2>3. /\ observations \in Snapshots /\ shown \in Snapshots /\ live \in Snapshots
        /\ readArguments \in [Read -> ReadArgument \cup {NotRead}]
        /\ trace \in [Read -> ReadArgument \cup {NotRead}]
    BY <1>1 DEF Init
  <2>4. QED
    BY <2>1, <2>2, <2>3 DEF Init, TypeOK, Location
<1>3. Recorded
  BY DEF Init, Recorded
<1>4. Shown /\ InHand /\ Live
  BY DEF Init, Shown, InHand, Live, Proposed, Approved
<1>5. QED
  BY <1>2, <1>3, <1>4 DEF AgentInv

(* ... and so in every reachable one. *)
LEMMA InvAlways == Spec => []AgentInv
<1>1. AgentInv /\ [Next]_vars => AgentInv'
  <2> SUFFICES ASSUME AgentInv, [Next]_vars PROVE AgentInv'
    OBVIOUS
  <2>1. QED
    BY TypeKept, ShownKept, RecordedKept, InHandKept, LiveKept DEF AgentInv
<1>2. QED
  BY <1>1, InvInit, PTL DEF Spec

(* The variables keep their types. *)
THEOREM AgentTypeCorrect == Spec => []TypeOK
<1>1. AgentInv => TypeOK
  BY DEF AgentInv
<1>2. QED
  BY <1>1, InvAlways, PTL

(* No proposal rests on context that the model was not shown: whatever it    *)
(* answers, a context that evaluate_event reads or refreshes on its own is   *)
(* put before the model again, unless a service garbled its reply.           *)
THEOREM ProposalsRestOnWhatWasShown == Spec => []RestsOnWhatWasShown
<1>1. AgentInv => RestsOnWhatWasShown
  <2> SUFFICES ASSUME AgentInv, at \in Proposed, ~garbled, NEW r \in RequiredReads[proposed.tool]
               PROVE  shown[r] # NotRead /\ observations[r].wanted = shown[r].wanted
    BY DEF RestsOnWhatWasShown
  <2>1. proposed \in Proposal /\ observations[r] # NotRead
    BY DEF AgentInv, InHand
  <2>2. r \in Read
    BY <2>1, CatalogAssumption DEF Proposal
  <2>3. QED
    BY <2>1, <2>2 DEF AgentInv, Shown, SameContext
<1>2. QED
  BY <1>1, InvAlways, PTL

(* No event is dismissed before the model was shown context of every skill   *)
(* that was loaded for it.                                                   *)
THEOREM NoActionsAreInformed == Spec => []NoActionIsInformed
<1>1. AgentInv => NoActionIsInformed
  <2> SUFFICES ASSUME AgentInv, at = "no_action", ~garbled, NEW s \in selected
               PROVE  \E r \in ToolsOf[s] \cap Read : shown[r] # NotRead
    BY DEF NoActionIsInformed
  <2>1. PICK r \in Read : r \in ToolsOf[s] /\ observations[r] # NotRead
    BY DEF AgentInv, Shown, ContextRead, Observed
  <2>2. shown[r] # NotRead
    BY <2>1 DEF AgentInv, Shown, SameContext
  <2>3. QED
    BY <2>1, <2>2
<1>2. QED
  BY <1>1, InvAlways, PTL

(* What the approval of a proposal has to read again is in its evidence, and *)
(* is what the evidence was read with.                                       *)
THEOREM ApprovalsAskTheSame == Spec => []ReplayAsksTheSame
<1>1. AgentInv => ReplayAsksTheSame
  <2> SUFFICES ASSUME AgentInv, at \in Proposed, NEW r \in RequiredReads[proposed.tool]
               PROVE  trace[r] # NotRead /\ trace[r] = readArguments[r]
    BY DEF ReplayAsksTheSame
  <2>1. proposed \in Proposal /\ observations[r] # NotRead
    BY DEF AgentInv, InHand
  <2>2. r \in Read
    BY <2>1, CatalogAssumption DEF Proposal
  <2>3. QED
    BY <2>1, <2>2 DEF AgentInv, Recorded
<1>2. QED
  BY <1>1, InvAlways, PTL

(* No approved call is made for a change that its service has not wanted at  *)
(* any moment since the approval.                                            *)
THEOREM CallsAreWanted == Spec => []CalledOnlyIfWanted
<1>1. AgentInv => CalledOnlyIfWanted
  <2> SUFFICES ASSUME AgentInv, at \in {"call", "executed"}, NEW r \in CheckedReads[proposed.tool]
               PROVE  wantedSince[r]
    BY DEF CalledOnlyIfWanted
  <2>1. proposed \in Proposal /\ live[r] # NotRead /\ live[r].wanted
    BY DEF AgentInv, InHand, Proposed, Live
  <2>2. r \in Read
    BY <2>1, CatalogAssumption DEF Proposal
  <2>3. QED
    BY <2>1, <2>2 DEF AgentInv, Live, Approved
<1>2. QED
  BY <1>1, InvAlways, PTL
=============================================================================

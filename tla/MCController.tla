---------------------------- MODULE MCController ----------------------------
(* Instances of AutonomyController for TLC. *)
EXTENDS AutonomyController, TLC

CONSTANTS e1, e2, e3, a1, a2, menu, generic

(* every event is for the generic policy, the deployment of worker.py *)
AllGeneric == [e \in Event |-> generic]

(* e1 and e2 have a policy of their own in deployments that register it *)
Typed == [e \in Event |-> IF e \in {e1, e2} THEN menu ELSE generic]

OnlyGeneric       == {{generic}}
WithOrWithoutMenu == {{generic, menu}, {generic}}

DecisionSymmetry == Permutations(Event) \cup Permutations(Action) \cup Permutations(Operator)
=============================================================================

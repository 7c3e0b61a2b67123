------------------------------ MODULE EventLine ------------------------------
(***************************************************************************)
(* What the durable event queue promises to a producer: accepted events    *)
(* stand in one line, are settled one at a time from its front, and an     *)
(* event that failed may be accepted again, at the end of the line.        *)
(* Workers, wake-ups, crashes and restarts are not visible here.           *)
(***************************************************************************)
EXTENDS Naturals

CONSTANT Event

VARIABLES
  ticket,   (* the place of an event in the line, 0 when it is not in it *)
  issued,   (* the last ticket handed out                                *)
  outcome   (* how the last assessment of an event ended                 *)

Waiting == {e \in Event : ticket[e] # 0}

Init ==
  /\ ticket = [e \in Event |-> 0]
  /\ issued = 0
  /\ outcome = [e \in Event |-> "none"]

Accept(e) ==
  /\ e \notin Waiting
  /\ outcome[e] # "completed"
  /\ issued' = issued + 1
  /\ ticket' = [ticket EXCEPT ![e] = issued + 1]
  /\ outcome' = [outcome EXCEPT ![e] = "none"]

Settle(e, result) ==
  /\ e \in Waiting
  /\ \A f \in Waiting : ticket[e] <= ticket[f]
  /\ ticket' = [ticket EXCEPT ![e] = 0]
  /\ outcome' = [outcome EXCEPT ![e] = result]
  /\ UNCHANGED issued

Next == \E e \in Event : Accept(e) \/ \E result \in {"completed", "failed"} : Settle(e, result)

vars == <<ticket, issued, outcome>>

Spec == Init /\ [][Next]_vars
=============================================================================

---------------------------- MODULE ProposalLife ----------------------------
(***************************************************************************)
(* What an operator is promised of proposals: each is created open, is     *)
(* decided once, and its action tool is called at most once and only after *)
(* an approval; it counts as executed only when the tool was called.       *)
(***************************************************************************)
EXTENDS Naturals, Sequences

VARIABLES
  status,  (* of each proposal, in creation order           *)
  called   (* the proposals whose action tool was called    *)

Open == {p \in DOMAIN status : status[p] = "pending"}
Moved(P, s) == [p \in DOMAIN status |-> IF p \in P THEN s ELSE status[p]]

Init == status = <<>> /\ called = {}

(* a new proposal may replace open ones *)
Propose ==
  /\ \E P \in SUBSET Open : status' = Append(Moved(P, "superseded"), "pending")
  /\ UNCHANGED called

Supersede ==
  /\ \E P \in SUBSET Open : status' = Moved(P, "superseded")
  /\ UNCHANGED called

Decide(p, s) == p \in Open /\ status' = Moved({p}, s) /\ UNCHANGED called
Approve(p)   == Decide(p, "executing")
Reject(p)    == Decide(p, "rejected")

CallTool(p) ==
  /\ status[p] = "executing" /\ p \notin called
  /\ called' = called \cup {p}
  /\ UNCHANGED status

Finish(p) ==
  /\ status[p] = "executing"
  /\ status' = Moved({p}, "failed") \/ (p \in called /\ status' = Moved({p}, "executed"))
  /\ UNCHANGED called

Next ==
  \/ Propose \/ Supersede
  \/ \E p \in DOMAIN status : Approve(p) \/ Reject(p) \/ CallTool(p) \/ Finish(p)

vars == <<status, called>>

Spec == Init /\ [][Next]_vars
=============================================================================

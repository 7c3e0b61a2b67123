---------------------------- MODULE LearningRuns ----------------------------
(***************************************************************************)
(* From operator responses to a learned skill: the capture of responses in *)
(* operator-ui/app.py, the Journal of autonomy/learning.py and the runs of *)
(* autonomy/learning_runner.py, for one service and one event type (their  *)
(* records never meet those of others).  The server captures, learns and   *)
(* finalizes in threads; the command line (scripts/learn.py) learns and    *)
(* finalizes in processes of its own, over the same files.  A process may  *)
(* crash between two steps: the files survive.                             *)
(*                                                                         *)
(* Every file is read and written in one step, but for the two writes of   *)
(* archive.  The content of a skill is named by the number of the first    *)
(* write that had it, or, when an operator edited the file, by whether its *)
(* front matter can be read.                                               *)
(***************************************************************************)
EXTENDS Naturals, Sequences, FiniteSets

CONSTANTS
  Event,        (* events of the service that were assessed                  *)
  Cli,          (* command-line processes                                    *)
  MinRecords,   (* QSR_LEARN_MIN_EVENT_RECORDS                               *)
  MaxRecords,   (* bound: different records ever journaled                   *)
  MaxRuns,      (* bound: writes ever staged                                 *)
  MaxCrashes    (* bound: crashes, and hand edits that break the skill       *)

Server == "server"
NoSkill == 0
Free == "free"

ASSUME LearningAssumption ==
  /\ Server \notin Cli /\ Free \notin Cli
  /\ MinRecords \in Nat \ {0} /\ MaxRecords \in Nat /\ MaxRuns \in Nat /\ MaxCrashes \in Nat

Process == {Server} \cup Cli

VARIABLES
  window,    (* of an event: it is not received, linked to the chat, or late *)
  proposal,  (* status of its proposal, "absent" without one                 *)
  recording, (* responses that the server has not journaled yet              *)
  silent,    (* the event record_silent_events looks at, and how far         *)
  unlearnt,  (* unlearnt.jsonl                                               *)
  learnt,    (* the lines of learnt/<run_id>.jsonl                           *)
  flock,     (* who holds .journal.lock between two writes                   *)
  runs,      (* runs/<run_id>.json, in the order of their names              *)
  writes,    (* the content of every write staged so far                     *)
  pending,   (* those still in the pending store                             *)
  skill,     (* learned-<service>/SKILL.md                                   *)
  learner,   (* per process, the locals of run_service                       *)
  finalizer, (* per process, the locals of decide and finalize               *)
  written,   (* history: records ever journaled                              *)
  crashes

captureVars == <<window, proposal, recording, silent>>
journalVars == <<unlearnt, learnt, flock, written>>
skillVars   == <<writes, pending, skill>>
vars == <<captureVars, journalVars, skillVars, runs, learner, finalizer, crashes>>

(* Chat and decision records get a fresh id.  A service may give its          *)
(* responses an id of its own, and the silent record of an event is           *)
(* none-<event_id>: these may be written again.                               *)
Kind   == {"chat", "decision", "service", "none"}
Record == [event : Event, kind : Kind]
Fresh  == {r \in Record : r.kind \in {"chat", "decision"}}
Responses(R) == {r \in R : r.kind # "none"}

Content == 1..MaxRuns
Broken  == MaxRuns + 1
File    == Content \cup {NoSkill, Broken}

Run     == [status : {"staged", "learnt", "dismissed"}, records : SUBSET Record,
            before : File, write : 1..MaxRuns]
Learner == [stage : {"idle", "read", "learn", "save"}, batch : SUBSET Record, write : 0..MaxRuns]
Finalizer ==
  [stage : {"idle", "hermes", "snapshot", "next", "verdict", "archive", "replace", "save"},
   write : 0..MaxRuns, approve : BOOLEAN, todo : SUBSET Nat,
   sha : File, status : {"staged", "learnt", "dismissed"},
   remaining : SUBSET Record]
NoLearner   == [stage |-> "idle", batch |-> {}, write |-> 0]
NoFinalizer == [stage |-> "idle", write |-> 0, approve |-> FALSE, todo |-> {},
                sha |-> NoSkill, status |-> "staged", remaining |-> {}]
Silence    == [stage : {"unseen", "append"}, event : Event]
NotLooking == [stage |-> "idle"]

(* the bound: one more record may come *)
Room(r) == Cardinality(written \cup recording \cup {r}) <= MaxRecords

Staged == {i \in DOMAIN runs : runs[i].status = "staged"}

Init ==
  /\ window = [e \in Event |-> "absent"] /\ proposal = [e \in Event |-> "absent"]
  /\ recording = {} /\ silent = NotLooking
  /\ unlearnt = {} /\ learnt = {} /\ flock = Free
  /\ runs = <<>> /\ writes = <<>> /\ pending = {} /\ skill = NoSkill
  /\ learner = [p \in Process |-> NoLearner] /\ finalizer = [p \in Process |-> NoFinalizer]
  /\ written = {} /\ crashes = 0

-----------------------------------------------------------------------------
(* The journal *)

(* slip: the lock is not taken *)
Append1Unlocked(r) ==
  /\ unlearnt' = unlearnt \cup {r}
  /\ written' = written \cup {r}
  /\ UNCHANGED <<learnt, flock>>

(* append, skipping ids that unlearnt.jsonl has *)
Append1(r) ==
  /\ flock = Free
  /\ unlearnt' = unlearnt \cup {r}
  /\ written' = written \cup {r}
  /\ UNCHANGED <<learnt, flock>>

(* has_event looks at unlearnt.jsonl only *)
HasEvent(e) == \E r \in unlearnt : r.event = e

-----------------------------------------------------------------------------
(* Events and responses *)

CaptureOnly == UNCHANGED <<skillVars, runs, learner, finalizer, crashes>>

EventArrives(e) ==
  /\ window[e] = "absent"
  /\ window' = [window EXCEPT ![e] = "linked"]
  /\ \E s \in {"absent", "pending"} : proposal' = [proposal EXCEPT ![e] = s]
  /\ UNCHANGED <<recording, silent, journalVars>> /\ CaptureOnly

(* QSR_EVENT_LINK_MINUTES pass *)
WindowPasses(e) ==
  /\ window[e] = "linked"
  /\ window' = [window EXCEPT ![e] = "late"]
  /\ UNCHANGED <<proposal, recording, silent, journalVars>> /\ CaptureOnly

Responds(e, kind) ==
  /\ window[e] # "absent" /\ Room([event |-> e, kind |-> kind])
  /\ recording' = recording \cup {[event |-> e, kind |-> kind]}
  /\ UNCHANGED <<window, silent, journalVars>> /\ CaptureOnly

(* POST /ask: the chat takes its time.  Bound: one message per event. *)
ChatAsks(e) ==
  /\ [event |-> e, kind |-> "chat"] \notin written \cup recording
  /\ Responds(e, "chat")
  /\ UNCHANGED proposal

(* Hermes has no answer: nothing is journaled *)
ChatFails(e) ==
  /\ [event |-> e, kind |-> "chat"] \in recording
  /\ recording' = recording \ {[event |-> e, kind |-> "chat"]}
  /\ UNCHANGED <<window, proposal, silent, journalVars>> /\ CaptureOnly

(* POST .../approve and .../reject *)
Decides(e, status) ==
  /\ proposal[e] = "pending"
  /\ proposal' = [proposal EXCEPT ![e] = status]
  /\ Responds(e, "decision")

Executed(e, status) ==
  /\ proposal[e] = "executing" /\ [event |-> e, kind |-> "decision"] \in recording
  /\ proposal' = [proposal EXCEPT ![e] = status]
  /\ UNCHANGED <<window, recording, silent, journalVars>> /\ CaptureOnly

(* record_chat and record_proposal, once the request is done *)
RecordResponse(r) ==
  /\ r \in recording
  /\ r.kind = "decision" => proposal[r.event] # "executing"
  /\ recording' = recording \ {r}
  /\ Append1(r)
  /\ UNCHANGED <<window, proposal, silent>> /\ CaptureOnly

(* record_service_response: POST /learning/responses, which may be sent again *)
ServiceReports(e) ==
  /\ window[e] # "absent" /\ Room([event |-> e, kind |-> "service"])
  /\ Append1([event |-> e, kind |-> "service"])
  /\ UNCHANGED <<window, proposal, recording, silent>> /\ CaptureOnly

(* record_silent_events, every minute: has_event, the proposal, append *)
SilentLooks(e) ==
  /\ silent.stage = "idle" /\ flock = Free
  /\ window[e] = "late" /\ ~HasEvent(e) /\ Room([event |-> e, kind |-> "none"])
  /\ silent' = [stage |-> "unseen", event |-> e]
  /\ UNCHANGED <<window, proposal, recording, journalVars>> /\ CaptureOnly

SilentChecksProposal ==
  /\ silent.stage = "unseen"
  /\ silent' = IF proposal[silent.event] \in {"executed", "rejected"} THEN NotLooking
               ELSE [silent EXCEPT !.stage = "append"]
  /\ UNCHANGED <<window, proposal, recording, journalVars>> /\ CaptureOnly

SilentAppends ==
  /\ silent.stage = "append"
  /\ Append1([event |-> silent.event, kind |-> "none"])
  /\ silent' = NotLooking
  /\ UNCHANGED <<window, proposal, recording>> /\ CaptureOnly

CaptureStep ==
  \/ \E e \in Event :
       \/ EventArrives(e) \/ WindowPasses(e) \/ ChatAsks(e) \/ ChatFails(e)
       \/ Decides(e, "executing") \/ Decides(e, "rejected")
       \/ Executed(e, "executed") \/ Executed(e, "failed")
       \/ ServiceReports(e) \/ SilentLooks(e)
  \/ \E r \in recording : RecordResponse(r)
  \/ SilentChecksProposal \/ SilentAppends

-----------------------------------------------------------------------------
(* run_service; LEARNER_LOCK lets the server run one at a time *)

LearnerOnly == UNCHANGED <<captureVars, journalVars, finalizer, crashes>>
LearnerGoes(p, from, to) == learner[p].stage = from /\ learner' = [learner EXCEPT ![p].stage = to]

(* slip: a staged run of the service is not asked for *)
CheckNothing(p) ==
  /\ LearnerGoes(p, "idle", "read")
  /\ UNCHANGED <<skillVars, runs>> /\ LearnerOnly

(* refused when a run of the service is staged *)
CheckStaged(p) ==
  /\ Staged = {}
  /\ LearnerGoes(p, "idle", "read")
  /\ UNCHANGED <<skillVars, runs>> /\ LearnerOnly

(* too few responses end it *)
ReadBatch(p) ==
  /\ learner[p].stage = "read" /\ flock = Free
  /\ learner' = [learner EXCEPT ![p] =
       IF Cardinality(Responses(unlearnt)) < MinRecords THEN NoLearner
       ELSE [@ EXCEPT !.stage = "learn", !.batch = unlearnt]]
  /\ UNCHANGED <<skillVars, runs>> /\ LearnerOnly

(* learn_skill raises *)
LearnFails(p) ==
  /\ learner[p].stage = "learn"
  /\ learner' = [learner EXCEPT ![p] = NoLearner]
  /\ UNCHANGED <<skillVars, runs>> /\ LearnerOnly

Stage(p) ==
  /\ Len(writes) < MaxRuns
  /\ learner[p].stage = "learn"
  /\ \E c \in {writes[i] : i \in DOMAIN writes} \cup {Len(writes) + 1} : writes' = Append(writes, c)
  /\ pending' = pending \cup {Len(writes')}
  /\ learner' = [learner EXCEPT ![p].stage = "save", ![p].write = Len(writes')]
  /\ UNCHANGED <<skill, runs>> /\ LearnerOnly

(* save_run of the new run *)
SaveRun(p) ==
  /\ learner[p].stage = "save"
  /\ runs' = Append(runs, [status |-> "staged", records |-> learner[p].batch,
                           before |-> skill, write |-> learner[p].write])
  /\ learner' = [learner EXCEPT ![p] = NoLearner]
  /\ UNCHANGED skillVars /\ LearnerOnly

LearnerStep(p) == CheckStaged(p) \/ ReadBatch(p) \/ LearnFails(p) \/ Stage(p) \/ SaveRun(p)

-----------------------------------------------------------------------------
(* Hermes's handler of /skills approve and /skills reject *)

HermesApproves(w) ==
  /\ w \in pending
  /\ skill' = writes[w]
  /\ pending' = pending \ {w}
  /\ UNCHANGED writes

HermesRejects(w) ==
  /\ w \in pending
  /\ pending' = pending \ {w}
  /\ UNCHANGED <<writes, skill>>

(* ... called by an operator in an interactive session *)
Interactive(w) ==
  /\ HermesApproves(w) \/ HermesRejects(w)
  /\ UNCHANGED <<captureVars, journalVars, runs, learner, finalizer, crashes>>

(* an operator edits the file of the skill, which then cannot be read ... *)
BrokenByHand ==
  /\ skill \notin {NoSkill, Broken} /\ crashes < MaxCrashes
  /\ skill' = Broken /\ crashes' = crashes + 1
  /\ UNCHANGED <<captureVars, journalVars, writes, pending, runs, learner, finalizer>>

(* ... until it is fixed.  Bound: to what some write had. *)
FixedByHand(content) ==
  /\ skill = Broken
  /\ skill' = content
  /\ UNCHANGED <<captureVars, journalVars, writes, pending, runs, learner, finalizer, crashes>>

-----------------------------------------------------------------------------
(* decide and finalize; FINALIZE_LOCK lets the server run one at a time *)

FinalizerOnly == UNCHANGED <<captureVars, learner, crashes>>
Goes(p, from, to) == finalizer[p].stage = from /\ finalizer' = [finalizer EXCEPT ![p].stage = to]

(* an unknown write is refused *)
Decide(p, w, approve) ==
  /\ finalizer[p].stage = "idle" /\ w \in pending
  /\ finalizer' = [finalizer EXCEPT ![p].stage = "hermes", ![p].write = w, ![p].approve = approve]
  /\ UNCHANGED <<journalVars, skillVars, runs>> /\ FinalizerOnly

(* a write that someone else decided meanwhile is gone, which is all that is asked *)
HermesDecides(p) ==
  /\ finalizer[p].stage = "hermes"
  /\ finalizer' = [finalizer EXCEPT ![p] = [NoFinalizer EXCEPT !.stage = "snapshot"]]
  /\ \/ finalizer[p].approve /\ HermesApproves(finalizer[p].write)
     \/ ~finalizer[p].approve /\ HermesRejects(finalizer[p].write)
     \/ finalizer[p].write \notin pending /\ UNCHANGED skillVars
  /\ UNCHANGED <<journalVars, runs>> /\ FinalizerOnly

(* the command fails or times out, whatever it did to the write before *)
HermesFails(p) ==
  /\ finalizer[p].stage = "hermes"
  /\ finalizer' = [finalizer EXCEPT ![p] = NoFinalizer]
  /\ UNCHANGED <<journalVars, skillVars, runs>> /\ FinalizerOnly

(* finalize reads the runs once; it is called by decide, by the server's loop *)
(* every minute, and from the command line                                    *)
Finalize(p) ==
  /\ finalizer[p].stage \in (IF Staged = {} THEN {"snapshot"} ELSE {"snapshot", "idle"})
  /\ finalizer' = [finalizer EXCEPT ![p] =
       IF Staged = {} THEN NoFinalizer ELSE [NoFinalizer EXCEPT !.stage = "next", !.todo = Staged]]
  /\ UNCHANGED <<journalVars, skillVars, runs>> /\ FinalizerOnly

Current(p) == CHOOSE i \in finalizer[p].todo : \A j \in finalizer[p].todo : i <= j
Done(p) ==
  finalizer' = [finalizer EXCEPT ![p] =
    IF finalizer[p].todo = {Current(p)} THEN NoFinalizer
    ELSE [NoFinalizer EXCEPT !.stage = "next", !.todo = finalizer[p].todo \ {Current(p)}]]

ReadSha(p) ==
  /\ finalizer[p].stage = "next"
  /\ finalizer' = [finalizer EXCEPT ![p].stage = "verdict", ![p].sha = skill]
  /\ UNCHANGED <<journalVars, skillVars, runs>> /\ FinalizerOnly

Changed(p) == finalizer[p].sha \notin {NoSkill, runs[Current(p)].before}

(* read_skill_meta reads the file once more *)
Readable == skill # Broken

(* slip: the run is saved as learnt before its records are archived *)
VerdictUnarchived(p) ==
  /\ finalizer[p].stage = "verdict"
  /\ \/ /\ Changed(p) /\ Readable
        /\ finalizer' = [finalizer EXCEPT ![p].stage = "save", ![p].status = "learnt"]
     \/ /\ Changed(p) /\ ~Readable
        /\ Done(p)
     \/ /\ ~Changed(p) /\ runs[Current(p)].write \in pending
        /\ Done(p)
     \/ /\ ~Changed(p) /\ runs[Current(p)].write \notin pending
        /\ finalizer' = [finalizer EXCEPT ![p].stage = "save", ![p].status = "dismissed"]
  /\ UNCHANGED <<journalVars, skillVars, runs>> /\ FinalizerOnly

(* slip: a run without an approved change is left as it is *)
VerdictKeepsRejected(p) ==
  /\ finalizer[p].stage = "verdict"
  /\ \/ /\ Changed(p) /\ Readable
        /\ finalizer' = [finalizer EXCEPT ![p].stage = "archive", ![p].status = "learnt"]
     \/ (Changed(p) => ~Readable) /\ Done(p)
  /\ UNCHANGED <<journalVars, skillVars, runs>> /\ FinalizerOnly

(* the skill changed and can be read, or must be fixed first, the write      *)
(* waits, or it is gone                                                      *)
Verdict(p) ==
  /\ finalizer[p].stage = "verdict"
  /\ \/ /\ Changed(p) /\ Readable
        /\ finalizer' = [finalizer EXCEPT ![p].stage = "archive", ![p].status = "learnt"]
     \/ /\ Changed(p) /\ ~Readable
        /\ Done(p)
     \/ /\ ~Changed(p) /\ runs[Current(p)].write \in pending
        /\ Done(p)
     \/ /\ ~Changed(p) /\ runs[Current(p)].write \notin pending
        /\ finalizer' = [finalizer EXCEPT ![p].stage = "save", ![p].status = "dismissed"]
  /\ UNCHANGED <<journalVars, skillVars, runs>> /\ FinalizerOnly

Archived(p) == unlearnt \cap runs[Current(p)].records

(* archive, under the journal's lock: first learnt/<run_id>.jsonl ... *)
ArchiveAppends(p) ==
  /\ finalizer[p].stage = "archive" /\ flock = Free
  /\ IF Archived(p) = {} THEN Goes(p, "archive", "save") /\ UNCHANGED <<learnt, flock>>
     ELSE /\ finalizer' = [finalizer EXCEPT ![p].stage = "replace",
                                            ![p].remaining = unlearnt \ Archived(p)]
          /\ learnt' = learnt \cup {[run |-> Current(p), record |-> r] : r \in Archived(p)}
          /\ flock' = p
  /\ UNCHANGED <<unlearnt, written, skillVars, runs>> /\ FinalizerOnly

(* ... then unlearnt.jsonl is replaced *)
ArchiveReplaces(p) ==
  /\ Goes(p, "replace", "save")
  /\ unlearnt' = finalizer[p].remaining
  /\ flock' = Free
  /\ UNCHANGED <<learnt, written, skillVars, runs>> /\ FinalizerOnly

(* save_run of the verdict, over whatever the file says now *)
SaveVerdict(p) ==
  /\ finalizer[p].stage = "save"
  /\ runs' = [runs EXCEPT ![Current(p)].status = finalizer[p].status]
  /\ Done(p)
  /\ UNCHANGED <<journalVars, skillVars>> /\ FinalizerOnly

FinalizerStep(p) ==
  \/ HermesDecides(p) \/ HermesFails(p) \/ Finalize(p) \/ ReadSha(p) \/ Verdict(p)
  \/ ArchiveAppends(p) \/ ArchiveReplaces(p) \/ SaveVerdict(p)

-----------------------------------------------------------------------------
(* a process dies and is started again; its locks are released *)
Crash(p) ==
  /\ crashes < MaxCrashes
  /\ crashes' = crashes + 1
  /\ learner' = [learner EXCEPT ![p] = NoLearner]
  /\ finalizer' = [finalizer EXCEPT ![p] = NoFinalizer]
  /\ flock' = IF flock = p THEN Free ELSE flock
  /\ IF p = Server THEN recording' = {} /\ silent' = NotLooking ELSE UNCHANGED <<recording, silent>>
  /\ UNCHANGED <<window, proposal, unlearnt, learnt, written, skillVars, runs>>

Next ==
  \/ CaptureStep
  \/ \E w \in pending : Interactive(w)
  \/ BrokenByHand \/ \E w \in DOMAIN writes : FixedByHand(writes[w])
  \/ \E p \in Process :
       \/ LearnerStep(p) \/ FinalizerStep(p) \/ Crash(p)
       \/ \E w \in pending, approve \in BOOLEAN : Decide(p, w, approve)

Spec == Init /\ [][Next]_vars

(* Hermes's handler has a timeout, and the silent loop calls finalize every   *)
(* minute: operators whose requests fail do not keep FINALIZE_LOCK from it    *)
(* for ever.  Nobody has to decide.                                           *)
FairSpec == Spec /\ \A p \in Process : WF_vars(FinalizerStep(p)) /\ SF_vars(Finalize(p))

-----------------------------------------------------------------------------
(* Properties *)

TypeOK ==
  /\ window \in [Event -> {"absent", "linked", "late"}]
  /\ proposal \in [Event -> {"absent", "pending", "executing", "executed", "failed", "rejected"}]
  /\ recording \subseteq Record
  /\ silent \in Silence \cup {NotLooking}
  /\ unlearnt \subseteq Record /\ written \subseteq Record
  /\ learnt \subseteq [run : Nat, record : Record]
  /\ flock \in Process \cup {Free}
  /\ runs \in Seq(Run)
  /\ writes \in Seq(Content) /\ Len(writes) <= MaxRuns /\ pending \subseteq DOMAIN writes
  /\ skill \in File
  /\ learner \in [Process -> Learner]
  /\ finalizer \in [Process -> Finalizer]
  /\ \A p \in Process : finalizer[p].todo \subseteq DOMAIN runs
  /\ crashes \in Nat

(* No response that was journaled is ever lost: it waits to be learnt or is  *)
(* in the archive of a run, also when a process dies between the two writes  *)
(* of archive while others append (learning.py:226-264).                     *)
NothingLost == written \subseteq unlearnt \cup {line.record : line \in learnt}

(* self-learning.md:253: "Only one staged run per service is allowed at a    *)
(* time".  Without the command line it holds: crashes, and runs that others  *)
(* finalize, do not let the server stage a second one (learning_runner.py:   *)
(* 250-269, app.py:281-284).                                                 *)
OneStagedRun == Cardinality(Staged) <= 1

(* What a learnt run was made of does not wait to be learnt once more: its   *)
(* chat messages and decisions are in its archive and not in unlearnt.jsonl, *)
(* although archive and save_run are two steps (learning_runner.py:317-326). *)
LearntIsArchived ==
  \A i \in DOMAIN runs : runs[i].status = "learnt" =>
    \A r \in runs[i].records \cap Fresh : r \notin unlearnt /\ [run |-> i, record |-> r] \in learnt

(* A staged run does not stay staged, and so bar its service from learning,  *)
(* once its write was decided, by whatever way, and whoever died meanwhile,  *)
(* as long as the skill's file can be read.  One that an operator broke by   *)
(* hand keeps the run staged until it is fixed: "changed but is invalid; fix *)
(* it first" (learning_runner.py:302-328, app.py:258-261).                   *)
RunSettles ==
  \A i \in 1..MaxRuns :
    [](i \in Staged /\ runs[i].write \notin pending /\ []Readable
         => <>(i \in DOMAIN runs /\ i \notin Staged))
=============================================================================

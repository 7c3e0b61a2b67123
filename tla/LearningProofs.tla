---------------------------- MODULE LearningProofs ----------------------------
(***************************************************************************)
(* What learning from operator responses guarantees for any number of      *)
(* events, records, runs and crashes, with command-line processes beside   *)
(* the server: types, and that no record is lost.  An archive between its  *)
(* two writes holds the journal's lock, and what it drops from             *)
(* unlearnt.jsonl is in the archive already (Archiving).                   *)
(***************************************************************************)
EXTENDS LearningRuns, FiniteSetTheorems, WellFoundedInduction, TLAPS

Working == {"next", "verdict", "archive", "replace", "save"}

Busy ==
  \A p \in Process :
    /\ finalizer[p].stage \in Working => finalizer[p].todo # {}
    /\ learner[p].stage = "save" => learner[p].write # 0

InArchive == {line.record : line \in learnt}

Archiving ==
  \A p \in Process : finalizer[p].stage = "replace" =>
    /\ flock = p
    /\ unlearnt \subseteq finalizer[p].remaining \cup InArchive

JournalInv == TypeOK /\ Busy /\ Archiving /\ NothingLost

-----------------------------------------------------------------------------
(* A set of numbers that is not empty has a least one. *)
LEMMA Least == ASSUME NEW S \in SUBSET Nat, S # {} PROVE \E i \in S : \A j \in S : i <= j
<1> DEFINE R == OpToRel(<, Nat)
<1>1. IsWellFoundedOn(R, Nat)
  BY NatLessThanWellFounded
<1>2. R = {ss \in Nat \X Nat : ss[1] < ss[2]}
  BY DEF OpToRel
<1> HIDE DEF R
<1>3. PICK i \in S : \A j \in S : <<j, i>> \notin R
  BY <1>1, WFMin
<1>4. ASSUME NEW j \in S PROVE i <= j
  <2>1. j \in Nat /\ i \in Nat /\ <<j, i>> \notin R
    BY <1>3
  <2>2. j < i => <<j, i>> \in R
    BY <1>2, <2>1
  <2>3. QED
    BY <2>1, <2>2
<1>5. QED
  BY <1>4

LEMMA CurrentIsTodo ==
  ASSUME JournalInv, NEW p \in Process, finalizer[p].stage \in Working
  PROVE  Current(p) \in finalizer[p].todo /\ Current(p) \in Nat /\ Current(p) \in DOMAIN runs
<1>1. finalizer[p].todo \in SUBSET Nat /\ finalizer[p].todo # {} /\ finalizer[p].todo \subseteq DOMAIN runs
  BY DEF JournalInv, TypeOK, Busy, Finalizer
<1>2. \E i \in finalizer[p].todo : \A j \in finalizer[p].todo : i <= j
  BY <1>1, Least
<1>3. Current(p) \in finalizer[p].todo
  BY <1>2 DEF Current
<1>4. QED
  BY <1>1, <1>3

(* What capturing and recording does to the journal: one record is appended, or nothing. *)
Appended(r) ==
  /\ flock = Free
  /\ unlearnt' = unlearnt \cup {r} /\ written' = written \cup {r}

LEMMA CaptureEffect ==
  ASSUME TypeOK, CaptureStep
  PROVE  /\ UNCHANGED <<skillVars, runs, learner, finalizer, crashes, learnt, flock>>
         /\ \/ UNCHANGED <<unlearnt, written>>
            \/ \E r \in Record : Appended(r) /\ (r \in Fresh => r \in recording)
<1> USE DEF CaptureOnly, journalVars
<1>1. ASSUME NEW e \in Event,
             \/ EventArrives(e) \/ WindowPasses(e) \/ ChatAsks(e) \/ ChatFails(e)
             \/ Decides(e, "executing") \/ Decides(e, "rejected")
             \/ Executed(e, "executed") \/ Executed(e, "failed") \/ SilentLooks(e)
      PROVE  UNCHANGED <<skillVars, runs, learner, finalizer, crashes, learnt, flock, unlearnt, written>>
  BY <1>1 DEF EventArrives, WindowPasses, ChatAsks, ChatFails, Decides, Executed, SilentLooks, Responds
<1>2. ASSUME NEW e \in Event, ServiceReports(e)
      PROVE  /\ UNCHANGED <<skillVars, runs, learner, finalizer, crashes, learnt, flock>>
             /\ Appended([event |-> e, kind |-> "service"])
             /\ [event |-> e, kind |-> "service"] \in Record \ Fresh
  BY <1>2 DEF ServiceReports, Append1, Appended, Record, Kind, Fresh
<1>3. ASSUME NEW r \in recording, RecordResponse(r)
      PROVE  /\ UNCHANGED <<skillVars, runs, learner, finalizer, crashes, learnt, flock>>
             /\ Appended(r) /\ r \in Record
  BY <1>3 DEF RecordResponse, Append1, Appended, TypeOK
<1>4. ASSUME SilentAppends
      PROVE  /\ UNCHANGED <<skillVars, runs, learner, finalizer, crashes, learnt, flock>>
             /\ Appended([event |-> silent.event, kind |-> "none"])
             /\ [event |-> silent.event, kind |-> "none"] \in Record \ Fresh
  BY <1>4 DEF SilentAppends, Append1, Appended, TypeOK, Silence, NotLooking, Record, Kind, Fresh
<1>5. ASSUME SilentChecksProposal
      PROVE  UNCHANGED <<skillVars, runs, learner, finalizer, crashes, learnt, flock, unlearnt, written>>
  BY <1>5 DEF SilentChecksProposal
<1>6. QED
  BY <1>1, <1>2, <1>3, <1>4, <1>5 DEF CaptureStep

Windows == [Event -> {"absent", "linked", "late"}]
Statuses == [Event -> {"absent", "pending", "executing", "executed", "failed", "rejected"}]

LEMMA CaptureTypes ==
  ASSUME TypeOK, CaptureStep
  PROVE  /\ window' \in Windows /\ proposal' \in Statuses
         /\ recording' \subseteq Record /\ silent' \in Silence \cup {NotLooking}
<1> USE DEF TypeOK, Windows, Statuses, Record, Kind
<1>1. ASSUME NEW e \in Event, EventArrives(e) \/ WindowPasses(e)
      PROVE  window' \in Windows /\ proposal' \in Statuses /\ UNCHANGED <<recording, silent>>
  BY <1>1 DEF EventArrives, WindowPasses
<1>2. ASSUME NEW e \in Event, ChatAsks(e) \/ ChatFails(e)
      PROVE  recording' \subseteq Record /\ UNCHANGED <<window, proposal, silent>>
  BY <1>2 DEF ChatAsks, ChatFails, Responds
<1>3. ASSUME NEW e \in Event, Decides(e, "executing") \/ Decides(e, "rejected")
      PROVE  recording' \subseteq Record /\ proposal' \in Statuses /\ UNCHANGED <<window, silent>>
  <2>1. PICK status \in {"executing", "rejected"} :
          /\ proposal' = [proposal EXCEPT ![e] = status]
          /\ recording' = recording \cup {[event |-> e, kind |-> "decision"]}
          /\ UNCHANGED <<window, silent>>
    BY <1>3, Zenon DEF Decides, Responds
  <2>2. proposal' \in Statuses
    BY <2>1
  <2>3. [event |-> e, kind |-> "decision"] \in Record /\ recording \subseteq Record
    OBVIOUS
  <2>4. QED
    BY <2>1, <2>2, <2>3
<1>4. ASSUME NEW e \in Event, Executed(e, "executed") \/ Executed(e, "failed")
      PROVE  proposal' \in Statuses /\ UNCHANGED <<window, recording, silent>>
  BY <1>4 DEF Executed
<1>5. ASSUME NEW e \in Event, SilentLooks(e)
      PROVE  silent' \in Silence /\ UNCHANGED <<window, proposal, recording>>
  BY <1>5 DEF SilentLooks, Silence
<1>6. ASSUME NEW e \in Event, ServiceReports(e) PROVE UNCHANGED captureVars
  BY <1>6 DEF ServiceReports, captureVars
<1>7. ASSUME NEW r \in recording, RecordResponse(r)
      PROVE  recording' \subseteq Record /\ UNCHANGED <<window, proposal, silent>>
  BY <1>7 DEF RecordResponse
<1>8. ASSUME SilentChecksProposal
      PROVE  silent' \in Silence \cup {NotLooking} /\ UNCHANGED <<window, proposal, recording>>
  BY <1>8 DEF SilentChecksProposal, Silence, NotLooking
<1>9. ASSUME SilentAppends PROVE silent' = NotLooking /\ UNCHANGED <<window, proposal, recording>>
  BY <1>9 DEF SilentAppends
<1>10. QED
  BY <1>1, <1>2, <1>3, <1>4, <1>5, <1>6, <1>7, <1>8, <1>9 DEF CaptureStep, captureVars

LEMMA CaptureInv == ASSUME JournalInv, CaptureStep PROVE JournalInv'
<1>1. TypeOK
  BY DEF JournalInv
<1>2. /\ UNCHANGED <<skillVars, runs, learner, finalizer, crashes, learnt, flock>>
      /\ \/ UNCHANGED <<unlearnt, written>>
         \/ \E r \in Record : Appended(r) /\ (r \in Fresh => r \in recording)
  BY <1>1, CaptureEffect
<1>3. unlearnt' \subseteq Record /\ written' \subseteq Record
  BY <1>1, <1>2 DEF TypeOK, Appended
<1>4. TypeOK'
  BY <1>1, <1>2, <1>3, CaptureTypes DEF TypeOK, skillVars, Windows, Statuses
<1>5. Busy'
  BY <1>2 DEF JournalInv, Busy
<1>6. InArchive' = InArchive
  BY <1>2 DEF InArchive
<1>7. Archiving' /\ NothingLost'
  <2>1. CASE UNCHANGED <<unlearnt, written>>
    BY <1>2, <1>6, <2>1 DEF JournalInv, Archiving, NothingLost, InArchive
  <2>2. ASSUME NEW r \in Record, Appended(r) PROVE Archiving' /\ NothingLost'
    <3>1. \A p \in Process : p # Free
      BY LearningAssumption DEF Process, Server, Free
    <3>2. Archiving'
      BY <1>2, <2>2, <3>1 DEF JournalInv, Archiving, Appended
    <3>3. NothingLost'
      BY <1>2, <1>6, <2>2 DEF JournalInv, NothingLost, InArchive, Appended
    <3>4. QED
      BY <3>2, <3>3
  <2>3. QED
    BY <1>2, <2>1, <2>2
<1>8. QED
  BY <1>4, <1>5, <1>7 DEF JournalInv

-----------------------------------------------------------------------------
(* The steps of a learner leave the journal and the finalizers alone. *)
LEMMA LearnerTypes ==
  ASSUME JournalInv, NEW p \in Process, LearnerStep(p)
  PROVE  /\ runs' \in Seq(Run) /\ DOMAIN runs \subseteq DOMAIN runs'
         /\ writes' \in Seq(Content) /\ Len(writes') <= MaxRuns /\ pending' \subseteq DOMAIN writes'
         /\ skill' = skill /\ learner' \in [Process -> Learner]
         /\ \A q \in Process : learner'[q].stage = "save" => learner'[q].write # 0
<1>1. /\ runs \in Seq(Run) /\ writes \in Seq(Content) /\ Len(writes) <= MaxRuns /\ pending \subseteq DOMAIN writes
      /\ skill \in File /\ learner \in [Process -> Learner] /\ unlearnt \subseteq Record
      /\ \A q \in Process : learner[q].stage = "save" => learner[q].write # 0
      /\ learner[p] \in Learner /\ MaxRuns \in Nat
  BY LearningAssumption DEF JournalInv, TypeOK, Busy
<1>2. ASSUME NEW l \in Learner, learner' = [learner EXCEPT ![p] = l], l.stage = "save" => l.write # 0
      PROVE  /\ learner' \in [Process -> Learner]
             /\ \A q \in Process : learner'[q].stage = "save" => learner'[q].write # 0
  BY <1>1, <1>2
<1>3. CASE CheckStaged(p)
  <2> DEFINE l == [learner[p] EXCEPT !.stage = "read"]
  <2>1. l \in Learner /\ l.stage # "save"
    BY <1>1 DEF Learner
  <2>2. learner' = [learner EXCEPT ![p] = l] /\ UNCHANGED <<skillVars, runs>>
    BY <1>3 DEF CheckStaged, LearnerGoes
  <2> HIDE DEF l
  <2>3. QED
    BY <1>1, <1>2, <2>1, <2>2 DEF skillVars
<1>4. CASE ReadBatch(p)
  <2> DEFINE l == IF Cardinality(Responses(unlearnt)) < MinRecords THEN NoLearner
                  ELSE [learner[p] EXCEPT !.stage = "learn", !.batch = unlearnt]
  <2>1. l \in Learner /\ l.stage # "save"
    <3>1. learner[p] \in Learner /\ unlearnt \in SUBSET Record
      BY <1>1
    <3>2. [learner[p] EXCEPT !.stage = "learn", !.batch = unlearnt] \in Learner
      BY <3>1 DEF Learner
    <3>3. NoLearner \in Learner /\ NoLearner.stage # "save"
      BY <1>1 DEF Learner, NoLearner
    <3>4. QED
      BY <3>1, <3>2, <3>3 DEF Learner
  <2>2. learner' = [learner EXCEPT ![p] = l] /\ UNCHANGED <<skillVars, runs>>
    BY <1>4 DEF ReadBatch
  <2> HIDE DEF l
  <2>3. QED
    BY <1>1, <1>2, <2>1, <2>2 DEF skillVars
<1>5. NoLearner \in Learner /\ NoLearner.stage = "idle"
  BY <1>1 DEF NoLearner, Learner
<1>6. CASE LearnFails(p)
  BY <1>1, <1>2, <1>5, <1>6 DEF LearnFails, skillVars
<1>7. CASE Stage(p)
  <2> DEFINE n == Len(writes) + 1
             l == [learner[p] EXCEPT !.stage = "save", !.write = n]
  <2>1. n \in 1..MaxRuns /\ {writes[i] : i \in DOMAIN writes} \cup {n} \subseteq Content
    BY <1>1, <1>7 DEF Stage, Content
  <2>2. PICK c \in Content : writes' = Append(writes, c)
    BY <1>7, <2>1 DEF Stage
  <2>3. writes' \in Seq(Content) /\ Len(writes') = n /\ DOMAIN writes' = DOMAIN writes \cup {n}
    BY <1>1, <2>2
  <2>4. /\ pending' = pending \cup {n} /\ learner' = [learner EXCEPT ![p] = l]
        /\ UNCHANGED <<skill, runs>>
    BY <1>7, <2>3 DEF Stage
  <2>5. l \in Learner /\ l.write # 0
    <3>1. n \in 0..MaxRuns /\ n # 0 /\ learner[p] \in Learner
      BY <1>1, <2>1
    <3> HIDE DEF n
    <3>2. QED
      BY <3>1 DEF Learner
  <2> HIDE DEF l
  <2>6. QED
    BY <1>1, <1>2, <2>1, <2>3, <2>4, <2>5
<1>8. CASE SaveRun(p)
  <2> DEFINE r == [status |-> "staged", records |-> learner[p].batch,
                   before |-> skill, write |-> learner[p].write]
  <2>1. r \in Run
    BY <1>1, <1>8 DEF SaveRun, Run, Learner
  <2>2. runs' = Append(runs, r) /\ learner' = [learner EXCEPT ![p] = NoLearner] /\ UNCHANGED skillVars
    BY <1>8 DEF SaveRun
  <2> HIDE DEF r
  <2>3. runs' \in Seq(Run) /\ DOMAIN runs \subseteq DOMAIN runs'
    BY <1>1, <2>1, <2>2
  <2>4. QED
    BY <1>1, <1>2, <1>5, <2>2, <2>3 DEF skillVars
<1>9. QED
  BY <1>3, <1>4, <1>6, <1>7, <1>8 DEF LearnerStep

LEMMA LearnerInv == ASSUME JournalInv, NEW p \in Process, LearnerStep(p) PROVE JournalInv'
<1>1. UNCHANGED <<captureVars, journalVars, finalizer, crashes>>
  BY DEF LearnerStep, CheckStaged, ReadBatch, LearnFails, Stage, SaveRun, LearnerOnly
<1>2. TypeOK'
  BY <1>1, LearnerTypes DEF JournalInv, TypeOK, captureVars, journalVars
<1>3. Busy'
  BY <1>1, LearnerTypes DEF JournalInv, Busy
<1>4. Archiving' /\ NothingLost'
  BY <1>1 DEF JournalInv, Archiving, NothingLost, InArchive, journalVars
<1>5. QED
  BY <1>2, <1>3, <1>4 DEF JournalInv

-----------------------------------------------------------------------------
(* Skills in Hermes. *)
LEMMA HermesTypes ==
  ASSUME TypeOK, NEW w \in pending, HermesApproves(w) \/ HermesRejects(w)
  PROVE  writes' = writes /\ pending' \subseteq DOMAIN writes /\ skill' \in File
BY DEF HermesApproves, HermesRejects, TypeOK, File

LEMMA InteractiveInv == ASSUME JournalInv, NEW w \in pending, Interactive(w) PROVE JournalInv'
<1>1. UNCHANGED <<captureVars, journalVars, runs, learner, finalizer, crashes>>
  BY DEF Interactive
<1>2. TypeOK'
  BY <1>1, HermesTypes DEF Interactive, JournalInv, TypeOK, captureVars, journalVars
<1>3. Busy' /\ Archiving' /\ NothingLost'
  BY <1>1 DEF JournalInv, Busy, Archiving, NothingLost, InArchive, journalVars
<1>4. QED
  BY <1>2, <1>3 DEF JournalInv

(* Hand edits of the skill's file leave the rest as it is. *)
ByHand == BrokenByHand \/ \E w \in DOMAIN writes : FixedByHand(writes[w])

LEMMA ByHandInv == ASSUME JournalInv, ByHand PROVE JournalInv'
<1>1. /\ UNCHANGED <<captureVars, journalVars, writes, pending, runs, learner, finalizer>>
      /\ skill' \in File /\ crashes' \in Nat
  BY DEF ByHand, BrokenByHand, FixedByHand, JournalInv, TypeOK, File
<1>2. TypeOK'
  BY <1>1 DEF JournalInv, TypeOK, captureVars, journalVars
<1>3. Busy' /\ Archiving' /\ NothingLost'
  BY <1>1 DEF JournalInv, Busy, Archiving, NothingLost, InArchive, journalVars
<1>4. QED
  BY <1>2, <1>3 DEF JournalInv

-----------------------------------------------------------------------------
(* A finalizer goes to a stage in which it holds no lock, and the journal stays. *)
LEMMA NoFinalizerType == NoFinalizer \in Finalizer /\ NoFinalizer.stage = "idle"
BY LearningAssumption DEF NoFinalizer, Finalizer, File

LEMMA FinalizerGoes ==
  ASSUME JournalInv, NEW p \in Process, NEW f \in Finalizer,
         finalizer' = [finalizer EXCEPT ![p] = f], f.stage # "replace",
         f.stage \in Working => f.todo # {},
         f.todo \subseteq DOMAIN runs, DOMAIN runs' = DOMAIN runs, runs' \in Seq(Run),
         pending' \subseteq DOMAIN writes, skill' \in File,
         UNCHANGED <<captureVars, journalVars, writes, learner, crashes>>
  PROVE  JournalInv'
<1>1. finalizer' \in [Process -> Finalizer] /\ \A q \in Process : finalizer'[q].todo \subseteq DOMAIN runs'
  BY DEF JournalInv, TypeOK
<1>2. TypeOK'
  BY <1>1 DEF JournalInv, TypeOK, captureVars, journalVars
<1>3. Busy'
  BY DEF JournalInv, TypeOK, Busy
<1>4. Archiving' /\ NothingLost'
  BY DEF JournalInv, TypeOK, Archiving, NothingLost, InArchive, journalVars
<1>5. QED
  BY <1>2, <1>3, <1>4 DEF JournalInv

LEMMA DecideInv ==
  ASSUME JournalInv, NEW p \in Process, NEW w \in pending, NEW approve \in BOOLEAN, Decide(p, w, approve)
  PROVE  JournalInv'
<1> DEFINE f == [finalizer[p] EXCEPT !.stage = "hermes", !.write = w, !.approve = approve]
<1>1. finalizer[p] \in Finalizer /\ w \in 0..MaxRuns
  BY LearningAssumption DEF JournalInv, TypeOK
<1>2. f \in Finalizer /\ f.stage = "hermes" /\ f.todo \subseteq DOMAIN runs
  BY <1>1 DEF Finalizer, JournalInv, TypeOK
<1>3. /\ finalizer' = [finalizer EXCEPT ![p] = f]
      /\ UNCHANGED <<captureVars, journalVars, skillVars, runs, learner, crashes>>
  BY DEF Decide, FinalizerOnly
<1> HIDE DEF f
<1>4. UNCHANGED <<captureVars, journalVars, writes, learner, crashes, runs, pending, skill>>
  BY <1>3 DEF skillVars
<1>5. QED
  BY <1>2, <1>3, <1>4, FinalizerGoes DEF Working, JournalInv, TypeOK

(* Where a finalizer goes: the next run, or none. *)
GoesTo(p, f) ==
  /\ f \in Finalizer /\ finalizer' = [finalizer EXCEPT ![p] = f]
  /\ f.todo \subseteq DOMAIN runs /\ f.stage # "replace"
  /\ f.stage \in Working => f.todo # {}

LEMMA DoneGoes ==
  ASSUME JournalInv, NEW p \in Process, finalizer[p].stage \in Working, Done(p)
  PROVE  \E f : GoesTo(p, f)
<1> DEFINE rest == finalizer[p].todo \ {Current(p)}
           f == IF finalizer[p].todo = {Current(p)} THEN NoFinalizer
                ELSE [NoFinalizer EXCEPT !.stage = "next", !.todo = rest]
<1>1. finalizer[p].todo \in SUBSET Nat /\ finalizer[p].todo \subseteq DOMAIN runs /\ Current(p) \in finalizer[p].todo
  BY CurrentIsTodo DEF JournalInv, TypeOK, Finalizer
<1>2. finalizer[p].todo # {Current(p)} => rest # {}
  BY <1>1
<1>3. rest \in SUBSET Nat /\ rest \subseteq DOMAIN runs
  BY <1>1
<1>4. finalizer' = [finalizer EXCEPT ![p] = f]
  BY DEF Done
<1> HIDE DEF rest
<1>5. CASE finalizer[p].todo = {Current(p)}
  <2>1. f = NoFinalizer /\ NoFinalizer.todo = {}
    BY <1>5 DEF NoFinalizer
  <2>2. QED
    BY <1>4, <2>1, NoFinalizerType DEF GoesTo, Working
<1>6. CASE finalizer[p].todo # {Current(p)}
  <2> DEFINE g == [NoFinalizer EXCEPT !.stage = "next", !.todo = rest]
  <2>1. g \in Finalizer /\ g.stage = "next" /\ g.todo = rest
    BY <1>3, NoFinalizerType DEF Finalizer, NoFinalizer
  <2>2. f = g
    BY <1>6
  <2> HIDE DEF g
  <2>3. QED
    BY <1>2, <1>3, <1>4, <1>6, <2>1, <2>2 DEF GoesTo, Working
<1>7. QED
  BY <1>5, <1>6

(* ... or the next stage for the same run. *)
LEMMA StageGoes ==
  ASSUME JournalInv, NEW p \in Process, finalizer[p].stage \in Working,
         NEW to \in {"verdict", "archive", "save"},
         NEW sha \in File, NEW status \in {"staged", "learnt", "dismissed"},
         finalizer' = [finalizer EXCEPT ![p].stage = to, ![p].sha = sha, ![p].status = status]
  PROVE  GoesTo(p, [finalizer[p] EXCEPT !.stage = to, !.sha = sha, !.status = status])
<1> DEFINE f == [finalizer[p] EXCEPT !.stage = to, !.sha = sha, !.status = status]
<1>1. finalizer[p] \in Finalizer /\ finalizer[p].todo # {} /\ finalizer[p].todo \subseteq DOMAIN runs
  BY DEF JournalInv, TypeOK, Busy
<1>2. f \in Finalizer /\ f.stage = to /\ f.todo = finalizer[p].todo
  BY <1>1 DEF Finalizer
<1>3. finalizer' = [finalizer EXCEPT ![p] = f]
  BY DEF JournalInv, TypeOK
<1> HIDE DEF f
<1>4. GoesTo(p, f)
  BY <1>1, <1>2, <1>3 DEF GoesTo
<1>5. QED
  BY <1>4 DEF f

(* Every step of a finalizer but the two writes of archive. *)
LEMMA FinalizerSteps ==
  ASSUME JournalInv, NEW p \in Process,
         \/ HermesDecides(p) \/ HermesFails(p) \/ Finalize(p) \/ ReadSha(p) \/ Verdict(p)
         \/ SaveVerdict(p) \/ (ArchiveAppends(p) /\ Archived(p) = {})
  PROVE  /\ \E f : GoesTo(p, f)
         /\ UNCHANGED <<captureVars, journalVars, writes, learner, crashes>>
         /\ DOMAIN runs' = DOMAIN runs /\ runs' \in Seq(Run)
         /\ pending' \subseteq DOMAIN writes /\ skill' \in File
<1>1. /\ runs \in Seq(Run) /\ pending \subseteq DOMAIN writes /\ skill \in File
      /\ finalizer[p] \in Finalizer /\ finalizer \in [Process -> Finalizer]
      /\ DOMAIN runs \subseteq Nat
  BY DEF JournalInv, TypeOK
<1>2. NoFinalizer.todo = {} /\ NoFinalizer \in Finalizer /\ NoFinalizer.stage = "idle"
  BY NoFinalizerType DEF NoFinalizer
<1>3. CASE HermesDecides(p)
  <2> DEFINE f == [NoFinalizer EXCEPT !.stage = "snapshot"]
  <2>1. f \in Finalizer /\ f.stage = "snapshot" /\ f.todo = {}
    BY <1>2 DEF Finalizer
  <2>2. finalizer' = [finalizer EXCEPT ![p] = f] /\ UNCHANGED <<captureVars, journalVars, runs, learner, crashes>>
    BY <1>3 DEF HermesDecides, FinalizerOnly
  <2> HIDE DEF f
  <2>3. GoesTo(p, f)
    BY <2>1, <2>2 DEF GoesTo, Working
  <2>4. writes' = writes /\ pending' \subseteq DOMAIN writes /\ skill' \in File
    BY <1>1, <1>3, HermesTypes DEF HermesDecides, HermesApproves, HermesRejects, skillVars, JournalInv
  <2>5. QED
    BY <1>1, <2>2, <2>3, <2>4
<1>4. CASE HermesFails(p)
  <2>1. GoesTo(p, NoFinalizer)
    BY <1>2, <1>4 DEF HermesFails, GoesTo, Working
  <2>2. QED
    BY <1>1, <1>4, <2>1 DEF HermesFails, FinalizerOnly, skillVars
<1>5. CASE Finalize(p)
  <2> DEFINE f == [NoFinalizer EXCEPT !.stage = "next", !.todo = Staged]
  <2>1. Staged \in SUBSET Nat /\ Staged \subseteq DOMAIN runs
    BY <1>1 DEF Staged
  <2>2. f \in Finalizer /\ f.stage = "next" /\ f.todo = Staged
    BY <1>2, <2>1 DEF Finalizer, NoFinalizer
  <2>3. finalizer' = [finalizer EXCEPT ![p] = IF Staged = {} THEN NoFinalizer ELSE f]
    BY <1>5 DEF Finalize
  <2> HIDE DEF f
  <2>4. \E g : GoesTo(p, g)
    <3>1. CASE Staged = {}
      BY <1>2, <2>3, <3>1 DEF GoesTo, Working
    <3>2. CASE Staged # {}
      BY <2>1, <2>2, <2>3, <3>2 DEF GoesTo, Working
    <3>3. QED
      BY <3>1, <3>2
  <2>5. QED
    BY <1>1, <1>5, <2>4 DEF Finalize, FinalizerOnly, skillVars
<1>6. CASE ReadSha(p)
  <2>1. finalizer' = [finalizer EXCEPT ![p].stage = "verdict", ![p].sha = skill, ![p].status = finalizer[p].status]
    BY <1>1, <1>6 DEF ReadSha, Finalizer
  <2>2. finalizer[p].stage \in Working /\ finalizer[p].status \in {"staged", "learnt", "dismissed"}
    BY <1>1, <1>6 DEF ReadSha, Working, Finalizer
  <2>3. \E f : GoesTo(p, f)
    BY <1>1, <2>1, <2>2, StageGoes
  <2>4. QED
    BY <1>1, <1>6, <2>3 DEF ReadSha, FinalizerOnly, skillVars
<1>7. CASE Verdict(p)
  <2>1. finalizer[p].stage \in Working /\ finalizer[p].sha \in File
    BY <1>1, <1>7 DEF Verdict, Working, Finalizer
  <2>2. \/ Done(p)
        \/ \E to \in {"archive", "save"}, status \in {"learnt", "dismissed"} :
             finalizer' = [finalizer EXCEPT ![p].stage = to, ![p].status = status]
    BY <1>7 DEF Verdict
  <2>3. ASSUME NEW to \in {"archive", "save"}, NEW status \in {"learnt", "dismissed"},
               finalizer' = [finalizer EXCEPT ![p].stage = to, ![p].status = status]
        PROVE  \E f : GoesTo(p, f)
    <3>1. finalizer' = [finalizer EXCEPT ![p].stage = to, ![p].sha = finalizer[p].sha, ![p].status = status]
      BY <1>1, <2>3 DEF Finalizer
    <3>2. QED
      BY <2>1, <3>1, StageGoes
  <2>4. \E f : GoesTo(p, f)
    BY <2>1, <2>2, <2>3, DoneGoes
  <2>5. QED
    BY <1>1, <1>7, <2>4 DEF Verdict, FinalizerOnly, skillVars
<1>8. CASE SaveVerdict(p)
  <2>1. finalizer[p].stage \in Working /\ finalizer[p].status \in {"staged", "learnt", "dismissed"} /\ Done(p)
    BY <1>1, <1>8 DEF SaveVerdict, Working, Finalizer
  <2>2. runs' = [runs EXCEPT ![Current(p)].status = finalizer[p].status]
    BY <1>8 DEF SaveVerdict
  <2>3. runs' \in Seq(Run) /\ DOMAIN runs' = DOMAIN runs
    <3> DEFINE c == Current(p)
               r == [runs[c] EXCEPT !.status = finalizer[p].status]
    <3>1. c \in DOMAIN runs /\ runs[c] \in Run
      BY <1>1, <2>1, CurrentIsTodo
    <3>2. r \in Run /\ runs' = [runs EXCEPT ![c] = r]
      BY <2>1, <2>2, <3>1 DEF Run
    <3> HIDE DEF c, r
    <3>3. QED
      BY <1>1, <3>1, <3>2
  <2>4. QED
    BY <1>1, <1>8, <2>1, <2>3, DoneGoes DEF SaveVerdict, FinalizerOnly, skillVars
<1>9. CASE ArchiveAppends(p) /\ Archived(p) = {}
  <2>1. finalizer[p].stage \in Working /\ finalizer[p].status \in {"staged", "learnt", "dismissed"}
        /\ finalizer[p].sha \in File
    BY <1>1, <1>9 DEF ArchiveAppends, Working, Finalizer
  <2>2. finalizer' = [finalizer EXCEPT ![p].stage = "save", ![p].sha = finalizer[p].sha, ![p].status = finalizer[p].status]
    BY <1>1, <1>9 DEF ArchiveAppends, Goes, Finalizer
  <2>3. \E f : GoesTo(p, f)
    BY <2>1, <2>2, StageGoes
  <2>4. QED
    BY <1>1, <1>9, <2>3 DEF ArchiveAppends, FinalizerOnly, skillVars, journalVars
<1>10. QED
  BY <1>3, <1>4, <1>5, <1>6, <1>7, <1>8, <1>9

LEMMA FinalizerStepsInv ==
  ASSUME JournalInv, NEW p \in Process,
         \/ HermesDecides(p) \/ HermesFails(p) \/ Finalize(p) \/ ReadSha(p) \/ Verdict(p)
         \/ SaveVerdict(p) \/ (ArchiveAppends(p) /\ Archived(p) = {})
  PROVE  JournalInv'
<1>1. PICK f : GoesTo(p, f)
  BY FinalizerSteps
<1>2. QED
  BY <1>1, FinalizerSteps, FinalizerGoes DEF GoesTo

(* The first write of archive takes the lock; what it archives is in a run's archive. *)
LEMMA ArchiveAppendsInv ==
  ASSUME JournalInv, NEW p \in Process, ArchiveAppends(p), Archived(p) # {}
  PROVE  JournalInv'
<1> DEFINE f == [finalizer[p] EXCEPT !.stage = "replace", !.remaining = unlearnt \ Archived(p)]
           lines == {[run |-> Current(p), record |-> r] : r \in Archived(p)}
<1>1. /\ finalizer[p].stage = "archive" /\ flock = Free /\ flock' = p /\ learnt' = learnt \cup lines
      /\ finalizer' = [finalizer EXCEPT ![p].stage = "replace", ![p].remaining = unlearnt \ Archived(p)]
      /\ UNCHANGED <<unlearnt, written, skillVars, runs, captureVars, learner, crashes>>
  BY DEF ArchiveAppends, FinalizerOnly
<1>2. /\ finalizer \in [Process -> Finalizer] /\ finalizer[p] \in Finalizer
      /\ unlearnt \ Archived(p) \in SUBSET Record /\ Archived(p) \subseteq unlearnt /\ unlearnt \subseteq Record
  BY DEF JournalInv, TypeOK, Archived
<1>3. f \in Finalizer /\ f.stage = "replace" /\ f.todo = finalizer[p].todo /\ f.remaining = unlearnt \ Archived(p)
  BY <1>2 DEF Finalizer
<1>4. finalizer' = [finalizer EXCEPT ![p] = f]
  BY <1>1, <1>2
<1> HIDE DEF f
<1>5. Current(p) \in Nat /\ finalizer[p].todo # {}
  BY <1>1, CurrentIsTodo DEF Working, JournalInv, Busy
<1>6. lines \subseteq [run : Nat, record : Record]
  BY <1>2, <1>5
<1>7. ASSUME NEW r \in Archived(p) PROVE \E line \in lines : line.record = r
  <2>1. [run |-> Current(p), record |-> r] \in lines
    OBVIOUS
  <2>2. QED
    BY <2>1
<1> HIDE DEF lines
<1>8. Archived(p) \cup InArchive \subseteq InArchive'
  BY <1>1, <1>7 DEF InArchive
<1>9. TypeOK'
  <2>1. finalizer' \in [Process -> Finalizer] /\ \A q \in Process : finalizer'[q].todo \subseteq DOMAIN runs
    BY <1>2, <1>3, <1>4 DEF JournalInv, TypeOK
  <2>2. learnt' \subseteq [run : Nat, record : Record]
    BY <1>1, <1>6 DEF JournalInv, TypeOK
  <2>3. QED
    BY <1>1, <2>1, <2>2 DEF JournalInv, TypeOK, skillVars, captureVars
<1>10. Busy'
  BY <1>1, <1>2, <1>3, <1>4, <1>5 DEF JournalInv, Busy
<1>11. Archiving'
  <2>1. \A q \in Process : finalizer[q].stage # "replace"
    BY <1>1, LearningAssumption DEF JournalInv, Archiving, Process, Server, Free
  <2>2. \A q \in Process : finalizer'[q].stage = "replace" => q = p
    BY <1>2, <1>4, <2>1
  <2>3. finalizer'[p] = f
    BY <1>2, <1>4
  <2>4. unlearnt' \subseteq f.remaining \cup InArchive'
    BY <1>1, <1>3, <1>8
  <2>5. QED
    BY <1>1, <2>2, <2>3, <2>4 DEF Archiving
<1>12. NothingLost'
  BY <1>1, <1>8 DEF JournalInv, NothingLost, InArchive
<1>13. QED
  BY <1>9, <1>10, <1>11, <1>12 DEF JournalInv

LEMMA ArchiveReplacesInv == ASSUME JournalInv, NEW p \in Process, ArchiveReplaces(p) PROVE JournalInv'
<1> DEFINE f == [finalizer[p] EXCEPT !.stage = "save"]
<1>1. /\ finalizer[p].stage = "replace" /\ flock' = Free /\ unlearnt' = finalizer[p].remaining
      /\ finalizer' = [finalizer EXCEPT ![p].stage = "save"]
      /\ UNCHANGED <<learnt, written, skillVars, runs, captureVars, learner, crashes>>
  BY DEF ArchiveReplaces, Goes, FinalizerOnly
<1>2. finalizer \in [Process -> Finalizer] /\ finalizer[p] \in Finalizer /\ finalizer[p].todo # {}
  BY <1>1 DEF JournalInv, TypeOK, Busy, Working
<1>3. f \in Finalizer /\ f.stage = "save" /\ f.todo = finalizer[p].todo
  BY <1>2 DEF Finalizer
<1>4. finalizer' = [finalizer EXCEPT ![p] = f]
  BY <1>1, <1>2
<1> HIDE DEF f
<1>5. finalizer[p].remaining \subseteq Record
  BY <1>2 DEF Finalizer
<1>6. TypeOK'
  <2>1. finalizer' \in [Process -> Finalizer] /\ \A q \in Process : finalizer'[q].todo \subseteq DOMAIN runs
    BY <1>2, <1>3, <1>4 DEF JournalInv, TypeOK
  <2>2. QED
    BY <1>1, <1>5, <2>1 DEF JournalInv, TypeOK, skillVars, captureVars
<1>7. Busy'
  BY <1>1, <1>2, <1>3, <1>4 DEF JournalInv, Busy
<1>8. Archiving'
  <2>1. \A q \in Process : finalizer[q].stage = "replace" => q = p
    BY <1>1 DEF JournalInv, Archiving
  <2>2. \A q \in Process : finalizer'[q].stage # "replace"
    BY <1>2, <1>3, <1>4, <2>1
  <2>3. QED
    BY <2>2 DEF Archiving
<1>9. NothingLost'
  <2>1. unlearnt \subseteq finalizer[p].remaining \cup InArchive
    BY <1>1 DEF JournalInv, Archiving
  <2>2. QED
    BY <1>1, <2>1 DEF JournalInv, NothingLost, InArchive
<1>10. QED
  BY <1>6, <1>7, <1>8, <1>9 DEF JournalInv

LEMMA CrashInv == ASSUME JournalInv, NEW p \in Process, Crash(p) PROVE JournalInv'
<1>1. /\ crashes' = crashes + 1 /\ learner' = [learner EXCEPT ![p] = NoLearner]
      /\ finalizer' = [finalizer EXCEPT ![p] = NoFinalizer]
      /\ flock' = IF flock = p THEN Free ELSE flock
      /\ recording' \subseteq recording /\ silent' \in {silent, NotLooking}
      /\ UNCHANGED <<window, proposal, unlearnt, learnt, written, skillVars, runs>>
  BY DEF Crash
<1>2. NoLearner \in Learner /\ NoLearner.stage = "idle"
  BY LearningAssumption DEF NoLearner, Learner
<1>3. NoFinalizer \in Finalizer /\ NoFinalizer.stage = "idle" /\ NoFinalizer.todo = {}
  BY NoFinalizerType DEF NoFinalizer
<1>4. TypeOK'
  <2>1. finalizer' \in [Process -> Finalizer] /\ \A q \in Process : finalizer'[q].todo \subseteq DOMAIN runs
    BY <1>1, <1>3 DEF JournalInv, TypeOK
  <2>2. learner' \in [Process -> Learner] /\ flock' \in Process \cup {Free} /\ crashes' \in Nat
    BY <1>1, <1>2 DEF JournalInv, TypeOK
  <2>3. recording' \subseteq Record /\ silent' \in Silence \cup {NotLooking}
    BY <1>1 DEF JournalInv, TypeOK
  <2>4. QED
    BY <1>1, <2>1, <2>2, <2>3 DEF JournalInv, TypeOK, skillVars
<1>5. Busy'
  BY <1>1, <1>2, <1>3 DEF JournalInv, TypeOK, Busy, Working
<1>6. Archiving' /\ NothingLost'
  BY <1>1, <1>3 DEF JournalInv, TypeOK, Archiving, NothingLost, InArchive
<1>7. QED
  BY <1>4, <1>5, <1>6 DEF JournalInv

LEMMA JournalInit == Init => JournalInv
<1> SUFFICES ASSUME Init PROVE JournalInv
  OBVIOUS
<1>1. NoLearner \in Learner /\ NoLearner.stage = "idle"
  BY LearningAssumption DEF NoLearner, Learner
<1>2. NoFinalizer \in Finalizer /\ NoFinalizer.stage = "idle" /\ NoFinalizer.todo = {}
  BY NoFinalizerType DEF NoFinalizer
<1>3. runs \in Seq(Run) /\ writes \in Seq(Content) /\ Len(writes) = 0
  BY DEF Init
<1>4. learner \in [Process -> Learner] /\ finalizer \in [Process -> Finalizer]
  BY <1>1, <1>2 DEF Init
<1>5. TypeOK
  BY <1>2, <1>3, <1>4, LearningAssumption DEF Init, TypeOK, File
<1>6. Busy /\ Archiving /\ NothingLost
  BY <1>1, <1>2 DEF Init, Busy, Archiving, NothingLost, Working
<1>7. QED
  BY <1>5, <1>6 DEF JournalInv

LEMMA JournalStep == JournalInv /\ [Next]_vars => JournalInv'
<1> SUFFICES ASSUME JournalInv, [Next]_vars PROVE JournalInv'
  OBVIOUS
<1>1. CASE CaptureStep
  BY <1>1, CaptureInv
<1>2. ASSUME NEW w \in pending, Interactive(w) PROVE JournalInv'
  BY <1>2, InteractiveInv
<1>3. ASSUME NEW p \in Process, LearnerStep(p) \/ Crash(p) PROVE JournalInv'
  BY <1>3, LearnerInv, CrashInv
<1>4. ASSUME NEW p \in Process, FinalizerStep(p) PROVE JournalInv'
  BY <1>4, FinalizerStepsInv, ArchiveAppendsInv, ArchiveReplacesInv DEF FinalizerStep
<1>5. ASSUME NEW p \in Process, NEW w \in pending, NEW approve \in BOOLEAN, Decide(p, w, approve)
      PROVE  JournalInv'
  BY <1>5, DecideInv
<1>6. CASE UNCHANGED vars
  BY <1>6 DEF vars, captureVars, journalVars, skillVars, JournalInv, TypeOK, Busy, Archiving, NothingLost, InArchive
<1>7. CASE ByHand
  BY <1>7, ByHandInv
<1>8. QED
  BY <1>1, <1>2, <1>3, <1>4, <1>5, <1>6, <1>7 DEF Next, ByHand

LEMMA AlwaysJournal == Spec => []JournalInv
BY JournalInit, JournalStep, PTL DEF Spec

(* TypeOK: no step works with a record, a run or a write that is not there. *)
THEOREM LearningTypeCorrect == Spec => []TypeOK
<1>1. JournalInv => TypeOK
  BY DEF JournalInv
<1>2. QED
  BY AlwaysJournal, <1>1, PTL

(* NothingLost: no journaled record is ever lost, with any number of command lines that  *)
(* learn and finalize beside the server, and crashes between the two writes of archive   *)
(* (Journal.append, Journal.archive, finalize).                                          *)
THEOREM NoRecordIsLost == Spec => []NothingLost
<1>1. JournalInv => NothingLost
  BY DEF JournalInv
<1>2. QED
  BY AlwaysJournal, <1>1, PTL

-----------------------------------------------------------------------------
(***************************************************************************)
(* Learning by the server alone, without command-line processes: at most   *)
(* one run is staged (Solo), and what a learnt run was made of is in its   *)
(* archive and waits no more.  For the second, the invariant follows a     *)
(* chat message or a decision from its request (Once) to the journal and   *)
(* the batch (Journaled, Waiting), and through the two writes of the       *)
(* archive of the one run that has it (Stored).                            *)
(***************************************************************************)

L == learner[Server]
F == finalizer[Server]

(* One run at a time: no run is staged while one is learnt, and the finalizer works on  *)
(* the staged one.                                                                      *)
Solo ==
  /\ \A i, j \in Staged : i = j
  /\ L.stage # "idle" => Staged = {}
  /\ F.stage \in Working => F.todo \subseteq Staged
  /\ F.stage \in {"archive", "replace"} => F.status = "learnt"
  /\ F.stage = "save" => F.status # "staged"

(* A chat message or a decision is recorded once. *)
Decided(r) == proposal[r.event] \notin {"absent", "pending"}
Once ==
  /\ \A r \in recording : r \in Fresh => r \notin written
  /\ \A r \in recording \cup written : window[r.event] # "absent"
  /\ \A r \in recording \cup written : r.kind = "decision" => Decided(r)
  /\ silent.stage # "idle" => window[silent.event] # "absent"

Journaled ==
  /\ unlearnt \subseteq written /\ L.batch \subseteq written
  /\ \A i \in DOMAIN runs : runs[i].records \subseteq written
  /\ F.stage = "replace" => F.remaining \subseteq unlearnt

Put(i, r) == [run |-> i, record |-> r] \in learnt

(* What a run is to learn from waits or is in its archive. *)
Waiting ==
  /\ \A i \in Staged : \A r \in runs[i].records \cap Fresh : r \in unlearnt \/ Put(i, r)
  /\ L.stage \in {"learn", "save"} => L.batch \cap Fresh \subseteq unlearnt

(* What was archived is in the run's archive, and goes from the journal. *)
Stored ==
  /\ F.stage = "replace" =>
       \A r \in runs[Current(Server)].records \cap Fresh : r \notin F.remaining /\ Put(Current(Server), r)
  /\ F.stage = "save" /\ F.status = "learnt" =>
       \A r \in runs[Current(Server)].records \cap Fresh : r \notin unlearnt /\ Put(Current(Server), r)

ServerInv == JournalInv /\ Solo /\ Once /\ Journaled /\ Waiting /\ Stored /\ LearntIsArchived

Alone == Cli = {}

LEMMA OnlyServer == Alone => Process = {Server}
BY DEF Alone, Process

(* The run that a finalizer works on is the staged one. *)
LEMMA CurrentIsStaged ==
  ASSUME JournalInv, Solo, F.stage \in Working
  PROVE  /\ Current(Server) \in Staged /\ Current(Server) \in DOMAIN runs
         /\ F.todo = {Current(Server)} /\ Staged = {Current(Server)} /\ L.stage = "idle"
<1>1. Server \in Process
  BY DEF Process
<1>2. Current(Server) \in F.todo /\ Current(Server) \in DOMAIN runs
  BY <1>1, CurrentIsTodo DEF F
<1>3. QED
  BY <1>2 DEF Solo

-----------------------------------------------------------------------------
(* Captured records: a new chat message or decision was not journaled before. *)
LEMMA CaptureOnce == ASSUME JournalInv, Once, CaptureStep PROVE Once'
<1>1. /\ window \in Windows /\ proposal \in Statuses /\ recording \subseteq Record /\ written \subseteq Record
      /\ silent \in Silence \cup {NotLooking}
  BY DEF JournalInv, TypeOK, Windows, Statuses
<1> USE DEF Once, Decided
<1>2. ASSUME NEW e \in Event, EventArrives(e) PROVE Once'
  <2>1. /\ window[e] = "absent" /\ window' = [window EXCEPT ![e] = "linked"]
        /\ UNCHANGED <<recording, silent, written>> /\ \E s : proposal' = [proposal EXCEPT ![e] = s]
    BY <1>2 DEF EventArrives, journalVars
  <2>2. \A r \in recording \cup written : r.event # e /\ r.event \in Event
    BY <1>1, <2>1 DEF Record
  <2>3. \A r \in recording \cup written : window'[r.event] = window[r.event] /\ proposal'[r.event] = proposal[r.event]
    BY <1>1, <2>1, <2>2 DEF Windows, Statuses
  <2>4. silent'.stage # "idle" => window'[silent'.event] # "absent"
    BY <1>1, <2>1 DEF Windows, Silence, NotLooking
  <2>5. QED
    BY <2>1, <2>3, <2>4
<1>3. ASSUME NEW e \in Event, WindowPasses(e) PROVE Once'
  BY <1>1, <1>3 DEF WindowPasses, journalVars, Windows
<1>4. ASSUME NEW e \in Event, ChatAsks(e) PROVE Once'
  BY <1>1, <1>4 DEF ChatAsks, Responds, journalVars
<1>5. ASSUME NEW e \in Event, ChatFails(e) PROVE Once'
  BY <1>5 DEF ChatFails, journalVars
<1>6. ASSUME NEW e \in Event, Decides(e, "executing") \/ Decides(e, "rejected") PROVE Once'
  <2> DEFINE d == [event |-> e, kind |-> "decision"]
  <2>1. PICK s \in {"executing", "rejected"} : proposal' = [proposal EXCEPT ![e] = s]
    BY <1>6 DEF Decides
  <2>2. /\ proposal[e] = "pending" /\ window[e] # "absent" /\ recording' = recording \cup {d}
        /\ UNCHANGED <<window, silent, written>>
    BY <1>6 DEF Decides, Responds, journalVars
  <2>3. d \notin written
    BY <2>2
  <2>4. \A r \in recording \cup written : Decided(r) => Decided(r)'
    BY <1>1, <2>1 DEF Record, Statuses
  <2>5. proposal'[e] = s
    BY <1>1, <2>1 DEF Statuses
  <2>6. QED
    BY <2>2, <2>3, <2>4, <2>5
<1>7. ASSUME NEW e \in Event, Executed(e, "executed") \/ Executed(e, "failed") PROVE Once'
  <2>1. PICK s \in {"executed", "failed"} : proposal' = [proposal EXCEPT ![e] = s]
    BY <1>7 DEF Executed
  <2>2. UNCHANGED <<window, recording, silent, written>>
    BY <1>7 DEF Executed, journalVars
  <2>3. \A r \in recording \cup written : Decided(r) => Decided(r)'
    BY <1>1, <2>1 DEF Record, Statuses
  <2>4. QED
    BY <2>2, <2>3
<1>8. ASSUME NEW e \in Event, ServiceReports(e) PROVE Once'
  <2> DEFINE s == [event |-> e, kind |-> "service"]
  <2>1. /\ window[e] # "absent" /\ written' = written \cup {s} /\ UNCHANGED <<window, proposal, recording, silent>>
    BY <1>8 DEF ServiceReports, Append1
  <2>2. s \notin Fresh
    BY DEF Fresh
  <2>3. QED
    BY <2>1, <2>2
<1>9. ASSUME NEW r \in recording, RecordResponse(r) PROVE Once'
  <2>1. recording' = recording \ {r} /\ written' = written \cup {r} /\ UNCHANGED <<window, proposal, silent>>
    BY <1>9 DEF RecordResponse, Append1
  <2>2. QED
    BY <2>1
<1>10. ASSUME NEW e \in Event, SilentLooks(e) PROVE Once'
  BY <1>10 DEF SilentLooks, journalVars
<1>11. CASE SilentChecksProposal
  BY <1>11 DEF SilentChecksProposal, journalVars, NotLooking
<1>12. CASE SilentAppends
  <2> DEFINE n == [event |-> silent.event, kind |-> "none"]
  <2>1. /\ written' = written \cup {n} /\ silent' = NotLooking /\ UNCHANGED <<window, proposal, recording>>
        /\ window[silent.event] # "absent"
    BY <1>12 DEF SilentAppends, Append1
  <2>2. n \notin Fresh
    BY DEF Fresh
  <2>3. QED
    BY <2>1, <2>2 DEF NotLooking
<1>13. QED
  BY <1>2, <1>3, <1>4, <1>5, <1>6, <1>7, <1>8, <1>9, <1>10, <1>11, <1>12 DEF CaptureStep

Archives == Solo /\ Journaled /\ Waiting /\ Stored /\ LearntIsArchived

(* What is recorded is new to every run, so it neither waits for one nor was learnt. *)
LEMMA CaptureArchives == ASSUME ServerInv, CaptureStep PROVE Archives'
<1>1. JournalInv /\ TypeOK /\ Solo /\ Once /\ Journaled /\ Waiting /\ Stored /\ LearntIsArchived
  BY DEF ServerInv, JournalInv
<1>2. UNCHANGED <<runs, learner, finalizer, learnt>>
  BY <1>1, CaptureEffect
<1> DEFINE Records(N) ==
             /\ unlearnt' = unlearnt \cup N /\ written' = written \cup N
             /\ \A r \in N : r \in Fresh => r \notin written
<1>3. PICK new : Records(new)
  <2>1. ASSUME UNCHANGED <<unlearnt, written>> PROVE Records({})
    BY <2>1
  <2>2. ASSUME NEW r \in Record, Appended(r), r \in Fresh => r \in recording PROVE Records({r})
    BY <1>1, <2>2 DEF Appended, Once
  <2> HIDE DEF Records
  <2>3. QED
    BY <1>1, <2>1, <2>2, CaptureEffect
<1>4. Current(Server)' = Current(Server) /\ L' = L /\ F' = F /\ Staged' = Staged
  BY <1>2 DEF Current, L, F, Staged
<1>5. Solo'
  BY <1>1, <1>4 DEF Solo
<1>6. Journaled'
  BY <1>1, <1>2, <1>3, <1>4 DEF Journaled
<1>7. Waiting'
  BY <1>1, <1>2, <1>3, <1>4 DEF Waiting, Put
<1>8. Stored'
  <2>1. F.stage \in Working => Current(Server) \in DOMAIN runs
    BY <1>1, CurrentIsStaged
  <2>2. F.stage = "save" => runs[Current(Server)].records \subseteq written
    BY <1>1, <2>1 DEF Journaled, Working
  <2>3. QED
    BY <1>1, <1>2, <1>3, <1>4, <2>2 DEF Stored, Put
<1>9. LearntIsArchived'
  BY <1>1, <1>2, <1>3 DEF LearntIsArchived, Journaled
<1>10. QED
  BY <1>5, <1>6, <1>7, <1>8, <1>9 DEF Archives

-----------------------------------------------------------------------------
(* Learning: while it goes on no run is staged, hence nothing is archived. *)
LEMMA LearnerMoves ==
  ASSUME ServerInv, NEW l, L' = l, l.stage # "idle" => Staged = {}, l.batch \subseteq written,
         l.stage \in {"learn", "save"} => l.batch \cap Fresh \subseteq unlearnt,
         UNCHANGED <<captureVars, journalVars, finalizer, runs>>
  PROVE  Archives'
<1>1. Solo /\ Journaled /\ Waiting /\ Stored /\ LearntIsArchived
  BY DEF ServerInv
<1>2. /\ Current(Server)' = Current(Server) /\ F' = F /\ Staged' = Staged
      /\ UNCHANGED <<unlearnt, learnt, written, runs>>
  BY DEF Current, F, Staged, journalVars
<1>3. Solo' /\ Journaled'
  BY <1>1, <1>2 DEF Solo, Journaled
<1>4. Waiting' /\ Stored' /\ LearntIsArchived'
  BY <1>1, <1>2 DEF Waiting, Stored, LearntIsArchived, Put
<1>5. QED
  BY <1>3, <1>4 DEF Archives

LEMMA SaveRunArchives == ASSUME ServerInv, SaveRun(Server) PROVE Archives'
<1> DEFINE n == Len(runs) + 1
           new == [status |-> "staged", records |-> L.batch, before |-> skill, write |-> L.write]
<1>1. JournalInv /\ TypeOK /\ Solo /\ Journaled /\ Waiting /\ Stored /\ LearntIsArchived /\ Server \in Process
  BY DEF ServerInv, JournalInv, Process
<1>2. /\ runs' = Append(runs, new) /\ learner' = [learner EXCEPT ![Server] = NoLearner]
      /\ UNCHANGED <<unlearnt, learnt, written, finalizer>> /\ L.stage = "save"
  BY DEF SaveRun, LearnerOnly, journalVars, L
<1>3. /\ DOMAIN runs' = DOMAIN runs \cup {n} /\ n \notin DOMAIN runs /\ runs'[n] = new
      /\ \A i \in DOMAIN runs : runs'[i] = runs[i]
  <2>1. runs \in Seq(Run)
    BY <1>1 DEF TypeOK
  <2> HIDE DEF new
  <2>2. QED
    BY <1>2, <2>1
<1>4. Staged = {} /\ F.stage \notin Working
  BY <1>1, <1>2 DEF Solo, JournalInv, Busy, F
<1>5. Staged' = {n}
  <2>1. \A i \in DOMAIN runs : runs[i].status # "staged"
    BY <1>4 DEF Staged
  <2>2. new.status = "staged"
    OBVIOUS
  <2> HIDE DEF n, new
  <2>3. QED
    BY <1>3, <2>1, <2>2 DEF Staged
<1>6. L'.stage = "idle" /\ L'.batch = {} /\ F' = F
  BY <1>1, <1>2 DEF L, F, NoLearner, TypeOK
<1>7. new.records = L.batch /\ new.status = "staged"
  OBVIOUS
<1> HIDE DEF n, new
<1>8. Solo'
  BY <1>1, <1>4, <1>5, <1>6 DEF Solo, Working
<1>9. Journaled'
  BY <1>1, <1>2, <1>3, <1>4, <1>6, <1>7 DEF Journaled, Working
<1>10. Waiting' /\ Stored'
  BY <1>1, <1>2, <1>3, <1>4, <1>5, <1>6, <1>7 DEF Waiting, Stored, Working
<1>11. LearntIsArchived'
  BY <1>1, <1>2, <1>3, <1>7 DEF LearntIsArchived
<1>12. QED
  BY <1>8, <1>9, <1>10, <1>11 DEF Archives

LEMMA LearnerArchives == ASSUME ServerInv, LearnerStep(Server) PROVE Archives'
<1>1. /\ JournalInv /\ TypeOK /\ Solo /\ Journaled /\ Waiting /\ Server \in Process
      /\ learner \in [Process -> Learner]
  BY DEF ServerInv, JournalInv, TypeOK, Process
<1>2. NoLearner.stage = "idle" /\ NoLearner.batch = {}
  BY DEF NoLearner
<1>3. CASE CheckStaged(Server)
  <2>1. /\ L' = [L EXCEPT !.stage = "read"] /\ Staged = {}
        /\ UNCHANGED <<captureVars, journalVars, finalizer, runs>>
    BY <1>1, <1>3 DEF CheckStaged, LearnerGoes, LearnerOnly, L
  <2>2. L'.stage = "read" /\ L'.batch = L.batch
    BY <1>1, <2>1 DEF Learner, L
  <2>3. QED
    BY <1>1, <2>1, <2>2, LearnerMoves DEF Journaled
<1>4. CASE ReadBatch(Server)
  <2>1. /\ L' = IF Cardinality(Responses(unlearnt)) < MinRecords THEN NoLearner
                ELSE [L EXCEPT !.stage = "learn", !.batch = unlearnt]
        /\ L.stage = "read" /\ Staged = {} /\ unlearnt \subseteq written
        /\ UNCHANGED <<captureVars, journalVars, finalizer, runs>>
    BY <1>1, <1>4 DEF ReadBatch, LearnerOnly, L, Solo, Journaled
  <2>2. L' = NoLearner \/ (L'.stage = "learn" /\ L'.batch = unlearnt)
    BY <1>1, <2>1 DEF Learner, L
  <2>3. QED
    BY <1>2, <2>1, <2>2, LearnerMoves
<1>5. CASE LearnFails(Server)
  <2>1. L' = NoLearner /\ UNCHANGED <<captureVars, journalVars, finalizer, runs>>
    BY <1>1, <1>5 DEF LearnFails, LearnerOnly, L
  <2>2. QED
    BY <1>2, <2>1, LearnerMoves
<1>6. CASE Stage(Server)
  <2>1. /\ L' = [L EXCEPT !.stage = "save", !.write = Len(writes')] /\ L.stage = "learn"
        /\ UNCHANGED <<captureVars, journalVars, finalizer, runs>>
    BY <1>1, <1>6 DEF Stage, LearnerOnly, L
  <2>2. L'.stage = "save" /\ L'.batch = L.batch
    BY <1>1, <2>1 DEF Learner, L
  <2>3. QED
    BY <1>1, <2>1, <2>2, LearnerMoves DEF Journaled, Waiting, Solo
<1>7. CASE SaveRun(Server)
  BY <1>7, SaveRunArchives
<1>8. QED
  BY <1>3, <1>4, <1>5, <1>6, <1>7 DEF LearnerStep

-----------------------------------------------------------------------------
(* The fresh records of a run are archived: they are in its archive only. *)
Settled(i) == \A r \in runs[i].records \cap Fresh : r \notin unlearnt /\ Put(i, r)

(* A finalizer moves on without a write. *)
LEMMA FinalizerMoves ==
  ASSUME ServerInv, NEW f, F' = f, f.stage # "replace",
         f.stage \in Working => f.todo \subseteq Staged,
         f.stage = "archive" => f.status = "learnt",
         f.stage = "save" => f.todo = F.todo /\ f.status # "staged",
         f.stage = "save" /\ f.status = "learnt" => Settled(Current(Server)),
         UNCHANGED <<captureVars, journalVars, learner, runs>>
  PROVE  Archives'
<1>1. Solo /\ Journaled /\ Waiting /\ LearntIsArchived
  BY DEF ServerInv
<1>2. /\ L' = L /\ Staged' = Staged /\ UNCHANGED <<unlearnt, learnt, written, runs>>
  BY DEF L, Staged, journalVars
<1>3. f.stage = "save" => Current(Server)' = Current(Server)
  BY DEF Current, F
<1>4. Solo' /\ Journaled'
  BY <1>1, <1>2 DEF Solo, Journaled
<1>5. Waiting' /\ Stored' /\ LearntIsArchived'
  BY <1>1, <1>2, <1>3 DEF Waiting, Stored, LearntIsArchived, Put, Settled
<1>6. QED
  BY <1>4, <1>5 DEF Archives

(* With one staged run, its verdict is the last of finalize. *)
LEMMA DoneEnds ==
  ASSUME JournalInv, Solo, F.stage \in Working, Done(Server)
  PROVE  F' = NoFinalizer
<1>1. finalizer[Server].todo = {Current(Server)}
  BY CurrentIsStaged DEF F
<1>2. finalizer' = [finalizer EXCEPT ![Server] = NoFinalizer]
  BY <1>1 DEF Done
<1>3. QED
  BY <1>2 DEF F, JournalInv, TypeOK, Process

LEMMA QuietArchives ==
  ASSUME ServerInv,
         \/ HermesDecides(Server) \/ HermesFails(Server) \/ Finalize(Server) \/ ReadSha(Server)
         \/ \E w \in pending, approve \in BOOLEAN : Decide(Server, w, approve)
  PROVE  Archives'
<1>1. /\ JournalInv /\ Solo /\ Server \in Process /\ finalizer \in [Process -> Finalizer] /\ F \in Finalizer
  BY DEF ServerInv, JournalInv, TypeOK, Process, F
<1>2. NoFinalizer \in Finalizer /\ NoFinalizer.stage = "idle"
  BY NoFinalizerType
<1>3. UNCHANGED <<captureVars, journalVars, learner, runs>>
  BY DEF HermesDecides, HermesFails, Finalize, ReadSha, Decide, FinalizerOnly
<1>4. CASE HermesDecides(Server)
  <2>1. F' = [NoFinalizer EXCEPT !.stage = "snapshot"]
    BY <1>1, <1>4 DEF HermesDecides, F
  <2>2. F'.stage = "snapshot"
    BY <1>2, <2>1 DEF Finalizer
  <2>3. QED
    BY <1>3, <2>2, FinalizerMoves DEF Working
<1>5. CASE HermesFails(Server)
  <2>1. F'.stage = "idle"
    BY <1>1, <1>2, <1>5 DEF HermesFails, F
  <2>2. QED
    BY <1>3, <2>1, FinalizerMoves DEF Working
<1>6. CASE Finalize(Server)
  <2> DEFINE f == [NoFinalizer EXCEPT !.stage = "next", !.todo = Staged]
  <2>1. f.stage = "next" /\ f.todo = Staged
    BY DEF NoFinalizer
  <2>2. F' = IF Staged = {} THEN NoFinalizer ELSE f
    BY <1>1, <1>6 DEF Finalize, F
  <2> HIDE DEF f
  <2>3. F'.stage = "idle" \/ (F'.stage = "next" /\ F'.todo = Staged)
    BY <1>2, <2>1, <2>2
  <2>4. QED
    BY <1>3, <2>3, FinalizerMoves DEF Working
<1>7. CASE ReadSha(Server)
  <2>1. F' = [F EXCEPT !.stage = "verdict", !.sha = skill] /\ F.stage = "next"
    BY <1>1, <1>7 DEF ReadSha, F
  <2>2. F'.stage = "verdict" /\ F'.todo = F.todo
    BY <1>1, <2>1 DEF Finalizer
  <2>3. F.todo \subseteq Staged
    BY <1>1, <2>1 DEF Solo, Working
  <2>4. QED
    BY <1>3, <2>2, <2>3, FinalizerMoves
<1>8. ASSUME NEW w \in pending, NEW approve \in BOOLEAN, Decide(Server, w, approve) PROVE Archives'
  <2>1. F' = [F EXCEPT !.stage = "hermes", !.write = w, !.approve = approve]
    BY <1>1, <1>8 DEF Decide, F
  <2>2. F'.stage = "hermes"
    BY <1>1, <2>1 DEF Finalizer
  <2>3. QED
    BY <1>3, <2>2, FinalizerMoves DEF Working
<1>9. QED
  BY <1>4, <1>5, <1>6, <1>7, <1>8

LEMMA VerdictArchives == ASSUME ServerInv, Verdict(Server) PROVE Archives'
<1>1. /\ JournalInv /\ Solo /\ Server \in Process /\ finalizer \in [Process -> Finalizer] /\ F \in Finalizer
      /\ F.stage = "verdict" /\ F.stage \in Working /\ F.todo \subseteq Staged
  BY DEF ServerInv, JournalInv, TypeOK, Process, F, Verdict, Solo, Working
<1>2. UNCHANGED <<captureVars, journalVars, learner, runs>>
  BY DEF Verdict, FinalizerOnly
<1>3. \/ Done(Server)
      \/ F' = [F EXCEPT !.stage = "archive", !.status = "learnt"]
      \/ F' = [F EXCEPT !.stage = "save", !.status = "dismissed"]
  BY <1>1 DEF Verdict, F
<1>4. CASE Done(Server)
  <2>1. F' = NoFinalizer /\ NoFinalizer.stage = "idle"
    BY <1>1, <1>4, DoneEnds, NoFinalizerType
  <2>2. QED
    BY <1>2, <2>1, FinalizerMoves DEF Working
<1>5. CASE F' = [F EXCEPT !.stage = "archive", !.status = "learnt"]
  <2>1. F'.stage = "archive" /\ F'.status = "learnt" /\ F'.todo = F.todo
    BY <1>1, <1>5 DEF Finalizer
  <2>2. QED
    BY <1>1, <1>2, <2>1, FinalizerMoves
<1>6. CASE F' = [F EXCEPT !.stage = "save", !.status = "dismissed"]
  <2>1. F'.stage = "save" /\ F'.status = "dismissed" /\ F'.todo = F.todo
    BY <1>1, <1>6 DEF Finalizer
  <2>2. QED
    BY <1>1, <1>2, <2>1, FinalizerMoves
<1>7. QED
  BY <1>3, <1>4, <1>5, <1>6

(* The first write: what still waits of the run's records is added to its archive. *)
LEMMA ArchiveAppendsArchives == ASSUME ServerInv, ArchiveAppends(Server) PROVE Archives'
<1> DEFINE c == Current(Server)
<1>1. /\ JournalInv /\ Solo /\ Journaled /\ Waiting /\ LearntIsArchived /\ Server \in Process
      /\ finalizer \in [Process -> Finalizer] /\ F \in Finalizer
      /\ F.stage = "archive" /\ F.stage \in Working /\ F.todo \subseteq Staged /\ F.status = "learnt"
  BY DEF ServerInv, JournalInv, TypeOK, Process, F, ArchiveAppends, Solo, Working
<1>2. c \in Staged /\ Archived(Server) = unlearnt \cap runs[c].records
  BY <1>1, CurrentIsStaged DEF Archived
<1>3. \A r \in runs[c].records \cap Fresh : r \in unlearnt \/ Put(c, r)
  BY <1>1, <1>2 DEF Waiting
<1>4. UNCHANGED <<captureVars, learner, runs, unlearnt, written>>
  BY DEF ArchiveAppends, FinalizerOnly
<1> HIDE DEF c
<1>5. CASE Archived(Server) = {}
  <2>1. F' = [F EXCEPT !.stage = "save"] /\ UNCHANGED journalVars
    BY <1>1, <1>4, <1>5 DEF ArchiveAppends, Goes, F, journalVars
  <2>2. F'.stage = "save" /\ F'.todo = F.todo /\ F'.status = F.status
    BY <1>1, <2>1 DEF Finalizer
  <2>3. Settled(c)
    BY <1>2, <1>3, <1>5 DEF Settled
  <2>4. QED
    BY <1>1, <1>4, <2>1, <2>2, <2>3, FinalizerMoves DEF c
<1>6. CASE Archived(Server) # {}
  <2> DEFINE lines == {[run |-> c, record |-> r] : r \in Archived(Server)}
  <2>1. /\ F' = [F EXCEPT !.stage = "replace", !.remaining = unlearnt \ Archived(Server)]
        /\ learnt' = learnt \cup lines
    BY <1>1, <1>6 DEF ArchiveAppends, F, c
  <2>2. /\ F'.stage = "replace" /\ F'.todo = F.todo /\ F'.status = "learnt"
        /\ F'.remaining = unlearnt \ Archived(Server)
    BY <1>1, <2>1 DEF Finalizer
  <2>3. \A r \in Archived(Server) : Put(c, r)'
    <3>1. \A r \in Archived(Server) : [run |-> c, record |-> r] \in lines
      OBVIOUS
    <3>2. c' = c
      BY <2>2 DEF c, Current, F
    <3> HIDE DEF lines
    <3>3. QED
      BY <2>1, <3>1, <3>2 DEF Put
  <2> HIDE DEF lines
  <2>4. /\ c' = c /\ L' = L /\ Staged' = Staged /\ learnt \subseteq learnt'
        /\ UNCHANGED <<runs, unlearnt, written>>
    BY <1>4, <2>1, <2>2 DEF c, Current, F, L, Staged
  <2>5. \A i, r : Put(i, r) => Put(i, r)'
    BY <2>4 DEF Put
  <2>6. Solo' /\ Journaled'
    BY <1>1, <2>2, <2>4 DEF Solo, Journaled
  <2>7. Waiting'
    BY <1>1, <2>4, <2>5 DEF Waiting
  <2>8. Stored'
    <3>1. \A r \in runs[c].records \cap Fresh : r \notin F'.remaining /\ Put(c, r)'
      BY <1>2, <1>3, <2>2, <2>3, <2>4 DEF Put
    <3>2. QED
      BY <2>2, <2>4, <3>1 DEF Stored, c
  <2>9. LearntIsArchived'
    BY <1>1, <2>4, <2>5 DEF LearntIsArchived, Put
  <2>10. QED
    BY <2>6, <2>7, <2>8, <2>9 DEF Archives
<1>7. QED
  BY <1>5, <1>6

(* The second write: only the run's records go. *)
LEMMA ArchiveReplacesArchives == ASSUME ServerInv, ArchiveReplaces(Server) PROVE Archives'
<1> DEFINE c == Current(Server)
<1>1. /\ JournalInv /\ Solo /\ Journaled /\ Waiting /\ Stored /\ LearntIsArchived /\ Server \in Process
      /\ finalizer \in [Process -> Finalizer] /\ F \in Finalizer
      /\ F.stage = "replace" /\ F.stage \in Working /\ F.todo \subseteq Staged /\ F.status = "learnt"
  BY DEF ServerInv, JournalInv, TypeOK, Process, F, ArchiveReplaces, Goes, Solo, Working
<1>2. /\ F' = [F EXCEPT !.stage = "save"] /\ unlearnt' = F.remaining /\ F.remaining \subseteq unlearnt
      /\ UNCHANGED <<captureVars, learner, runs, learnt, written>>
  BY <1>1 DEF ArchiveReplaces, Goes, FinalizerOnly, F, Journaled
<1>3. F'.stage = "save" /\ F'.todo = F.todo /\ F'.status = "learnt" /\ F'.remaining = F.remaining
  BY <1>1, <1>2 DEF Finalizer
<1>4. L' = L /\ Staged' = Staged /\ c' = c
  BY <1>2, <1>3 DEF L, Staged, Current, F
<1>5. Staged = {c} /\ L.stage = "idle"
  BY <1>1, CurrentIsStaged
<1>6. \A r \in runs[c].records \cap Fresh : r \notin unlearnt' /\ Put(c, r)
  BY <1>1, <1>2 DEF Stored
<1> HIDE DEF c
<1>7. \A i, r : Put(i, r)' = Put(i, r)
  BY <1>2 DEF Put
<1>8. Solo' /\ Journaled'
  BY <1>1, <1>2, <1>3, <1>4 DEF Solo, Journaled
<1>9. Waiting'
  BY <1>2, <1>4, <1>5, <1>6, <1>7 DEF Waiting
<1>10. Stored'
  BY <1>2, <1>3, <1>4, <1>6, <1>7 DEF Stored, c
<1>11. LearntIsArchived'
  BY <1>1, <1>2 DEF LearntIsArchived
<1>12. QED
  BY <1>8, <1>9, <1>10, <1>11 DEF Archives

LEMMA SaveVerdictArchives == ASSUME ServerInv, SaveVerdict(Server) PROVE Archives'
<1> DEFINE c == Current(Server)
<1>1. /\ JournalInv /\ TypeOK /\ Solo /\ Journaled /\ Waiting /\ Stored /\ LearntIsArchived
      /\ F \in Finalizer /\ F.stage = "save" /\ F.stage \in Working /\ F.status \in {"learnt", "dismissed"}
  BY DEF ServerInv, JournalInv, TypeOK, Process, F, SaveVerdict, Solo, Working, Finalizer
<1>2. c \in DOMAIN runs /\ Staged = {c} /\ L.stage = "idle"
  BY <1>1, CurrentIsStaged
<1>3. /\ runs' = [runs EXCEPT ![c].status = F.status] /\ Done(Server)
      /\ UNCHANGED <<unlearnt, learnt, written, learner>>
  BY DEF SaveVerdict, FinalizerOnly, journalVars, F
<1>4. F'.stage = "idle"
  BY <1>1, <1>3, DoneEnds, NoFinalizerType
<1>5. F.status = "learnt" => \A r \in runs[c].records \cap Fresh : r \notin unlearnt /\ Put(c, r)
  BY <1>1 DEF Stored
<1> HIDE DEF c
<1>6. /\ DOMAIN runs' = DOMAIN runs
      /\ \A i \in DOMAIN runs : i # c => runs'[i] = runs[i]
      /\ runs'[c].status = F.status /\ runs'[c].records = runs[c].records
  <2>1. runs \in Seq(Run) /\ runs[c] \in Run
    BY <1>1, <1>2 DEF TypeOK
  <2>2. runs'[c] = [runs[c] EXCEPT !.status = F.status]
    BY <1>2, <1>3, <2>1
  <2>3. QED
    BY <1>2, <1>3, <2>1, <2>2 DEF Run
<1>7. Staged' = {} /\ L' = L
  BY <1>1, <1>2, <1>3, <1>6 DEF Staged, L
<1>8. Solo' /\ Journaled' /\ Waiting' /\ Stored'
  BY <1>1, <1>2, <1>3, <1>4, <1>6, <1>7 DEF Solo, Journaled, Waiting, Stored, Working
<1>9. LearntIsArchived'
  BY <1>1, <1>3, <1>5, <1>6 DEF LearntIsArchived, Put
<1>10. QED
  BY <1>8, <1>9 DEF Archives

(* A crash stops what goes on; the files stay. *)
LEMMA CrashArchives == ASSUME ServerInv, Crash(Server) PROVE Archives' /\ Once'
<1>1. /\ Solo /\ Once /\ Journaled /\ Waiting /\ LearntIsArchived
      /\ learner \in [Process -> Learner] /\ finalizer \in [Process -> Finalizer] /\ Server \in Process
  BY DEF ServerInv, JournalInv, TypeOK, Process
<1>2. /\ learner' = [learner EXCEPT ![Server] = NoLearner] /\ recording' = {} /\ silent' = NotLooking
      /\ finalizer' = [finalizer EXCEPT ![Server] = NoFinalizer]
      /\ UNCHANGED <<window, proposal, unlearnt, learnt, written, runs>>
  BY DEF Crash
<1>3. L'.stage = "idle" /\ L'.batch = {} /\ F'.stage = "idle" /\ Staged' = Staged
  BY <1>1, <1>2, NoFinalizerType DEF NoLearner, L, F, Staged
<1>4. Solo' /\ Journaled'
  BY <1>1, <1>2, <1>3 DEF Solo, Journaled, Working
<1>5. Waiting' /\ Stored' /\ LearntIsArchived'
  BY <1>1, <1>2, <1>3 DEF Waiting, Stored, LearntIsArchived, Put
<1>6. Once'
  BY <1>1, <1>2 DEF Once, Decided, NotLooking
<1>7. QED
  BY <1>4, <1>5, <1>6 DEF Archives

-----------------------------------------------------------------------------
LEMMA ServerInit == Init => ServerInv
<1> SUFFICES ASSUME Init PROVE ServerInv
  OBVIOUS
<1>1. L = NoLearner /\ F = NoFinalizer /\ NoFinalizer.stage = "idle"
  BY NoFinalizerType DEF Init, L, F, Process
<1>2. runs = <<>> /\ DOMAIN runs = {} /\ Staged = {}
  BY DEF Init, Staged
<1>3. Solo /\ Waiting /\ Stored /\ LearntIsArchived /\ Journaled
  BY <1>1, <1>2 DEF Init, Solo, Waiting, Stored, LearntIsArchived, Journaled, NoLearner, Working
<1>4. Once
  BY DEF Init, Once, NotLooking
<1>5. QED
  BY <1>3, <1>4, JournalInit DEF ServerInv

LEMMA ServerStep == ASSUME Alone, ServerInv, [Next]_vars PROVE ServerInv'
<1>1. JournalInv'
  BY JournalStep DEF ServerInv
<1>2. JournalInv /\ Once /\ Archives
  BY DEF ServerInv, Archives
<1>3. CASE CaptureStep
  BY <1>1, <1>2, <1>3, CaptureOnce, CaptureArchives DEF ServerInv, Archives
<1>4. CASE UNCHANGED <<captureVars, journalVars, runs, learner, finalizer>>
  <2>1. UNCHANGED <<window, proposal, recording, silent, unlearnt, learnt, written, runs, learner, finalizer>>
    BY <1>4 DEF captureVars, journalVars
  <2>2. L' = L /\ F' = F /\ Staged' = Staged /\ Current(Server)' = Current(Server)
    BY <2>1 DEF L, F, Staged, Current
  <2>3. Solo' /\ Once' /\ Journaled'
    BY <1>2, <2>1, <2>2 DEF Archives, Solo, Once, Decided, Journaled
  <2>4. Waiting' /\ Stored' /\ LearntIsArchived'
    BY <1>2, <2>1, <2>2 DEF Archives, Waiting, Stored, LearntIsArchived, Put
  <2>5. QED
    BY <1>1, <2>3, <2>4 DEF ServerInv
<1>5. CASE Crash(Server)
  BY <1>1, <1>5, CrashArchives DEF ServerInv, Archives
<1>6. CASE \/ LearnerStep(Server) \/ FinalizerStep(Server)
           \/ \E w \in pending, approve \in BOOLEAN : Decide(Server, w, approve)
  <2>1. UNCHANGED <<captureVars, written>>
    BY <1>6 DEF LearnerStep, CheckStaged, ReadBatch, LearnFails, Stage, SaveRun, LearnerOnly, Decide,
                FinalizerStep, HermesDecides, HermesFails, Finalize, ReadSha, Verdict, ArchiveAppends,
                ArchiveReplaces, SaveVerdict, FinalizerOnly, journalVars
  <2>2. Once'
    BY <1>2, <2>1 DEF Once, Decided, captureVars
  <2>3. Archives'
    BY <1>6, LearnerArchives, QuietArchives, VerdictArchives, ArchiveAppendsArchives,
       ArchiveReplacesArchives, SaveVerdictArchives DEF FinalizerStep
  <2>4. QED
    BY <1>1, <2>2, <2>3 DEF ServerInv, Archives
<1>7. QED
  <2>1. \A p \in Process : p = Server
    BY OnlyServer
  <2>2. ASSUME NEW w \in pending, Interactive(w) PROVE ServerInv'
    BY <1>4, <2>2 DEF Interactive
  <2>3. CASE UNCHANGED vars
    BY <1>4, <2>3 DEF vars
  <2>4. CASE ByHand
    BY <1>4, <2>4 DEF ByHand, BrokenByHand, FixedByHand
  <2>5. QED
    BY <1>3, <1>5, <1>6, <2>1, <2>2, <2>3, <2>4 DEF Next, ByHand

LEMMA AlwaysServer == ASSUME Alone PROVE Spec => []ServerInv
<1>1. ServerInv /\ [Next]_vars => ServerInv'
  BY ServerStep
<1>2. QED
  BY ServerInit, <1>1, PTL DEF Spec

(* OneStagedRun: when no command line learns beside the server, a service never has two   *)
(* staged runs, whatever crashes and whoever decides the write (run_service, finalize).   *)
THEOREM ServerStagesOneRun == ASSUME Alone PROVE Spec => []OneStagedRun
<1>1. ASSUME ServerInv PROVE OneStagedRun
  <2>1. CASE Staged = {}
    BY <2>1, FS_EmptySet DEF OneStagedRun
  <2>2. ASSUME NEW i \in Staged PROVE OneStagedRun
    <3>1. Staged = {i}
      BY <1>1 DEF ServerInv, Solo
    <3>2. QED
      BY <3>1, FS_Singleton DEF OneStagedRun
  <2>3. QED
    BY <2>1, <2>2
<1>2. QED
  BY AlwaysServer, <1>1, PTL

(* LearntIsArchived: the chat messages and decisions a run was made of are never learnt   *)
(* again once the run is saved as learnt: they are in its archive and left the journal,   *)
(* also when a crash came between the two writes of archive or between archive and        *)
(* save_run (Journal.archive, finalize).                                                  *)
THEOREM LearntRunsAreArchived == ASSUME Alone PROVE Spec => []LearntIsArchived
<1>1. ServerInv => LearntIsArchived
  BY DEF ServerInv
<1>2. QED
  BY AlwaysServer, <1>1, PTL
=============================================================================

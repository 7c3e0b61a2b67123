# Verification of qsr-agent

qsr-agent is a store assistant: an operator server takes events of store services,
lets a language model (through Hermes) assess each of them with live context, proposes
at most one action per event, executes it once an operator approves, and learns rules
from the operators' responses. This directory holds TLA+ modules of its core, TLC
configurations that check them on small instances, and TLAPS proofs that hold for every
value of the constants. `PROJECT.json` maps every definition to the lines it stands for.

Run a model: `tlc -config queue.cfg MCController`. Check a proof: `tlapm AutonomyProofs.tla`.

## 1. Inventory

| Component | State | Operations | Interacts with | Correct when |
|---|---|---|---|---|
| `ProposalStore` (`autonomy/store.py`) | SQLite tables event_queue, received_events, event_decisions, policy_state, proposals | enqueue, recover, claim, complete/fail, record, forget, save decision, create, supersede, claim/complete/reject proposal; each one transaction under one lock | called by the controller's threads and HTTP threads | tables agree after every crash; a proposal is decided once |
| `AutonomyController` (`controller.py`) | policy ids, stop and wake events, worker thread, event lock | `__init__`, start, stop, enqueue_event, receive_event, worker loop, approve, reject | store, policies, tool router, HTTP threads | events in order, one at a time, none lost or assessed twice; at most one tool call per approval; no lost wake-up |
| `HermesEventAgent` (`event_agent.py`) | locals of one assessment: round, loaded skills, observations, read arguments, trace | evaluate_event, execute_approved | model runner, `CapabilityCatalog`, MCP clients, learned rules | decisions rest on context the model was shown; approved calls on context read after the approval; always ends |
| Event menu policy and advisor (`event_menu_policy.py`, `advisor.py`) | none | one context read, one model call | controller | result is validated |
| MCP clients (`mcp.py`) | none between calls | call_tool, list_tools | services | errors are RuntimeError (not so for a body that is no JSON: see section 4) |
| Registry, worker assembly, discovery, capabilities (`registry.py`, `worker.py`, `discovery.py`, `service_capabilities.py`) | the catalog: tools and skills; servers seen and failed | register, remove, discover, refresh_skills, validate_action | agent (worker and HTTP threads), Hermes's MCP servers | what is disabled stays out; services and learned skills join without a restart |
| Input guardrail (`input_guardrail.py`) | none | is_allowed, classify | chat route | pure |
| Hermes gateway (`hermes_gateway.py`) | sessions.json, the gateway process | get, set, forget a session; supervise, stop | chat route, main thread | one turn at a time per session; nothing outlives stop |
| Operator UI server (`operator-ui/app.py`) | chat lock, learner state and lock, finalize lock, status cache | HTTP routes, capture, silent loop, start_learning | everything above | responses are journaled, silence only when there was none |
| Learning journal and rules (`learning.py`) | unlearnt.jsonl, learnt/*.jsonl, runs/*.json, skills | append, archive, save_run; induction, verification, matching, rendering | server threads, command line | no record lost or learnt twice |
| Learning runner and command line (`learning_runner.py`, `scripts/learn.py`) | pending writes of the learner profile | run_service, stage, decide, finalize | journal, Hermes's /skills handler, server and CLI processes | one staged run per service; every decided run settles |
| Weather service (`services/weather`) | a locked state file; the watcher's last record | set, reset, publish, watch | event webhook | significant changes are published |
| Open-Meteo client, browser UI, container set-up, history simulators | none, or a view of the server's answers | | | not part of the verified core |

**What is hard.** The server is multi-threaded (main, worker, learner, silent loop, one
thread per HTTP request), shares one SQLite file, a few locks and the journal's files, and
calls slow, fallible parties (model, MCP services, Hermes) while it holds some of them. The
process is killed and restarted by the container runtime at any moment; only the
files survive. Queue, received ids and decisions are three tables; proposals are created
under the event lock, but rejected without it. Context that was read gets old while the
model answers and while a proposal waits. The command line works on the learning files
beside the server, under one file lock for the journal only. `PROJECT.json` lists every
such hazard at its line, with the property that covers it or the reason why none does.

## 2. Plan

1. **Event path** (done): `ProposalStore`, `AutonomyController`; abstract specifications
   `EventLine` (the queue is a FIFO line) and `ProposalLife` (the life of a proposal);
   proofs `AutonomyProofs`, `DecisionProofs`.
2. **Assessment of one event** (done): `EventAgent`, proofs `EventAgentProofs`. It is what stands
   behind the free choices of AutonomyController's `Evaluate`, `CallTool` and `RefuseExecution`.
3. **Capture and learning runs** (done): `LearningRuns`, proofs `LearningProofs` (with command
   lines, and for the server alone).
4. **Rules** (done): `LearnedRules`, proofs `RulesProofs`.
5. **Chat and gateway** (done): `HermesChat`, proofs `ChatProofs`.
6. **Weather events** (done): `WeatherEvents`, proofs `WeatherProofs`.
7. **Discovery** (done): `CapabilityDiscovery`, proofs `DiscoveryProofs`.
8. Next: failing file writes and a failing database.

## 3. Modules and how they correspond to the code

**ProposalStore.** One operator per writing method of the class; `Tx` in a name is a
transaction, and each is atomic because the method holds the store's lock around one SQLite
transaction. An event is its id; an action stands for a tool with its arguments, the columns
`create` compares; payload texts and time stamps are left out. Rows of `proposals` are a
sequence in creation order.

**AutonomyController.** Each thread is a program counter: `main`, `worker`, the evaluation
(`eval`) of whoever is in `_receive_event` under `_event_lock` (`holder`), and one
approval per operator. A step is what happens between two calls of the store, of a
`threading.Event` or of an outside party, so other threads and crashes fall between any two.
`Die` kills the process at any point and clears all but the tables; `Boot` starts it again
with any of the `Deployments`, `Start` recovers. The policy is a free choice of an
action, none, or an exception. `approve` claims under the lock and keeps it over the tool
call; `reject` takes no lock. `expired` counts the proposals older than 300 seconds.
History variable: `calls`.

**EventLine, ProposalLife.** What producers and operators are promised. `Line` and `Life`
at the end of AutonomyController are the refinement mappings.

**EventAgent.** One `evaluate_event` followed by one `execute_approved`, round by round and
read by read. The model's answer is any of: malformed, rejected by the parser's checks, more
skills or reads, no action, an action. A snapshot is reduced to whether its service wants the
change and whether it is fresh (at most 120 s old); services change (`WorldChanges`) and
snapshots age (`SnapshotsAge`) between any steps. A read is answered, refused
(`ValueError`), fails (`RuntimeError`) or is answered with a body that is not one JSON
value. While a proposal waits, the worker's next event removes and registers the
learned skills. History variables: `shown`, `garbled`, `wantedSince`.

**LearningRuns.** Capture, journal and runs for one service and event type. `recording` holds the
responses a server thread has not journaled yet; `learner[p]` and `finalizer[p]` are the
locals of `run_service` and `decide`/`finalize` in the server and in command-line processes.
The server's `LEARNER_LOCK` and `FINALIZE_LOCK` are that it has one of each; command-line
processes have their own. `.journal.lock` is held (`flock`) between the two writes of
`archive`; every other use of a file is one step. Hermes's handler of `/skills approve` and
`reject` is external, modelled as the code and `tests/autonomy/test_learning.py` use it: it
writes the skill and removes the pending file, also at an interactive user's request.
Somebody may also break the skill file by hand and put a valid one back (`BrokenByHand`,
`FixedByHand`): `finalize` leaves a run staged as long as the skill has changed and does not
validate (`Readable`, `learning_runner.py:312`).

**LearnedRules.** One learning run's data: `learn_skill` with its repair, `_refine` with the
second reply and the induction, and the pure functions they call (matching, changes of a
record, statistics, fitting of thresholds, tightening, the categorical and threshold
induction, verification, rendering into a skill, its validation, and what the skill then
proposes), each an operator. A record keeps the flat fields of its event
in their order, those of its context, what the rules see of both (`EventFields`: not the
times, `Stamps`), and the settings of its calls; a setting is bound to the first field of the
event that has its value, times included (`Bound`).
Numbers and labels are integers, and a text is one that is long enough to be bound to an event field;
ratios are counted in 2520ths (`Whole`), which is exact for the at most ten records. The model's
replies are chosen from `Replies`, so the state is what each reply leaves behind. The rules
under verification are a function on slots, the j-th setting of the i-th rule. Of the
limits on a skill's size, the one on the body is kept as the number of rules and kept
sections it has room for (`MaxBody`, `HasRoom`).

**HermesChat.** A turn of `stream_hermes` under `CHAT_LOCK` (`turn`), New chat (`reset`),
`sessions.json` (`file`, `idle`), what Hermes keeps (`conv`: the conversation of every
session, as compression continues one under a new id), and the supervisor, its process and
the main thread's stop. A gateway serves the run of the server that started it, because
each run has a key of its own; `--replace` ends the one before. History variables:
`retired` (conversations New chat ended) and `last` (the session the next turn owes).

**WeatherEvents.** The state file under its exclusive lock, changed by server requests and
command lines (`Changer`), the watcher with its baseline, the publisher's attempts under one
event id, and the receiver, which is the operator server's queue (`enqueue_event`,
`finish_event`): it knows an event by its id until the assessment of the event fails, and then
takes a retry as a new event. `received` keeps every acceptance with the outcome of its row.
Requests and answers are lost or refused, processes die. With the other backend the
weather changes by itself. A weather is a condition, whether it rains, and a temperature.

**CapabilityDiscovery.** The catalog from `build_registry` (defaults of the deployment's
services, removal of what is disabled with all that requires it, discovery, learned skills,
validation) through any number of events, each of which refreshes it: server by server
and tool by tool in the order of the configuration, with the servers that wait for
`RETRY_SECONDS`. The catalog is the sets of its tools and skills; which tools the defaults and
the servers offer, and what each requires, are constants (`DefaultAssumption`, `ServerAssumption`:
what the code registers together is complete). Servers come and go and operators approve and
remove learned skills between any steps. A learned skill that the configuration disables by
name comes back with the next refresh, as it does in the code, so that `DisabledStaysOut`
speaks of tools and shipped skills.

Definitions whose comment begins with *slip* are mistakes that the code does not make: each
property of a passing run is shown to fail when one of them takes the place of the definition it
imitates (`mutants` in `PROJECT.json`).

## 4. Runs

| Run | Instance and bounds | Shows |
|---|---|---|
| `queue` | 2 events (one also through `receive_event`), 4 queue rows, 2 crashes, 1 stop, no proposals | `TablesAgree`, `InOrder`, `AssessedOnce`, and that the queue is a FIFO line |
| `decisions` | 2 events, generic and stateful policy in deployments with and without the second, 2 actions, 2 operators, 2 proposals, 1 crash; symmetric | types, the three properties of pending proposals, calls and statuses, and the life of a proposal |
| `progress` | 1 event sent twice, 1 operator, 1 action, 1 crash, 1 stop and restart; fair | `EventSettles`, `StopReturns`, `ApprovalAnswered` |
| `assessment` | 2 skills (shipped, learned), 2 reads, 2 actions, 2 argument values, 4 rounds, 1 change, 1 ageing, 1 later refresh; fair | the agent's four safety properties and that it ends |
| `learning` | 1 event, at most 2 of its 4 kinds of record, 2 staged writes, 1 crash or edit by hand, server and interactive Hermes; fair | `NothingLost`, `OneStagedRun`, `LearntIsArchived`, `RunSettles` |
| `rules` | 5 records of an event type with a number, a context mode, two texts and a time, 4 of them with any of 5 answers; 6 replies; 3 skills on disk | true counts, no redundant rule, a valid skill, what is not learnt again stays, replay gives what was taught, coverage only grows |
| `chat` | 2 askers and 1 New chat, 3 questions, 3 sessions, 4 gateways, 2 runs of the server, 2 idle periods, losses or exits; fair | `FreshAfterNewChat`, `TurnsDoNotOverlap`, `AnswerIsContinued`, `RequestsEnd`, `GatewayIsKept` |
| `weather` | 2 changers and the watcher, 5 weathers, both backends, 2 changes, 3 polls, 2 attempts, 2 faults | `ChangesChain`, `ReceivedOnce`, `ConditionIsTold` |
| `discovery` | 3 servers of 2 services, 5 tools, 1 shipped and 2 learned skills, 4 deployments; unbounded events and changes; fair | `CatalogIsSound`, `DisabledStaysOut`, `ServiceJoins`, `LearnedJoins` |

*Why the bounds are enough.* `queue`: order needs two events, an interrupted, failed and
resubmitted event needs three rows and the fourth lets the other come after it; two
crashes fall on an event and on its replay. `decisions`: two proposals are the least
that can be duplicates, two operators the least that can race on one, and one crash may
fall on any step; the proofs remove these bounds. `assessment`: the shortest
assessment with a model read, an own read of a missing context and a refresh takes four
rounds. `learning`: two records are one archived and one appended meanwhile, two
writes are one left over by a crash or rejection and one after it; the proofs of its safety
properties remove both. `rules`: five records are the least for which a precise rule, a rule
that is too wide and an outlier exist beside each other. `chat`: a turn, the New chat that waits for
it and the turn after it, with a compression in between, take three sessions; two runs leave one gateway
of an earlier run behind, and two more are started by the supervisor. `weather`:
two changes race on the file and follow one another in the watcher, the third poll sees the
weather after both; two faults use up both attempts of one event, or lose an answer and fail the assessment before the retry. `discovery` has no
bound: the catalog is finite.
`CHECK_DEADLOCK FALSE` is there where the system may rest: a server without
requests, an assessment that ended, a server that was stopped, weather that nobody changes.

Violation runs show disagreements between a document (or a test) and the code:

| Run | Property | What happens |
|---|---|---|
| `second_proposal` | `OneProposalPerEvent` | a crash between create and finish_event makes the replay leave a second proposal |
| `two_learners` | `OneStagedRun` | server and command line each stage a run for one service |
| `disabled_read` | `RemovedReadTakesItsActions` | disabling a context read removes the action that needs it at the start, and discovery registers it again without its owner's validator |

Other disagreements were met while modelling and are the models' behaviour, without a run of
their own: approving an expired proposal claims and fails it and is answered 200, where
`docs/user-guide/api-reference.md` (126) promises 409; a new assessment that proposes what
is pending already gets the old row with its old expiry (`store.py:234`,
against `docs/backup/autonomy.md:116`); a matching learned rule is not proposed when its action's
context was not read (`event_agent.py:390`, against `docs/backup/self-learning.md:294`); a service's
reply that is not JSON is treated as the model's mistake (`mcp.py:88`, `event_agent.py:330`); an event
whose response was already learnt is journaled as unanswered (`app.py:243`, against
`docs/backup/self-learning.md:69`); a skill broken by hand after its write was decided keeps its
run staged, and its service from learning, until somebody mends it (`learning_runner.py:312`); a
setting that copies a time of the event is bound to that field when a record is learnt
(`learning.py:505`, over the whole payload), while the rules see no field `*_at`
(`learning.py:392`), so that such a rule is counted as supported, staged and shown to the operator, and is then
skipped whenever it matches (`learning.py:404-410`; the `rules` run reaches it, and
`ReplayGivesWhatWasTaught` excepts it); and a chat stream that breaks off is answered as
complete (`app.py:494`, against `docs/user-guide/api-reference.md:62`). The classification
of chat calls (`discovery.py:79`) does not know a tool's hints when its server is not in the catalog, so an
action whose name looks like a read is not journaled, although the comment at
`discovery.py:152` says that chat calls are.

## 5. Fairness

- Threads are scheduled (`WorkerStep`, `EvaluationStep`, `SetWake`, `StopWake`, `StopJoin`,
  each operator's `ApprovalStep`, `Assessment`, `Execution`, `FinalizerStep`, `Turn`, `Forget`,
  `Supervise`, `Stop`, `Agent`), and calls of the model, of MCP tools, of the gateway and of
  Hermes have timeouts, so that each ends in an answer or an exception. Weak fairness per
  thread is what this justifies.
- `Boot` and the first `Start` of AutonomyController: `docker-compose.yaml` restarts the container
  (`restart: unless-stopped`). A start after an orderly stop is not assumed, and HermesChat
  assumes no start at all.
- Nobody has to mend a skill broken by hand: `RunSettles` says that a decided run ends if the skill
  is readable from some time on.
- `Finalize` is strongly fair: the silent loop asks for `FINALIZE_LOCK` every minute, and
  operators whose decisions fail at Hermes do not hold it every time for ever.
- `WaitOver` is time passing (`RETRY_SECONDS`).
- Nobody has to submit, ask, decide, stop, answer sensibly or crash, and no event has to come:
  `ServiceJoins` and `LearnedJoins` say in their premise that events come for ever. A waiting
  approval gets the event lock because an instance accepts finitely many events, and New chat
  and a waiting question get the chat lock because `MaxAsks` bounds the questions; Python's locks give no order
  among their waiters, so with endless events or questions `ApprovalAnswered` and
  `RequestsEnd` would need it to.

## 6. Proofs

All theorems hold for any sets of events, policies, actions, operators, skills, tools, threads and processes,
any number of rounds, sessions, changes, crashes and restarts (the bounds are constants); they assume only the
named assumptions on constants (`BoundAssumption`, `PolicyAssumption`, `NameAssumption`,
`CatalogAssumption`, `ChatAssumption`, `LearningAssumption`, `WeatherAssumption`,
`DefaultAssumption`, `ServerAssumption`, `JournalAssumption`, `ReplyAssumption`, `SupportAssumption`),
which TLC evaluates in the runs of their modules. They say what the code sees to before: records and
calls are finite, field values are integers, an event names a field once, replies are sequences of rules as `parse_rules`
returns them, "no weather yet" is not a weather, reads require nothing. Each follows the pattern: Init implies
the invariant, every action keeps each of its parts, the invariant implies the property.

- `AutonomyProofs`: `TypeInv` adds to `TypeOK` the range of each thread's locals, without which
  steps could use an event or row that is not there. `Locks` ties `holder` to the program
  counters; `InProcess` says that the only row in process is the worker's; `Sequenced` and
  `Lined` order the rows, which makes recovery put an interrupted row first. They
  give `OneInProcess`, `InOrder` and the refinement of `EventLine`. `Remembered` and `Agreed`
  add, per stage of an assessment, what the other two tables say of its event: `TablesAgree` and
  `AssessedOnce`.
- `DecisionProofs`: `Approvals` says that a claimed proposal belongs to exactly one approval, the
  holder of the lock, and stays executing until it completes it; `Uncalled` counts calls by stage.
  They replace the guard that `complete` lacks: `CallsMatchStatus`, `DecidedIsFinal` and the
  refinement of `ProposalLife`.
  `Evaluating` relates each stage of an assessment to the policy's state and
  its pending rows, so that superseding, recording the state and creating can be three
  transactions: `PendingAreDistinct`, `PendingMatchesActive`, `PendingIsRegistered`.
- `EventAgentProofs`: `AgentInv` says what holds at each point of an assessment: what was `Shown`
  agrees with what was read since the last prompt, the trace has `Recorded` each read's
  arguments, the proposal `InHand` passed the checks, and `Live` snapshots were wanted at some
  moment since the approval.
- `LearningProofs`, for any number of command-line processes: between the two writes of `archive`
  its process holds the journal's lock, so that nothing is appended which the second write
  would drop, and what it does drop is in an archive already (`Archiving`): `NothingLost`.
  Under `Alone == Cli = {}`: nothing is staged while the server learns and the
  finalizer works on the one staged run (`Solo`), which gives `OneStagedRun`. For
  `LearntIsArchived` the invariant follows a chat message or a decision: it is requested once
  (`Once`), batches and runs hold only what was journaled (`Journaled`), what a staged run is
  made of waits or is in its archive (`Waiting`), and after each of the two writes it is where
  it belongs (`Stored`), also when a crash between them has the run archived a second time.
- `ChatProofs`: only the holder of `CHAT_LOCK` is past it (`Holder`): `TurnsDoNotOverlap`. Session
  ids are new (`Fresh`) and no session in use belongs to a conversation that New chat ended
  (`InUse`): `FreshAfterNewChat`. While an answer is owed a continuation, `sessions.json` names its
  session and no turn is about to create another (`Continued`): `AnswerIsContinued`.
- `WeatherProofs`: a process between read and write holds the file's lock and has read what is
  still there (`Locked`), so the changes form a chain (`Chained`, `Filed`), and what a process
  sends reports a change it made (`Reported`): `ChangesChain`. An event that the receiver does
  not know, because it was not received yet or its assessment failed, is owed by the change or poll that
  made it (`Owed`, `Counted`), and the receptions of one event before the last have failed (`Once`):
  `ReceivedOnce`. `ToldInv` adds that an event id names one sender and one weather and that the
  watcher's newest is the latest it told (`Numbered`), and that between polls the latest it told
  has the condition of its baseline (`Announced`): `ConditionIsTold`.
- `DiscoveryProofs`: `CatalogInv` says that a name is registered once (`Distinct`), that what an action
  reads is registered as a read, or is among the tools of the same server that are still to be
  registered (`Grounded`, `Registering`), which holds in whatever order a server lists them, that
  skills stay complete (`Skilled`) and that what is disabled is out from its removal on (`Out`).
  `remove_tools` removes the least set closed under requirement, which exists (`CascadeCloses`).
  They give `CatalogIsSound` and `DisabledStaysOut`.
- `RulesProofs`: `RulesInv` says of every accepted rule that it is well formed, counted by the records
  and supported by them (`Accountable`), that no rule of a list is redundant (`Verified`), and
  that what is staged is what the accepted rules render to (`Staged`). Every function of the
  pipeline is shown to keep a rule's event, tool and setting; recursive functions (`Fit`, the fold of
  the induction) are unfolded by a least counterexample; and a set of slots in order lists
  each of them once. They give all five invariants; `ReplayGivesWhatWasTaught` also
  rests on `BoundIsSeen`: what a setting is bound to is a field that the rules see with that
  value, unless it is a time. `CoverageGrows` needs that verification
  is a fixed point: a threshold that was fitted is the nearest to itself of those that teach
  most (`FitOneAgain`), so a rule of one threshold is fitted into itself (`SimpleSettles`,
  `FittedAgain`) and formed again as it is (`FormedAgain`), and of the rules for its setting
  one of the widest is kept (`WidestCovers`).

Each proof module also has the type correctness of its model (`TypeOK`, `TypeInv`) as a theorem, and
`OneInProcess` and `DecidedIsFinal` are proved although no run lists them (the
runs `queue` and `decisions` check the refinements that rest on them).

Every invariant and every action property that a passing run checks is a theorem.

**Only model-checked**: the liveness properties (`EventSettles`, `StopReturns`,
`ApprovalAnswered`, `EvaluationEnds`, `RunSettles`, `RequestsEnd`, `GatewayIsKept`, `ServiceJoins`,
`LearnedJoins`), which are beyond the prover; and of course the violations.

## 7. What is not modelled, and why

- Read-only queries, schema migration, formatting, prompts, parsing and logging.
- A failing or full database or disk: every transaction and file write of the models succeeds,
  except that a process may die between two.
- `store.py` and the controller assume one server process per database (autonomy.md says so); so
  does the model.
- The wire: HTTP, MCP sessions, SSE. Calls return, fail or time out; the text of an answer is not looked at.
- The flattening of nested payloads into fields, and the wording of prompts. `CoverageGrows` speaks of rules with at
  most one threshold: the thresholds of a rule with two are fitted one after the other, so that a second
  verification may move the first again, and the rule may lose records that it had taken over from a narrower one.
- `recent_events` looks at the last 50 events only; the silent loop of `LearningRuns` looks at
  any. Torn reads of `runs/*.json` and lines half written by a crash are not modelled.
- The learner's iteration over the catalog while discovery registers tools, which raises in
  Python and is reported to the operator; extension modules; edits of the configuration while the server runs.
- A slow drift of the temperature that stays below the threshold from poll to poll is never published:
  the code compares polls, not publications, and `ConditionIsTold` speaks of condition and rain only.
  Neither is what comes and goes between two polls, such as while an event is being sent.
- The guardrail, the menu policy and its advisor, the Open-Meteo client and the MCP clients keep no
  state: their results are free choices of the modules that call them.
- The browser, set-up scripts and data generators are outside the running core.

------------------------------ MODULE HermesChat ------------------------------
(***************************************************************************)
(* The operator's chat and the process it talks to: turns in one named     *)
(* Hermes session (stream_hermes and new_chat of src/operator-ui/app.py,   *)
(* HermesSessions of src/autonomy/hermes_gateway.py), the supervisor that  *)
(* keeps the gateway process alive, and the server's start and stop.       *)
(*                                                                         *)
(* A session belongs to a conversation: compression of the context         *)
(* continues a conversation under a new session id.  A gateway process     *)
(* serves the requests of the server run that started it, as each run has  *)
(* a key of its own.  Hermes itself is external: it creates, keeps,        *)
(* compresses and may lose sessions.                                       *)
(***************************************************************************)
EXTENDS Naturals, FiniteSets

CONSTANTS
    Asker,        \* the HTTP threads that ask a question
    Resetter,     \* those that serve New chat
    None,         \* no session, no process, no holder of the lock
    MaxSessions,  \* bound on session ids
    MaxAsks,      \* bound on questions
    MaxProcesses, \* bound on gateway processes
    MaxRuns,      \* bound on runs of the server
    MaxLosses     \* bound on idle periods and sessions that Hermes loses

ASSUME ChatAssumption ==
    /\ MaxSessions \in Nat
    /\ None \notin Nat /\ None \notin Asker

Session == 1..MaxSessions
Process == 1..MaxProcesses

VARIABLES
    file,       \* sessions.json: the id of the operator's session, or None
    idle,       \* it was last used longer than CHAT_IDLE_SECONDS ago
    conv,       \* what Hermes keeps: the conversation of every session
    nextSession, \* the next session id
    lock,       \* the holder of CHAT_LOCK
    turn,       \* every asker's progress: [at, sid]
    reset,      \* New chat's: "no" or "wait"
    asks, losses,
    retired,    \* history: the conversations that New chat ended
    last,       \* history: the session of the last completed answer, if the
                \* operator, idleness and Hermes left it alone since
    main,       \* the main thread: serving, stopping, read, killing, exited
    sup,        \* the supervisor: check, start, assign, wait, after, backoff, done
    process,    \* GatewaySupervisor._process
    target,     \* the process that stop() has read
    started,    \* the process Popen has just started
    alive,      \* the gateway processes that run
    run,        \* the number of this run of the server
    born        \* the run that started each process

chatVars == <<file, idle, conv, nextSession, lock, turn, reset, asks, losses, retired, last>>
gatewayVars == <<main, sup, process, target, started, alive, run, born>>
vars == <<file, idle, conv, nextSession, lock, turn, reset, asks, losses, retired, last,
          main, sup, process, target, started, alive, run, born>>

Silent == [at |-> "no", sid |-> None]
Serving == main \in {"serving", "stopping", "read", "killing"}
Reachable == \E p \in alive : born[p] = run
Ready(a, stage) == Serving /\ turn[a].at = stage

-----------------------------------------------------------------------------
(* One turn.                                                               *)
Ask(a) ==
    /\ main = "serving" /\ turn[a].at = "no" /\ asks < MaxAsks
    /\ turn' = [turn EXCEPT ![a].at = "wait"]
    /\ asks' = asks + 1
    /\ UNCHANGED <<file, idle, conv, nextSession, lock, reset, losses, retired, last, gatewayVars>>

TakeChatLock(a) ==
    /\ Ready(a, "wait") /\ lock = None
    /\ lock' = a
    /\ turn' = [turn EXCEPT ![a].at = "get"]
    /\ UNCHANGED <<file, idle, conv, nextSession, reset, asks, losses, retired, last, gatewayVars>>

(* slip: the finally clause also covers the lock that was not taken *)
LockTimesOutReleased(a) ==
    /\ Ready(a, "wait") /\ lock # None
    /\ turn' = [turn EXCEPT ![a] = Silent]
    /\ lock' = None
    /\ UNCHANGED <<file, idle, conv, nextSession, reset, asks, losses, retired, last, gatewayVars>>
(* acquire(timeout=HERMES_TIMEOUT): the question is refused.               *)
LockTimesOut(a) ==
    /\ Ready(a, "wait") /\ lock # None
    /\ turn' = [turn EXCEPT ![a] = Silent]
    /\ UNCHANGED <<file, idle, conv, nextSession, lock, reset, asks, losses, retired, last, gatewayVars>>

Use(a, s) == turn' = [turn EXCEPT ![a] = [at |-> "stream", sid |-> s]]
Record(s) == file' = s /\ idle' = FALSE

(* HermesSessions.get: the recorded session, if it is fresh and Hermes has it. *)
GetSession(a) ==
    /\ Ready(a, "get") /\ Reachable
    /\ IF file \in DOMAIN conv /\ ~idle THEN Use(a, file) /\ Record(file)
       ELSE turn' = [turn EXCEPT ![a].at = "create"] /\ UNCHANGED <<file, idle>>
    /\ UNCHANGED <<conv, nextSession, lock, reset, asks, losses, retired, last, gatewayVars>>

(* A new session is a new conversation, recorded once Hermes has answered. *)
CreateSession(a) ==
    /\ Ready(a, "create") /\ Reachable /\ nextSession \in Session
    /\ conv' = [s \in DOMAIN conv \cup {nextSession} |-> IF s = nextSession THEN s ELSE conv[s]]
    /\ nextSession' = nextSession + 1
    /\ Use(a, nextSession) /\ Record(nextSession)
    /\ UNCHANGED <<lock, reset, asks, losses, retired, last, gatewayVars>>

(* slip: the answer's session id is not kept *)
CompletedKeepsId(a) ==
    /\ Ready(a, "stream") /\ Reachable /\ nextSession \in Session
    /\ conv' = [s \in DOMAIN conv \cup {nextSession} |-> IF s = nextSession THEN turn[a].sid ELSE conv[s]]
    /\ nextSession' = nextSession + 1
    /\ Record(turn[a].sid) /\ last' = nextSession
    /\ turn' = [turn EXCEPT ![a].at = "completed"]
    /\ UNCHANGED <<lock, reset, asks, losses, retired, gatewayVars>>
(* assistant.completed names the session the conversation continues in,    *)
(* a new one after compression.                                            *)
Completed(a) ==
    /\ Ready(a, "stream") /\ Reachable /\ turn[a].sid \in DOMAIN conv
    /\ \/ /\ Record(turn[a].sid) /\ last' = turn[a].sid
          /\ UNCHANGED <<conv, nextSession>>
       \/ /\ nextSession \in Session
          /\ conv' = [s \in DOMAIN conv \cup {nextSession} |->
                        IF s = nextSession THEN conv[turn[a].sid] ELSE conv[s]]
          /\ nextSession' = nextSession + 1
          /\ Record(nextSession) /\ last' = nextSession
    /\ turn' = [turn EXCEPT ![a].at = "completed"]
    /\ UNCHANGED <<lock, reset, asks, losses, retired, gatewayVars>>

(* slip: an error leaves the lock *)
TurnEndsUnlessFailed(a) ==
    /\ Serving /\ turn[a].at \in {"get", "create", "stream", "completed"}
    /\ turn' = [turn EXCEPT ![a] = Silent]
    /\ lock' = IF turn[a].at = "completed" THEN None ELSE lock
    /\ UNCHANGED <<file, idle, conv, nextSession, reset, asks, losses, retired, last, gatewayVars>>
(* The finally clause, after the answer, an error of the gateway (also one *)
(* that is down), a broken stream, or a browser that has gone.             *)
TurnEnds(a) ==
    /\ Serving /\ turn[a].at \in {"get", "create", "stream", "completed"}
    /\ turn' = [turn EXCEPT ![a] = Silent]
    /\ lock' = None
    /\ UNCHANGED <<file, idle, conv, nextSession, reset, asks, losses, retired, last, gatewayVars>>

-----------------------------------------------------------------------------
(* New chat, the passing of time and Hermes.                               *)
NewChat(r) ==
    /\ main = "serving" /\ reset[r] = "no" /\ asks < MaxAsks
    /\ reset' = [reset EXCEPT ![r] = "wait"]
    /\ asks' = asks + 1
    /\ UNCHANGED <<file, idle, conv, nextSession, lock, turn, losses, retired, last, gatewayVars>>

(* slip: without CHAT_LOCK *)
ForgetAtOnce(r) ==
    /\ Serving /\ reset[r] = "wait"
    /\ reset' = [reset EXCEPT ![r] = "no"]
    /\ file' = None /\ last' = None
    /\ retired' = IF file \in DOMAIN conv THEN retired \cup {conv[file]} ELSE retired
    /\ UNCHANGED <<idle, conv, nextSession, lock, turn, asks, losses, gatewayVars>>
(* `with CHAT_LOCK: SESSIONS.forget(...)`: waits as long as it takes.      *)
Forget(r) ==
    /\ Serving /\ reset[r] = "wait" /\ lock = None
    /\ reset' = [reset EXCEPT ![r] = "no"]
    /\ file' = None /\ last' = None
    /\ retired' = IF file \in DOMAIN conv THEN retired \cup {conv[file]} ELSE retired
    /\ UNCHANGED <<idle, conv, nextSession, lock, turn, asks, losses, gatewayVars>>

GrowIdle ==
    /\ file # None /\ ~idle /\ losses < MaxLosses
    /\ idle' = TRUE /\ losses' = losses + 1
    /\ last' = None
    /\ UNCHANGED <<file, conv, nextSession, lock, turn, reset, asks, retired, gatewayVars>>

HermesLoses(s) ==
    /\ s \in DOMAIN conv /\ losses < MaxLosses
    /\ conv' = [t \in DOMAIN conv \ {s} |-> conv[t]]
    /\ losses' = losses + 1
    /\ last' = IF last = s THEN None ELSE last
    /\ UNCHANGED <<file, idle, nextSession, lock, turn, reset, asks, retired, gatewayVars>>

-----------------------------------------------------------------------------
(* GatewaySupervisor._run.                                                 *)
stopping == main # "serving"

SupervisorChecks ==
    /\ Serving /\ sup = "check"
    /\ sup' = IF stopping THEN "done" ELSE "start"
    /\ UNCHANGED <<chatVars, main, process, target, started, alive, run, born>>

(* Popen: `--replace` ends the gateway that runs.                          *)
StartGateway(p) ==
    /\ Serving /\ sup = "start" /\ p = Cardinality(DOMAIN born) + 1
    /\ born' = [q \in DOMAIN born \cup {p} |-> IF q = p THEN run ELSE born[q]]
    /\ alive' = {p} /\ started' = p
    /\ sup' = "assign"
    /\ UNCHANGED <<chatVars, main, process, target, run>>

AssignProcess ==
    /\ Serving /\ sup = "assign"
    /\ process' = started
    /\ sup' = "wait"
    /\ UNCHANGED <<chatVars, main, target, started, alive, run, born>>

StartFails ==
    /\ Serving /\ sup = "start" /\ losses < MaxLosses
    /\ losses' = losses + 1
    /\ sup' = "after"
    /\ UNCHANGED <<file, idle, conv, nextSession, lock, turn, reset, asks, retired, last,
                   main, process, target, started, alive, run, born>>

GatewayExits(p) ==
    /\ p \in alive /\ losses < MaxLosses
    /\ alive' = alive \ {p} /\ losses' = losses + 1
    /\ UNCHANGED <<file, idle, conv, nextSession, lock, turn, reset, asks, retired, last,
                   main, sup, process, target, started, run, born>>

WaitReturns ==
    /\ Serving /\ sup = "wait" /\ process \notin alive
    /\ sup' = "after"
    /\ UNCHANGED <<chatVars, main, process, target, started, alive, run, born>>

(* slip: an exit of the gateway ends the supervisor *)
SupervisorGivesUp ==
    /\ Serving /\ sup = "after"
    /\ sup' = "done"
    /\ UNCHANGED <<chatVars, main, process, target, started, alive, run, born>>
(* Backs off unless it is stopping; stop() ends the wait.                  *)
AfterExit ==
    /\ Serving /\ sup = "after"
    /\ sup' = IF stopping THEN "done" ELSE "backoff"
    /\ UNCHANGED <<chatVars, main, process, target, started, alive, run, born>>

BackoffEnds ==
    /\ Serving /\ sup = "backoff"
    /\ sup' = "check"
    /\ UNCHANGED <<chatVars, main, process, target, started, alive, run, born>>

-----------------------------------------------------------------------------
(* main's finally clause and GatewaySupervisor.stop.                       *)
Interrupt ==
    /\ main = "serving"
    /\ main' = "stopping"
    /\ UNCHANGED <<chatVars, sup, process, target, started, alive, run, born>>

ReadProcess ==
    /\ main = "stopping"
    /\ main' = IF process \in alive THEN "killing" ELSE "exited"
    /\ target' = process
    /\ UNCHANGED <<chatVars, sup, process, started, alive, run, born>>

(* SIGTERM, and SIGKILL after 20 seconds; then the process is gone.        *)
KillGateway ==
    /\ main = "killing"
    /\ alive' = alive \ {target}
    /\ main' = "exited"
    /\ UNCHANGED <<chatVars, sup, process, target, started, run, born>>

(* The process dies in any state (SIGKILL, power); the gateway has a       *)
(* session (start_new_session) of its own and may live on.                 *)
Die ==
    /\ Serving /\ run < MaxRuns
    /\ main' = "exited"
    /\ UNCHANGED <<chatVars, sup, process, target, started, alive, run, born>>

Boot ==
    /\ main = "exited" /\ run < MaxRuns
    /\ main' = "serving" /\ run' = run + 1
    /\ sup' = "check" /\ process' = None /\ target' = None /\ started' = None
    /\ turn' = [a \in Asker |-> Silent] /\ reset' = [r \in Resetter |-> "no"] /\ lock' = None
    /\ UNCHANGED <<file, idle, conv, nextSession, asks, losses, retired, last, alive, born>>

-----------------------------------------------------------------------------
Init ==
    /\ file = None /\ idle = FALSE /\ conv = <<>> /\ nextSession = 1 /\ lock = None
    /\ turn = [a \in Asker |-> Silent] /\ reset = [r \in Resetter |-> "no"]
    /\ asks = 0 /\ losses = 0 /\ retired = {} /\ last = None
    /\ main = "serving" /\ sup = "check" /\ process = None /\ target = None /\ started = None
    /\ alive = {} /\ run = 1 /\ born = <<>>

Turn(a) == TakeChatLock(a) \/ LockTimesOut(a) \/ GetSession(a) \/ CreateSession(a) \/ Completed(a) \/ TurnEnds(a)
Supervise == \/ SupervisorChecks \/ AssignProcess \/ StartFails \/ WaitReturns \/ AfterExit \/ BackoffEnds
             \/ \E p \in Process : StartGateway(p)
Stop == ReadProcess \/ KillGateway
Next ==
    \/ \E a \in Asker : Ask(a) \/ Turn(a)
    \/ \E r \in Resetter : NewChat(r) \/ Forget(r)
    \/ GrowIdle \/ \E s \in Session : HermesLoses(s)
    \/ Supervise \/ \E p \in Process : GatewayExits(p)
    \/ Interrupt \/ Stop \/ Die \/ Boot

Spec == Init /\ [][Next]_vars
(* The lock's timeout, the gateway's timeouts (a turn always ends) and     *)
(* threads that run; not that anybody asks, dies or boots.                 *)
FairSpec ==
    /\ Spec
    /\ \A a \in Asker : WF_vars(Turn(a))
    /\ \A r \in Resetter : WF_vars(Forget(r))
    /\ WF_vars(Supervise) /\ WF_vars(Stop)

-----------------------------------------------------------------------------
\* The type of the chat's state.
TypeOK ==
    /\ file \in Session \cup {None} /\ idle \in BOOLEAN
    /\ DOMAIN conv \subseteq Session /\ \A s \in DOMAIN conv : conv[s] \in Session
    /\ nextSession \in 1..(MaxSessions + 1)
    /\ lock \in Asker \cup {None}
    /\ turn \in [Asker -> [at : {"no", "wait", "get", "create", "stream", "completed"},
                           sid : Session \cup {None}]]
    /\ retired \subseteq Session /\ last \in Session \cup {None}

\* New chat is final: no question is answered in a conversation that New chat ended, and
\* none is recorded for the next one, whatever turn was running, compressed or failed when
\* it was pressed (new_chat waits for CHAT_LOCK because a turn records its session twice).
FreshAfterNewChat ==
    /\ file \in DOMAIN conv => conv[file] \notin retired
    /\ \A a \in Asker : turn[a].sid \in DOMAIN conv => conv[turn[a].sid] \notin retired

\* The conversation goes on: unless it was idle, ended or lost, the next turn continues in
\* the session the last answer named, also after failed turns and a restart of the server.
AnswerIsContinued ==
    [][\A a \in Asker :
         (turn[a].at # "stream" /\ turn'[a].at = "stream" /\ last # None) => turn'[a].sid = last]_vars

\* Turns in one session never overlap (app.py:117): two turns are not past the lock at once.
TurnsDoNotOverlap ==
    \A a, b \in Asker : (a # b /\ turn[a].at \notin {"no", "wait"}) => turn[b].at \in {"no", "wait"}

\* Every question and every New chat is answered, if the server is not killed: the lock
\* comes free after each turn, however it ends.
RequestsEnd ==
    /\ \A a \in Asker : turn[a].at = "wait" ~> (turn[a].at = "no" \/ main = "exited")
    /\ \A r \in Resetter : reset[r] = "wait" ~> (reset[r] = "no" \/ main = "exited")

\* The gateway of this run comes back whenever it exits or could not start, also beside one
\* that an earlier run left behind: a server that serves gets a gateway it has the key of.
GatewayIsKept == (main = "serving") ~> (Reachable \/ main # "serving")
=============================================================================

------------------------------ MODULE ChatProofs ------------------------------
(***************************************************************************)
(* What the operator's chat guarantees for any number of questions, New    *)
(* chats, sessions, gateways and restarts.  The invariant says who may be  *)
(* past CHAT_LOCK (Holder), that session ids are new (Fresh), which        *)
(* conversations may still be used (InUse: not those that New chat ended), *)
(* and what sessions.json says while an answer is to be continued          *)
(* (Continued).                                                            *)
(***************************************************************************)
EXTENDS HermesChat, TLAPS

Outside == {"no", "wait"}

(* Only the holder of the lock is past it, and nobody else has a session. *)
Holder ==
    \A a \in Asker :
        /\ turn[a].at \notin Outside => lock = a
        /\ turn[a].at \in Outside => turn[a].sid = None

(* The next session id is not in use, and neither is its conversation. *)
Fresh ==
    /\ \A s \in DOMAIN conv : s < nextSession /\ conv[s] < nextSession
    /\ \A c \in retired : c < nextSession
    /\ file # None => file < nextSession
    /\ \A a \in Asker : turn[a].sid # None => turn[a].sid < nextSession

InUse ==
    /\ file \in DOMAIN conv => conv[file] \notin retired
    /\ \A a \in Asker : turn[a].sid \in DOMAIN conv => conv[turn[a].sid] \notin retired

Continued ==
    last # None =>
        /\ file = last /\ last \in DOMAIN conv /\ ~idle
        /\ \A a \in Asker : turn[a].at # "create"

ChatInv == TypeOK /\ Holder /\ Fresh /\ InUse /\ Continued

(* The steps of the gateway, its supervisor and the main thread leave the chat alone. *)
LEMMA InitInv == Init => ChatInv
<1> SUFFICES ASSUME Init PROVE ChatInv
  OBVIOUS
<1>1. DOMAIN conv = {} /\ 1 \in 1..(MaxSessions + 1)
  BY ChatAssumption DEF Init
<1>2. TypeOK
  BY <1>1 DEF Init, TypeOK, Silent
<1>3. Holder /\ Fresh /\ InUse /\ Continued
  BY <1>1 DEF Init, Holder, Fresh, InUse, Continued, Silent, Outside
<1>4. QED
  BY <1>2, <1>3 DEF ChatInv

LEMMA Unchanged == ChatInv /\ UNCHANGED <<file, idle, conv, nextSession, lock, turn, retired, last>> => ChatInv'
BY DEF ChatInv, TypeOK, Holder, Fresh, InUse, Continued, Session, Outside

LEMMA Waits ==
    ASSUME ChatInv, NEW a \in Asker, Ask(a) \/ TakeChatLock(a) \/ LockTimesOut(a) \/ TurnEnds(a)
    PROVE  ChatInv'
<1>1. /\ UNCHANGED <<file, idle, conv, nextSession, retired, last>>
      /\ \/ turn' = [turn EXCEPT ![a].at = "wait"] /\ turn[a].at \in Outside /\ lock' = lock
         \/ turn' = [turn EXCEPT ![a].at = "get"] /\ turn[a].at \in Outside /\ lock = None /\ lock' = a
         \/ turn' = [turn EXCEPT ![a] = Silent] /\ turn[a].at \in Outside /\ lock' = lock
         \/ turn' = [turn EXCEPT ![a] = Silent] /\ turn[a].at \notin Outside /\ lock' = None
  BY DEF ChatInv, TypeOK, Ask, TakeChatLock, LockTimesOut, TurnEnds, Ready, Outside
<1>2. \A b \in Asker : turn'[b].sid \in {turn[b].sid, None}
  BY <1>1 DEF ChatInv, TypeOK, Silent
<1>3. \A b \in Asker : turn'[b].at = "create" => turn[b].at = "create"
  BY <1>1 DEF ChatInv, TypeOK, Silent
<1>4. TypeOK'
  BY <1>1 DEF ChatInv, TypeOK, Silent, Session
<1>5. Holder'
  BY <1>1, ChatAssumption DEF ChatInv, TypeOK, Holder, Silent, Outside
<1>6. Fresh'
  BY <1>1, <1>2 DEF ChatInv, Fresh
<1>7. InUse'
  BY <1>1, <1>2, ChatAssumption DEF ChatInv, InUse, TypeOK, Session
<1>8. Continued'
  BY <1>1, <1>3 DEF ChatInv, Continued
<1>9. QED
  BY <1>4, <1>5, <1>6, <1>7, <1>8 DEF ChatInv

LEMMA Gets == ASSUME ChatInv, NEW a \in Asker, GetSession(a) PROVE ChatInv'
<1>1. /\ turn[a].at = "get" /\ UNCHANGED <<conv, nextSession, lock, retired, last>>
      /\ \/ file \in DOMAIN conv /\ ~idle /\ file' = file /\ idle' = FALSE
            /\ turn' = [turn EXCEPT ![a] = [at |-> "stream", sid |-> file]]
         \/ ~(file \in DOMAIN conv /\ ~idle) /\ turn' = [turn EXCEPT ![a].at = "create"]
            /\ UNCHANGED <<file, idle>>
  BY DEF GetSession, Ready, Use, Record
<1>2. TypeOK'
  <2>1. file' = file /\ file' \in Session \cup {None} /\ idle' \in BOOLEAN
    BY <1>1 DEF ChatInv, TypeOK
  <2>2. turn' \in [Asker -> [at : {"no", "wait", "get", "create", "stream", "completed"},
                            sid : Session \cup {None}]]
    BY <1>1 DEF ChatInv, TypeOK
  <2>3. QED
    BY <1>1, <2>1, <2>2 DEF ChatInv, TypeOK
<1>3. Holder'
  BY <1>1 DEF ChatInv, TypeOK, Holder, Outside
<1>4. Fresh'
  BY <1>1 DEF ChatInv, TypeOK, Fresh
<1>5. InUse'
  BY <1>1 DEF ChatInv, TypeOK, InUse
<1>6. Continued'
  BY <1>1 DEF ChatInv, TypeOK, Continued
<1>7. QED
  BY <1>2, <1>3, <1>4, <1>5, <1>6 DEF ChatInv

LEMMA Creates == ASSUME ChatInv, NEW a \in Asker, CreateSession(a) PROVE ChatInv'
<1> DEFINE n == nextSession
<1>1. /\ turn[a].at = "create" /\ UNCHANGED <<lock, retired, last>> /\ n \in Session
      /\ conv' = [s \in DOMAIN conv \cup {n} |-> IF s = n THEN s ELSE conv[s]]
      /\ nextSession' = n + 1 /\ file' = n /\ idle' = FALSE
      /\ turn' = [turn EXCEPT ![a] = [at |-> "stream", sid |-> n]]
  BY DEF CreateSession, Ready, Use, Record
<1>2. TypeOK'
  <2>1. /\ n \in Session /\ nextSession' \in 1..(MaxSessions + 1)
        /\ DOMAIN conv' = DOMAIN conv \cup {n} /\ \A s \in DOMAIN conv' : conv'[s] \in Session
    BY <1>1, ChatAssumption DEF ChatInv, TypeOK, Session
  <2>2. turn' \in [Asker -> [at : {"no", "wait", "get", "create", "stream", "completed"},
                            sid : Session \cup {None}]]
    BY <1>1 DEF ChatInv, TypeOK
  <2>3. QED
    BY <1>1, <2>1, <2>2 DEF ChatInv, TypeOK
<1>3. Holder'
  BY <1>1 DEF ChatInv, TypeOK, Holder, Outside
<1>4. Fresh'
  BY <1>1, ChatAssumption DEF ChatInv, TypeOK, Fresh, Session
<1>5. n \notin retired /\ n \notin DOMAIN conv /\ n # None
  BY <1>1, ChatAssumption DEF ChatInv, TypeOK, Fresh, Session
<1>6. \A b \in Asker : b # a => turn'[b] = turn[b] /\ turn[b].sid # n
  BY <1>1, <1>5, ChatAssumption DEF ChatInv, TypeOK, Fresh, Session
<1>7. InUse'
  BY <1>1, <1>5, <1>6 DEF ChatInv, TypeOK, InUse
<1>8. Continued'
  BY <1>1 DEF ChatInv, TypeOK, Continued
<1>9. QED
  BY <1>2, <1>3, <1>4, <1>7, <1>8 DEF ChatInv

LEMMA Completes == ASSUME ChatInv, NEW a \in Asker, Completed(a) PROVE ChatInv'
<1> DEFINE n == nextSession
           sid == turn[a].sid
<1>1. /\ turn[a].at = "stream" /\ UNCHANGED <<lock, retired>> /\ sid \in DOMAIN conv
      /\ turn' = [turn EXCEPT ![a].at = "completed"] /\ idle' = FALSE
  BY DEF Completed, Ready, Record
<1>2. \A b \in Asker : turn'[b].sid = turn[b].sid /\ turn'[b].at # "create"
  BY <1>1, ChatAssumption DEF ChatInv, TypeOK, Holder, Outside
<1>3. Holder'
  BY <1>1 DEF ChatInv, TypeOK, Holder, Outside
<1>4. CASE file' = sid /\ last' = sid /\ UNCHANGED <<conv, nextSession>>
  <2>1. TypeOK'
    BY <1>1, <1>4 DEF ChatInv, TypeOK
  <2>2. Fresh'
    BY <1>1, <1>2, <1>4, ChatAssumption DEF ChatInv, TypeOK, Fresh, Session
  <2>3. InUse'
    BY <1>1, <1>2, <1>4 DEF ChatInv, TypeOK, InUse
  <2>4. Continued'
    BY <1>1, <1>2, <1>4 DEF Continued
  <2>5. QED
    BY <1>3, <2>1, <2>2, <2>3, <2>4 DEF ChatInv
<1>5. CASE /\ n \in Session /\ nextSession' = n + 1 /\ file' = n /\ last' = n
           /\ conv' = [s \in DOMAIN conv \cup {n} |-> IF s = n THEN conv[sid] ELSE conv[s]]
  <2>1. TypeOK'
    <3>1. /\ nextSession' \in 1..(MaxSessions + 1)
          /\ DOMAIN conv' = DOMAIN conv \cup {n} /\ \A s \in DOMAIN conv' : conv'[s] \in Session
      BY <1>1, <1>5, ChatAssumption DEF ChatInv, TypeOK, Session
    <3>2. turn' \in [Asker -> [at : {"no", "wait", "get", "create", "stream", "completed"},
                              sid : Session \cup {None}]]
      BY <1>1 DEF ChatInv, TypeOK
    <3>3. QED
      BY <1>1, <1>5, <3>1, <3>2 DEF ChatInv, TypeOK
  <2>2. Fresh'
    BY <1>1, <1>2, <1>5, ChatAssumption DEF ChatInv, TypeOK, Fresh, Session
  <2>3. n \notin DOMAIN conv /\ conv[sid] \notin retired
    BY <1>1, <1>5 DEF ChatInv, TypeOK, Fresh, InUse, Session
  <2>4. \A b \in Asker : turn[b].sid # n
    BY <1>5, ChatAssumption DEF ChatInv, TypeOK, Fresh, Session
  <2>5. InUse'
    BY <1>1, <1>2, <1>5, <2>3, <2>4 DEF ChatInv, TypeOK, InUse
  <2>6. Continued'
    BY <1>1, <1>2, <1>5 DEF Continued
  <2>7. QED
    BY <1>3, <2>1, <2>2, <2>5, <2>6 DEF ChatInv
<1>6. QED
  BY <1>4, <1>5 DEF Completed, Record

LEMMA Forgets == ASSUME ChatInv, NEW r \in Resetter, Forget(r) PROVE ChatInv'
<1>1. /\ lock = None /\ file' = None /\ last' = None
      /\ retired' = IF file \in DOMAIN conv THEN retired \cup {conv[file]} ELSE retired
      /\ UNCHANGED <<idle, conv, nextSession, lock, turn>>
  BY DEF Forget
<1>2. \A a \in Asker : turn[a].sid = None
  BY <1>1, ChatAssumption DEF ChatInv, TypeOK, Holder
<1>3. None \notin DOMAIN conv
  BY ChatAssumption DEF ChatInv, TypeOK, Session
<1>4. TypeOK'
  BY <1>1 DEF ChatInv, TypeOK
<1>5. Fresh'
  BY <1>1, <1>2 DEF ChatInv, TypeOK, Fresh
<1>6. Holder' /\ InUse' /\ Continued'
  BY <1>1, <1>2, <1>3 DEF ChatInv, Holder, InUse, Continued
<1>7. QED
  BY <1>4, <1>5, <1>6 DEF ChatInv

LEMMA Loses == ASSUME ChatInv, NEW s \in Session, HermesLoses(s) PROVE ChatInv'
<1>1. /\ s \in DOMAIN conv /\ conv' = [t \in DOMAIN conv \ {s} |-> conv[t]]
      /\ last' = IF last = s THEN None ELSE last
      /\ UNCHANGED <<file, idle, nextSession, lock, turn, retired>>
  BY DEF HermesLoses
<1>2. TypeOK'
  BY <1>1 DEF ChatInv, TypeOK
<1>3. Holder' /\ Fresh' /\ InUse' /\ Continued'
  BY <1>1 DEF ChatInv, Holder, Fresh, InUse, Continued
<1>4. QED
  BY <1>2, <1>3 DEF ChatInv

LEMMA Restarts == ASSUME ChatInv, Boot PROVE ChatInv'
<1>1. /\ turn' = [a \in Asker |-> Silent] /\ lock' = None
      /\ UNCHANGED <<file, idle, conv, nextSession, retired, last>>
  BY DEF Boot
<1>2. TypeOK'
  BY <1>1 DEF ChatInv, TypeOK, Silent
<1>3. Holder' /\ Fresh' /\ Continued'
  BY <1>1 DEF ChatInv, Holder, Fresh, Continued, Silent, Outside
<1>4. InUse'
  BY <1>1, ChatAssumption DEF ChatInv, TypeOK, InUse, Silent, Session
<1>5. QED
  BY <1>2, <1>3, <1>4 DEF ChatInv

LEMMA StepInv == ChatInv /\ [Next]_vars => ChatInv'
<1> SUFFICES ASSUME ChatInv, [Next]_vars PROVE ChatInv'
  OBVIOUS
<1>1. ASSUME NEW a \in Asker, Ask(a) \/ Turn(a) PROVE ChatInv'
  BY <1>1, Waits, Gets, Creates, Completes DEF Turn
<1>2. ASSUME NEW r \in Resetter, NewChat(r) PROVE ChatInv'
  BY <1>2, Unchanged DEF NewChat
<1>3. ASSUME NEW r \in Resetter, Forget(r) PROVE ChatInv'
  BY <1>3, Forgets
<1>4. CASE GrowIdle
  BY <1>4 DEF GrowIdle, ChatInv, TypeOK, Holder, Fresh, InUse, Continued
<1>5. ASSUME NEW s \in Session, HermesLoses(s) PROVE ChatInv'
  BY <1>5, Loses
<1>6. CASE Supervise
  BY <1>6, Unchanged DEF Supervise, SupervisorChecks, AssignProcess, StartFails, WaitReturns, AfterExit,
     BackoffEnds, StartGateway, chatVars
<1>7. ASSUME NEW p \in Process, GatewayExits(p) PROVE ChatInv'
  BY <1>7, Unchanged DEF GatewayExits
<1>8. CASE Interrupt \/ Stop \/ Die
  BY <1>8, Unchanged DEF Interrupt, Stop, ReadProcess, KillGateway, Die, chatVars
<1>9. CASE Boot
  BY <1>9, Restarts
<1>10. CASE UNCHANGED vars
  BY <1>10, Unchanged DEF vars
<1>11. QED
  BY <1>1, <1>2, <1>3, <1>4, <1>5, <1>6, <1>7, <1>8, <1>9, <1>10 DEF Next

LEMMA AlwaysInv == Spec => []ChatInv
BY InitInv, StepInv, PTL DEF Spec

(* TypeOK: a turn never works with a session that is none, and the lock's holder is a   *)
(* thread that asks.                                                                   *)
THEOREM ChatTypeCorrect == Spec => []TypeOK
<1>1. ChatInv => TypeOK
  BY DEF ChatInv
<1>2. QED
  BY AlwaysInv, <1>1, PTL

(* TurnsDoNotOverlap: CHAT_LOCK, its timeout and the finally clause let one turn at a   *)
(* time into the session (stream_hermes).                                              *)
THEOREM OneTurnAtATime == Spec => []TurnsDoNotOverlap
<1>1. ChatInv => TurnsDoNotOverlap
  BY DEF ChatInv, Holder, TurnsDoNotOverlap, Outside
<1>2. QED
  BY AlwaysInv, <1>1, PTL

(* FreshAfterNewChat: what New chat ended is never used again, neither by a turn nor by *)
(* the record in sessions.json (new_chat under CHAT_LOCK).                              *)
THEOREM NewChatIsFinal == Spec => []FreshAfterNewChat
<1>1. ChatInv => FreshAfterNewChat
  BY DEF ChatInv, InUse, FreshAfterNewChat
<1>2. QED
  BY AlwaysInv, <1>1, PTL

(* AnswerIsContinued: the next turn uses the session that the last answer named         *)
(* (HermesSessions.get after HermesSessions.set).                                       *)
THEOREM TheConversationGoesOn == Spec => AnswerIsContinued
<1> DEFINE Continues == \A a \in Asker :
      (turn[a].at # "stream" /\ turn'[a].at = "stream" /\ last # None) => turn'[a].sid = last
<1>1. ASSUME ChatInv, [Next]_vars PROVE Continues
  <2> SUFFICES ASSUME NEW a \in Asker, turn[a].at # "stream", turn'[a].at = "stream", last # None
               PROVE  turn'[a].sid = last
    OBVIOUS
  <2>1. turn \in [Asker -> [at : {"no", "wait", "get", "create", "stream", "completed"},
                            sid : Session \cup {None}]]
    BY <1>1 DEF ChatInv, TypeOK
  <2>2. turn' # turn
    OBVIOUS
  <2>3. CASE \E b \in Asker : Ask(b) \/ TakeChatLock(b) \/ LockTimesOut(b) \/ TurnEnds(b) \/ Completed(b)
    BY <2>1, <2>3 DEF Ask, TakeChatLock, LockTimesOut, TurnEnds, Completed, Silent
  <2>4. CASE \E b \in Asker : CreateSession(b)
    BY <1>1, <2>4 DEF CreateSession, Ready, ChatInv, Continued
  <2>5. CASE \E b \in Asker : GetSession(b)
    BY <1>1, <2>1, <2>5 DEF GetSession, Use, ChatInv, Continued
  <2>6. CASE Boot
    BY <2>6 DEF Boot, Silent
  <2>7. CASE \/ \E r \in Resetter : NewChat(r) \/ Forget(r)
             \/ GrowIdle \/ \E s \in Session : HermesLoses(s)
             \/ \E p \in Process : GatewayExits(p)
    BY <2>2, <2>7 DEF NewChat, Forget, GrowIdle, HermesLoses, GatewayExits
  <2>8. CASE Supervise \/ Interrupt \/ Stop \/ Die \/ UNCHANGED vars
    BY <2>2, <2>8 DEF Supervise, SupervisorChecks, AssignProcess, StartFails, WaitReturns, AfterExit,
       BackoffEnds, StartGateway, Interrupt, Stop, ReadProcess, KillGateway, Die, chatVars, vars
  <2>9. QED
    BY <1>1, <2>3, <2>4, <2>5, <2>6, <2>7, <2>8 DEF Next, Turn
<1>2. ChatInv /\ [Next]_vars => [Continues]_vars
  BY <1>1
<1>3. QED
  BY AlwaysInv, <1>2, PTL DEF Spec, AnswerIsContinued
=============================================================================

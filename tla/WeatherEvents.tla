---------------------------- MODULE WeatherEvents ----------------------------
(***************************************************************************)
(* The weather service (src/services/weather/weather_simulator): the state *)
(* file that the server and command lines change under a file lock, the    *)
(* watcher that polls the weather, and the publisher of weather_changed    *)
(* events with its retries, over a network that loses requests and answers. *)
(* The receiver is the operator server's queue (autonomy/store.py), which  *)
(* knows an event by its id until the assessment of that event fails.      *)
(* A weather is [condition, raining, temperature].                         *)
(***************************************************************************)
EXTENDS Integers, Sequences, FiniteSets, SequencesExt

CONSTANTS
    Changer,    \* the server's requests and command lines that set the weather
    Watcher,    \* the process that runs `watch`
    Weather,    \* the weathers that occur
    Settable,   \* those that the simulator's scenarios give
    Default,    \* the weather of a state file that is missing
    None,
    Backend,    \* the values of WEATHER_BACKEND looked at: "simulator" and "open-meteo"
    Delta,      \* temperature_delta_c
    Attempts,   \* the publisher's attempts
    MaxChanges, \* bound on changes of the weather
    MaxPolls,   \* bound on polls
    MaxFaults   \* bound on lost or refused requests, lost answers, deaths, failed polls and
                \* failed assessments

ASSUME WeatherAssumption ==
    /\ Settable \subseteq Weather /\ Default \in Weather
    /\ Watcher \notin Changer /\ None \notin Changer \cup Weather \cup {Watcher}
    /\ Attempts \in Nat \ {0}

Publisher == Changer \cup {Watcher}

VARIABLES
    backend,   \* the backend of this installation
    weather,   \* the state file, or, for the other backend, the weather outside
    lock,      \* the process that holds the exclusive file lock
    doing,     \* every process: [at, from, to, event, attempt, publish]
    baseline,  \* the watcher's `previous`
    received,  \* the events the receiver has accepted, in order, each with the status of its
               \* row in event_queue, where "queued" stands for "processing" too
    ids, faults, polls,
    written,   \* history: the changes, each [from, to, by]
    first,     \* history: what the watcher saw first since its start
    failed     \* history: the watcher's last delivery failed, or it was killed since it

vars == <<backend, weather, lock, doing, baseline, received, ids, faults, polls, written, first, failed>>

Simulated == backend = "simulator"
Idle == [at |-> "idle", from |-> None, to |-> None, event |-> 0, attempt |-> 0, publish |-> FALSE]
At(p, stage) == doing[p].at = stage

-----------------------------------------------------------------------------
(* change_weather and SimulatedWeatherProvider.set_weather.                *)
Change(c, w, publish) ==
    /\ Simulated /\ At(c, "idle")
    /\ Len(written) + Cardinality({d \in Changer : ~At(d, "idle")}) < MaxChanges
    /\ doing' = [doing EXCEPT ![c] = [Idle EXCEPT !.at = "lock", !.to = w, !.publish = publish]]
    /\ UNCHANGED <<backend, weather, lock, baseline, received, ids, faults, polls, written, first, failed>>

(* slip: a shared lock *)
LockShared(c) ==
    /\ At(c, "lock")
    /\ lock' = c
    /\ doing' = [doing EXCEPT ![c].at = "read"]
    /\ UNCHANGED <<backend, weather, baseline, received, ids, faults, polls, written, first, failed>>
Lock(c) ==
    /\ At(c, "lock") /\ lock = None
    /\ lock' = c
    /\ doing' = [doing EXCEPT ![c].at = "read"]
    /\ UNCHANGED <<backend, weather, baseline, received, ids, faults, polls, written, first, failed>>

ReadState(c) ==
    /\ At(c, "read")
    /\ doing' = [doing EXCEPT ![c].at = "write", ![c].from = weather]
    /\ UNCHANGED <<backend, weather, lock, baseline, received, ids, faults, polls, written, first, failed>>

(* A temporary file replaces the state in one step; then the lock is left. *)
WriteState(c) ==
    /\ At(c, "write")
    /\ weather' = doing[c].to
    /\ written' = Append(written, [from |-> doing[c].from, to |-> doing[c].to, by |-> c])
    /\ lock' = None
    /\ doing' = [doing EXCEPT ![c] = IF @.publish THEN [@ EXCEPT !.at = "publish"] ELSE Idle]
    /\ UNCHANGED <<backend, baseline, received, ids, faults, polls, first, failed>>

(* The other backend: the weather changes by itself.                       *)
WeatherChanges(w) ==
    /\ ~Simulated /\ Len(written) < MaxChanges /\ w # weather
    /\ weather' = w
    /\ written' = Append(written, [from |-> weather, to |-> w, by |-> None])
    /\ UNCHANGED <<backend, lock, doing, baseline, received, ids, faults, polls, first, failed>>

-----------------------------------------------------------------------------
(* _watch: the first poll is the baseline; every later one is compared     *)
(* with the poll before it, whether or not that was published.             *)
(* slip: a poll that is not published leaves the baseline *)
PollKeepsBaseline ==
    /\ At(Watcher, "idle") /\ polls < MaxPolls /\ lock = None
    /\ polls' = polls + 1
    /\ baseline' = IF baseline = None THEN weather ELSE baseline
    /\ first' = IF baseline = None THEN weather ELSE first
    /\ doing' = IF baseline = None THEN doing
                ELSE [doing EXCEPT ![Watcher] = [Idle EXCEPT !.at = "publish", !.from = baseline, !.to = weather]]
    /\ UNCHANGED <<backend, weather, lock, received, ids, faults, written, failed>>
Poll ==
    /\ At(Watcher, "idle") /\ polls < MaxPolls /\ lock = None
    /\ polls' = polls + 1
    /\ baseline' = weather
    /\ first' = IF baseline = None THEN weather ELSE first
    /\ doing' = IF baseline = None THEN doing
                ELSE [doing EXCEPT ![Watcher] = [Idle EXCEPT !.at = "publish", !.from = baseline, !.to = weather]]
    /\ UNCHANGED <<backend, weather, lock, received, ids, faults, written, failed>>

(* WeatherProviderError: a warning, and the baseline stays.                *)
PollFails ==
    /\ ~Simulated /\ At(Watcher, "idle") /\ polls < MaxPolls /\ faults < MaxFaults
    /\ polls' = polls + 1 /\ faults' = faults + 1
    /\ UNCHANGED <<backend, weather, lock, doing, baseline, received, ids, written, first, failed>>

-----------------------------------------------------------------------------
(* WeatherEventPublisher.                                                  *)
Distance(a, b) == IF a < b THEN b - a ELSE a - b
(* slip: the rain is not compared *)
SignificantDry(a, b) == a.condition # b.condition \/ Distance(a.temperature, b.temperature) >= Delta
IsSignificant(a, b) ==
    \/ a.condition # b.condition
    \/ a.raining # b.raining
    \/ Distance(a.temperature, b.temperature) >= Delta

(* One event, with one id for all attempts.                                *)
BuildEvent(p) ==
    /\ At(p, "publish")
    /\ IF IsSignificant(doing[p].from, doing[p].to)
       THEN /\ ids' = ids + 1
            /\ doing' = [doing EXCEPT ![p].at = "send", ![p].event = ids + 1, ![p].attempt = 1]
       ELSE doing' = [doing EXCEPT ![p] = Idle] /\ UNCHANGED ids
    /\ UNCHANGED <<backend, weather, lock, baseline, received, faults, polls, written, first, failed>>

(* enqueue_event: an id is known while its event waits, is assessed, or    *)
(* was assessed; a row that failed is replaced by one at the end.  What is *)
(* known is answered 2xx too.                                              *)
Known(id) == \E i \in DOMAIN received : received[i].id = id /\ received[i].status # "failed"
Received(p) == Append(received, [id |-> doing[p].event, from |-> doing[p].from, to |-> doing[p].to,
                                 by |-> p, status |-> "queued"])
(* slip: the id is not looked up *)
AcceptAgain(p) == received' = Received(p)
Accept(p) == received' = IF Known(doing[p].event) THEN received ELSE Received(p)

(* finish_event, also after a restart of the receiver in between: an event *)
(* whose assessment failed is forgotten.                                   *)
Finish(i, status) ==
    /\ received[i].status = "queued"
    /\ received' = [received EXCEPT ![i].status = status]
    /\ status = "failed" => faults < MaxFaults
    /\ faults' = IF status = "failed" THEN faults + 1 ELSE faults
    /\ UNCHANGED <<backend, weather, lock, doing, baseline, ids, polls, written, first, failed>>

Delivered(p) ==
    /\ At(p, "send")
    /\ Accept(p)
    /\ doing' = [doing EXCEPT ![p] = Idle]
    /\ failed' = (failed /\ p # Watcher)
    /\ UNCHANGED <<backend, weather, lock, baseline, ids, faults, polls, written, first>>

GiveUp(p) == /\ doing' = [doing EXCEPT ![p] = Idle]
             /\ failed' = (failed \/ p = Watcher)

Retry(p) == IF doing[p].attempt < Attempts
            THEN doing' = [doing EXCEPT ![p].attempt = @ + 1] /\ UNCHANGED failed
            ELSE GiveUp(p)

(* The request is lost or answered by 429 or 5xx, or the answer is lost.   *)
AttemptFails(p) ==
    /\ At(p, "send") /\ faults < MaxFaults
    /\ Accept(p) \/ UNCHANGED received
    /\ Retry(p)
    /\ faults' = faults + 1
    /\ UNCHANGED <<backend, weather, lock, baseline, ids, polls, written, first>>

(* Another 4xx: no retry.                                                  *)
Refused(p) ==
    /\ At(p, "send") /\ faults < MaxFaults
    /\ GiveUp(p)
    /\ faults' = faults + 1
    /\ UNCHANGED <<backend, weather, lock, baseline, received, ids, polls, written, first>>

(* A process is killed; the kernel drops its lock.  The watcher starts     *)
(* again without a baseline.                                               *)
Die(p) ==
    /\ faults < MaxFaults /\ (~At(p, "idle") \/ p = Watcher)
    /\ doing' = [doing EXCEPT ![p] = Idle]
    /\ lock' = IF lock = p THEN None ELSE lock
    /\ baseline' = IF p = Watcher THEN None ELSE baseline
    /\ failed' = (failed \/ p = Watcher)
    /\ faults' = faults + 1
    /\ UNCHANGED <<backend, weather, received, ids, polls, written, first>>

-----------------------------------------------------------------------------
Init ==
    /\ backend \in Backend /\ weather = Default /\ lock = None
    /\ doing = [p \in Publisher |-> Idle]
    /\ baseline = None /\ received = <<>> /\ ids = 0 /\ faults = 0 /\ polls = 0
    /\ written = <<>> /\ first = None /\ failed = FALSE

Publish(p) == BuildEvent(p) \/ Delivered(p) \/ AttemptFails(p) \/ Refused(p)
Apply(c) == Lock(c) \/ ReadState(c) \/ WriteState(c)
Next ==
    \/ \E c \in Changer : Apply(c) \/ \E w \in Settable, publish \in BOOLEAN : Change(c, w, publish)
    \/ \E w \in Weather : WeatherChanges(w)
    \/ Poll \/ PollFails
    \/ \E p \in Publisher : Publish(p) \/ Die(p)
    \/ \E i \in DOMAIN received, status \in {"completed", "failed"} : Finish(i, status)

Spec == Init /\ [][Next]_vars

-----------------------------------------------------------------------------
Stages == {"idle", "lock", "read", "write", "publish", "send"}
Maybe == Weather \cup {None}
Event == [id : Nat, from : Maybe, to : Maybe, by : Publisher, status : {"queued", "completed", "failed"}]

\* The type of the state.
TypeOK ==
    /\ backend \in Backend /\ weather \in Weather /\ lock \in Changer \cup {None}
    /\ doing \in [Publisher -> [at : Stages, from : Maybe, to : Maybe, event : Nat,
                                attempt : 0..Attempts, publish : BOOLEAN]]
    /\ baseline \in Maybe /\ first \in Maybe
    /\ received \in Seq(Event)
    /\ written \in Seq([from : Maybe, to : Maybe, by : Changer \cup {None}])
    /\ ids \in Nat /\ faults \in Nat /\ polls \in Nat /\ failed \in BOOLEAN

\* Every change starts from the weather the change before it left, although the server and
\* several command lines change it at once and are killed in between, and in whatever order
\* they publish, an event reports the change it was made for: what it says of the weather
\* before was the weather just before it (set_weather under the exclusive lock, publish).
ChangesChain ==
    /\ \A i \in DOMAIN written :
         written[i].from = IF i = 1 THEN Default ELSE written[i - 1].to
    /\ written # <<>> => weather = Last(written).to
    /\ \A i \in DOMAIN received : received[i].by \in Changer =>
         \E j \in DOMAIN written :
            written[j] = [from |-> received[i].from, to |-> received[i].to, by |-> received[i].by]

\* However often the request or the answer was lost, a change is not assessed twice to the
\* end: all but one of its receptions have failed, and those failed before the next one.  A
\* second reception there is indeed, of a retry whose first request was received, with the
\* answer lost, and whose assessment failed meanwhile (events.py:93-109, store.py:67-135).
ReceivedOnce ==
    /\ \A i, j \in DOMAIN received :
         i < j /\ received[i].id = received[j].id => received[i].status = "failed"
    /\ \A c \in Changer \cup {Watcher} :
         Cardinality({i \in DOMAIN received : received[i].by = c /\ received[i].status # "failed"})
           <= IF c = Watcher THEN polls ELSE Cardinality({i \in DOMAIN written : written[i].by = c})

\* Between two polls the receiver knows the condition and the rain of the last one: the
\* watcher's last event says them or, as long as there is none, they are those it saw first
\* (the events tell changes).  That holds from its start until a delivery fails or it is
\* killed, and again after its next delivery.  What comes and goes between two polls, such
\* as while an event is being sent, is not seen and never told (_watch, is_significant).
ConditionIsTold ==
    LET told == {i \in DOMAIN received : received[i].by = Watcher}
        Newest(i) == \A j \in told : j <= i
        Same(w) == w.condition = baseline.condition /\ w.raining = baseline.raining
    IN ~failed /\ At(Watcher, "idle") /\ baseline # None =>
         /\ told = {} => Same(first)
         /\ \A i \in told : Newest(i) => Same(received[i].to)
=============================================================================

----------------------------- MODULE WeatherProofs -----------------------------
(***************************************************************************)
(* What the weather service guarantees for any number of processes that    *)
(* set the weather, of polls, retries, lost requests and deaths.  The      *)
(* invariant says who is between the read and the write of the state file  *)
(* (Locked), that the file is what the last change wrote (Filed), that the *)
(* changes form a chain (Chained), and how many events of a process may    *)
(* still be received and not fail: no more than it changed the weather or  *)
(* polled it (Counted).  Two more invariants, further down, are about what *)
(* the events report (ReportInv) and what the watcher has told (ToldInv).  *)
(***************************************************************************)
EXTENDS WeatherEvents, FiniteSetTheorems, TLAPS

Locked ==
    \A p \in Publisher :
        /\ At(p, "lock") \/ At(p, "read") \/ At(p, "write") => p \in Changer /\ Simulated
        /\ At(p, "read") \/ At(p, "write") => lock = p
        /\ At(p, "write") => doing[p].from = weather
        /\ At(p, "lock") \/ At(p, "read") \/ At(p, "write") => doing[p].to \in Weather

Filed == weather = IF written = <<>> THEN Default ELSE written[Len(written)].to

Chained ==
    \A i \in 1..Len(written) : written[i].from = IF i = 1 THEN Default ELSE written[i - 1].to

By(s, p) == {i \in DOMAIN s : s[i].by = p}

(* The events of p whose assessment has not failed. *)
Live(s, p) == {i \in DOMAIN s : s[i].by = p /\ s[i].status # "failed"}

(* An event of p is still to be received, for the first time or again. *)
Owed(p) == IF At(p, "publish") \/ (At(p, "send") /\ ~Known(doing[p].event)) THEN 1 ELSE 0

Told(p) == IF p = Watcher THEN polls ELSE Cardinality(By(written, p))

(* An event keeps its number for all attempts, and no other event has it.  *)
Latest(i) ==
    /\ i \in DOMAIN received /\ received[i].by = Watcher
    /\ \A j \in DOMAIN received : received[j].by = Watcher => j <= i
Alike(a, b) == a.condition = b.condition /\ a.raining = b.raining

Numbered ==
    /\ \A i \in DOMAIN received : received[i].id <= ids
    /\ \A p \in Publisher : At(p, "send") =>
         /\ doing[p].event <= ids
         /\ \A q \in Publisher : q # p /\ At(q, "send") => doing[q].event # doing[p].event
         /\ \A i \in DOMAIN received : received[i].id = doing[p].event =>
              /\ received[i].by = p /\ received[i].to = doing[p].to
              /\ p = Watcher => \A j : Latest(j) => received[j].id = doing[p].event

Counted == \A p \in Publisher : Cardinality(Live(received, p)) + Owed(p) <= Told(p)

WeatherInv == TypeOK /\ Locked /\ Filed /\ Chained /\ Counted

(* The events and the changes of one process can be counted ... *)
LEMMA Countable ==
    ASSUME NEW S, NEW s \in Seq(S), NEW p
    PROVE  /\ IsFiniteSet(By(s, p)) /\ Cardinality(By(s, p)) \in Nat
           /\ IsFiniteSet(Live(s, p)) /\ Cardinality(Live(s, p)) \in Nat
<1>1. Len(s) \in Nat /\ By(s, p) \subseteq 1..Len(s)
  BY DEF By
<1>2. IsFiniteSet(1..Len(s))
  BY <1>1, FS_Interval
<1>3. IsFiniteSet(By(s, p))
  BY <1>1, <1>2, FS_Subset
<1>4. Live(s, p) \subseteq By(s, p)
  BY DEF By, Live
<1>5. IsFiniteSet(Live(s, p))
  BY <1>3, <1>4, FS_Subset
<1>6. QED
  BY <1>3, <1>5, FS_CardinalityType

(* ... and what is appended counts for its process. *)
LEMMA CountAppended ==
    ASSUME NEW S, NEW s \in Seq(S), NEW e \in S, NEW p
    PROVE  Cardinality(By(Append(s, e), p)) = Cardinality(By(s, p)) + (IF e.by = p THEN 1 ELSE 0)
<1> DEFINE n == Len(s)
<1>1. n \in Nat /\ DOMAIN s = 1..n /\ DOMAIN Append(s, e) = 1..(n + 1)
  OBVIOUS
<1>2. /\ Append(s, e)[n + 1] = e
      /\ \A i \in 1..n : Append(s, e)[i] = s[i]
  OBVIOUS
<1>3. By(Append(s, e), p) = IF e.by = p THEN By(s, p) \cup {n + 1} ELSE By(s, p)
  BY <1>1, <1>2 DEF By
<1>4. n + 1 \notin By(s, p)
  BY <1>1 DEF By
<1>5. IsFiniteSet(By(s, p)) /\ Cardinality(By(s, p)) \in Nat
  BY Countable
<1>6. Cardinality(By(s, p) \cup {n + 1}) = Cardinality(By(s, p)) + 1
  BY <1>4, <1>5, FS_AddElement
<1>7. QED
  BY <1>3, <1>5, <1>6

LEMMA LiveAppended ==
    ASSUME NEW S, NEW s \in Seq(S), NEW e \in S, e.status # "failed", NEW p
    PROVE  Cardinality(Live(Append(s, e), p)) = Cardinality(Live(s, p)) + (IF e.by = p THEN 1 ELSE 0)
<1> DEFINE n == Len(s)
<1>1. n \in Nat /\ DOMAIN s = 1..n /\ DOMAIN Append(s, e) = 1..(n + 1)
  OBVIOUS
<1>2. /\ Append(s, e)[n + 1] = e
      /\ \A i \in 1..n : Append(s, e)[i] = s[i]
  OBVIOUS
<1>3. Live(Append(s, e), p) = IF e.by = p THEN Live(s, p) \cup {n + 1} ELSE Live(s, p)
  BY <1>1, <1>2 DEF Live
<1>4. n + 1 \notin Live(s, p)
  BY <1>1 DEF Live
<1>5. IsFiniteSet(Live(s, p)) /\ Cardinality(Live(s, p)) \in Nat
  BY Countable
<1>6. Cardinality(Live(s, p) \cup {n + 1}) = Cardinality(Live(s, p)) + 1
  BY <1>4, <1>5, FS_AddElement
<1>7. QED
  BY <1>3, <1>5, <1>6

Doing == [at : Stages, from : Maybe, to : Maybe, event : Nat, attempt : 0..Attempts, publish : BOOLEAN]

LEMMA IdleType == Idle \in Doing /\ Idle.at = "idle"
<1>1. 0 \in 0..Attempts
  BY WeatherAssumption
<1>2. QED
  BY <1>1 DEF Idle, Doing, Stages, Maybe

LEMMA InitInv == Init => WeatherInv
<1> SUFFICES ASSUME Init PROVE WeatherInv
  OBVIOUS
<1>1. TypeOK
  <2>1. doing \in [Publisher -> Doing]
    BY IdleType DEF Init
  <2>2. /\ received \in Seq(Event)
        /\ written \in Seq([from : Maybe, to : Maybe, by : Changer \cup {None}])
    BY DEF Init
  <2>3. /\ backend \in Backend /\ weather \in Weather /\ lock \in Changer \cup {None}
        /\ baseline \in Maybe /\ first \in Maybe /\ ids \in Nat /\ faults \in Nat /\ polls \in Nat /\ failed \in BOOLEAN
    BY WeatherAssumption DEF Init, Maybe
  <2>4. QED
    BY <2>1, <2>2, <2>3 DEF TypeOK, Doing
<1>2. Locked /\ Filed /\ Chained
  BY DEF Init, Locked, Filed, Chained, At, Idle
<1>3. \A p : By(<<>>, p) = {} /\ Live(<<>>, p) = {}
  BY DEF By, Live
<1>4. \A p \in Publisher : Live(received, p) = {} /\ By(written, p) = {} /\ Owed(p) = 0
  BY <1>3, IdleType DEF Init, Owed, At
<1>5. Counted
  <2>1. Cardinality({}) = 0
    BY FS_EmptySet
  <2>2. polls = 0
    BY DEF Init
  <2>3. QED
    BY <1>4, <2>1, <2>2 DEF Counted, Told
<1>6. QED
  BY <1>1, <1>2, <1>5 DEF WeatherInv

LEMMA Counts ==
    ASSUME TypeOK
    PROVE  \A p \in Publisher : /\ Cardinality(Live(received, p)) \in Nat
                                /\ Cardinality(By(written, p)) \in Nat
                                /\ Owed(p) \in {0, 1}
BY Countable DEF TypeOK, Owed

(* Nothing is received or changed, and no more is owed than before or than polled for. *)
LEMMA NothingCounted ==
    ASSUME TypeOK, Counted, UNCHANGED <<received, written>>,
           polls' \in {polls, polls + 1},
           \A p \in Publisher : \/ Owed(p)' <= Owed(p)
                                \/ p = Watcher /\ Owed(p) = 0 /\ polls' = polls + 1
    PROVE  Counted'
<1> SUFFICES ASSUME NEW p \in Publisher
             PROVE  Cardinality(Live(received, p)) + Owed(p)' <= Told(p)'
  BY DEF Counted
<1>1. /\ Cardinality(Live(received, p)) \in Nat /\ Cardinality(By(written, p)) \in Nat
      /\ Owed(p) \in {0, 1}
  BY Counts
<1>2. Owed(p)' \in {0, 1}
  BY DEF Owed
<1>3. Cardinality(Live(received, p)) + Owed(p) <= Told(p)
  BY DEF Counted
<1>4. polls \in Nat
  BY DEF TypeOK
<1>5. CASE p = Watcher
  BY <1>1, <1>2, <1>3, <1>4, <1>5 DEF Told
<1>6. CASE p # Watcher
  BY <1>1, <1>2, <1>3, <1>6 DEF Told
<1>7. QED
  BY <1>5, <1>6

(* One process goes to a stage in which nothing of it waits to be received. *)
LEMMA RestCounted ==
    ASSUME TypeOK, Counted, NEW p \in Publisher, NEW d,
           doing' = [doing EXCEPT ![p] = d], d.at \notin {"publish", "send"},
           UNCHANGED <<received, written, polls>>
    PROVE  Counted'
<1>1. \A q \in Publisher : Owed(q)' \in {0, Owed(q)}
  BY DEF TypeOK, Owed, At, Known
<1>2. \A q \in Publisher : \/ Owed(q)' <= Owed(q)
                           \/ q = Watcher /\ Owed(q) = 0 /\ polls' = polls + 1
  BY <1>1, Counts
<1>3. polls' \in {polls, polls + 1} /\ UNCHANGED <<received, written>>
  OBVIOUS
<1>4. QED
  BY <1>2, <1>3, NothingCounted

LEMMA Changes ==
    ASSUME WeatherInv, NEW c \in Changer, NEW w \in Settable, NEW publish \in BOOLEAN,
           Change(c, w, publish)
    PROVE  WeatherInv'
<1> DEFINE d == [Idle EXCEPT !.at = "lock", !.to = w, !.publish = publish]
<1>1. /\ Simulated /\ doing' = [doing EXCEPT ![c] = d]
      /\ UNCHANGED <<backend, weather, lock, baseline, received, ids, faults, polls, written, first, failed>>
  BY DEF Change
<1>2. d \in Doing
      /\ d.at = "lock" /\ d.to \in Weather
  BY IdleType, WeatherAssumption DEF Doing, Stages, Maybe
<1>3. c \in Publisher
  BY DEF Publisher
<1> HIDE DEF d
<1>4. TypeOK'
  BY <1>1, <1>2, <1>3 DEF WeatherInv, TypeOK, Doing
<1>5. Locked'
  BY <1>1, <1>2, <1>3 DEF WeatherInv, TypeOK, Locked, At, Simulated
<1>6. Counted'
  BY <1>1, <1>2, <1>3, <1>4, RestCounted DEF WeatherInv
<1>7. QED
  BY <1>1, <1>4, <1>5, <1>6 DEF WeatherInv, Filed, Chained

LEMMA Locks == ASSUME WeatherInv, NEW c \in Changer, Lock(c) PROVE WeatherInv'
<1> DEFINE d == [doing[c] EXCEPT !.at = "read"]
<1>1. /\ doing[c].at = "lock" /\ lock = None /\ lock' = c /\ doing' = [doing EXCEPT ![c] = d]
      /\ UNCHANGED <<backend, weather, baseline, received, ids, faults, polls, written, first, failed>>
  BY DEF Lock, At
<1>2. c \in Publisher
  BY DEF Publisher
<1>3. d \in Doing
      /\ d.at = "read" /\ d.to = doing[c].to
  BY <1>2 DEF WeatherInv, TypeOK, Doing, Stages
<1> HIDE DEF d
<1>4. TypeOK'
  BY <1>1, <1>2, <1>3 DEF WeatherInv, TypeOK, Doing
<1>5. Locked'
  BY <1>1, <1>2, <1>3, WeatherAssumption DEF WeatherInv, TypeOK, Locked, At, Simulated, Publisher
<1>6. Counted'
  BY <1>1, <1>2, <1>3, <1>4, RestCounted DEF WeatherInv
<1>7. QED
  BY <1>1, <1>4, <1>5, <1>6 DEF WeatherInv, Filed, Chained

LEMMA Reads == ASSUME WeatherInv, NEW c \in Changer, ReadState(c) PROVE WeatherInv'
<1> DEFINE d == [doing[c] EXCEPT !.at = "write", !.from = weather]
<1>1. /\ doing[c].at = "read" /\ doing' = [doing EXCEPT ![c] = d]
      /\ UNCHANGED <<backend, weather, lock, baseline, received, ids, faults, polls, written, first, failed>>
  BY DEF ReadState, At
<1>2. c \in Publisher
  BY DEF Publisher
<1>3. d \in Doing
      /\ d.at = "write" /\ d.from = weather /\ d.to = doing[c].to
  BY <1>2 DEF WeatherInv, TypeOK, Doing, Stages, Maybe
<1> HIDE DEF d
<1>4. TypeOK'
  BY <1>1, <1>2, <1>3 DEF WeatherInv, TypeOK, Doing
<1>5. Locked'
  BY <1>1, <1>2, <1>3 DEF WeatherInv, TypeOK, Locked, At, Simulated
<1>6. Counted'
  BY <1>1, <1>2, <1>3, <1>4, RestCounted DEF WeatherInv
<1>7. QED
  BY <1>1, <1>4, <1>5, <1>6 DEF WeatherInv, Filed, Chained

(* A change is appended: the chain is one longer, and the file is its end. *)
LEMMA ChangeAppended ==
    ASSUME TypeOK, Filed, Chained, NEW w \in Weather, NEW by \in Changer \cup {None},
           weather' = w, written' = Append(written, [from |-> weather, to |-> w, by |-> by])
    PROVE  /\ written' \in Seq([from : Maybe, to : Maybe, by : Changer \cup {None}])
           /\ Filed' /\ Chained'
           /\ \A p : Cardinality(By(written', p)) =
                       Cardinality(By(written, p)) + (IF by = p THEN 1 ELSE 0)
<1> DEFINE e == [from |-> weather, to |-> w, by |-> by]
           S == [from : Maybe, to : Maybe, by : Changer \cup {None}]
           n == Len(written)
<1>1. e \in S /\ e.by = by /\ e.from = weather /\ e.to = w /\ written \in Seq(S) /\ written' = Append(written, e)
  BY DEF TypeOK, Maybe
<1> HIDE DEF e, S
<1>2. ASSUME NEW p
      PROVE  Cardinality(By(written', p)) = Cardinality(By(written, p)) + (IF by = p THEN 1 ELSE 0)
  <2>1. Cardinality(By(Append(written, e), p)) = Cardinality(By(written, p)) + (IF e.by = p THEN 1 ELSE 0)
    BY <1>1, CountAppended
  <2>2. QED
    BY <1>1, <2>1
<1>3. /\ n \in Nat /\ written' \in Seq(S) /\ Len(written') = n + 1 /\ written' # <<>>
      /\ written'[n + 1] = e /\ \A i \in 1..n : written'[i] = written[i]
  BY <1>1
<1>4. Filed'
  BY <1>1, <1>3 DEF Filed
<1>5. written = <<>> <=> n = 0
  BY <1>1
<1>6. Chained'
  <2> SUFFICES ASSUME NEW i \in 1..(n + 1)
               PROVE  written'[i].from = IF i = 1 THEN Default ELSE written'[i - 1].to
    BY <1>3 DEF Chained
  <2>1. CASE i \in 1..n
    BY <1>3, <2>1 DEF Chained
  <2>2. CASE i = n + 1
    BY <1>1, <1>3, <1>5, <2>2 DEF Filed
  <2>3. QED
    BY <1>3, <2>1, <2>2
<1>7. QED
  BY <1>2, <1>3, <1>4, <1>6 DEF S

LEMMA Writes == ASSUME WeatherInv, NEW c \in Changer, WriteState(c) PROVE WeatherInv'
<1> DEFINE d == IF doing[c].publish THEN [doing[c] EXCEPT !.at = "publish"] ELSE Idle
           w == doing[c].to
<1>1. /\ doing[c].at = "write" /\ weather' = w /\ lock' = None /\ doing' = [doing EXCEPT ![c] = d]
      /\ written' = Append(written, [from |-> doing[c].from, to |-> w, by |-> c])
      /\ UNCHANGED <<backend, baseline, received, ids, faults, polls, first, failed>>
  BY DEF WriteState, At
<1>2. c \in Publisher /\ c # Watcher /\ lock = c /\ doing[c].from = weather /\ w \in Weather
  BY <1>1, WeatherAssumption DEF Publisher, WeatherInv, Locked, At
<1>3. d \in Doing /\ d.at \in {"publish", "idle"}
  BY <1>1, <1>2, IdleType DEF WeatherInv, TypeOK, Doing, Stages
<1> HIDE DEF d
<1>4. /\ written' \in Seq([from : Maybe, to : Maybe, by : Changer \cup {None}])
      /\ Filed' /\ Chained'
      /\ \A p : Cardinality(By(written', p)) = Cardinality(By(written, p)) + (IF c = p THEN 1 ELSE 0)
  <2>1. written' = Append(written, [from |-> weather, to |-> w, by |-> c])
    BY <1>1, <1>2
  <2>2. QED
    BY <1>1, <1>2, <2>1, ChangeAppended DEF WeatherInv
<1>5. TypeOK'
  BY <1>1, <1>2, <1>3, <1>4 DEF WeatherInv, TypeOK, Doing
<1>6. Locked'
  <2>1. \A p \in Publisher : p # c => ~At(p, "read") /\ ~At(p, "write") /\ doing'[p] = doing[p]
    BY <1>1, <1>2 DEF WeatherInv, TypeOK, Locked, At
  <2>2. doing'[c] = d
    BY <1>1, <1>2 DEF WeatherInv, TypeOK
  <2>3. QED
    BY <1>1, <1>3, <2>1, <2>2 DEF WeatherInv, Locked, At, Simulated
<1>7. Counted'
  <2> SUFFICES ASSUME NEW p \in Publisher
               PROVE  Cardinality(Live(received, p)) + Owed(p)' <= Told(p)'
    BY <1>1 DEF Counted
  <2>1. /\ Cardinality(Live(received, p)) \in Nat /\ Cardinality(By(written, p)) \in Nat
        /\ Owed(p) \in {0, 1} /\ Owed(p)' \in {0, 1}
    BY Counts DEF WeatherInv, Owed
  <2>2. Cardinality(Live(received, p)) + Owed(p) <= Told(p)
    BY DEF WeatherInv, Counted
  <2>3. CASE p = c
    <3>1. Owed(c) = 0
      BY <1>1 DEF Owed, At
    <3>2. Told(c) = Cardinality(By(written, c)) /\ Told(c)' = Cardinality(By(written, c)) + 1
      BY <1>2, <1>4 DEF Told
    <3>3. QED
      BY <2>1, <2>2, <2>3, <3>1, <3>2
  <2>4. CASE p # c
    <3>1. Owed(p)' = Owed(p)
      BY <1>1, <2>4 DEF WeatherInv, TypeOK, Owed, At, Known
    <3>2. Told(p)' = Told(p)
      BY <1>1, <1>4, <2>1, <2>4 DEF Told
    <3>3. QED
      BY <2>2, <3>1, <3>2
  <2>5. QED
    BY <2>3, <2>4
<1>8. QED
  BY <1>4, <1>5, <1>6, <1>7 DEF WeatherInv

LEMMA WeatherTurns == ASSUME WeatherInv, NEW w \in Weather, WeatherChanges(w) PROVE WeatherInv'
<1>1. /\ ~Simulated /\ weather' = w /\ written' = Append(written, [from |-> weather, to |-> w, by |-> None])
      /\ UNCHANGED <<backend, lock, doing, baseline, received, ids, faults, polls, first, failed>>
  BY DEF WeatherChanges
<1>2. /\ written' \in Seq([from : Maybe, to : Maybe, by : Changer \cup {None}])
      /\ Filed' /\ Chained'
      /\ \A p : Cardinality(By(written', p)) = Cardinality(By(written, p)) + (IF None = p THEN 1 ELSE 0)
  BY <1>1, ChangeAppended DEF WeatherInv
<1>3. TypeOK'
  BY <1>1, <1>2 DEF WeatherInv, TypeOK
<1>4. Locked'
  BY <1>1 DEF WeatherInv, Locked, At, Simulated
<1>5. Counted'
  <2> SUFFICES ASSUME NEW p \in Publisher
               PROVE  Cardinality(Live(received, p)) + Owed(p)' <= Told(p)'
    BY <1>1 DEF Counted
  <2>1. Owed(p)' = Owed(p)
    BY <1>1 DEF Owed, At, Known
  <2>2. p # None /\ Cardinality(By(written, p)) \in Nat
    BY WeatherAssumption, Counts DEF Publisher, WeatherInv
  <2>3. Told(p)' = Told(p)
    BY <1>1, <1>2, <2>2 DEF Told
  <2>4. QED
    BY <2>1, <2>3 DEF WeatherInv, Counted
<1>6. QED
  BY <1>2, <1>3, <1>4, <1>5 DEF WeatherInv

LEMMA Polls == ASSUME WeatherInv, Poll PROVE WeatherInv'
<1> DEFINE d == [Idle EXCEPT !.at = "publish", !.from = baseline, !.to = weather]
           p == Watcher
<1>1. /\ doing[p].at = "idle" /\ polls' = polls + 1 /\ baseline' = weather /\ first' \in {weather, first}
      /\ doing' = doing \/ doing' = [doing EXCEPT ![p] = d]
      /\ UNCHANGED <<backend, weather, lock, received, ids, faults, written, failed>>
  BY DEF Poll, At
<1>2. p \in Publisher /\ d \in Doing /\ d.at = "publish"
  BY IdleType DEF Publisher, Doing, Stages, Maybe, WeatherInv, TypeOK
<1> HIDE DEF d
<1>3. TypeOK'
  <2>1. doing \in [Publisher -> Doing] /\ weather \in Weather /\ polls \in Nat
    BY DEF WeatherInv, TypeOK, Doing
  <2>2. doing' \in [Publisher -> Doing]
    BY <1>1, <1>2, <2>1
  <2>3. baseline' \in Maybe /\ first' \in Maybe /\ polls' \in Nat
    BY <1>1, <2>1 DEF Maybe, WeatherInv, TypeOK
  <2>4. QED
    BY <1>1, <2>2, <2>3 DEF WeatherInv, TypeOK, Doing
<1>4. Locked'
  BY <1>1, <1>2 DEF WeatherInv, TypeOK, Locked, At, Simulated
<1>5. Counted'
  <2>1. Owed(p) = 0
    BY <1>1 DEF Owed, At
  <2>2. \A q \in Publisher : q # p => Owed(q)' = Owed(q)
    BY <1>1 DEF WeatherInv, TypeOK, Owed, At, Known
  <2>3. \A q \in Publisher : \/ Owed(q)' <= Owed(q)
                             \/ q = Watcher /\ Owed(q) = 0 /\ polls' = polls + 1
    <3> SUFFICES ASSUME NEW q \in Publisher, q # p PROVE Owed(q)' <= Owed(q)
      BY <1>1, <2>1
    <3>1. Owed(q) \in {0, 1} /\ Owed(q)' = Owed(q)
      BY <2>2, Counts DEF WeatherInv
    <3>2. QED
      BY <3>1
  <2>4. QED
    BY <1>1, <1>3, <2>3, NothingCounted DEF WeatherInv
<1>6. QED
  BY <1>1, <1>3, <1>4, <1>5 DEF WeatherInv, Filed, Chained

LEMMA PollErrs == ASSUME WeatherInv, PollFails PROVE WeatherInv'
<1>1. /\ faults' = faults + 1 /\ polls' = polls + 1
      /\ UNCHANGED <<backend, weather, lock, doing, baseline, received, ids, written, first, failed>>
  BY DEF PollFails
<1>2. TypeOK'
  BY <1>1 DEF WeatherInv, TypeOK
<1>3. \A q \in Publisher : Owed(q)' = Owed(q) /\ Owed(q) \in {0, 1}
  BY <1>1, Counts DEF WeatherInv, Owed, At, Known
<1>4. Counted'
  BY <1>1, <1>3, NothingCounted DEF WeatherInv
<1>5. Locked'
  BY <1>1 DEF WeatherInv, Locked, At, Simulated
<1>6. QED
  BY <1>1, <1>2, <1>4, <1>5 DEF WeatherInv, Filed, Chained

LEMMA Builds == ASSUME WeatherInv, NEW p \in Publisher, BuildEvent(p) PROVE WeatherInv'
<1> DEFINE d == IF IsSignificant(doing[p].from, doing[p].to)
                THEN [doing[p] EXCEPT !.at = "send", !.event = ids + 1, !.attempt = 1] ELSE Idle
<1>1. /\ doing[p].at = "publish" /\ doing' = [doing EXCEPT ![p] = d] /\ ids' \in {ids, ids + 1}
      /\ UNCHANGED <<backend, weather, lock, baseline, received, faults, polls, written, first, failed>>
  BY DEF BuildEvent, At
<1>2. d \in Doing /\ d.at \in {"send", "idle"}
  <2>1. 1 \in 0..Attempts /\ ids + 1 \in Nat /\ doing[p] \in Doing
    BY WeatherAssumption DEF WeatherInv, TypeOK, Doing
  <2>2. QED
    BY <2>1, IdleType DEF Doing, Stages
<1> HIDE DEF d
<1>3. TypeOK'
  <2>1. doing' \in [Publisher -> Doing] /\ ids' \in Nat
    BY <1>1, <1>2 DEF WeatherInv, TypeOK, Doing
  <2>2. QED
    BY <1>1, <2>1 DEF WeatherInv, TypeOK, Doing
<1>4. Locked'
  BY <1>1, <1>2 DEF WeatherInv, TypeOK, Locked, At, Simulated
<1>5. Counted'
  <2>1. Owed(p) = 1 /\ Owed(p)' \in {0, 1}
    BY <1>1 DEF Owed, At
  <2>2. \A q \in Publisher : q # p => Owed(q)' = Owed(q)
    BY <1>1 DEF WeatherInv, TypeOK, Owed, At, Known
  <2>3. \A q \in Publisher : Owed(q)' <= Owed(q)
    BY <2>1, <2>2, Counts DEF WeatherInv
  <2>4. QED
    BY <1>1, <2>3, NothingCounted DEF WeatherInv
<1>6. QED
  BY <1>1, <1>3, <1>4, <1>5 DEF WeatherInv, Filed, Chained

(* A request that may have been received, after which p rests or sends the same event. *)
LEMMA ReceivedCounted ==
    ASSUME WeatherInv, NEW p \in Publisher, NEW d, doing[p].at = "send",
           doing' = [doing EXCEPT ![p] = d],
           d.at = "idle" \/ (d.at = "send" /\ d.event = doing[p].event),
           Accept(p) \/ received' = received, UNCHANGED <<written, polls>>
    PROVE  /\ received' \in Seq(Event)
           /\ Counted'
<1> DEFINE e == [id |-> doing[p].event, from |-> doing[p].from, to |-> doing[p].to, by |-> p,
                 status |-> "queued"]
           S == Event
<1>1. /\ e \in S /\ e.by = p /\ e.id = doing[p].event /\ e.status = "queued" /\ received \in Seq(S)
      /\ \/ received' = received
         \/ ~Known(doing[p].event) /\ received' = Append(received, e)
  BY DEF WeatherInv, TypeOK, Accept, Received, Event
<1> HIDE DEF e, S
<1>2. received' \in Seq(S)
  BY <1>1
<1>3. \A q \in Publisher : q # p => doing'[q] = doing[q]
  BY DEF WeatherInv, TypeOK
<1>4. doing'[p] = d
  BY DEF WeatherInv, TypeOK
<1>5. CASE received' = received
  <2>1. \A id : Known(id)' = Known(id)
    BY <1>5 DEF Known
  <2>2. \A q \in Publisher : q # p => Owed(q)' = Owed(q)
    BY <1>3, <2>1 DEF Owed, At
  <2>3. Owed(p)' \in {0, Owed(p)}
    BY <1>4, <2>1 DEF Owed, At
  <2>4. \A q \in Publisher : Owed(q)' <= Owed(q)
    BY <2>2, <2>3, Counts DEF WeatherInv
  <2>5. UNCHANGED <<received, written>>
    BY <1>5
  <2>6. Counted'
    BY <2>4, <2>5, NothingCounted DEF WeatherInv
  <2>7. QED
    BY <1>2, <2>6 DEF S
<1>6. CASE ~Known(doing[p].event) /\ received' = Append(received, e)
  <2>1. /\ \A i \in DOMAIN received : i \in DOMAIN received' /\ received'[i] = received[i]
        /\ Len(received) + 1 \in DOMAIN received' /\ received'[Len(received) + 1] = e
    BY <1>1, <1>6
  <2>2. \A id : Known(id) => Known(id)'
    BY <2>1 DEF Known
  <2>3. \A id : id = doing[p].event => Known(id)'
    BY <1>1, <2>1 DEF Known
  <2>4. Owed(p) = 1 /\ Owed(p)' = 0
    BY <1>4, <1>6, <2>3 DEF Owed, At
  <2>5. \A q \in Publisher : q # p => Owed(q)' \in {0, Owed(q)}
    BY <1>3, <2>2 DEF Owed, At
  <2>6. \A q \in Publisher : Told(q)' = Told(q)
    BY DEF Told
  <2> SUFFICES ASSUME NEW q \in Publisher
               PROVE  Cardinality(Live(received', q)) + Owed(q)' <= Told(q)'
    BY <1>2 DEF Counted, S
  <2>7. Cardinality(Live(received', q)) = Cardinality(Live(received, q)) + (IF e.by = q THEN 1 ELSE 0)
    <3>1. Cardinality(Live(Append(received, e), q)) = Cardinality(Live(received, q)) + (IF e.by = q THEN 1 ELSE 0)
      BY <1>1, LiveAppended
    <3>2. QED
      BY <1>6, <3>1
  <2>8. /\ Cardinality(Live(received, q)) + Owed(q) <= Told(q)
        /\ Cardinality(Live(received, q)) \in Nat /\ Owed(q) \in {0, 1}
    BY Counts DEF WeatherInv, Counted
  <2>9. Told(q) \in Nat
    BY Counts DEF WeatherInv, Told, TypeOK
  <2>10. CASE q = p
    BY <1>1, <2>4, <2>6, <2>7, <2>8, <2>9, <2>10
  <2>11. CASE q # p
    <3>1. Cardinality(Live(received', q)) = Cardinality(Live(received, q))
      BY <1>1, <2>7, <2>8, <2>11
    <3>2. Owed(q)' \in {0, Owed(q)} /\ Told(q)' = Told(q)
      BY <2>5, <2>6, <2>11
    <3>3. QED
      BY <2>8, <2>9, <3>1, <3>2
  <2>12. QED
    BY <2>10, <2>11
<1>7. QED
  BY <1>1, <1>2, <1>5, <1>6 DEF S

(* What a request leads to: p rests, or sends the same event again. *)
LEMMA SendInv ==
    ASSUME WeatherInv, NEW p \in Publisher, doing[p].at = "send",
           doing' = [doing EXCEPT ![p] = Idle]
             \/ (doing[p].attempt < Attempts /\ doing' = [doing EXCEPT ![p].attempt = @ + 1]),
           Accept(p) \/ received' = received, faults' \in {faults, faults + 1}, failed' \in BOOLEAN,
           UNCHANGED <<backend, weather, lock, baseline, ids, polls, written, first>>
    PROVE  WeatherInv'
<1> DEFINE again == [doing[p] EXCEPT !.attempt = @ + 1]
<1>1. /\ doing[p] \in Doing /\ doing[p].attempt \in 0..Attempts
      /\ doing \in [Publisher -> Doing] /\ faults \in Nat
  BY DEF WeatherInv, TypeOK, Doing
<1>2. PICK d : /\ d = Idle \/ (d = again /\ doing[p].attempt < Attempts)
               /\ doing' = [doing EXCEPT ![p] = d]
  BY <1>1
<1>3. d \in Doing /\ (d.at = "idle" \/ (d.at = "send" /\ d.event = doing[p].event))
  <2>1. CASE d = Idle
    BY <2>1, IdleType
  <2>2. CASE d = again /\ doing[p].attempt < Attempts
    <3>1. doing[p].attempt + 1 \in 0..Attempts
      BY <1>1, <2>2, WeatherAssumption
    <3>2. QED
      BY <1>1, <2>2, <3>1 DEF Doing
  <2>3. QED
    BY <1>2, <2>1, <2>2
<1> HIDE DEF again
<1>4. /\ received' \in Seq(Event)
      /\ Counted'
  BY <1>2, <1>3, ReceivedCounted
<1>5. TypeOK'
  <2>1. doing' \in [Publisher -> Doing] /\ faults' \in Nat
    BY <1>1, <1>2, <1>3
  <2>2. QED
    BY <1>4, <2>1 DEF WeatherInv, TypeOK, Doing
<1>6. Locked'
  BY <1>1, <1>2, <1>3 DEF WeatherInv, Locked, At, Simulated
<1>7. QED
  BY <1>4, <1>5, <1>6 DEF WeatherInv, Filed, Chained

LEMMA Sends ==
    ASSUME WeatherInv, NEW p \in Publisher, Delivered(p) \/ AttemptFails(p) \/ Refused(p)
    PROVE  WeatherInv'
<1>1. doing[p].at = "send" /\ UNCHANGED <<backend, weather, lock, baseline, ids, polls, written, first>>
  BY DEF Delivered, AttemptFails, Refused, At
<1>2. \/ doing' = [doing EXCEPT ![p] = Idle]
      \/ doing[p].attempt < Attempts /\ doing' = [doing EXCEPT ![p].attempt = @ + 1]
  BY DEF Delivered, AttemptFails, Refused, Retry, GiveUp
<1>3. (Accept(p) \/ received' = received) /\ faults' \in {faults, faults + 1}
  BY DEF Delivered, AttemptFails, Refused
<1>4. failed' \in BOOLEAN
  BY DEF Delivered, AttemptFails, Refused, Retry, GiveUp, WeatherInv, TypeOK
<1>5. QED
  BY <1>1, <1>2, <1>3, <1>4, SendInv

LEMMA Dies == ASSUME WeatherInv, NEW p \in Publisher, Die(p) PROVE WeatherInv'
<1>1. /\ doing' = [doing EXCEPT ![p] = Idle] /\ lock' = IF lock = p THEN None ELSE lock
      /\ baseline' = IF p = Watcher THEN None ELSE baseline
      /\ failed' \in BOOLEAN /\ faults' = faults + 1
      /\ UNCHANGED <<backend, weather, received, ids, polls, written, first>>
  BY DEF Die, WeatherInv, TypeOK
<1>2. TypeOK'
  <2>1. doing' \in [Publisher -> Doing] /\ lock' \in Changer \cup {None} /\ baseline' \in Maybe /\ faults' \in Nat
    BY <1>1, IdleType DEF WeatherInv, TypeOK, Doing, Maybe
  <2>2. QED
    BY <1>1, <2>1 DEF WeatherInv, TypeOK, Doing
<1>3. Locked'
  BY <1>1, IdleType DEF WeatherInv, TypeOK, Locked, At, Simulated
<1>4. Counted'
  BY <1>1, IdleType, RestCounted DEF WeatherInv
<1>5. QED
  BY <1>1, <1>2, <1>3, <1>4 DEF WeatherInv, Filed, Chained

(* An assessment ends.  An event whose assessment failed may be received again. *)
LEMMA Finishes ==
    ASSUME WeatherInv, Numbered,
           NEW i \in DOMAIN received, NEW status \in {"completed", "failed"}, Finish(i, status)
    PROVE  WeatherInv'
<1> DEFINE e == [received[i] EXCEPT !.status = status]
<1>1. /\ received[i].status = "queued" /\ received' = [received EXCEPT ![i] = e]
      /\ faults' \in {faults, faults + 1}
      /\ UNCHANGED <<backend, weather, lock, doing, baseline, ids, polls, written, first, failed>>
  BY DEF Finish
<1>2. /\ received \in Seq(Event) /\ received[i] \in Event
  BY DEF WeatherInv, TypeOK
<1>3. /\ e \in Event /\ e.id = received[i].id /\ e.by = received[i].by
      /\ e.from = received[i].from /\ e.to = received[i].to /\ e.status = status
  BY <1>2 DEF Event
<1> HIDE DEF e
<1>4. /\ received' \in Seq(Event) /\ DOMAIN received' = DOMAIN received
      /\ received'[i] = e /\ \A j \in DOMAIN received : j # i => received'[j] = received[j]
  BY <1>1, <1>2, <1>3
<1>5. TypeOK'
  BY <1>1, <1>4 DEF WeatherInv, TypeOK
<1>6. Locked' /\ Filed' /\ Chained'
  BY <1>1 DEF WeatherInv, Locked, Filed, Chained, At, Simulated
<1>7. Counted'
  <2> SUFFICES ASSUME NEW p \in Publisher
               PROVE  Cardinality(Live(received', p)) + Owed(p)' <= Told(p)'
    BY DEF Counted
  <2>1. /\ Cardinality(Live(received, p)) \in Nat /\ IsFiniteSet(Live(received, p))
        /\ Owed(p) \in {0, 1} /\ Owed(p)' \in {0, 1} /\ Told(p)' = Told(p)
        /\ Cardinality(Live(received, p)) + Owed(p) <= Told(p)
    BY <1>1, <1>2, Counts, Countable DEF WeatherInv, Counted, Owed, Told
  <2>2. Told(p) \in Nat
    BY Counts DEF WeatherInv, Told, TypeOK
  <2>3. CASE status = "completed" \/ received[i].by # p
    <3>1. Live(received', p) = Live(received, p)
      BY <1>1, <1>3, <1>4, <2>3 DEF Live
    <3>2. CASE status = "completed"
      <4>1. \A id : Known(id)' <=> Known(id)
        BY <1>1, <1>3, <1>4, <3>2 DEF Known
      <4>2. Owed(p)' = Owed(p)
        BY <1>1, <4>1 DEF Owed, At
      <4>3. QED
        BY <2>1, <3>1, <4>2
    <3>3. CASE received[i].by # p
      <4>1. At(p, "send") => received[i].id # doing[p].event
        BY <1>2, <3>3 DEF Numbered, At
      <4>2. At(p, "send") => (Known(doing[p].event)' <=> Known(doing[p].event))
        BY <1>1, <1>3, <1>4, <4>1 DEF Known
      <4>3. Owed(p)' = Owed(p)
        BY <1>1, <4>2 DEF Owed, At
      <4>4. QED
        BY <2>1, <3>1, <4>3
    <3>4. QED
      BY <2>3, <3>2, <3>3
  <2>4. CASE status = "failed" /\ received[i].by = p
    <3>1. i \in Live(received, p) /\ Live(received', p) = Live(received, p) \ {i}
      BY <1>1, <1>3, <1>4, <2>4 DEF Live
    <3>2. Cardinality(Live(received', p)) = Cardinality(Live(received, p)) - 1
      BY <2>1, <3>1, FS_RemoveElement
    <3>3. QED
      BY <2>1, <2>2, <3>2
  <2>5. QED
    BY <2>3, <2>4
<1>8. QED
  BY <1>5, <1>6, <1>7 DEF WeatherInv

LEMMA StepInv == WeatherInv /\ Numbered /\ [Next]_vars => WeatherInv'
<1> SUFFICES ASSUME WeatherInv, Numbered, [Next]_vars PROVE WeatherInv'
  OBVIOUS
<1>1. ASSUME NEW c \in Changer, Apply(c) PROVE WeatherInv'
  BY <1>1, Locks, Reads, Writes DEF Apply
<1>2. ASSUME NEW c \in Changer, NEW w \in Settable, NEW publish \in BOOLEAN, Change(c, w, publish)
      PROVE  WeatherInv'
  BY <1>2, Changes
<1>3. ASSUME NEW w \in Weather, WeatherChanges(w) PROVE WeatherInv'
  BY <1>3, WeatherTurns
<1>4. CASE Poll \/ PollFails
  BY <1>4, Polls, PollErrs
<1>5. ASSUME NEW p \in Publisher, Publish(p) PROVE WeatherInv'
  BY <1>5, Builds, Sends DEF Publish
<1>6. ASSUME NEW p \in Publisher, Die(p) PROVE WeatherInv'
  BY <1>6, Dies
<1>7. CASE UNCHANGED vars
  BY <1>7 DEF vars, WeatherInv, TypeOK, Locked, Filed, Chained, Counted, At, Simulated, Owed, Told, Known
<1>8. ASSUME NEW i \in DOMAIN received, NEW status \in {"completed", "failed"}, Finish(i, status)
      PROVE  WeatherInv'
  BY <1>8, Finishes
<1>9. QED
  BY <1>1, <1>2, <1>3, <1>4, <1>5, <1>6, <1>7, <1>8 DEF Next

-----------------------------------------------------------------------------
(* What the watcher tells: what the receiver heard of it last, or else     *)
(* what it saw first, is like what it saw last, or like what it saw before *)
(* the poll it works on (Announced).                                       *)
Silent == \A i \in DOMAIN received : received[i].by # Watcher
Says(w) ==
    /\ Silent => Alike(first, w)
    /\ \A i \in DOMAIN received : Latest(i) => Alike(received[i].to, w)

Announced ==
    /\ baseline = None => At(Watcher, "idle")
    /\ At(Watcher, "publish") \/ At(Watcher, "send") => doing[Watcher].to = baseline
    /\ ~failed => /\ baseline = None => Silent
                  /\ At(Watcher, "idle") /\ baseline # None => Says(baseline)
                  /\ At(Watcher, "publish") => Says(doing[Watcher].from)

ToldInv == Numbered /\ Announced

LEMMA NumberedStays ==
    ASSUME Numbered, received' = received, ids' = ids,
           \A p \in Publisher : doing'[p].at = "send" =>
              doing[p].at = "send" /\ doing'[p].event = doing[p].event /\ doing'[p].to = doing[p].to
    PROVE  Numbered'
<1>1. \A i : Latest(i)' <=> Latest(i)
  BY DEF Latest
<1>2. QED
  BY <1>1 DEF Numbered, At

LEMMA AnnouncedStays ==
    ASSUME Announced, UNCHANGED <<received, baseline, first, failed>>, doing'[Watcher] = doing[Watcher]
    PROVE  Announced'
<1>1. \A w : Says(w)' <=> Says(w)
  BY DEF Latest, Says, Silent
<1>2. Silent' <=> Silent
  BY DEF Silent
<1>3. QED
  BY <1>1, <1>2 DEF Announced, At

(* A request that is received. *)
LEMMA Heard ==
    ASSUME WeatherInv, Numbered, NEW p \in Publisher, doing[p].at = "send", Accept(p)
    PROVE  /\ p = Watcher => \A i : Latest(i)' => received'[i].to = doing[p].to
                                                 /\ received'[i].id = doing[p].event
           /\ p # Watcher => \A i : Latest(i)' => Latest(i) /\ received'[i] = received[i]
           /\ p # Watcher => \A i \in DOMAIN received' : received'[i].by = Watcher =>
                                i \in DOMAIN received /\ received[i].by = Watcher
           /\ \A i \in DOMAIN received : i \in DOMAIN received' /\ received'[i] = received[i]
           /\ \A i \in DOMAIN received' \ DOMAIN received :
                /\ received'[i].id = doing[p].event /\ received'[i].by = p
                /\ received'[i].to = doing[p].to
           /\ p # Watcher => \A i : Latest(i) => Latest(i)'
           /\ p = Watcher => ~Silent'
<1> DEFINE e == [id |-> doing[p].event, from |-> doing[p].from, to |-> doing[p].to, by |-> p,
                 status |-> "queued"]
<1>1. PICK n \in Nat : n = Len(received) /\ DOMAIN received = 1..n
  BY DEF WeatherInv, TypeOK
<1>2. CASE Known(doing[p].event)
  <2>1. received' = received
    BY <1>2 DEF Accept
  <2>2. PICK k \in DOMAIN received : received[k].id = doing[p].event
    BY <1>2 DEF Known
  <2>3. received[k].by = p
    BY <2>2 DEF Numbered, At
  <2>4. \A i : Latest(i)' <=> Latest(i)
    BY <2>1 DEF Latest
  <2>5. ASSUME p = Watcher, NEW i, Latest(i)
        PROVE  received[i].id = doing[p].event /\ received[i].to = doing[p].to
    <3>1. received[i].id = doing[p].event /\ i \in DOMAIN received
      BY <2>2, <2>5 DEF Numbered, At, Latest
    <3>2. QED
      BY <3>1 DEF Numbered, At
  <2>6. \A i \in DOMAIN received' : i \in DOMAIN received
    BY <2>1
  <2>7. \A i : Latest(i) => i \in DOMAIN received
    BY DEF Latest
  <2>8. p = Watcher => ~Silent'
    BY <2>1, <2>2, <2>3 DEF Silent
  <2>9. QED
    BY <2>1, <2>4, <2>5, <2>6, <2>7, <2>8
<1>3. CASE ~Known(doing[p].event)
  <2>1. received' = Append(received, e)
    BY <1>3 DEF Accept, Received
  <2>2. e.id = doing[p].event /\ e.by = p /\ e.to = doing[p].to
    OBVIOUS
  <2>3. received \in Seq(Event)
    BY DEF WeatherInv, TypeOK
  <2> HIDE DEF e
  <2>4. /\ DOMAIN received' = 1..(n + 1)
        /\ received'[n + 1] = e
        /\ \A i \in 1..n : received'[i] = received[i]
    BY <1>1, <2>1, <2>3
  <2>5. /\ \A i \in 1..n : i \in 1..(n + 1) /\ i < n + 1
        /\ \A i \in 1..(n + 1) : i \in 1..n \/ i = n + 1
        /\ n + 1 \in 1..(n + 1) /\ n + 1 \notin 1..n
    BY <1>1
  <2>6. ASSUME p = Watcher PROVE Latest(n + 1)' /\ \A i : Latest(i)' => i = n + 1
    <3>1. \A j \in 1..(n + 1) : j <= n + 1
      BY <1>1
    <3>2. Latest(n + 1)'
      <4>1. n + 1 \in DOMAIN received' /\ received'[n + 1].by = Watcher
        BY <2>2, <2>4, <2>5, <2>6
      <4>2. \A j \in DOMAIN received' : j <= n + 1
        BY <2>4, <3>1
      <4>3. QED
        BY <4>1, <4>2 DEF Latest
    <3>3. ASSUME NEW i \in 1..(n + 1), n + 1 <= i PROVE i = n + 1
      BY <1>1, <3>3
    <3>4. QED
      BY <2>2, <2>4, <2>5, <2>6, <3>2, <3>3 DEF Latest
  <2>7. ASSUME p # Watcher PROVE \A i : Latest(i)' <=> Latest(i)
    BY <1>1, <2>2, <2>4, <2>5, <2>7 DEF Latest
  <2>8. \A i \in DOMAIN received' \ DOMAIN received : i = n + 1
    BY <1>1, <2>4, <2>5
  <2>9. \A i \in DOMAIN received : i \in DOMAIN received' /\ received'[i] = received[i]
    BY <1>1, <2>4, <2>5
  <2>10. \A i : Latest(i) => i \in DOMAIN received
    BY DEF Latest
  <2>11. ASSUME p # Watcher
         PROVE  \A i \in DOMAIN received' : received'[i].by = Watcher =>
                                i \in DOMAIN received /\ received[i].by = Watcher
    BY <1>1, <2>2, <2>4, <2>5, <2>11
  <2>12. p = Watcher => ~Silent'
    BY <2>2, <2>4, <2>5 DEF Silent
  <2>13. QED
    BY <2>2, <2>4, <2>5, <2>6, <2>7, <2>8, <2>9, <2>10, <2>11, <2>12
<1>4. QED
  BY <1>2, <1>3

LEMMA NumberedSent ==
    ASSUME WeatherInv, Numbered, NEW p \in Publisher, doing[p].at = "send", ids' = ids,
           Accept(p) \/ received' = received, NEW d, doing' = [doing EXCEPT ![p] = d],
           d.at = "idle" \/ (d.at = "send" /\ d.event = doing[p].event /\ d.to = doing[p].to)
    PROVE  Numbered'
<1>1. doing'[p] = d /\ \A q \in Publisher : q # p => doing'[q] = doing[q]
  BY DEF WeatherInv, TypeOK
<1>2. \A q \in Publisher : doing'[q].at = "send" =>
         doing[q].at = "send" /\ doing'[q].event = doing[q].event /\ doing'[q].to = doing[q].to
  BY <1>1
<1>3. CASE received' = received
  BY <1>2, <1>3, NumberedStays
<1>4. CASE Accept(p)
  <2>1. /\ \A i \in DOMAIN received : i \in DOMAIN received' /\ received'[i] = received[i]
        /\ \A i \in DOMAIN received' \ DOMAIN received :
                /\ received'[i].id = doing[p].event /\ received'[i].by = p
                /\ received'[i].to = doing[p].to
        /\ p = Watcher => \A i : Latest(i)' => received'[i].id = doing[p].event
        /\ p # Watcher => \A i : Latest(i)' => Latest(i) /\ received'[i] = received[i]
    BY <1>4, Heard
  <2>2. /\ doing[p].event <= ids
        /\ \A q \in Publisher : q # p /\ doing[q].at = "send" => doing[q].event # doing[p].event
    BY DEF Numbered, At
  <2>3. \A i \in DOMAIN received' : received'[i].id <= ids'
    BY <2>1, <2>2 DEF Numbered
  <2>4. ASSUME NEW q \in Publisher, doing'[q].at = "send"
        PROVE  /\ doing'[q].event <= ids'
               /\ \A r \in Publisher : r # q /\ doing'[r].at = "send" => doing'[r].event # doing'[q].event
    BY <1>2, <2>4 DEF Numbered, At
  <2>5. ASSUME NEW q \in Publisher, doing'[q].at = "send",
               NEW i \in DOMAIN received', received'[i].id = doing'[q].event
        PROVE  /\ received'[i].by = q /\ received'[i].to = doing'[q].to
               /\ q = Watcher => \A j : Latest(j)' => received'[j].id = doing'[q].event
    <3>1. doing[q].at = "send" /\ doing'[q].event = doing[q].event /\ doing'[q].to = doing[q].to
      BY <1>2, <2>5
    <3>2. CASE q = p
      <4>1. CASE i \in DOMAIN received
        <5>1. received[i].id = doing[q].event
          BY <2>1, <2>5, <3>1, <4>1
        <5>2. received[i].by = q /\ received[i].to = doing[q].to
          BY <3>1, <4>1, <5>1 DEF Numbered, At
        <5>3. QED
          BY <2>1, <3>1, <3>2, <4>1, <5>2
      <4>2. CASE i \notin DOMAIN received
        BY <2>1, <2>5, <3>1, <3>2, <4>2
      <4>3. QED
        BY <4>1, <4>2
    <3>3. CASE q # p
      <4>1. i \in DOMAIN received
        BY <2>1, <2>2, <2>5, <3>1, <3>3
      <4>2. received[i].id = doing[q].event
        BY <2>1, <2>5, <3>1, <4>1
      <4>3. /\ received[i].by = q /\ received[i].to = doing[q].to
            /\ q = Watcher => \A j : Latest(j) => received[j].id = doing[q].event
        BY <3>1, <4>1, <4>2 DEF Numbered, At
      <4>4. QED
        BY <2>1, <3>1, <3>3, <4>1, <4>3
    <3>4. QED
      BY <3>2, <3>3
  <2>6. QED
    BY <2>3, <2>4, <2>5 DEF Numbered, At
<1>5. QED
  BY <1>3, <1>4

(* Steps of a process that neither send nor announce anything. *)
LEMMA ChangersTellNothing ==
    ASSUME WeatherInv, ToldInv, NEW c \in Changer, Apply(c) \/ \E w \in Settable, b \in BOOLEAN : Change(c, w, b)
    PROVE  ToldInv'
<1>1. c # Watcher /\ c \in Publisher /\ Watcher \in Publisher
  BY WeatherAssumption DEF Publisher
<1>2. PICK d : d.at # "send" /\ doing' = [doing EXCEPT ![c] = d]
  <2>1. CASE Lock(c)
    BY <2>1, <1>1 DEF Lock, At, WeatherInv, TypeOK
  <2>2. CASE ReadState(c)
    BY <2>2, <1>1 DEF ReadState, At, WeatherInv, TypeOK
  <2>3. CASE WriteState(c)
    <3> DEFINE d == IF doing[c].publish THEN [doing[c] EXCEPT !.at = "publish"] ELSE Idle
    <3>1. doing' = [doing EXCEPT ![c] = d]
      BY <2>3 DEF WriteState
    <3>2. d.at # "send"
      BY <1>1 DEF Idle, WeatherInv, TypeOK
    <3> HIDE DEF d
    <3>3. QED
      BY <3>1, <3>2
  <2>4. ASSUME NEW w \in Settable, NEW b \in BOOLEAN, Change(c, w, b)
        PROVE  \E d : d.at # "send" /\ doing' = [doing EXCEPT ![c] = d]
    <3> DEFINE d == [Idle EXCEPT !.at = "lock", !.to = w, !.publish = b]
    <3>1. doing' = [doing EXCEPT ![c] = d]
      BY <2>4 DEF Change
    <3>2. d.at # "send"
      BY DEF Idle
    <3> HIDE DEF d
    <3>3. QED
      BY <3>1, <3>2
  <2>5. QED
    BY <2>1, <2>2, <2>3, <2>4 DEF Apply
<1>3. UNCHANGED <<received, ids, baseline, first, failed>>
  BY DEF Apply, Lock, ReadState, WriteState, Change
<1>4. doing'[c] = d /\ \A q \in Publisher : q # c => doing'[q] = doing[q]
  BY <1>1, <1>2 DEF WeatherInv, TypeOK
<1>5. Numbered'
  BY <1>2, <1>3, <1>4, NumberedStays DEF ToldInv
<1>6. Announced'
  BY <1>1, <1>3, <1>4, AnnouncedStays DEF ToldInv
<1>7. QED
  BY <1>5, <1>6 DEF ToldInv

(* The watcher polls: what was told is what it saw before this poll. *)
LEMMA PollTold == ASSUME WeatherInv, ToldInv, Poll PROVE ToldInv'
<1> DEFINE d == [Idle EXCEPT !.at = "publish", !.from = baseline, !.to = weather]
           p == Watcher
<1>1. /\ doing[p].at = "idle" /\ baseline' = weather
      /\ first' = IF baseline = None THEN weather ELSE first
      /\ doing' = IF baseline = None THEN doing ELSE [doing EXCEPT ![p] = d]
      /\ UNCHANGED <<received, ids, failed>>
  BY DEF Poll, At
<1>2. p \in Publisher /\ weather # None
  BY WeatherAssumption DEF Publisher, WeatherInv, TypeOK
<1>3. d.at = "publish" /\ d.from = baseline /\ d.to = weather
  BY DEF Idle
<1> HIDE DEF d
<1>4. \A q \in Publisher : q # p => doing'[q] = doing[q]
  BY <1>1, <1>2 DEF WeatherInv, TypeOK
<1>5. IF baseline = None THEN doing'[p] = doing[p] ELSE doing'[p] = d
  BY <1>1, <1>2 DEF WeatherInv, TypeOK
<1>6. Numbered'
  <2>1. doing'[p].at # "send"
    BY <1>1, <1>3, <1>5
  <2>2. QED
    BY <1>1, <1>4, <2>1, NumberedStays DEF ToldInv
<1>7. /\ \A i : Latest(i)' <=> Latest(i)
      /\ Silent' <=> Silent
  BY <1>1 DEF Latest, Silent
<1>8. Announced'
  <2>1. CASE baseline = None
    <3>1. doing'[p].at = "idle" /\ baseline' # None /\ first' = baseline'
      BY <1>1, <1>2, <1>5, <2>1
    <3>2. ~failed' => Says(baseline)'
      BY <1>1, <1>7, <2>1, <3>1 DEF ToldInv, Announced, Says, Alike, Silent, Latest
    <3>3. QED
      BY <3>1, <3>2 DEF Announced, At
  <2>2. CASE baseline # None
    <3>1. doing'[p] = d /\ first' = first
      BY <1>1, <1>5, <2>2
    <3>2. ~failed' => Says(baseline)
      BY <1>1, <2>2 DEF ToldInv, Announced, At
    <3>3. QED
      <4>1. baseline' # None /\ doing'[p].at = "publish" /\ doing'[p].to = baseline'
        BY <1>1, <1>2, <1>3, <3>1
      <4>2. doing'[Watcher].from = baseline
        BY <1>3, <3>1
      <4>3. ~failed' => /\ Silent' => Alike(first', doing'[Watcher].from)
                        /\ \A i \in DOMAIN received' : Latest(i)' => Alike(received'[i].to, doing'[Watcher].from)
        BY <1>1, <1>7, <3>1, <3>2, <4>2 DEF Says
      <4>4. ~failed' => Says(doing[Watcher].from)'
        BY <4>3 DEF Says, Alike
      <4>5. QED
        BY <4>1, <4>4 DEF Announced, At
  <2>3. QED
    BY <2>1, <2>2
<1>9. QED
  BY <1>6, <1>8 DEF ToldInv

(* What is not significant leaves what was told true; what is gets a number of its own. *)
LEMMA BuildTold == ASSUME WeatherInv, ToldInv, NEW p \in Publisher, BuildEvent(p) PROVE ToldInv'
<1>1. /\ doing[p].at = "publish"
      /\ UNCHANGED <<baseline, received, first, failed>>
  BY DEF BuildEvent, At
<1>2. /\ \A i : Latest(i)' <=> Latest(i)
      /\ Silent' <=> Silent
  BY <1>1 DEF Latest, Silent
<1>3. CASE IsSignificant(doing[p].from, doing[p].to)
  <2> DEFINE d == [doing[p] EXCEPT !.at = "send", !.event = ids + 1, !.attempt = 1]
  <2>1. ids' = ids + 1 /\ doing' = [doing EXCEPT ![p] = d]
    BY <1>3 DEF BuildEvent
  <2>2. d.at = "send" /\ d.event = ids + 1 /\ d.to = doing[p].to
    BY DEF WeatherInv, TypeOK
  <2> HIDE DEF d
  <2>3. doing'[p] = d /\ \A q \in Publisher : q # p => doing'[q] = doing[q]
    BY <2>1 DEF WeatherInv, TypeOK
  <2>4. /\ ids \in Nat
        /\ \A i \in DOMAIN received : received[i].id \in Nat /\ received[i].id <= ids
        /\ \A q \in Publisher : doing[q].at = "send" => doing[q].event \in Nat /\ doing[q].event <= ids
    <3>1. received \in Seq(Event)
      BY DEF WeatherInv, TypeOK
    <3>2. \A i \in DOMAIN received : received[i].id \in Nat
      <4> DEFINE S == Event
      <4>1. received \in Seq(S) /\ \A e \in S : e.id \in Nat
        BY <3>1 DEF Event
      <4> HIDE DEF S
      <4>2. \A i \in DOMAIN received : received[i] \in S
        BY <4>1
      <4>3. QED
        BY <4>1, <4>2
    <3>3. ids \in Nat /\ \A q \in Publisher : doing[q].event \in Nat
      BY DEF WeatherInv, TypeOK
    <3>4. QED
      BY <3>2, <3>3 DEF ToldInv, Numbered, At
  <2>5. /\ \A i \in DOMAIN received : received[i].id <= ids + 1 /\ received[i].id # ids + 1
        /\ \A q \in Publisher : doing[q].at = "send" => doing[q].event <= ids + 1 /\ doing[q].event # ids + 1
        /\ ids + 1 <= ids + 1
    BY <2>4
  <2>6. Numbered'
    BY <1>1, <1>2, <2>1, <2>2, <2>3, <2>5 DEF ToldInv, Numbered, At
  <2>7. Announced'
    <3>1. CASE p = Watcher
      BY <1>1, <1>2, <2>2, <2>3, <3>1 DEF ToldInv, Announced, At
    <3>2. CASE p # Watcher
      <4>1. Watcher \in Publisher
        BY DEF Publisher
      <4>2. QED
        BY <1>1, <2>3, <3>2, <4>1, AnnouncedStays DEF ToldInv
    <3>3. QED
      BY <3>1, <3>2
  <2>8. QED
    BY <2>6, <2>7 DEF ToldInv
<1>4. CASE ~IsSignificant(doing[p].from, doing[p].to)
  <2>1. ids' = ids /\ doing' = [doing EXCEPT ![p] = Idle]
    BY <1>4 DEF BuildEvent
  <2>2. doing'[p] = Idle /\ \A q \in Publisher : q # p => doing'[q] = doing[q]
    BY <2>1 DEF WeatherInv, TypeOK
  <2>3. Numbered'
    BY <1>1, <2>1, <2>2, IdleType, NumberedStays DEF ToldInv
  <2>4. Announced'
    <3>1. CASE p # Watcher
      <4>1. Watcher \in Publisher
        BY DEF Publisher
      <4>2. QED
        BY <1>1, <2>2, <3>1, <4>1, AnnouncedStays DEF ToldInv
    <3>2. CASE p = Watcher
      <4>1. Alike(doing[p].from, doing[p].to)
        BY <1>4 DEF IsSignificant, Alike
      <4>2. doing[p].to = baseline /\ baseline # None /\ (~failed => Says(doing[p].from))
        BY <1>1, <3>2 DEF ToldInv, Announced, At
      <4>3. ~failed => Says(baseline)
        BY <4>1, <4>2 DEF Says, Alike
      <4>4. ~failed' => Says(baseline)'
        BY <1>1, <1>2, <4>3 DEF Says
      <4>5. QED
        BY <1>1, <2>2, <3>2, <4>2, <4>4, IdleType DEF Announced, At
    <3>3. QED
      BY <3>1, <3>2
  <2>5. QED
    BY <2>3, <2>4 DEF ToldInv
<1>5. QED
  BY <1>3, <1>4

(* A request, and what the publisher does after its answer. *)
LEMMA SendTold ==
    ASSUME WeatherInv, ToldInv, NEW p \in Publisher, Delivered(p) \/ AttemptFails(p) \/ Refused(p)
    PROVE  ToldInv'
<1> DEFINE again == [doing[p] EXCEPT !.attempt = @ + 1]
<1>1. doing[p].at = "send" /\ UNCHANGED <<ids, baseline, first>> /\ Watcher \in Publisher
  BY DEF Delivered, AttemptFails, Refused, At, Publisher
<1>2. again.at = "send" /\ again.event = doing[p].event /\ again.to = doing[p].to
  BY <1>1 DEF WeatherInv, TypeOK
<1>3. PICK d : /\ d = Idle \/ d = again
               /\ doing' = [doing EXCEPT ![p] = d]
               /\ p # Watcher => failed' = failed
               /\ p = Watcher /\ d = Idle => failed' \/ Accept(p)
               /\ d = again => failed' = failed
               /\ Accept(p) \/ received' = received
  <2>3. Idle # again
    BY <1>2, IdleType
  <2>1. CASE Delivered(p)
    <3>1. failed \in BOOLEAN
      BY DEF WeatherInv, TypeOK
    <3>2. p # Watcher => failed' = failed
      BY <2>1, <3>1 DEF Delivered
    <3>3. QED
      BY <2>1, <2>3, <3>2 DEF Delivered
  <2>2. ASSUME GiveUp(p) PROVE /\ doing' = [doing EXCEPT ![p] = Idle]
                               /\ p # Watcher => failed' = failed
                               /\ p = Watcher => failed'
    <3>1. failed' = (failed \/ p = Watcher)
      BY <2>2 DEF GiveUp
    <3>2. failed \in BOOLEAN
      BY DEF WeatherInv, TypeOK
    <3>3. p # Watcher => failed' = failed
      BY <3>1, <3>2
    <3>4. p = Watcher => failed'
      BY <3>1, <3>2
    <3>5. QED
      BY <2>2, <3>3, <3>4 DEF GiveUp
  <2>4. CASE AttemptFails(p)
    <3>1. CASE doing[p].attempt < Attempts
      BY <2>3, <2>4, <3>1 DEF AttemptFails, Retry
    <3>2. CASE ~(doing[p].attempt < Attempts)
      <4>1. GiveUp(p) /\ (Accept(p) \/ received' = received)
        BY <2>4, <3>2 DEF AttemptFails, Retry
      <4>2. QED
        BY <2>2, <2>3, <4>1, Zenon
    <3>3. QED
      BY <3>1, <3>2
  <2>5. CASE Refused(p)
    <3>1. GiveUp(p) /\ received' = received
      BY <2>5 DEF Refused
    <3>2. QED
      BY <2>2, <2>3, <3>1, Zenon
  <2>6. QED
    BY <2>1, <2>4, <2>5
<1> HIDE DEF again
<1>4. doing'[p] = d /\ \A q \in Publisher : q # p => doing'[q] = doing[q]
  BY <1>3 DEF WeatherInv, TypeOK
<1>5. Numbered'
  BY <1>1, <1>2, <1>3, IdleType, NumberedSent DEF ToldInv
<1>6. CASE p # Watcher
  <2>1. CASE received' = received
    BY <1>1, <1>3, <1>4, <1>5, <1>6, <2>1, AnnouncedStays DEF ToldInv
  <2>2. CASE Accept(p)
    <3>1. /\ \A i : Latest(i)' => Latest(i) /\ received'[i] = received[i]
          /\ \A i \in DOMAIN received' : received'[i].by = Watcher =>
                                i \in DOMAIN received /\ received[i].by = Watcher
          /\ \A i \in DOMAIN received : i \in DOMAIN received' /\ received'[i] = received[i]
      BY <1>1, <1>6, <2>2, Heard DEF ToldInv
    <3>2. doing'[Watcher] = doing[Watcher] /\ failed' = failed /\ baseline' = baseline /\ first' = first
      BY <1>1, <1>3, <1>4, <1>6
    <3>3. Silent' <=> Silent
      BY <3>1 DEF Silent
    <3>4. ASSUME NEW w, Says(w) PROVE Says(w)'
      <4>1. Silent' => Alike(first', w)
        BY <3>2, <3>3, <3>4 DEF Says
      <4>2. ASSUME NEW i \in DOMAIN received', Latest(i)' PROVE Alike(received'[i].to, w)
        <5>1. Latest(i) /\ i \in DOMAIN received /\ received'[i] = received[i]
          BY <3>1, <4>2 DEF Latest
        <5>2. QED
          BY <3>4, <5>1 DEF Says
      <4>3. QED
        BY <4>1, <4>2 DEF Says
    <3>5. \A w, v : w = v /\ Says(w) => Says(v)'
      BY <3>4
    <3>6. Announced'
      BY <3>2, <3>3, <3>5 DEF ToldInv, Announced, At
    <3>7. QED
      BY <1>5, <3>6 DEF ToldInv
  <2>3. QED
    BY <1>3, <2>1, <2>2
<1>7. CASE p = Watcher
  <2>1. doing[p].to = baseline /\ baseline # None /\ baseline' = baseline
    BY <1>1, <1>7 DEF ToldInv, Announced, At
  <2>2. CASE d = again
    <3>1. Announced'
      BY <1>2, <1>4, <1>7, <2>1, <2>2 DEF Announced, At
    <3>2. QED
      BY <1>5, <3>1 DEF ToldInv
  <2>3. CASE d = Idle
    <3>1. ASSUME ~failed' PROVE Says(baseline)'
      <4>1. Accept(p)
        BY <1>3, <1>7, <2>3, <3>1
      <4>2. ~Silent' /\ \A i : Latest(i)' => received'[i].to = baseline
        BY <1>1, <1>7, <2>1, <4>1, Heard DEF ToldInv
      <4>3. QED
        BY <2>1, <4>2 DEF Says, Alike
    <3>2. Announced'
      BY <1>4, <1>7, <2>1, <2>3, <3>1, IdleType DEF Announced, At
    <3>3. QED
      BY <1>5, <3>2 DEF ToldInv
  <2>4. QED
    BY <1>3, <2>2, <2>3
<1>8. QED
  BY <1>6, <1>7

LEMMA DeathTold == ASSUME WeatherInv, ToldInv, NEW p \in Publisher, Die(p) PROVE ToldInv'
<1>1. /\ doing' = [doing EXCEPT ![p] = Idle]
      /\ baseline' = IF p = Watcher THEN None ELSE baseline
      /\ p = Watcher => failed'
      /\ p # Watcher => failed' = failed
      /\ UNCHANGED <<received, ids, first>>
  BY DEF Die, WeatherInv, TypeOK
<1>2. doing'[p] = Idle /\ \A q \in Publisher : q # p => doing'[q] = doing[q]
  BY <1>1 DEF WeatherInv, TypeOK
<1>3. Numbered'
  BY <1>1, <1>2, IdleType, NumberedStays DEF ToldInv
<1>4. Announced'
  <2>1. CASE p = Watcher
    BY <1>1, <1>2, <2>1, IdleType DEF Announced, At
  <2>2. CASE p # Watcher
    <3>1. Watcher \in Publisher
      BY DEF Publisher
    <3>2. QED
      BY <1>1, <1>2, <2>2, <3>1, AnnouncedStays DEF ToldInv
  <2>3. QED
    BY <2>1, <2>2
<1>5. QED
  BY <1>3, <1>4 DEF ToldInv

(* An assessment ends: the events stay what they are. *)
LEMMA FinishTold ==
    ASSUME WeatherInv, ToldInv,
           NEW i \in DOMAIN received, NEW status \in {"completed", "failed"}, Finish(i, status)
    PROVE  ToldInv'
<1>1. UNCHANGED <<doing, baseline, ids, first, failed>>
  BY DEF Finish
<1>2. /\ DOMAIN received' = DOMAIN received
      /\ \A j \in DOMAIN received :
           /\ received'[j].id = received[j].id /\ received'[j].by = received[j].by
           /\ received'[j].to = received[j].to
  <2>1. received' = [received EXCEPT ![i].status = status] /\ received \in Seq(Event)
    BY DEF Finish, WeatherInv, TypeOK
  <2>2. DOMAIN received' = DOMAIN received /\ \A j \in DOMAIN received : received[j] \in Event
    BY <2>1
  <2>3. \A j \in DOMAIN received :
          received'[j] = IF j = i THEN [received[j] EXCEPT !.status = status] ELSE received[j]
    BY <2>1
  <2>4. QED
    BY <2>2, <2>3 DEF Event
<1>3. /\ \A j : Latest(j)' <=> Latest(j)
      /\ Silent' <=> Silent
  BY <1>2 DEF Latest, Silent
<1>4. \A w : Says(w)' <=> Says(w)
  BY <1>1, <1>2, <1>3 DEF Says, Alike
<1>5. Numbered'
  <2>1. ids' = ids /\ doing' = doing
    BY <1>1
  <2>2. \A j \in DOMAIN received' : received'[j].id <= ids'
    BY <1>2, <2>1 DEF ToldInv, Numbered
  <2>3. ASSUME NEW p \in Publisher, doing'[p].at = "send"
        PROVE  /\ doing'[p].event <= ids'
               /\ \A q \in Publisher : q # p /\ doing'[q].at = "send" => doing'[q].event # doing'[p].event
               /\ \A j \in DOMAIN received' : received'[j].id = doing'[p].event =>
                    /\ received'[j].by = p /\ received'[j].to = doing'[p].to
                    /\ p = Watcher => \A k : Latest(k)' => received'[k].id = doing'[p].event
    <3>1. \A k : Latest(k) => k \in DOMAIN received
      BY DEF Latest
    <3>2. QED
      BY <1>2, <1>3, <2>1, <2>3, <3>1 DEF ToldInv, Numbered, At
  <2>4. QED
    BY <2>2, <2>3 DEF Numbered, At
<1>6. Announced'
  BY <1>1, <1>3, <1>4 DEF ToldInv, Announced, At
<1>7. QED
  BY <1>5, <1>6 DEF ToldInv

LEMMA AlwaysTold == Spec => [](WeatherInv /\ ToldInv)
<1>1. Init => ToldInv
  <2> SUFFICES ASSUME Init PROVE ToldInv
    OBVIOUS
  <2>1. DOMAIN received = {} /\ \A p \in Publisher : doing[p].at = "idle"
    BY IdleType DEF Init
  <2>2. (\A i : ~Latest(i)) /\ Silent
    BY <2>1 DEF Latest, Silent
  <2>3. Watcher \in Publisher /\ baseline = None
    BY DEF Publisher, Init
  <2>4. Numbered
    BY <2>1 DEF Numbered, At
  <2>5. QED
    BY <2>1, <2>2, <2>3, <2>4 DEF ToldInv, Announced, At
<1>2. WeatherInv /\ ToldInv /\ [Next]_vars => ToldInv'
  <2> SUFFICES ASSUME WeatherInv, ToldInv, [Next]_vars PROVE ToldInv'
    OBVIOUS
  <2>1. ASSUME NEW c \in Changer, Apply(c) \/ \E w \in Settable, b \in BOOLEAN : Change(c, w, b)
        PROVE  ToldInv'
    BY <2>1, ChangersTellNothing
  <2>2. ASSUME UNCHANGED <<doing, received, ids, baseline, first, failed>> PROVE ToldInv'
    BY <2>2, NumberedStays, AnnouncedStays DEF ToldInv
  <2>3. CASE (\E w \in Weather : WeatherChanges(w)) \/ PollFails \/ UNCHANGED vars
    BY <2>2, <2>3 DEF WeatherChanges, PollFails, vars
  <2>4. CASE Poll
    BY <2>4, PollTold
  <2>5. ASSUME NEW p \in Publisher, Publish(p) PROVE ToldInv'
    BY <2>5, BuildTold, SendTold DEF Publish
  <2>6. ASSUME NEW p \in Publisher, Die(p) PROVE ToldInv'
    BY <2>6, DeathTold
  <2>7. ASSUME NEW i \in DOMAIN received, NEW status \in {"completed", "failed"}, Finish(i, status)
        PROVE  ToldInv'
    BY <2>7, FinishTold
  <2>8. QED
    BY <2>1, <2>3, <2>4, <2>5, <2>6, <2>7 DEF Next
<1>3. ToldInv => Numbered
  BY DEF ToldInv
<1>4. QED
  BY <1>1, <1>2, <1>3, InitInv, StepInv, PTL DEF Spec

(* TypeOK: no step works with a weather or an event that is not there. *)
THEOREM WeatherTypeCorrect == Spec => []TypeOK
<1>1. WeatherInv => TypeOK
  BY DEF WeatherInv
<1>2. QED
  BY AlwaysTold, <1>1, PTL

(* ConditionIsTold: whatever the receiver heard of the watcher last - or, while it heard  *)
(* nothing, what the watcher saw first - has the condition and the rain of the last poll, *)
(* however the retries and the failures of assessments fall, unless a delivery failed or  *)
(* the watcher was killed since the last delivery (_watch, publish).                      *)
THEOREM NoConditionIsPassedOver == Spec => []ConditionIsTold
<1>1. ToldInv => ConditionIsTold
  <2> DEFINE told == {j \in DOMAIN received : received[j].by = Watcher}
             Same(w) == w.condition = baseline.condition /\ w.raining = baseline.raining
  <2> SUFFICES ASSUME ToldInv, ~failed, At(Watcher, "idle"), baseline # None
               PROVE  /\ told = {} => Same(first)
                      /\ \A i \in told : (\A j \in told : j <= i) => Same(received[i].to)
    BY DEF ConditionIsTold
  <2>1. Says(baseline)
    BY DEF ToldInv, Announced
  <2>2. ASSUME told = {} PROVE Same(first)
    <3>1. Silent
      BY <2>2 DEF Silent
    <3>2. QED
      BY <2>1, <3>1 DEF Says, Alike
  <2>3. ASSUME NEW i \in told, \A j \in told : j <= i PROVE Same(received[i].to)
    <3>1. Latest(i)
      BY <2>3 DEF Latest
    <3>2. QED
      BY <2>1, <3>1 DEF Says, Alike
  <2>4. QED
    BY <2>2, <2>3
<1>2. QED
  BY AlwaysTold, <1>1, PTL

-----------------------------------------------------------------------------
(* What the events report.  An event of a server request or a command line *)
(* is of a change it made, from the moment on that it works on the event   *)
(* (Reported), and all but the last reception of one number have failed    *)
(* (Once).                                                                 *)
ReportedIn(s, from, to, p) == \E j \in DOMAIN s : s[j] = [from |-> from, to |-> to, by |-> p]
Telling(p) == At(p, "publish") \/ At(p, "send")

Reported ==
    /\ \A p \in Changer : Telling(p) => ReportedIn(written, doing[p].from, doing[p].to, p)
    /\ \A i \in DOMAIN received : received[i].by \in Changer =>
         ReportedIn(written, received[i].from, received[i].to, received[i].by)

Once ==
    \A i, j \in DOMAIN received :
        i < j /\ received[i].id = received[j].id => received[i].status = "failed"

ReportInv == Reported /\ Once

(* What a step may add: changes, work on an event of a change, and the reception of such. *)
LEMMA ReportedKept ==
    ASSUME Reported,
           \A from, to, p : ReportedIn(written, from, to, p) => ReportedIn(written', from, to, p),
           \A p \in Changer : Telling(p)' =>
              \/ Telling(p) /\ doing'[p].from = doing[p].from /\ doing'[p].to = doing[p].to
              \/ ReportedIn(written', doing'[p].from, doing'[p].to, p),
           \A i \in DOMAIN received' :
              \/ /\ i \in DOMAIN received /\ received'[i].by = received[i].by
                 /\ received'[i].from = received[i].from /\ received'[i].to = received[i].to
              \/ \E p \in Publisher : /\ Telling(p) /\ received'[i].by = p
                                      /\ received'[i].from = doing[p].from /\ received'[i].to = doing[p].to
    PROVE  Reported'
<1>1. ASSUME NEW p \in Changer, Telling(p)'
      PROVE  ReportedIn(written', doing'[p].from, doing'[p].to, p)
  <2>1. CASE Telling(p) /\ doing'[p].from = doing[p].from /\ doing'[p].to = doing[p].to
    <3>1. ReportedIn(written, doing'[p].from, doing'[p].to, p)
      BY <2>1 DEF Reported
    <3>2. QED
      BY <3>1
  <2>2. QED
    BY <1>1, <2>1
<1>2. ASSUME NEW i \in DOMAIN received', received'[i].by \in Changer
      PROVE  ReportedIn(written', received'[i].from, received'[i].to, received'[i].by)
  <2>1. ReportedIn(written, received'[i].from, received'[i].to, received'[i].by)
    <3>1. CASE /\ i \in DOMAIN received /\ received'[i].by = received[i].by
               /\ received'[i].from = received[i].from /\ received'[i].to = received[i].to
      BY <1>2, <3>1 DEF Reported
    <3>2. CASE \E p \in Publisher : /\ Telling(p) /\ received'[i].by = p
                                    /\ received'[i].from = doing[p].from /\ received'[i].to = doing[p].to
      BY <1>2, <3>2 DEF Reported
    <3>3. QED
      BY <3>1, <3>2
  <2>2. QED
    BY <2>1
<1>3. QED
  BY <1>1, <1>2 DEF Reported

(* No reception: the events stay, and what is worked on is of a change. *)
LEMMA UnheardReported ==
    ASSUME ReportInv, received' = received,
           \A from, to, p : ReportedIn(written, from, to, p) => ReportedIn(written', from, to, p),
           \A p \in Changer : Telling(p)' =>
              \/ Telling(p) /\ doing'[p].from = doing[p].from /\ doing'[p].to = doing[p].to
              \/ ReportedIn(written', doing'[p].from, doing'[p].to, p)
    PROVE  ReportInv'
<1>1. Reported'
  <2>1. \A i \in DOMAIN received' :
           /\ i \in DOMAIN received /\ received'[i].by = received[i].by
           /\ received'[i].from = received[i].from /\ received'[i].to = received[i].to
    OBVIOUS
  <2>2. QED
    BY <2>1, ReportedKept DEF ReportInv
<1>2. Once'
  BY DEF ReportInv, Once
<1>3. QED
  BY <1>1, <1>2 DEF ReportInv

(* One process goes on, changing nothing that another sees. *)
LEMMA QuietReported ==
    ASSUME WeatherInv, ReportInv, NEW p \in Publisher, NEW d, doing' = [doing EXCEPT ![p] = d],
           UNCHANGED <<received, written>>,
           p \in Changer /\ d.at \in {"publish", "send"} =>
              Telling(p) /\ d.from = doing[p].from /\ d.to = doing[p].to
    PROVE  ReportInv'
<1>1. doing'[p] = d /\ \A q \in Publisher : q # p => doing'[q] = doing[q]
  BY DEF WeatherInv, TypeOK
<1>2. \A q \in Changer : Telling(q)' =>
         Telling(q) /\ doing'[q].from = doing[q].from /\ doing'[q].to = doing[q].to
  BY <1>1 DEF Telling, At, Publisher
<1>3. QED
  BY <1>2, UnheardReported

LEMMA ChangerReports ==
    ASSUME WeatherInv, ReportInv, NEW c \in Changer,
           Apply(c) \/ \E w \in Settable, b \in BOOLEAN : Change(c, w, b)
    PROVE  ReportInv'
<1>1. c \in Publisher
  BY DEF Publisher
<1>2. CASE Lock(c)
  <2> DEFINE d == [doing[c] EXCEPT !.at = "read"]
  <2>1. d.at = "read" /\ doing' = [doing EXCEPT ![c] = d] /\ UNCHANGED <<received, written>>
    BY <1>1, <1>2 DEF Lock, WeatherInv, TypeOK
  <2> HIDE DEF d
  <2>2. QED
    BY <1>1, <2>1, QuietReported
<1>3. CASE ReadState(c)
  <2> DEFINE d == [doing[c] EXCEPT !.at = "write", !.from = weather]
  <2>1. d.at = "write" /\ doing' = [doing EXCEPT ![c] = d] /\ UNCHANGED <<received, written>>
    BY <1>1, <1>3 DEF ReadState, WeatherInv, TypeOK
  <2> HIDE DEF d
  <2>2. QED
    BY <1>1, <2>1, QuietReported
<1>4. ASSUME NEW w \in Settable, NEW b \in BOOLEAN, Change(c, w, b) PROVE ReportInv'
  <2> DEFINE d == [Idle EXCEPT !.at = "lock", !.to = w, !.publish = b]
  <2>1. d.at = "lock" /\ doing' = [doing EXCEPT ![c] = d] /\ UNCHANGED <<received, written>>
    BY <1>4 DEF Change, Idle
  <2> HIDE DEF d
  <2>2. QED
    BY <1>1, <2>1, QuietReported
<1>5. CASE WriteState(c)
  <2> DEFINE e == [from |-> doing[c].from, to |-> doing[c].to, by |-> c]
             S == [from : Maybe, to : Maybe, by : Changer \cup {None}]
             d == IF doing[c].publish THEN [doing[c] EXCEPT !.at = "publish"] ELSE Idle
  <2>1. /\ written' = Append(written, e) /\ written \in Seq(S) /\ e \in S /\ received' = received
        /\ doing' = [doing EXCEPT ![c] = d]
    BY <1>1, <1>5 DEF WriteState, WeatherInv, TypeOK
  <2>2. d.at = "publish" => d.from = doing[c].from /\ d.to = doing[c].to
    BY <1>1 DEF Idle, WeatherInv, TypeOK
  <2>3. d.at # "send"
    BY <1>1 DEF Idle, WeatherInv, TypeOK
  <2> HIDE DEF d, S
  <2>4. doing'[c] = d /\ \A q \in Publisher : q # c => doing'[q] = doing[q]
    BY <1>1, <2>1 DEF WeatherInv, TypeOK
  <2>5. /\ \A j \in DOMAIN written : j \in DOMAIN written' /\ written'[j] = written[j]
        /\ Len(written) + 1 \in DOMAIN written' /\ written'[Len(written) + 1] = e
    BY <2>1
  <2>6. \A from, to, p : ReportedIn(written, from, to, p) => ReportedIn(written', from, to, p)
    BY <2>5 DEF ReportedIn
  <2>7. ReportedIn(written', doing[c].from, doing[c].to, c)
    BY <2>5 DEF ReportedIn
  <2>8. \A p \in Changer : Telling(p)' =>
           \/ Telling(p) /\ doing'[p].from = doing[p].from /\ doing'[p].to = doing[p].to
           \/ ReportedIn(written', doing'[p].from, doing'[p].to, p)
    <3> SUFFICES ASSUME NEW p \in Changer, Telling(p)'
                 PROVE  \/ Telling(p) /\ doing'[p].from = doing[p].from /\ doing'[p].to = doing[p].to
                        \/ ReportedIn(written', doing'[p].from, doing'[p].to, p)
      OBVIOUS
    <3>1. CASE p = c
      <4>1. doing'[c].from = doing[c].from /\ doing'[c].to = doing[c].to
        BY <2>2, <2>3, <2>4, <3>1 DEF Telling, At
      <4>2. QED
        BY <2>7, <3>1, <4>1
    <3>2. CASE p # c
      BY <2>4, <3>2 DEF Telling, At, Publisher
    <3>3. QED
      BY <3>1, <3>2
  <2>9. QED
    BY <2>1, <2>6, <2>8, UnheardReported
<1>6. QED
  BY <1>2, <1>3, <1>4, <1>5 DEF Apply

LEMMA BuildReports == ASSUME WeatherInv, ReportInv, NEW p \in Publisher, BuildEvent(p) PROVE ReportInv'
<1> DEFINE d == IF IsSignificant(doing[p].from, doing[p].to)
                THEN [doing[p] EXCEPT !.at = "send", !.event = ids + 1, !.attempt = 1] ELSE Idle
<1>1. Telling(p) /\ doing' = [doing EXCEPT ![p] = d] /\ UNCHANGED <<received, written>>
  BY DEF BuildEvent, At, Telling
<1>2. d.at \in {"publish", "send"} => d.from = doing[p].from /\ d.to = doing[p].to
  BY DEF Idle, WeatherInv, TypeOK
<1> HIDE DEF d
<1>3. QED
  BY <1>1, <1>2, QuietReported

(* A reception is of the change that is worked on, and those before it have failed. *)
LEMMA SendReports ==
    ASSUME WeatherInv, ReportInv, NEW p \in Publisher, Delivered(p) \/ AttemptFails(p) \/ Refused(p)
    PROVE  ReportInv'
<1> DEFINE again == [doing[p] EXCEPT !.attempt = @ + 1]
           e == [id |-> doing[p].event, from |-> doing[p].from, to |-> doing[p].to, by |-> p,
                 status |-> "queued"]
<1>1. Telling(p) /\ UNCHANGED written
  BY DEF Delivered, AttemptFails, Refused, At, Telling
<1>2. doing' = [doing EXCEPT ![p] = Idle] \/ doing' = [doing EXCEPT ![p] = again]
  BY DEF Delivered, AttemptFails, Refused, Retry, GiveUp
<1>3. again.from = doing[p].from /\ again.to = doing[p].to
  BY DEF WeatherInv, TypeOK
<1> HIDE DEF again
<1>4. PICK d : /\ doing' = [doing EXCEPT ![p] = d]
               /\ d.at \in {"publish", "send"} => d.from = doing[p].from /\ d.to = doing[p].to
  BY <1>2, <1>3, IdleType
<1>5. CASE received' = received
  BY <1>1, <1>4, <1>5, QuietReported
<1>6. CASE Accept(p) /\ received' # received
  <2>1. /\ ~Known(doing[p].event) /\ received' = Append(received, e) /\ received \in Seq(Event)
    BY <1>6 DEF Accept, Received, WeatherInv, TypeOK
  <2>2. e.id = doing[p].event /\ e.by = p /\ e.from = doing[p].from /\ e.to = doing[p].to
    OBVIOUS
  <2> HIDE DEF e
  <2>3. PICK n \in Nat : n = Len(received) /\ DOMAIN received = 1..n /\ DOMAIN received' = 1..(n + 1)
    BY <2>1
  <2>4. received'[n + 1] = e /\ \A i \in 1..n : received'[i] = received[i]
    BY <2>1, <2>3
  <2>5. \A i \in DOMAIN received' :
           \/ /\ i \in DOMAIN received /\ received'[i].by = received[i].by
              /\ received'[i].from = received[i].from /\ received'[i].to = received[i].to
           \/ \E q \in Publisher : /\ Telling(q) /\ received'[i].by = q
                                   /\ received'[i].from = doing[q].from /\ received'[i].to = doing[q].to
    <3> SUFFICES ASSUME NEW i \in 1..(n + 1), i \notin 1..n PROVE i = n + 1
      BY <1>1, <2>2, <2>3, <2>4
    <3>1. QED
      BY <2>3
  <2>6. doing'[p] = d /\ \A q \in Publisher : q # p => doing'[q] = doing[q]
    BY <1>4 DEF WeatherInv, TypeOK
  <2>7. \A q \in Changer : Telling(q)' =>
           Telling(q) /\ doing'[q].from = doing[q].from /\ doing'[q].to = doing[q].to
    BY <1>1, <1>4, <2>6 DEF Telling, At, Publisher
  <2>8. Reported'
    BY <1>1, <2>5, <2>7, ReportedKept DEF ReportInv
  <2>9. Once'
    <3> SUFFICES ASSUME NEW i \in 1..(n + 1), NEW j \in 1..(n + 1), i < j,
                        received'[i].id = received'[j].id
                 PROVE  received'[i].status = "failed"
      BY <2>3 DEF Once
    <3>1. i \in 1..n /\ (j \in 1..n \/ j = n + 1)
      BY <2>3
    <3>2. CASE j \in 1..n
      BY <2>3, <2>4, <3>1, <3>2 DEF ReportInv, Once
    <3>3. CASE j = n + 1
      BY <2>1, <2>2, <2>3, <2>4, <3>1, <3>3 DEF Known
    <3>4. QED
      BY <3>1, <3>2, <3>3
  <2>10. QED
    BY <2>8, <2>9 DEF ReportInv
<1>7. QED
  BY <1>5, <1>6 DEF Delivered, AttemptFails, Refused

LEMMA FinishReports ==
    ASSUME WeatherInv, ReportInv,
           NEW i \in DOMAIN received, NEW status \in {"completed", "failed"}, Finish(i, status)
    PROVE  ReportInv'
<1>1. UNCHANGED <<doing, written>>
  BY DEF Finish
<1>2. /\ DOMAIN received' = DOMAIN received
      /\ \A j \in DOMAIN received :
           /\ received'[j].id = received[j].id /\ received'[j].by = received[j].by
           /\ received'[j].from = received[j].from /\ received'[j].to = received[j].to
           /\ received[j].status = "failed" => received'[j].status = "failed"
  <2>1. received' = [received EXCEPT ![i].status = status] /\ received \in Seq(Event)
        /\ received[i].status = "queued"
    BY DEF Finish, WeatherInv, TypeOK
  <2>2. DOMAIN received' = DOMAIN received /\ \A j \in DOMAIN received : received[j] \in Event
    BY <2>1
  <2>3. \A j \in DOMAIN received :
          received'[j] = IF j = i THEN [received[j] EXCEPT !.status = status] ELSE received[j]
    BY <2>1
  <2>4. QED
    BY <2>1, <2>2, <2>3 DEF Event
<1>3. Reported'
  <2>1. \A p \in Changer : Telling(p)' =>
           Telling(p) /\ doing'[p].from = doing[p].from /\ doing'[p].to = doing[p].to
    BY <1>1 DEF Telling, At
  <2>2. QED
    BY <1>1, <1>2, <2>1, ReportedKept DEF ReportInv
<1>4. Once'
  BY <1>2 DEF ReportInv, Once
<1>5. QED
  BY <1>3, <1>4 DEF ReportInv

LEMMA AlwaysReported == Spec => []ReportInv
<1>1. Init => ReportInv
  BY IdleType DEF Init, ReportInv, Reported, Once, Telling, At, Publisher
<1>2. WeatherInv /\ ReportInv /\ [Next]_vars => ReportInv'
  <2> SUFFICES ASSUME WeatherInv, ReportInv, [Next]_vars PROVE ReportInv'
    OBVIOUS
  <2>1. ASSUME NEW c \in Changer, Apply(c) \/ \E w \in Settable, b \in BOOLEAN : Change(c, w, b)
        PROVE  ReportInv'
    BY <2>1, ChangerReports
  <2>2. ASSUME NEW w \in Weather, WeatherChanges(w) PROVE ReportInv'
    <3> DEFINE e == [from |-> weather, to |-> w, by |-> None]
               S == [from : Maybe, to : Maybe, by : Changer \cup {None}]
    <3>1. written' = Append(written, e) /\ written \in Seq(S) /\ UNCHANGED <<doing, received>>
      BY <2>2 DEF WeatherChanges, WeatherInv, TypeOK
    <3>2. \A j \in DOMAIN written : j \in DOMAIN written' /\ written'[j] = written[j]
      BY <3>1
    <3>3. \A from, to, p : ReportedIn(written, from, to, p) => ReportedIn(written', from, to, p)
      BY <3>2 DEF ReportedIn
    <3>4. \A p \in Changer : Telling(p)' =>
             Telling(p) /\ doing'[p].from = doing[p].from /\ doing'[p].to = doing[p].to
      BY <3>1 DEF Telling, At
    <3>5. QED
      BY <3>1, <3>3, <3>4, UnheardReported
  <2>3. ASSUME UNCHANGED <<received, written>>, \A c \in Changer : doing'[c] = doing[c]
        PROVE  ReportInv'
    <3>1. \A p \in Changer : Telling(p)' =>
             Telling(p) /\ doing'[p].from = doing[p].from /\ doing'[p].to = doing[p].to
      BY <2>3 DEF Telling, At
    <3>2. QED
      BY <2>3, <3>1, UnheardReported
  <2>4. CASE PollFails \/ UNCHANGED vars
    BY <2>3, <2>4 DEF PollFails, vars
  <2>5. CASE Poll
    <3>1. UNCHANGED <<received, written>> /\ \A c \in Changer : c # Watcher
      BY <2>5, WeatherAssumption DEF Poll
    <3>2. \A c \in Changer : doing'[c] = doing[c]
      BY <2>5, <3>1 DEF Poll, WeatherInv, TypeOK, Publisher
    <3>3. QED
      BY <2>3, <3>1, <3>2
  <2>6. ASSUME NEW p \in Publisher, Publish(p) PROVE ReportInv'
    BY <2>6, BuildReports, SendReports DEF Publish
  <2>7. ASSUME NEW p \in Publisher, Die(p) PROVE ReportInv'
    BY <2>7, QuietReported, IdleType DEF Die
  <2>8. ASSUME NEW i \in DOMAIN received, NEW status \in {"completed", "failed"}, Finish(i, status)
        PROVE  ReportInv'
    BY <2>8, FinishReports
  <2>9. QED
    BY <2>1, <2>2, <2>4, <2>5, <2>6, <2>7, <2>8 DEF Next
<1>3. QED
  BY <1>1, <1>2, AlwaysTold, PTL DEF Spec

(* ChangesChain: the exclusive lock around reading and writing the state file makes the  *)
(* changes of any number of processes one chain, and every event of one of them reports  *)
(* a link of it, in whatever order they are received (set_weather, _locked, publish).     *)
THEOREM ChangesAreAChain == Spec => []ChangesChain
<1>1. ASSUME WeatherInv, ReportInv PROVE ChangesChain
  <2>1. DOMAIN written = 1..Len(written)
    BY <1>1 DEF WeatherInv, TypeOK
  <2>2. \A i \in DOMAIN written : written[i].from = IF i = 1 THEN Default ELSE written[i - 1].to
    BY <1>1, <2>1 DEF WeatherInv, Chained
  <2>3. written # <<>> => weather = Last(written).to
    BY <1>1 DEF WeatherInv, Filed, Last
  <2>4. \A i \in DOMAIN received : received[i].by \in Changer =>
           \E j \in DOMAIN written :
              written[j] = [from |-> received[i].from, to |-> received[i].to, by |-> received[i].by]
    BY <1>1 DEF ReportInv, Reported, ReportedIn
  <2>5. QED
    BY <2>2, <2>3, <2>4 DEF ChangesChain
<1>2. QED
  BY AlwaysTold, AlwaysReported, <1>1, PTL

(* ReceivedOnce: one id for all attempts of an event, and a receiver that forgets it only *)
(* when its assessment fails, make at most one assessed event of a change or a poll, with *)
(* any number of retries (WeatherEventPublisher, enqueue_event, finish_event).            *)
THEOREM NoEventTwice == Spec => []ReceivedOnce
<1>1. ASSUME WeatherInv, ReportInv PROVE ReceivedOnce
  <2>1. \A i, j \in DOMAIN received :
          i < j /\ received[i].id = received[j].id => received[i].status = "failed"
    BY <1>1 DEF ReportInv, Once
  <2>2. ASSUME NEW c \in Changer \cup {Watcher}
        PROVE  Cardinality(Live(received, c)) <= IF c = Watcher THEN polls ELSE Cardinality(By(written, c))
    <3>1. c \in Publisher
      BY DEF Publisher
    <3>2. /\ Cardinality(Live(received, c)) + Owed(c) <= Told(c)
          /\ Cardinality(Live(received, c)) \in Nat /\ Cardinality(By(written, c)) \in Nat
          /\ Owed(c) \in {0, 1} /\ polls \in Nat
      BY <1>1, <3>1, Counts DEF WeatherInv, Counted, TypeOK
    <3>3. QED
      BY <3>2 DEF Told
  <2>3. QED
    BY <2>1, <2>2 DEF ReceivedOnce, By, Live
<1>2. QED
  BY AlwaysTold, AlwaysReported, <1>1, PTL
=============================================================================

---------------------------- MODULE RunnerProofs ----------------------------
(***************************************************************************)
(* Theorems about AnalysisRunner, for any number of clients, computations, *)
(* analyses, data versions, lanes and cache entries.                       *)
(***************************************************************************)
EXTENDS AnalysisRunner, TLAPS, FiniteSetTheorems

\* What one task does, from its request's lead to the end of its thread.
TaskAct(t) ==
    \/ \E c \in Client, k \in Key : Lead(c, k, t)
    \/ TaskStep(t) \/ Cancel(t)

\* What leaves the tasks alone.
OtherAct ==
    \/ \E c \in Client, k \in Key : Join(c, k)
    \/ \E c \in Client : Answer(c) \/ Disconnect(c) \/ Refill(c)
    \/ Shutdown \/ Midnight \/ Reload

-----------------------------------------------------------------------------
(* Types. *)

\* What the proofs use of the constants.
LEMMA ConstantTypes ==
    /\ IsFiniteSet(Task) /\ MaxVersion \in Nat /\ MaxDay \in Nat /\ Limit \in Nat
    /\ Burst \in Nat /\ MaxInflight \in Nat \ {0} /\ MaxHeavy \in Nat \ {0}
    /\ None \notin Task /\ None \notin Client /\ None \notin Nat
    /\ 0 \in Version /\ 0 \in Day
BY RunnerConstants DEF Version, Day

\* Every step is one of the two.
LEMMA Steps ==
    ASSUME TypeOK, Next
    PROVE  OtherAct \/ \E t \in Task : TaskAct(t)
<1>1. ASSUME NEW v \in SnapshotVersions, NEW op \in Op
      PROVE  [op |-> op, version |-> v] \in Key
  BY <1>1, ConstantTypes DEF SnapshotVersions, Key, Version, TypeOK
<1>2. ASSUME NEW c \in Client, NEW k \in Key, Join(c, k)
      PROVE  OtherAct
  BY <1>2 DEF OtherAct
<1>3. ASSUME NEW c \in Client, NEW k \in Key, NEW t \in Task, Lead(c, k, t)
      PROVE  TaskAct(t)
  BY <1>3 DEF TaskAct
<1>4. CASE \E c \in Client, op \in Op, v \in SnapshotVersions :
             LET k == [op |-> op, version |-> v]
             IN  Join(c, k) \/ \E t \in Task : Lead(c, k, t)
  <2>1. PICK c \in Client, op \in Op, v \in SnapshotVersions :
           \/ Join(c, [op |-> op, version |-> v])
           \/ \E t \in Task : Lead(c, [op |-> op, version |-> v], t)
    BY <1>4
  <2> QED BY <1>1, <1>2, <1>3, <2>1
<1>5. CASE ~\E c \in Client, op \in Op, v \in SnapshotVersions :
              LET k == [op |-> op, version |-> v]
              IN  Join(c, k) \/ \E t \in Task : Lead(c, k, t)
  BY <1>5 DEF Next, OtherAct, TaskAct
<1> QED BY <1>4, <1>5

\* The first state has the types.
LEMMA InitTypes == Init => TypeOK
<1> SUFFICES ASSUME Init PROVE TypeOK
  OBVIOUS
<1>1. /\ expected \in Version \cup {None} /\ served \in Version /\ day \in Day
      /\ used \in 0 .. Limit /\ tokens \in [Client -> 0 .. Burst] /\ closed \in BOOLEAN
  <2>1. 0 \in 0 .. Limit /\ Burst \in 0 .. Burst
    BY ConstantTypes
  <2>2. expected \in {None, 0} /\ served = 0 /\ day = 0 /\ used = 0 /\ closed = FALSE
    BY DEF Init
  <2>3. tokens \in [Client -> 0 .. Burst]
    BY <2>1 DEF Init
  <2> QED BY <2>1, <2>2, <2>3, ConstantTypes
<1>2. /\ cache \in [Key -> Payload \cup {None}] /\ flights \in [Key -> Task \cup {None}]
      /\ waits \in [Client -> Task \cup {None}]
  BY DEF Init
<1>3. /\ phase \in [Task -> Phases] /\ key \in [Task -> Key \cup {None}]
      /\ client \in [Task -> Client \cup {None}] /\ unit \in [Task -> Day \cup {None}]
      /\ computing \in [Task -> BOOLEAN] /\ current \in [Task -> Version \cup {None}]
      /\ result \in [Task -> {None, Failed, Overloaded} \cup Outcome]
      /\ future \in [Task -> {None, Failed} \cup Outcome]
  BY DEF Init, Phases
<1>4. ran \in [Day -> Nat] /\ late \in [Day -> Int] /\ spent \in [Client -> Int]
  BY DEF Init
<1> QED BY <1>1, <1>2, <1>3, <1>4 DEF TypeOK

\* What goes back into the cap and a bucket keeps their types.
LEMMA RefundTypes ==
    ASSUME TypeOK, NEW t \in Task, client[t] \in Client, Refund(t)
    PROVE  /\ used' \in 0 .. Limit /\ tokens' \in [Client -> 0 .. Burst]
           /\ late' \in [Day -> Int]
<1>1. used' \in 0 .. Limit
  BY ConstantTypes DEF Refund, TypeOK
<1>2. tokens' \in [Client -> 0 .. Burst]
  BY ConstantTypes DEF Refund, TypeOK
<1>3. late' \in [Day -> Int]
  BY DEF Refund, TypeOK
<1> QED BY <1>1, <1>2, <1>3

\* What a task leaves behind has its types.
LEMMA GoneTypes ==
    ASSUME TypeOK, NEW t \in Task, Gone(t)
    PROVE  /\ phase' \in [Task -> Phases]
           /\ key' \in [Task -> Key \cup {None}] /\ client' \in [Task -> Client \cup {None}]
           /\ unit' \in [Task -> Day \cup {None}]
           /\ computing' \in [Task -> BOOLEAN]
           /\ current' \in [Task -> Version \cup {None}]
           /\ result' \in [Task -> {None, Failed, Overloaded} \cup Outcome]
BY DEF Gone, TypeOK, Phases

\* Taking a flight out keeps the flights' type.
LEMMA UnregisteredTypes ==
    ASSUME TypeOK, NEW t \in Task
    PROVE  Unregistered(t) \in [Key -> Task \cup {None}]
BY DEF Unregistered, TypeOK

\* What the cache may be after a put.
LEMMA StoredFacts ==
    ASSUME TypeOK, NEW k \in Key, NEW payload \in Payload, NEW c \in Stored(k, payload)
    PROVE  /\ c \in [Key -> Payload \cup {None}]
           /\ \A j \in Key : c[j] \in {cache[j], None} \/ (j = k /\ c[j] = payload)
           /\ c[k] = payload
           /\ \A j \in Key \ {k} : c[j] \in {cache[j], None}
<1> DEFINE with == [cache EXCEPT ![k] = payload]
<1>1. /\ with \in [Key -> Payload \cup {None}]
      /\ with[k] = payload /\ \A j \in Key \ {k} : with[j] = cache[j]
  BY DEF TypeOK
<1>2. c = with \/ \E j \in Key \ {k} : c = [with EXCEPT ![j] = None]
  BY DEF Stored
<1> HIDE DEF with
<1> QED BY <1>1, <1>2

\* A put keeps the cache's type.
LEMMA CachedTypes ==
    ASSUME TypeOK, NEW t \in Task, key[t] \in Key, current[t] \in Version, Cached(t)
    PROVE  cache' \in [Key -> Payload \cup {None}]
<1>1. [data |-> OutcomeOf(t).data, resolver |-> OutcomeOf(t).resolver] \in Payload
  BY DEF OutcomeOf, Payload, TypeOK
<1> QED BY <1>1, StoredFacts DEF Cached, TypeOK

\* A step of a task keeps the types.
LEMMA TaskTypes ==
    ASSUME TypeOK, TasksInv, NEW t \in Task, TaskAct(t)
    PROVE  TypeOK'
<1> USE ConstantTypes
<1>1. CASE AcquireHeavy(t)
  BY <1>1 DEF AcquireHeavy, protection, history, TypeOK, Phases
<1>2. CASE EnterLane(t)
  BY <1>2 DEF EnterLane, history, TypeOK, Phases
<1>3. CASE NotAdmitted(t)
  <2>1. client[t] \in Client
    BY <1>3 DEF NotAdmitted, TasksInv
  <2>2. Refund(t) /\ Gone(t) /\ flights' = Unregistered(t)
    BY <1>3 DEF NotAdmitted, Refused
  <2>3. /\ future' = [future EXCEPT ![t] = Failed]
        /\ UNCHANGED <<expected, served, day, cache, waits, closed, ran, spent>>
    BY <1>3 DEF NotAdmitted, Refused
  <2> QED BY <2>1, <2>2, <2>3, RefundTypes, GoneTypes, UnregisteredTypes DEF TypeOK
<1>4. CASE CheckoutFails(t)
  BY <1>4 DEF CheckoutFails, protection, history, TypeOK, Phases
<1>5. CASE Mismatch(t)
  BY <1>5 DEF Mismatch, protection, history, TypeOK, Phases
<1>6. CASE StartEngine(t)
  <2>1. unit[t] \in Day /\ client[t] \in Client
    BY <1>6 DEF StartEngine, TasksInv
  <2> QED BY <1>6, <2>1 DEF StartEngine, protection, TypeOK, Phases
<1>7. CASE Succeeds(t)
  <2>1. key[t] \in Key /\ current[t] \in Version
    BY <1>7 DEF Succeeds, TasksInv, Reading, TypeOK
  <2>2. cache' \in [Key -> Payload \cup {None}]
    BY <1>7, <2>1, CachedTypes DEF Succeeds
  <2>3. OutcomeOf(t) \in Outcome
    BY <2>1 DEF OutcomeOf, Outcome, TypeOK
  <2>4. /\ phase' \in [Task -> Phases]
        /\ result' \in [Task -> {None, Failed, Overloaded} \cup Outcome]
    BY <1>7, <2>3 DEF Succeeds, TypeOK, Phases
  <2>5. UNCHANGED <<expected, served, day, used, tokens, flights, waits, key, client, unit,
                    computing, current, future, closed, ran, late, spent>>
    BY <1>7 DEF Succeeds, protection, history
  <2> QED BY <2>2, <2>4, <2>5 DEF TypeOK
<1>8. CASE \E how \in {Failed, Overloaded} : ComputeFails(t, how)
  BY <1>8 DEF ComputeFails, protection, history, TypeOK, Phases
<1>9. CASE Deliver(t)
  <2>1. client[t] \in Client
    BY <1>9 DEF Deliver, TasksInv
  <2>2. GivenBack(t) /\ Gone(t) /\ flights' = Unregistered(t)
    BY <1>9 DEF Deliver
  <2>3. /\ used' \in 0 .. Limit /\ tokens' \in [Client -> 0 .. Burst]
        /\ late' \in [Day -> Int] /\ spent' \in [Client -> Int]
    BY <2>1, <2>2, RefundTypes DEF GivenBack, protection, TypeOK
  <2>4. /\ future' \in [Task -> {None, Failed} \cup Outcome]
        /\ UNCHANGED <<expected, served, day, cache, waits, closed, ran>>
    BY <1>9 DEF Deliver, TypeOK
  <2> QED BY <2>2, <2>3, <2>4, GoneTypes, UnregisteredTypes DEF TypeOK
<1>10. CASE OrphanEnds(t)
  <2>1. key[t] \in Key /\ (computing[t] => current[t] \in Version)
    BY <1>10 DEF OrphanEnds, TasksInv, Reading, TypeOK
  <2>2. Gone(t) /\ (UNCHANGED cache \/ (computing[t] /\ Cached(t)))
    BY <1>10 DEF OrphanEnds
  <2>3. cache' \in [Key -> Payload \cup {None}]
    BY <2>1, <2>2, CachedTypes DEF TypeOK
  <2>4. UNCHANGED <<expected, served, day, used, tokens, flights, waits, future, closed,
                    ran, late, spent>>
    BY <1>10 DEF OrphanEnds, protection, history
  <2> QED BY <2>2, <2>3, <2>4, GoneTypes DEF TypeOK
<1>11. CASE Cancel(t)
  <2>1. /\ flights' = Unregistered(t) /\ future' = [future EXCEPT ![t] = Failed]
        /\ UNCHANGED <<expected, served, day, used, tokens, cache, waits, closed,
                       ran, late, spent>>
    BY <1>11 DEF Cancel, protection, history
  <2>2. CASE Gone(t)
    BY <2>1, <2>2, GoneTypes, UnregisteredTypes DEF TypeOK
  <2>3. CASE phase' = [phase EXCEPT ![t] = "orphan"]
             /\ UNCHANGED <<key, client, unit, computing, current, result>>
    BY <2>1, <2>3, UnregisteredTypes DEF TypeOK, Phases
  <2> QED BY <1>11, <2>2, <2>3 DEF Cancel
<1>12. CASE \E c \in Client, k \in Key : Lead(c, k, t)
  BY <1>12 DEF Lead, history, TypeOK, Phases
<1> QED BY <1>1, <1>2, <1>3, <1>4, <1>5, <1>6, <1>7, <1>8, <1>9, <1>10, <1>11, <1>12
       DEF TaskAct, TaskStep

\* A step of anything else does.
LEMMA OtherTypes ==
    ASSUME TypeOK, OtherAct
    PROVE  TypeOK'
<1> USE ConstantTypes
<1>1. CASE \E c \in Client, k \in Key : Join(c, k)
  BY <1>1 DEF Join, TypeOK, protection, task, history
<1>2. CASE \E c \in Client : Answer(c) \/ Disconnect(c) \/ Refill(c)
  BY <1>2 DEF Answer, Disconnect, Refill, TypeOK, protection, task, history
<1>3. CASE Shutdown
  BY <1>3 DEF Shutdown, TypeOK, protection, task, history
<1>4. CASE Midnight
  BY <1>4 DEF Midnight, TypeOK, task, history, Day
<1>5. CASE Reload
  BY <1>5 DEF Reload, TypeOK, protection, task, history, Version
<1> QED BY <1>1, <1>2, <1>3, <1>4, <1>5 DEF OtherAct

-----------------------------------------------------------------------------
(* Steps of one task. *)

\* A task changes nothing of another.
LEMMA OthersLeft ==
    ASSUME TypeOK, NEW t \in Task, TaskAct(t), NEW u \in Task, u # t
    PROVE  /\ phase'[u] = phase[u] /\ key'[u] = key[u] /\ client'[u] = client[u]
           /\ unit'[u] = unit[u] /\ computing'[u] = computing[u] /\ current'[u] = current[u]
           /\ result'[u] = result[u] /\ future'[u] = future[u]
<1>1. CASE AcquireHeavy(t)
  BY <1>1 DEF AcquireHeavy, TypeOK
<1>2. CASE EnterLane(t)
  BY <1>2 DEF EnterLane, TypeOK
<1>3. CASE NotAdmitted(t)
  BY <1>3 DEF NotAdmitted, Refused, Gone, TypeOK
<1>4. CASE CheckoutFails(t)
  BY <1>4 DEF CheckoutFails, TypeOK
<1>5. CASE Mismatch(t)
  BY <1>5 DEF Mismatch, TypeOK
<1>6. CASE StartEngine(t)
  BY <1>6 DEF StartEngine, TypeOK
<1>7. CASE Succeeds(t)
  BY <1>7 DEF Succeeds, TypeOK
<1>8. CASE \E how \in {Failed, Overloaded} : ComputeFails(t, how)
  BY <1>8 DEF ComputeFails, TypeOK
<1>9. CASE Deliver(t)
  BY <1>9 DEF Deliver, Gone, TypeOK
<1>10. CASE OrphanEnds(t)
  BY <1>10 DEF OrphanEnds, Gone, TypeOK
<1>11. CASE Cancel(t)
  BY <1>11 DEF Cancel, Gone, TypeOK
<1>12. CASE \E c \in Client, k \in Key : Lead(c, k, t)
  BY <1>12 DEF Lead, TypeOK
<1> QED BY <1>1, <1>2, <1>3, <1>4, <1>5, <1>6, <1>7, <1>8, <1>9, <1>10, <1>11, <1>12
       DEF TaskAct, TaskStep
-----------------------------------------------------------------------------
(* A task at work knows what it is at work on. *)

\* Every step keeps that.
LEMMA TasksKept ==
    ASSUME TypeOK, TasksInv, Next
    PROVE  TasksInv'
<1>1. CASE OtherAct
  <2>1. UNCHANGED <<phase, key, client, unit, computing, current>>
    BY <1>1 DEF OtherAct, Join, Answer, Disconnect, Refill, Shutdown, Midnight, Reload, task
  <2>2. served' = served \/ \A t \in Task : ~Reading(t)
    BY <1>1 DEF OtherAct, Join, Answer, Disconnect, Refill, Shutdown, Midnight, Reload
  <2> QED BY <2>1, <2>2 DEF TasksInv, Reading
<1>2. ASSUME NEW t \in Task, TaskAct(t)
      PROVE  TasksInv'
  <2>1. served' = served
    BY <1>2 DEF TaskAct, TaskStep, Lead, AcquireHeavy, EnterLane, NotAdmitted, Refused,
                CheckoutFails, Mismatch, StartEngine, Succeeds, ComputeFails, Deliver,
                OrphanEnds, Cancel
  <2> DEFINE Knows(u) ==
        /\ phase[u] # "none" => key[u] \in Key /\ client[u] \in Client
        /\ phase[u] \in {"thread", "computing", "returned", "orphan"} => unit[u] \in Day
        /\ phase[u] = "computing" => computing[u]
        /\ computing[u] => phase[u] \in {"computing", "returned", "orphan"}
        /\ Reading(u) => current[u] = served
  <2>2. Knows(t)'
    <3>1. CASE \E c \in Client, k \in Key : Lead(c, k, t)
      BY <3>1 DEF Lead, TypeOK, TasksInv, Reading
    <3>2. CASE AcquireHeavy(t)
      BY <3>2 DEF AcquireHeavy, TypeOK, TasksInv, Reading
    <3>3. CASE EnterLane(t)
      BY <3>3 DEF EnterLane, NeedsGeneral, TypeOK, TasksInv, Reading
    <3>4. CASE NotAdmitted(t) \/ Deliver(t) \/ OrphanEnds(t) \/ (Cancel(t) /\ Gone(t))
      BY <3>4 DEF NotAdmitted, Refused, Deliver, OrphanEnds, Gone, TypeOK, Reading
    <3>5. CASE CheckoutFails(t)
      BY <3>5 DEF CheckoutFails, TypeOK, TasksInv, Reading
    <3>6. CASE Mismatch(t)
      BY <3>6 DEF Mismatch, TypeOK, TasksInv, Reading
    <3>7. CASE StartEngine(t)
      BY <3>7 DEF StartEngine, TypeOK, TasksInv, Reading
    <3>8. CASE Succeeds(t)
      BY <3>8 DEF Succeeds, TypeOK, TasksInv, Reading
    <3>9. CASE \E how \in {Failed, Overloaded} : ComputeFails(t, how)
      BY <3>9 DEF ComputeFails, TypeOK, TasksInv, Reading
    <3>10. CASE Cancel(t) /\ ~Gone(t)
      BY <2>1, <3>10 DEF Cancel, TypeOK, TasksInv, Reading
    <3> QED BY <1>2, <3>1, <3>2, <3>3, <3>4, <3>5, <3>6, <3>7, <3>8, <3>9, <3>10
            DEF TaskAct, TaskStep
  <2>3. ASSUME NEW u \in Task, u # t
        PROVE  Knows(u)'
    BY <1>2, <2>1, <2>3, OthersLeft DEF TasksInv, Reading
  <2> QED BY <2>2, <2>3 DEF TasksInv
<1> QED BY <1>1, <1>2, Steps

-----------------------------------------------------------------------------
(* Results are of one version. *)

\* What an open transaction returns, and puts into the cache.
LEMMA OutcomeOfOneVersion ==
    ASSUME NEW t \in Task, current[t] = served
    PROVE  OfOneVersion(OutcomeOf(t))
BY DEF OutcomeOf, OfOneVersion

\* A put keeps every entry true to its key.
LEMMA CachedIsTrue ==
    ASSUME TypeOK, ResultsInv, NEW t \in Task, key[t] \in Key,
           current[t] = served, Cached(t)
    PROVE  \A k \in Key : cache'[k] # None
             => cache'[k] = [data |-> k.version, resolver |-> k.version]
<1> DEFINE payload == [data |-> OutcomeOf(t).data, resolver |-> OutcomeOf(t).resolver]
<1>1. CASE UNCHANGED cache
  BY <1>1 DEF ResultsInv
<1>2. CASE current[t] = key[t].version /\ cache' \in Stored(key[t], payload)
  <2>1. payload = [data |-> key[t].version, resolver |-> key[t].version]
    BY <1>2 DEF OutcomeOf
  <2>2. payload \in Payload
    BY <2>1 DEF Key, Payload
  <2> HIDE DEF payload
  <2>3. \A k \in Key : cache'[k] \in {cache[k], None} \/ (k = key[t] /\ cache'[k] = payload)
    BY <1>2, <2>2, StoredFacts
  <2> QED BY <2>1, <2>3 DEF ResultsInv
<1> QED BY <1>1, <1>2 DEF Cached

\* Every step keeps results and cache true.
LEMMA ResultsKept ==
    ASSUME TypeOK, TasksInv, ResultsInv, Next
    PROVE  ResultsInv'
<1>1. CASE OtherAct
  BY <1>1 DEF OtherAct, Join, Answer, Disconnect, Refill, Shutdown, Midnight, Reload, task,
              ResultsInv
<1>2. ASSUME NEW t \in Task, TaskAct(t)
      PROVE  ResultsInv'
  <2>1. \A k \in Key : cache'[k] # None
          => cache'[k] = [data |-> k.version, resolver |-> k.version]
    <3>1. CASE UNCHANGED cache
      BY <3>1 DEF ResultsInv
    <3>2. CASE (Succeeds(t) \/ OrphanEnds(t)) /\ ~UNCHANGED cache
      <4>1. key[t] \in Key /\ current[t] = served /\ Cached(t)
        BY <3>2 DEF Succeeds, OrphanEnds, TasksInv, Reading
      <4> QED BY <4>1, CachedIsTrue
    <3> QED BY <1>2, <3>1, <3>2
            DEF TaskAct, TaskStep, Lead, AcquireHeavy, EnterLane, NotAdmitted, Refused,
                CheckoutFails, Mismatch, StartEngine, ComputeFails, Deliver, Cancel
  <2> DEFINE Good(u) ==
        /\ result[u] \notin {None, Failed, Overloaded} => OfOneVersion(result[u])
        /\ future[u] \notin {None, Failed} => OfOneVersion(future[u])
  <2>2. Good(t)'
    <3>1. CASE Succeeds(t)
      <4>1. result'[t] = OutcomeOf(t) /\ future' = future
        BY <3>1 DEF Succeeds, TypeOK
      <4>2. current[t] = served
        BY <3>1 DEF Succeeds, TasksInv, Reading
      <4> QED BY <4>1, <4>2, OutcomeOfOneVersion DEF ResultsInv, OfOneVersion
    <3>2. CASE Deliver(t)
      BY <3>2 DEF Deliver, Gone, TypeOK, ResultsInv, OfOneVersion
    <3>3. CASE NotAdmitted(t) \/ Cancel(t)
      BY <3>3 DEF NotAdmitted, Refused, Cancel, Gone, TypeOK, ResultsInv, OfOneVersion
    <3>4. CASE \/ \E c \in Client, k \in Key : Lead(c, k, t)
               \/ AcquireHeavy(t) \/ EnterLane(t) \/ CheckoutFails(t) \/ Mismatch(t)
               \/ StartEngine(t) \/ OrphanEnds(t)
               \/ \E how \in {Failed, Overloaded} : ComputeFails(t, how)
      BY <3>4 DEF Lead, AcquireHeavy, EnterLane, CheckoutFails, Mismatch, StartEngine,
                  OrphanEnds, ComputeFails, Gone, TypeOK, ResultsInv, OfOneVersion
    <3> QED BY <1>2, <3>1, <3>2, <3>3, <3>4 DEF TaskAct, TaskStep
  <2>3. ASSUME NEW u \in Task, u # t
        PROVE  Good(u)'
    BY <1>2, <2>3, OthersLeft DEF ResultsInv, OfOneVersion
  <2> QED BY <2>1, <2>2, <2>3 DEF ResultsInv
<1> QED BY <1>1, <1>2, Steps

-----------------------------------------------------------------------------
(* A task is the flight of its key. *)

\* Every step keeps the flights: only the task itself unregisters its flight.
LEMMA FlightsKept ==
    ASSUME TypeOK, TasksInv, FlightsInv, Next
    PROVE  FlightsInv'
<1>1. CASE OtherAct
  BY <1>1 DEF OtherAct, Join, Answer, Disconnect, Refill, Shutdown, Midnight, Reload, task,
              FlightsInv
<1>2. ASSUME NEW t \in Task, TaskAct(t)
      PROVE  FlightsInv'
  <2>1. \A u \in Task : u # t => phase'[u] = phase[u] /\ key'[u] = key[u]
    BY <1>2, OthersLeft
  <2>2. CASE \E c \in Client, k \in Key : Lead(c, k, t)
    <3>1. PICK c \in Client, k \in Key : Lead(c, k, t)
      BY <2>2
    <3>2. /\ flights[k] = None /\ flights' = [flights EXCEPT ![k] = t]
          /\ key'[t] = k
      BY <3>1 DEF Lead, Alone, TypeOK
    <3>3. ASSUME NEW u \in Task, u # t, phase[u] \notin {"none", "orphan"}
          PROVE  flights'[key[u]] = u
      <4>1. flights[key[u]] = u /\ key[u] \in Key /\ key[u] # k
        BY <3>2, <3>3, ConstantTypes DEF FlightsInv, TasksInv
      <4> QED BY <3>2, <4>1 DEF TypeOK
    <3>4. flights'[key'[t]] = t
      BY <3>2 DEF TypeOK
    <3> QED BY <2>1, <3>3, <3>4 DEF FlightsInv
  <2>3. CASE flights' = flights
    <3>1. \/ phase'[t] \in {"none", "orphan"}
          \/ phase[t] \notin {"none", "orphan"} /\ key'[t] = key[t]
      <4>1. CASE OrphanEnds(t)
        BY <4>1 DEF OrphanEnds, Gone, TypeOK
      <4>2. CASE NotAdmitted(t) \/ Deliver(t) \/ Cancel(t)
        BY <4>2 DEF NotAdmitted, Refused, Deliver, Cancel, Gone, TypeOK
      <4>3. CASE \E c \in Client, k \in Key : Lead(c, k, t)
        BY <2>3, <4>3, ConstantTypes DEF Lead, Alone, TypeOK
      <4> QED BY <1>2, <4>1, <4>2, <4>3
              DEF TaskAct, TaskStep, AcquireHeavy, EnterLane, NeedsGeneral, CheckoutFails,
                  Mismatch, StartEngine, Succeeds, ComputeFails, TypeOK
    <3> QED BY <2>1, <2>3, <3>1 DEF FlightsInv
  <2>4. CASE flights' = Unregistered(t) /\ (NotAdmitted(t) \/ Deliver(t) \/ Cancel(t))
    <3>1. phase'[t] \in {"none", "orphan"}
      BY <2>4 DEF NotAdmitted, Refused, Deliver, Cancel, Gone, TypeOK
    <3>2. \A u \in Task : u # t /\ phase[u] \notin {"none", "orphan"}
                            => flights'[key[u]] = flights[key[u]]
      BY <2>4 DEF Unregistered, FlightsInv, TasksInv
    <3> QED BY <2>1, <3>1, <3>2 DEF FlightsInv
  <2> QED BY <1>2, <2>2, <2>3, <2>4
          DEF TaskAct, TaskStep, AcquireHeavy, EnterLane, NotAdmitted, Refused, CheckoutFails,
              Mismatch, StartEngine, Succeeds, ComputeFails, Deliver, OrphanEnds, Cancel
<1> QED BY <1>1, <1>2, Steps

-----------------------------------------------------------------------------
(* Lanes. *)

\* The sets the lanes bound are finite.
LEMMA LaneSets ==
    /\ IsFiniteSet(Working) /\ Cardinality(Working) \in Nat
    /\ IsFiniteSet(HeavyHeld) /\ Cardinality(HeavyHeld) \in Nat
<1>1. Working \subseteq Task /\ HeavyHeld \subseteq Task
  BY DEF Working, HeavyHeld
<1> QED BY <1>1, ConstantTypes, FS_Subset, FS_CardinalityType

\* While lanes are given no thread is an orphan, so what the lanes count is
\* what is at work.
LEMMA LanesCountAll ==
    ASSUME LanesInv, ~closed
    PROVE  /\ Working = {t \in Task : InLane(t)}
           /\ HeavyHeld = {t \in Task : IsHeavy(t) /\ (InLane(t) \/ phase[t] = "heavy")}
BY DEF LanesInv, Working, HeavyHeld, InLane

\* A general lane is given below its bound, to a task with its heavy lane.
LEMMA EnterLaneKeeps ==
    ASSUME TypeOK, LanesInv, NEW t \in Task, EnterLane(t)
    PROVE  LanesInv'
<1>1. /\ phase' = [phase EXCEPT ![t] = "thread"] /\ UNCHANGED <<key, closed>>
      /\ phase[t] = (IF IsHeavy(t) THEN "heavy" ELSE "created") /\ ~closed
  BY DEF EnterLane, NeedsGeneral, Admitting
<1>2. Cardinality(Working) < MaxInflight
  BY <1>1, LanesCountAll DEF EnterLane, GeneralFree
<1>3. Working' = Working \cup {t} /\ t \notin Working
  BY <1>1 DEF Working, TypeOK
<1>4. Cardinality(Working') = Cardinality(Working) + 1
  BY <1>3, LaneSets, FS_AddElement
<1>5. HeavyHeld' = HeavyHeld
  <2>1. \A u \in Task : IsHeavy(u)' <=> IsHeavy(u)
    BY <1>1 DEF IsHeavy, TypeOK
  <2>2. \A u \in Task : u # t => (u \in HeavyHeld' <=> u \in HeavyHeld)
    BY <1>1, <1>3, <2>1 DEF HeavyHeld, TypeOK
  <2>3. t \in HeavyHeld' <=> t \in HeavyHeld
    BY <1>1, <1>3, <2>1 DEF HeavyHeld, TypeOK
  <2> QED BY <2>2, <2>3 DEF HeavyHeld
<1>6. \A u \in Task : phase'[u] # "orphan"
  BY <1>1 DEF LanesInv, TypeOK
<1> QED BY <1>2, <1>4, <1>5, <1>6, LaneSets, ConstantTypes DEF LanesInv

\* A heavy lane is given below its bound.
LEMMA AcquireHeavyKeeps ==
    ASSUME TypeOK, LanesInv, NEW t \in Task, AcquireHeavy(t)
    PROVE  LanesInv'
<1>1. /\ phase' = [phase EXCEPT ![t] = "heavy"] /\ UNCHANGED <<key, closed>>
      /\ phase[t] = "created" /\ IsHeavy(t) /\ ~closed
  BY DEF AcquireHeavy, Admitting
<1>2. Cardinality(HeavyHeld) < MaxHeavy
  BY <1>1, LanesCountAll DEF AcquireHeavy, HeavyFree
<1>3. Working' = Working /\ t \notin Working
  BY <1>1 DEF Working, TypeOK
<1>4. HeavyHeld' = HeavyHeld \cup {t} /\ t \notin HeavyHeld
  <2>1. \A u \in Task : IsHeavy(u)' <=> IsHeavy(u)
    BY <1>1 DEF IsHeavy, TypeOK
  <2> QED BY <1>1, <1>3, <2>1 DEF HeavyHeld, TypeOK
<1>5. Cardinality(HeavyHeld') = Cardinality(HeavyHeld) + 1
  BY <1>4, LaneSets, FS_AddElement
<1>6. \A u \in Task : phase'[u] # "orphan"
  BY <1>1 DEF LanesInv, TypeOK
<1> QED BY <1>2, <1>3, <1>5, <1>6, LaneSets, ConstantTypes DEF LanesInv

\* A set of lanes that only loses tasks stays within its bound.
LEMMA FewerAreFewer ==
    ASSUME Working' \subseteq Working, HeavyHeld' \subseteq HeavyHeld, LanesInv
    PROVE  Cardinality(Working') <= MaxInflight /\ Cardinality(HeavyHeld') <= MaxHeavy
<1>1. /\ Cardinality(Working') \in Nat /\ Cardinality(Working') <= Cardinality(Working)
      /\ Cardinality(HeavyHeld') \in Nat /\ Cardinality(HeavyHeld') <= Cardinality(HeavyHeld)
  BY LaneSets, FS_Subset, FS_CardinalityType
<1> QED BY <1>1, LaneSets, ConstantTypes DEF LanesInv

\* Every other step only gives lanes back.
LEMMA LanesKept ==
    ASSUME TypeOK, LanesInv, Next
    PROVE  LanesInv'
<1>1. CASE OtherAct
  <2>1. UNCHANGED <<phase, key>> /\ (closed => closed')
    BY <1>1 DEF OtherAct, Join, Answer, Disconnect, Refill, Shutdown, Midnight, Reload, task
  <2>2. Working' = Working /\ HeavyHeld' = HeavyHeld
    BY <2>1 DEF Working, HeavyHeld, IsHeavy
  <2> QED BY <2>1, <2>2 DEF LanesInv
<1>2. ASSUME NEW t \in Task, TaskAct(t), ~EnterLane(t), ~AcquireHeavy(t)
      PROVE  LanesInv'
  <2>1. \A u \in Task : u # t => phase'[u] = phase[u] /\ key'[u] = key[u]
    BY <1>2, OthersLeft
  <2>2. \/ phase'[t] \in {"none", "created"}
        \/ phase[t] \in {"thread", "computing", "returned", "orphan"} /\ key'[t] = key[t]
    BY <1>2 DEF TaskAct, TaskStep, Lead, NotAdmitted, Refused, CheckoutFails, Mismatch,
                StartEngine, Succeeds, ComputeFails, Deliver, OrphanEnds, Cancel, Gone, TypeOK
  <2>3. phase'[t] # "heavy"
    BY <1>2 DEF TaskAct, TaskStep, Lead, NotAdmitted, Refused, CheckoutFails, Mismatch,
                StartEngine, Succeeds, ComputeFails, Deliver, OrphanEnds, Cancel, Gone, TypeOK
  <2>4. Working' \subseteq Working
    BY <2>1, <2>2 DEF Working
  <2>5. HeavyHeld' \subseteq HeavyHeld
    <3>1. ASSUME NEW u \in HeavyHeld'
          PROVE  u \in HeavyHeld
      <4>1. CASE u # t
        BY <2>1, <3>1, <4>1 DEF HeavyHeld, Working, IsHeavy
      <4>2. CASE u = t
        BY <2>2, <2>3, <3>1, <4>2 DEF HeavyHeld, Working, IsHeavy
      <4> QED BY <4>1, <4>2
    <3> QED BY <3>1
  <2>6. (\E u \in Task : phase'[u] = "orphan") => closed'
    <3>1. closed' = closed
      BY <1>2 DEF TaskAct, TaskStep, Lead, NotAdmitted, Refused, CheckoutFails, Mismatch,
                  StartEngine, Succeeds, ComputeFails, Deliver, OrphanEnds, Cancel
    <3>2. phase'[t] = "orphan" => phase[t] = "orphan" \/ closed
      BY <1>2 DEF TaskAct, TaskStep, Lead, NotAdmitted, Refused, CheckoutFails, Mismatch,
                  StartEngine, Succeeds, ComputeFails, Deliver, OrphanEnds, Cancel, Gone, TypeOK
    <3> QED BY <2>1, <3>1, <3>2 DEF LanesInv
  <2> QED BY <2>4, <2>5, <2>6, FewerAreFewer DEF LanesInv
<1> QED BY <1>1, <1>2, Steps, EnterLaneKeeps, AcquireHeavyKeeps

-----------------------------------------------------------------------------
(* The invariant. *)

\* The invariant holds at first,
LEMMA InitRunner == Init => RunnerInv
<1> SUFFICES ASSUME Init PROVE RunnerInv
  OBVIOUS
<1>1. TasksInv /\ ResultsInv /\ FlightsInv
  BY DEF Init, TasksInv, ResultsInv, FlightsInv, Reading
<1>2. Working = {} /\ HeavyHeld = {}
  BY DEF Init, Working, HeavyHeld, IsHeavy
<1>3. LanesInv
  BY <1>2, FS_EmptySet, ConstantTypes DEF LanesInv, Init
<1> QED BY <1>1, <1>3, InitTypes DEF RunnerInv

\* every step keeps it,
LEMMA NextRunner == RunnerInv /\ [Next]_vars => RunnerInv'
<1>1. CASE RunnerInv /\ Next
  <2>1. TypeOK'
    BY <1>1, Steps, TaskTypes, OtherTypes DEF RunnerInv
  <2> QED BY <1>1, <2>1, TasksKept, ResultsKept, FlightsKept, LanesKept DEF RunnerInv
<1>2. CASE RunnerInv /\ UNCHANGED vars
  <2>1. TypeOK'
    BY <1>2 DEF RunnerInv, vars, protection, task, history, TypeOK
  <2>2. TasksInv' /\ ResultsInv' /\ FlightsInv'
    BY <1>2 DEF RunnerInv, vars, task, TasksInv, ResultsInv, FlightsInv, Reading
  <2>3. LanesInv'
    BY <1>2 DEF RunnerInv, vars, task, LanesInv, Working, HeavyHeld, IsHeavy
  <2> QED BY <2>1, <2>2, <2>3 DEF RunnerInv
<1> QED BY <1>1, <1>2

\* so it always holds.
LEMMA RunnerInvariant == Spec => []RunnerInv
BY InitRunner, NextRunner, PTL DEF Spec

\* Spec => []TypeOK: the runner, the cache, the cap and the buckets keep their
\* types; no count goes below zero or a bucket over its capacity
\* (api/analysis_runner.py, api/protection.py).
THEOREM RunnerTypes == Spec => []TypeOK
<1>1. RunnerInv => TypeOK
  BY DEF RunnerInv
<1> QED BY <1>1, RunnerInvariant, PTL

\* Spec => []ResultsTrue: what is cached, and what every waiting request gets, is
\* of the one data version its labels name (analysis_runner.py, _compute).
THEOREM ResultsTrueHolds == Spec => []ResultsTrue
<1>1. RunnerInv => ResultsTrue
  BY DEF RunnerInv, ResultsInv, OfOneVersion, ResultsTrue
<1> QED BY <1>1, RunnerInvariant, PTL

\* Spec => []OneComputation: no two tasks compute one key but for the threads of
\* cancelled ones (analysis_runner.py, the flights of run and _lead).
THEOREM OneComputationHolds == Spec => []OneComputation
<1>1. RunnerInv => OneComputation
  BY DEF RunnerInv, FlightsInv, OneComputation
<1> QED BY <1>1, RunnerInvariant, PTL

\* Spec => []LanesBound: the lanes bound the threads at work, also while the
\* process shuts down (protection.py, AdmissionLanes).
THEOREM LanesBoundHolds == Spec => []LanesBound
<1>1. ASSUME RunnerInv
      PROVE  LanesBound
  <2> DEFINE threads == {t \in Task : phase[t] \in {"thread", "computing", "orphan"}}
             heavy == {t \in threads : IsHeavy(t)}
  <2>1. threads \subseteq Working /\ heavy \subseteq HeavyHeld
    BY DEF Working, HeavyHeld
  <2>2. /\ Cardinality(threads) \in Nat /\ Cardinality(threads) <= Cardinality(Working)
        /\ Cardinality(heavy) \in Nat /\ Cardinality(heavy) <= Cardinality(HeavyHeld)
    <3> HIDE DEF threads, heavy
    <3> QED BY <2>1, LaneSets, FS_Subset, FS_CardinalityType
  <2>3. Cardinality(Working) <= MaxInflight /\ Cardinality(HeavyHeld) <= MaxHeavy
    BY <1>1 DEF RunnerInv, LanesInv
  <2>4. Cardinality(threads) <= MaxInflight /\ Cardinality(heavy) <= MaxHeavy
    <3> HIDE DEF threads, heavy
    <3> QED BY <2>2, <2>3, LaneSets, ConstantTypes
  <2> QED BY <2>4 DEF LanesBound
<1> QED BY <1>1, RunnerInvariant, PTL
-----------------------------------------------------------------------------
(* The cap. *)

\* A set of tasks that differs in one task at most.
LEMMA OneDiffers ==
    ASSUME NEW S \in SUBSET Task, NEW T \in SUBSET Task, NEW t \in Task,
           \A u \in Task : u # t => (u \in T <=> u \in S)
    PROVE  /\ Cardinality(S) \in Nat /\ Cardinality(T) \in Nat
           /\ (t \in S <=> t \in T) => Cardinality(T) = Cardinality(S)
           /\ t \in T /\ t \notin S => Cardinality(T) = Cardinality(S) + 1
           /\ t \notin T /\ t \in S => Cardinality(T) = Cardinality(S) - 1
<1>1. IsFiniteSet(S) /\ IsFiniteSet(T) /\ Cardinality(S) \in Nat /\ Cardinality(T) \in Nat
  BY ConstantTypes, FS_Subset, FS_CardinalityType
<1>2. CASE t \in S <=> t \in T
  <2>1. S = T
    BY <1>2
  <2> QED BY <1>1, <1>2, <2>1
<1>3. CASE t \in T /\ t \notin S
  <2>1. T = S \cup {t}
    BY <1>3
  <2>2. Cardinality(T) = Cardinality(S) + 1
    BY <1>1, <1>3, <2>1, FS_AddElement
  <2> QED BY <1>1, <1>3, <2>2
<1>4. CASE t \notin T /\ t \in S
  <2>1. T = S \ {t}
    BY <1>4
  <2>2. Cardinality(T) = Cardinality(S) - 1
    BY <1>1, <1>4, <2>1, FS_RemoveElement
  <2> QED BY <1>1, <1>4, <2>2
<1> QED BY <1>2, <1>3, <1>4

LEMMA CapSets ==
    ASSUME NEW d \in Day
    PROVE  /\ Held(d) \in SUBSET Task /\ Owed(d) \in SUBSET Task /\ Older(d) \in SUBSET Task
           /\ Cardinality(Held(d)) \in Nat /\ Cardinality(Owed(d)) \in Nat
           /\ Cardinality(Older(d)) \in Nat
<1>1. Held(d) \in SUBSET Task /\ Owed(d) \in SUBSET Task /\ Older(d) \in SUBSET Task
  BY DEF Held, Owed, Older, Working
<1> QED BY <1>1, ConstantTypes, FS_Subset, FS_CardinalityType

LEMMA CapSetsNext ==
    ASSUME NEW d \in Day
    PROVE  /\ Held(d)' \in SUBSET Task /\ Owed(d)' \in SUBSET Task
           /\ Older(d)' \in SUBSET Task
           /\ Cardinality(Held(d))' \in Nat /\ Cardinality(Owed(d))' \in Nat
           /\ Cardinality(Older(d))' \in Nat
<1>1. /\ Held(d)' \in SUBSET Task /\ Owed(d)' \in SUBSET Task
      /\ Older(d)' \in SUBSET Task
  BY DEF Held, Owed, Older, Working
<1> QED BY <1>1, ConstantTypes, FS_Subset, FS_CardinalityType

\* The figures of a day.
LEMMA CapTypes ==
    ASSUME TypeOK, NEW d \in Day
    PROVE  /\ d \in Nat /\ day \in Nat /\ used \in 0 .. Limit /\ Limit \in Nat
           /\ ran[d] \in Nat /\ late[d] \in Int /\ MaxInflight \in Nat
BY ConstantTypes DEF TypeOK, Day

\* A step that leaves the figures alone and gives no task a unit.
LEMMA CapLeft ==
    ASSUME RunnerInv, CapInv, UNCHANGED <<used, late, ran, day>>, closed => closed',
           \A t \in Task : UnitOf(t)',
           \A d \in Day : /\ Owed(d)' \subseteq Owed(d) /\ Older(d)' \subseteq Older(d)
                          /\ ~closed' => Held(d)' = Held(d)
    PROVE  CapInv'
<1>1. ASSUME NEW d \in Day
      PROVE  DayCap(d)'
  <2>1. /\ Cardinality(Owed(d)') <= Cardinality(Owed(d))
        /\ Cardinality(Older(d)') <= Cardinality(Older(d))
        /\ Cardinality(Owed(d)') \in Nat /\ Cardinality(Older(d)') \in Nat
        /\ Cardinality(Owed(d)) \in Nat /\ Cardinality(Older(d)) \in Nat
    <3>1. IsFiniteSet(Owed(d)) /\ IsFiniteSet(Older(d))
      BY CapSets, ConstantTypes, FS_Subset
    <3> QED BY <3>1, CapSets, CapSetsNext, FS_Subset
  <2>2. DayCap(d)
    BY DEF CapInv
  <2>3. TypeOK
    BY DEF RunnerInv
  <2> QED BY <2>1, <2>2, <2>3, CapTypes DEF DayCap
<1> QED BY <1>1 DEF CapInv

\* What a step of one task does to the sets of tasks the cap is about.
LEMMA CapOthers ==
    ASSUME TypeOK, NEW t \in Task, TaskAct(t), NEW d \in Day
    PROVE  \A u \in Task : u # t => /\ u \in Held(d)' <=> u \in Held(d)
                                    /\ u \in Owed(d)' <=> u \in Owed(d)
                                    /\ u \in Older(d)' <=> u \in Older(d)
<1>1. ASSUME NEW u \in Task, u # t
      PROVE  phase'[u] = phase[u] /\ unit'[u] = unit[u] /\ computing'[u] = computing[u]
  BY <1>1, OthersLeft
<1> QED BY <1>1 DEF Held, Owed, Older, Working, InLane

LEMMA UnitsLeft ==
    ASSUME TypeOK, CapInv, NEW t \in Task, TaskAct(t), UnitOf(t)'
    PROVE  \A u \in Task : UnitOf(u)'
<1>1. day' = day
  BY DEF TaskAct, TaskStep, Lead, AcquireHeavy, EnterLane, NotAdmitted, Refused,
         CheckoutFails, Mismatch, StartEngine, Succeeds, ComputeFails, Deliver,
         OrphanEnds, Cancel
<1>2. ASSUME NEW u \in Task, u # t
      PROVE  UnitOf(u)'
  BY <1>1, <1>2, OthersLeft DEF CapInv, UnitOf
<1> QED BY <1>2

\* A unit is taken with the general lane.
LEMMA EnterLaneCap ==
    ASSUME RunnerInv, CapInv, TypeOK', NEW t \in Task, EnterLane(t)
    PROVE  CapInv'
<1>1. /\ TypeOK /\ TaskAct(t) /\ day \in Day /\ UnitOf(t)
  BY DEF RunnerInv, TypeOK, TaskAct, TaskStep, CapInv
<1>2. /\ phase[t] \in {"created", "heavy"} /\ phase'[t] = "thread"
      /\ unit'[t] = day /\ computing' = computing /\ used' = used + 1
      /\ UNCHANGED <<late, ran, day, closed>>
  BY <1>1 DEF EnterLane, NeedsGeneral, TypeOK, history
<1>3. ~computing[t]
  BY <1>2 DEF RunnerInv, TasksInv
<1>4. UnitOf(t)'
  BY <1>1, <1>2, ConstantTypes DEF UnitOf, Day
<1>5. ASSUME NEW d \in Day
      PROVE  DayCap(d)'
  <2>1. t \notin Held(d) /\ t \notin Owed(d) /\ t \notin Older(d)
    BY <1>2 DEF Held, Owed, Older, Working, InLane
  <2>2. /\ t \in Held(d)' <=> d = day
        /\ t \in Owed(d)' <=> d = day
        /\ t \in Older(d)' => d > day
    BY <1>1, <1>2, <1>3, ConstantTypes DEF Held, Owed, Older, Working, InLane, Day
  <2>3. /\ Cardinality(Held(d)') = Cardinality(Held(d)) + (IF d = day THEN 1 ELSE 0)
        /\ Cardinality(Owed(d)') = Cardinality(Owed(d)) + (IF d = day THEN 1 ELSE 0)
        /\ d <= day => Cardinality(Older(d)') = Cardinality(Older(d))
    <3>1. \A u \in Task : u # t => /\ u \in Held(d)' <=> u \in Held(d)
                                   /\ u \in Owed(d)' <=> u \in Owed(d)
                                   /\ u \in Older(d)' <=> u \in Older(d)
      BY <1>1, CapOthers
    <3>2. d <= day => ~(d > day)
      BY <1>1, CapTypes
    <3> QED BY <2>1, <2>2, <3>1, <3>2, CapSets, CapSetsNext, OneDiffers
  <2>4. DayCap(d)
    BY DEF CapInv
  <2> QED BY <1>1, <1>2, <2>3, <2>4, CapTypes, CapSets DEF DayCap
<1> QED BY <1>1, <1>4, <1>5, UnitsLeft DEF CapInv

\* An engine starts on its unit's day, whichever day it is.
LEMMA StartEngineCap ==
    ASSUME RunnerInv, CapInv, TypeOK', NEW t \in Task, StartEngine(t)
    PROVE  CapInv'
<1>1. /\ TypeOK /\ TaskAct(t) /\ UnitOf(t)
  BY DEF RunnerInv, TaskAct, TaskStep, CapInv
<1>2. /\ phase[t] \in {"thread", "orphan"} /\ phase'[t] \in {"computing", "orphan"}
      /\ phase[t] = "orphan" => closed
      /\ unit[t] \in Day /\ unit' = unit /\ ~computing[t] /\ computing'[t]
      /\ ran' = [ran EXCEPT ![unit[t]] = @ + 1]
      /\ UNCHANGED <<used, late, day, closed>>
  BY <1>1 DEF StartEngine, TypeOK, RunnerInv, TasksInv, LanesInv, protection
<1>3. UnitOf(t)'
  BY <1>1, <1>2 DEF UnitOf
<1>4. ASSUME NEW d \in Day
      PROVE  DayCap(d)'
  <2>1. /\ ~closed => (t \in Held(d) <=> d = unit[t])
        /\ t \in Owed(d) <=> d = unit[t]
        /\ t \notin Held(d)' /\ t \notin Owed(d)'
        /\ t \in Older(d)' <=> t \in Older(d)
    BY <1>2 DEF Held, Owed, Older, Working, InLane
  <2>2. /\ ~closed => Cardinality(Held(d)') = Cardinality(Held(d)) - (IF d = unit[t] THEN 1 ELSE 0)
        /\ Cardinality(Owed(d)') = Cardinality(Owed(d)) - (IF d = unit[t] THEN 1 ELSE 0)
        /\ Cardinality(Older(d)') = Cardinality(Older(d))
    <3>1. \A u \in Task : u # t => /\ u \in Held(d)' <=> u \in Held(d)
                                   /\ u \in Owed(d)' <=> u \in Owed(d)
                                   /\ u \in Older(d)' <=> u \in Older(d)
      BY <1>1, CapOthers
    <3> QED BY <2>1, <3>1, CapSets, CapSetsNext, OneDiffers
  <2>3. DayCap(d)
    BY DEF CapInv
  <2>4. ran'[d] = ran[d] + (IF d = unit[t] THEN 1 ELSE 0)
    BY <1>1, <1>2 DEF TypeOK
  <2>5. d > day => d # unit[t]
    <3>1. unit[t] <= day
      BY <1>1, <1>2, RunnerConstants DEF UnitOf, Day
    <3> QED BY <1>1, <1>2, <3>1, CapTypes
  <2> QED BY <1>1, <1>2, <2>2, <2>3, <2>4, <2>5, CapTypes, CapSets DEF DayCap
<1> QED BY <1>1, <1>3, <1>4, UnitsLeft DEF CapInv

\* What a failure gives back before its engine started: the unit it took, if it
\* is of today and today has one, or one of today's for one of a day before.
LEMMA DeliverCap ==
    ASSUME RunnerInv, CapInv, TypeOK', NEW t \in Task, Deliver(t)
    PROVE  CapInv'
<1>1. /\ TypeOK /\ TaskAct(t) /\ UnitOf(t)
  BY DEF RunnerInv, TaskAct, TaskStep, CapInv
<1>2. /\ phase[t] = "returned" /\ phase'[t] = "none" /\ unit[t] \in Day /\ unit'[t] = None
      /\ UNCHANGED <<ran, day, closed>>
  BY <1>1 DEF Deliver, Gone, TypeOK, RunnerInv, TasksInv
<1>3. UnitOf(t)'
  BY <1>2 DEF UnitOf
<1>4. unit[t] <= day /\ unit[t] # None /\ day \in Nat /\ day \in Day /\ unit[t] \in Nat
  BY <1>1, <1>2, RunnerConstants DEF UnitOf, Day, TypeOK
<1>5. ASSUME NEW d \in Day
      PROVE  /\ t \in Held(d) <=> (d = unit[t] /\ ~computing[t])
             /\ t \in Owed(d) <=> (d = unit[t] /\ ~computing[t])
             /\ t \in Older(d) <=> unit[t] < d
             /\ t \notin Held(d)' /\ t \notin Owed(d)' /\ t \notin Older(d)'
  BY <1>2 DEF Held, Owed, Older, Working, InLane
<1>6. ASSUME NEW d \in Day
      PROVE  /\ Cardinality(Held(d)') =
                  Cardinality(Held(d)) - (IF d = unit[t] /\ ~computing[t] THEN 1 ELSE 0)
             /\ Cardinality(Owed(d)') =
                  Cardinality(Owed(d)) - (IF d = unit[t] /\ ~computing[t] THEN 1 ELSE 0)
             /\ Cardinality(Older(d)') =
                  Cardinality(Older(d)) - (IF unit[t] < d THEN 1 ELSE 0)
  <2>1. \A u \in Task : u # t => /\ u \in Held(d)' <=> u \in Held(d)
                                 /\ u \in Owed(d)' <=> u \in Owed(d)
                                 /\ u \in Older(d)' <=> u \in Older(d)
    BY <1>1, CapOthers
  <2> QED BY <1>5, <2>1, CapSets, CapSetsNext, OneDiffers
<1>7. CASE computing[t]
  <2>1. used' = used /\ late' = late
    BY <1>7 DEF Deliver, GivenBack, protection
  <2>2. ASSUME NEW d \in Day
        PROVE  DayCap(d)'
    <3>1. DayCap(d)
      BY DEF CapInv
    <3> QED BY <1>1, <1>2, <1>6, <1>7, <2>1, <3>1, CapTypes, CapSets DEF DayCap
  <2> QED BY <1>1, <1>3, <2>2, UnitsLeft DEF CapInv
<1>8. CASE ~computing[t]
  <2>1. /\ used' = IF used > 0 THEN used - 1 ELSE used
        /\ late' = IF unit[t] < day /\ used > 0 THEN [late EXCEPT ![day] = @ + 1]
                   ELSE IF unit[t] = day /\ used = 0 THEN [late EXCEPT ![day] = @ - 1]
                   ELSE late
    <3>1. unit[t] \in 0 .. (day - 1) <=> unit[t] < day
      BY <1>4
    <3> QED BY <1>4, <1>8, <3>1 DEF Deliver, GivenBack, Refund
  <2>2. ASSUME NEW d \in Day
        PROVE  DayCap(d)'
    <3>1. DayCap(d)
      BY DEF CapInv
    <3>2. late'[d] = IF d # day THEN late[d]
                     ELSE IF unit[t] < day /\ used > 0 THEN late[d] + 1
                     ELSE IF unit[t] = day /\ used = 0 THEN late[d] - 1
                     ELSE late[d]
      BY <1>1, <1>4, <2>1 DEF TypeOK
    <3>3. /\ Cardinality(Held(d)') =
               Cardinality(Held(d)) - (IF d = unit[t] THEN 1 ELSE 0)
          /\ Cardinality(Owed(d)') =
               Cardinality(Owed(d)) - (IF d = unit[t] THEN 1 ELSE 0)
          /\ Cardinality(Older(d)') =
               Cardinality(Older(d)) - (IF unit[t] < d THEN 1 ELSE 0)
      BY <1>6, <1>8
    <3>4. CASE d = day
      <4>1. unit[t] < day \/ unit[t] = day
        BY <1>4
      <4> QED BY <1>1, <1>2, <1>4, <2>1, <3>1, <3>2, <3>3, <3>4, <4>1, CapTypes, CapSets
              DEF DayCap
    <3>5. CASE d # day
      BY <1>1, <1>2, <1>4, <3>1, <3>2, <3>3, <3>5, CapTypes, CapSets DEF DayCap
    <3> QED BY <3>4, <3>5
  <2> QED BY <1>1, <1>3, <2>2, UnitsLeft DEF CapInv
<1> QED BY <1>7, <1>8

\* Every other step of a task leaves the figures alone: what it gives back had
\* taken no unit, or the process shuts down and nothing is given back.
LEMMA OtherTaskCap ==
    ASSUME RunnerInv, CapInv, TypeOK', NEW t \in Task, TaskAct(t),
           ~EnterLane(t), ~StartEngine(t), ~Deliver(t)
    PROVE  CapInv'
<1>1. /\ TypeOK /\ UnitOf(t) /\ None \notin Nat
  BY RunnerConstants DEF RunnerInv, CapInv
<1>2. UNCHANGED <<used, late, ran, day, closed>>
  <2>1. CASE NotAdmitted(t)
    <3>1. unit[t] = None
      BY <1>1, <2>1 DEF NotAdmitted, UnitOf
    <3>2. unit[t] \notin 0 .. (day - 1) /\ unit[t] # day
      <4>1. day \in Nat
        BY <1>1, ConstantTypes DEF TypeOK, Day
      <4>2. unit[t] \notin Nat
        BY <1>1, <3>1
      <4> HIDE <1>1
      <4> QED BY <4>1, <4>2
    <3>3. used' = used /\ late' = late
      BY <2>1, <3>1, <3>2 DEF NotAdmitted, Refused, Refund
    <3> QED BY <2>1, <3>3 DEF NotAdmitted, Refused
  <2>2. CASE ~NotAdmitted(t)
    BY <2>2 DEF TaskAct, TaskStep, Lead, AcquireHeavy, CheckoutFails, Mismatch, Succeeds,
                ComputeFails, OrphanEnds, Cancel, protection, history
  <2> QED BY <2>1, <2>2
<1>3. \/ /\ phase[t] \in {"none", "created"} /\ phase'[t] \in {"created", "heavy"}
         /\ unit' = unit /\ computing' = computing
      \/ /\ phase'[t] = "none" /\ unit'[t] = None
         /\ phase[t] \in {"created", "heavy"} \/ closed
      \/ /\ phase[t] \in {"thread", "computing"} /\ phase'[t] = "returned"
         /\ unit' = unit /\ computing' = computing
      \/ /\ phase[t] \in {"thread", "computing"} /\ phase'[t] = "orphan" /\ closed
         /\ unit' = unit /\ computing' = computing
  <2>1. phase[t] = "orphan" => closed
    BY DEF RunnerInv, LanesInv
  <2> QED BY <1>1, <2>1
          DEF TaskAct, TaskStep, Lead, AcquireHeavy, NotAdmitted, Refused, CheckoutFails,
              Mismatch, Succeeds, ComputeFails, OrphanEnds, Cancel, Gone, TypeOK
<1>4. UnitOf(t)'
  BY <1>1, <1>2, <1>3 DEF UnitOf
<1>5. ASSUME NEW d \in Day
      PROVE  /\ Owed(d)' \subseteq Owed(d) /\ Older(d)' \subseteq Older(d)
             /\ ~closed' => Held(d)' = Held(d)
  <2>1. \A u \in Task : u # t => /\ u \in Held(d)' <=> u \in Held(d)
                                 /\ u \in Owed(d)' <=> u \in Owed(d)
                                 /\ u \in Older(d)' <=> u \in Older(d)
    BY <1>1, CapOthers
  <2>2. /\ t \in Owed(d)' => t \in Owed(d)
        /\ t \in Older(d)' => t \in Older(d)
        /\ ~closed' => (t \in Held(d)' <=> t \in Held(d))
    BY <1>2, <1>3 DEF Held, Owed, Older, Working, InLane
  <2> QED BY <2>1, <2>2, CapSets, CapSetsNext
<1> QED BY <1>1, <1>2, <1>4, <1>5, UnitsLeft, CapLeft

\* At midnight the count starts at zero, and the tasks at work are older.
LEMMA MidnightCap ==
    ASSUME RunnerInv, CapInv, TypeOK', Midnight
    PROVE  CapInv'
<1>1. /\ TypeOK /\ day \in Nat /\ day' = day + 1 /\ used' = 0
      /\ UNCHANGED <<phase, unit, computing, ran, late, closed>>
  BY DEF Midnight, RunnerInv, TypeOK, Day, task, history
<1>2. ASSUME NEW t \in Task
      PROVE  UnitOf(t)'
  <2>1. UnitOf(t) /\ (unit[t] # None => unit[t] \in Nat)
    BY <1>1, <1>2 DEF CapInv, TypeOK, Day
  <2> QED BY <1>1, <2>1 DEF UnitOf
<1>3. ASSUME NEW d \in Day
      PROVE  DayCap(d)'
  <2>1. /\ Held(d)' = Held(d) /\ Owed(d)' = Owed(d) /\ Older(d)' = Older(d)
    BY <1>1 DEF Held, Owed, Older, Working, InLane
  <2>2. DayCap(d)
    BY DEF CapInv
  <2>3. CASE d > day
    <3>1. ASSUME NEW t \in Task
          PROVE  unit[t] # d
      <4>1. UnitOf(t)
        BY DEF CapInv
      <4>2. d # None /\ d \in Nat
        BY RunnerConstants DEF Day
      <4> QED BY <1>1, <2>3, <4>1, <4>2 DEF UnitOf
    <3>2. Held(d) = {} /\ Owed(d) = {}
      BY <3>1 DEF Held, Owed, Working
    <3>3. Cardinality(Held(d)) = 0 /\ Cardinality(Owed(d)) = 0
      BY <3>2, FS_EmptySet
    <3>4. Cardinality(Older(d)) <= MaxInflight
      <4>1. Older(d) \subseteq Working
        BY DEF Older
      <4>2. Cardinality(Older(d)) <= Cardinality(Working)
        BY <4>1, LaneSets, FS_Subset
      <4>3. Cardinality(Working) <= MaxInflight
        BY DEF RunnerInv, LanesInv
      <4> QED BY <4>2, <4>3, CapSets, LaneSets, ConstantTypes
    <3> QED BY <1>1, <2>1, <2>2, <2>3, <3>3, <3>4, CapTypes, CapSets DEF DayCap
  <2>4. CASE ~(d > day)
    BY <1>1, <2>1, <2>2, <2>4, CapTypes, CapSets DEF DayCap
  <2> QED BY <2>3, <2>4
<1> QED BY <1>2, <1>3 DEF CapInv

LEMMA NextCap ==
    ASSUME RunnerInv, CapInv, [Next]_vars
    PROVE  CapInv'
<1>0. TypeOK /\ TypeOK'
  BY NextRunner DEF RunnerInv
<1>1. ASSUME UNCHANGED <<used, late, ran, day, phase, unit, computing>>, closed => closed'
      PROVE  CapInv'
  <2>1. \A t \in Task : UnitOf(t)'
    BY <1>1 DEF CapInv, UnitOf
  <2>2. ASSUME NEW d \in Day
        PROVE  Owed(d)' = Owed(d) /\ Older(d)' = Older(d) /\ Held(d)' = Held(d)
    BY <1>1 DEF Held, Owed, Older, Working, InLane
  <2> QED BY <1>1, <2>1, <2>2, CapLeft
<1>2. CASE UNCHANGED vars
  BY <1>1, <1>2 DEF vars, protection, task, history
<1>3. CASE Next
  <2>1. CASE OtherAct
    <3>1. CASE Midnight
      BY <1>0, <3>1, MidnightCap
    <3>2. CASE ~Midnight
      BY <1>1, <2>1, <3>2
         DEF OtherAct, Join, Answer, Disconnect, Refill, Shutdown, Reload, protection, task,
             history
    <3> QED BY <3>1, <3>2
  <2>2. ASSUME NEW t \in Task, TaskAct(t)
        PROVE  CapInv'
    BY <1>0, <2>2, EnterLaneCap, StartEngineCap, DeliverCap, OtherTaskCap
  <2> QED BY <1>0, <1>3, <2>1, <2>2, Steps
<1> QED BY <1>2, <1>3

LEMMA InitCap == Init => CapInv
<1> SUFFICES ASSUME Init PROVE CapInv
  OBVIOUS
<1>1. TypeOK
  BY InitTypes
<1>2. ASSUME NEW d \in Day
      PROVE  DayCap(d)
  <2>1. Held(d) = {} /\ Owed(d) = {} /\ Older(d) = {}
    BY DEF Init, Held, Owed, Older, Working, InLane
  <2>2. ran[d] = 0 /\ late[d] = 0 /\ used = 0
    BY DEF Init
  <2> QED BY <1>1, <2>1, <2>2, FS_EmptySet, CapTypes DEF DayCap
<1> QED BY <1>2 DEF Init, CapInv, UnitOf

LEMMA CapInvariant == Spec => [](RunnerInv /\ CapInv)
<1>1. Init => RunnerInv /\ CapInv
  BY InitRunner, InitCap
<1>2. RunnerInv /\ CapInv /\ [Next]_vars => RunnerInv' /\ CapInv'
  BY NextRunner, NextCap
<1> QED BY <1>1, <1>2, PTL DEF Spec

\* Spec => []CapConserved: until the process shuts down the day's count is the
\* analyses whose engine started and those on their way to it, less what was
\* given back of the day before: no order of refusals, failures, sheds and
\* midnights takes a unit twice or gives one back that ran (protection.py,
\* DailyCap; analysis_runner.py, _lead).
THEOREM CapConservedHolds == Spec => []CapConserved
<1>1. RunnerInv /\ CapInv => CapConserved
  BY DEF RunnerInv, TypeOK, CapInv, DayCap, CapConserved
<1> QED BY <1>1, CapInvariant, PTL

\* Spec => []DailyCapBound: what is given back after midnight lets at most as
\* many more analyses run on the new day as there are lanes, the threads of
\* cancelled computations included (protection.py, DailyCap).
THEOREM DailyCapBoundHolds == Spec => []DailyCapBound
<1>1. RunnerInv /\ CapInv => DailyCapBound
  <2> SUFFICES ASSUME RunnerInv, CapInv, NEW d \in Day
               PROVE  ran[d] <= Limit + MaxInflight
    BY DEF DailyCapBound
  <2>1. TypeOK /\ DayCap(d)
    BY DEF RunnerInv, CapInv
  <2> QED BY <2>1, CapTypes, CapSets DEF DayCap
<1> QED BY <1>1, CapInvariant, PTL

-----------------------------------------------------------------------------
(* The tokens. *)

LEMMA TokenSets ==
    ASSUME NEW c \in Client
    PROVE  /\ Pending(c) \in SUBSET Task /\ Engines(c) \in SUBSET Task
           /\ Pending(c)' \in SUBSET Task /\ Engines(c)' \in SUBSET Task
BY DEF Pending, Engines

\* A step of one task changes the sets of its client's tasks by that task.
LEMMA TokenOthers ==
    ASSUME TypeOK, NEW t \in Task, TaskAct(t), NEW c \in Client
    PROVE  /\ \A u \in Task : u # t => /\ u \in Pending(c)' <=> u \in Pending(c)
                                       /\ u \in Engines(c)' <=> u \in Engines(c)
           /\ Cardinality(Pending(c)) \in Nat /\ Cardinality(Pending(c)') \in Nat
           /\ Cardinality(Engines(c)) \in Nat /\ Cardinality(Engines(c)') \in Nat
<1>1. ASSUME NEW u \in Task, u # t
      PROVE  phase'[u] = phase[u] /\ client'[u] = client[u] /\ computing'[u] = computing[u]
  BY <1>1, OthersLeft
<1>2. \A u \in Task : u # t => /\ u \in Pending(c)' <=> u \in Pending(c)
                               /\ u \in Engines(c)' <=> u \in Engines(c)
  BY <1>1 DEF Pending, Engines
<1> QED BY <1>2, TokenSets, ConstantTypes, FS_Subset, FS_CardinalityType

\* What a step of task t does to the tasks of a client.
LEMMA TokenChange ==
    ASSUME TypeOK, NEW t \in Task, TaskAct(t), NEW c \in Client
    PROVE  /\ Cardinality(Pending(c)') = Cardinality(Pending(c))
                + (IF t \in Pending(c)' THEN 1 ELSE 0) - (IF t \in Pending(c) THEN 1 ELSE 0)
           /\ Cardinality(Engines(c)') = Cardinality(Engines(c))
                + (IF t \in Engines(c)' THEN 1 ELSE 0) - (IF t \in Engines(c) THEN 1 ELSE 0)
           /\ t \in Engines(c) => Cardinality(Engines(c)) >= 1
<1>1. /\ \A u \in Task : u # t => /\ u \in Pending(c)' <=> u \in Pending(c)
                                  /\ u \in Engines(c)' <=> u \in Engines(c)
      /\ Cardinality(Pending(c)) \in Nat /\ Cardinality(Pending(c)') \in Nat
      /\ Cardinality(Engines(c)) \in Nat /\ Cardinality(Engines(c)') \in Nat
  BY TokenOthers
<1>2. Cardinality(Pending(c)') = Cardinality(Pending(c))
        + (IF t \in Pending(c)' THEN 1 ELSE 0) - (IF t \in Pending(c) THEN 1 ELSE 0)
  BY <1>1, TokenSets, OneDiffers
<1>3. Cardinality(Engines(c)') = Cardinality(Engines(c))
        + (IF t \in Engines(c)' THEN 1 ELSE 0) - (IF t \in Engines(c) THEN 1 ELSE 0)
  BY <1>1, TokenSets, OneDiffers
<1>4. t \in Engines(c) => Cardinality(Engines(c)) >= 1
  <2>1. IsFiniteSet(Engines(c))
    BY TokenSets, ConstantTypes, FS_Subset
  <2>2. Cardinality(Engines(c)) = 0 => Engines(c) = {}
    BY <2>1, FS_EmptySet
  <2> QED BY <1>1, <2>2
<1> QED BY <1>2, <1>3, <1>4

\* What is known of a client's tokens, and what is to be shown of them.
ClientTokens(c) ==
    /\ tokens[c] + spent[c] + Cardinality(Pending(c)) >= Burst
    /\ Cardinality(Engines(c)) <= spent[c]

LEMMA TokensOfClients ==
    /\ TokensInv /\ ~closed => \A c \in Client : ClientTokens(c)
    /\ (~closed' => \A c \in Client : ClientTokens(c)') => TokensInv'
BY DEF TokensInv, TokensKept, ClientTokens

LEMMA TokenTypes ==
    ASSUME TypeOK, NEW c \in Client
    PROVE  tokens[c] \in 0 .. Burst /\ spent[c] \in Int /\ Burst \in Nat
BY ConstantTypes DEF TypeOK

LEMMA TaskTokens ==
    ASSUME RunnerInv, TypeOK', TokensInv, NEW t \in Task, TaskAct(t), ~closed,
           NEW c \in Client
    PROVE  ClientTokens(c)'
<1>1. /\ TypeOK /\ ClientTokens(c)
      /\ phase[t] # "orphan"
      /\ phase[t] \in {"none", "created", "heavy", "thread"} => ~computing[t]
      /\ phase[t] = "computing" => computing[t]
      /\ phase[t] # "none" => client[t] \in Client
  BY TokensOfClients DEF RunnerInv, TasksInv, LanesInv
<1>2. /\ tokens[c] \in 0 .. Burst /\ spent[c] \in Int /\ Burst \in Nat
      /\ tokens'[c] \in 0 .. Burst /\ spent'[c] \in Int
      /\ Cardinality(Pending(c)) \in Nat /\ Cardinality(Pending(c)') \in Nat
      /\ Cardinality(Engines(c)) \in Nat /\ Cardinality(Engines(c)') \in Nat
  <2>1. tokens'[c] \in 0 .. Burst /\ spent'[c] \in Int
    BY DEF TypeOK
  <2> QED BY <1>1, <2>1, TokenTypes, TokenOthers
<1>3. /\ Cardinality(Pending(c)') = Cardinality(Pending(c))
           + (IF t \in Pending(c)' THEN 1 ELSE 0) - (IF t \in Pending(c) THEN 1 ELSE 0)
      /\ Cardinality(Engines(c)') = Cardinality(Engines(c))
           + (IF t \in Engines(c)' THEN 1 ELSE 0) - (IF t \in Engines(c) THEN 1 ELSE 0)
      /\ t \in Engines(c) => Cardinality(Engines(c)) >= 1
  BY <1>1, TokenChange
<1>4. CASE \E e \in Client, k \in Key : Lead(e, k, t)
  <2>1. PICK e \in Client, k \in Key : Lead(e, k, t)
    BY <1>4
  <2>2. /\ t \notin Pending(c) /\ t \notin Engines(c) /\ t \notin Engines(c)'
        /\ t \in Pending(c)' <=> c = e
        /\ tokens'[c] = tokens[c] - (IF c = e THEN 1 ELSE 0) /\ spent'[c] = spent[c]
    BY <1>1, <2>1 DEF Lead, TypeOK, Pending, Engines, history
  <2> QED BY <1>1, <1>2, <1>3, <2>2 DEF ClientTokens
<1>5. CASE StartEngine(t)
  <2>1. /\ t \in Pending(c) <=> c = client[t]
        /\ t \notin Engines(c) /\ t \notin Pending(c)'
        /\ t \in Engines(c)' <=> c = client[t]
    BY <1>1, <1>5 DEF StartEngine, TypeOK, Pending, Engines
  <2>2. tokens'[c] = tokens[c] /\ spent'[c] = spent[c] + (IF c = client[t] THEN 1 ELSE 0)
    BY <1>1, <1>5 DEF StartEngine, TypeOK, protection
  <2> QED BY <1>1, <1>2, <1>3, <2>1, <2>2 DEF ClientTokens
<1>6. CASE NotAdmitted(t) \/ (Deliver(t) /\ ~computing[t])
  <2>1. /\ t \in Pending(c) <=> c = client[t]
        /\ t \notin Engines(c) /\ t \notin Pending(c)' /\ t \notin Engines(c)'
    BY <1>1, <1>6 DEF NotAdmitted, Refused, Deliver, Gone, TypeOK, Pending, Engines
  <2>2. /\ tokens'[c] = IF c = client[t] /\ tokens[c] < Burst THEN tokens[c] + 1 ELSE tokens[c]
        /\ spent' = spent
    BY <1>1, <1>6 DEF NotAdmitted, Refused, Deliver, GivenBack, Refund, TypeOK
  <2> QED BY <1>1, <1>2, <1>3, <2>1, <2>2 DEF ClientTokens
<1>7. CASE Deliver(t) /\ computing[t]
  <2>1. /\ t \in Engines(c) <=> c = client[t]
        /\ t \notin Pending(c) /\ t \notin Pending(c)' /\ t \notin Engines(c)'
    BY <1>1, <1>7 DEF Deliver, Gone, TypeOK, Pending, Engines
  <2>2. CASE result[t] = Overloaded
    <3>1. /\ tokens'[c] =
               IF c = client[t] /\ tokens[c] < Burst THEN tokens[c] + 1 ELSE tokens[c]
          /\ spent'[c] = spent[c] - (IF c = client[t] THEN 1 ELSE 0)
      BY <1>1, <1>7, <2>2 DEF Deliver, GivenBack, TypeOK
    <3> QED BY <1>1, <1>2, <1>3, <2>1, <3>1 DEF ClientTokens
  <2>3. CASE result[t] # Overloaded
    <3>1. tokens' = tokens /\ spent' = spent
      BY <1>7, <2>3 DEF Deliver, GivenBack, protection
    <3> QED BY <1>1, <1>2, <1>3, <2>1, <3>1 DEF ClientTokens
  <2> QED BY <2>2, <2>3
<1>8. CASE \/ AcquireHeavy(t) \/ EnterLane(t) \/ CheckoutFails(t) \/ Mismatch(t)
           \/ Succeeds(t) \/ \E how \in {Failed, Overloaded} : ComputeFails(t, how)
  <2>1. tokens' = tokens /\ spent' = spent
    BY <1>8 DEF AcquireHeavy, EnterLane, CheckoutFails, Mismatch, Succeeds, ComputeFails,
                protection, history
  <2>2. /\ phase[t] # "none" /\ phase'[t] # "none" /\ client' = client
        /\ computing' = computing
    BY <1>1, <1>8 DEF AcquireHeavy, EnterLane, NeedsGeneral, CheckoutFails, Mismatch,
                      Succeeds, ComputeFails, TypeOK
  <2>3. /\ t \in Pending(c)' <=> t \in Pending(c)
        /\ t \in Engines(c)' <=> t \in Engines(c)
    BY <2>2 DEF Pending, Engines
  <2> QED BY <1>1, <1>2, <1>3, <2>1, <2>3 DEF ClientTokens
<1>9. ~OrphanEnds(t) /\ ~Cancel(t)
  BY <1>1 DEF OrphanEnds, Cancel
<1> QED BY <1>4, <1>5, <1>6, <1>7, <1>8, <1>9 DEF TaskAct, TaskStep

LEMMA NextTokens ==
    ASSUME RunnerInv, TokensInv, [Next]_vars
    PROVE  TokensInv'
<1>0. TypeOK /\ TypeOK'
  BY NextRunner DEF RunnerInv
<1>1. ASSUME UNCHANGED <<spent, phase, client, computing>>, closed => closed',
             \A c \in Client : tokens'[c] >= tokens[c]
      PROVE  TokensInv'
  <2>1. ASSUME ~closed', NEW c \in Client
        PROVE  ClientTokens(c)'
    <3>1. ClientTokens(c)
      BY <1>1, <2>1, TokensOfClients
    <3>2. Pending(c)' = Pending(c) /\ Engines(c)' = Engines(c)
      BY <1>1 DEF Pending, Engines
    <3>3. /\ tokens[c] \in Int /\ tokens'[c] \in Int /\ spent[c] \in Int /\ Burst \in Int
          /\ Cardinality(Pending(c)) \in Int
      <4>1. Cardinality(Pending(c)) \in Nat
        BY TokenSets, ConstantTypes, FS_Subset, FS_CardinalityType
      <4> QED BY <1>0, <4>1, ConstantTypes DEF TypeOK
    <3> QED BY <1>1, <3>1, <3>2, <3>3 DEF ClientTokens
  <2> QED BY <2>1, TokensOfClients
<1>2. CASE UNCHANGED vars
  BY <1>0, <1>1, <1>2, TokenTypes DEF vars, protection, task, history
<1>3. CASE Next
  <2>1. CASE OtherAct
    <3>1. UNCHANGED <<spent, phase, client, computing>> /\ (closed => closed')
      BY <2>1 DEF OtherAct, Join, Answer, Disconnect, Refill, Shutdown, Midnight, Reload,
                  task, history
    <3>2. \A c \in Client : tokens'[c] >= tokens[c]
      <4>1. tokens' = tokens \/ \E c \in Client : tokens' = [tokens EXCEPT ![c] = @ + 1]
        BY <2>1 DEF OtherAct, Join, Answer, Disconnect, Refill, Shutdown, Midnight, Reload,
                    protection
      <4> QED BY <1>0, <4>1 DEF TypeOK
    <3> QED BY <1>1, <3>1, <3>2
  <2>2. ASSUME NEW t \in Task, TaskAct(t)
        PROVE  TokensInv'
    <3>1. closed' = closed
      BY <2>2 DEF TaskAct, TaskStep, Lead, AcquireHeavy, EnterLane, NotAdmitted, Refused,
                  CheckoutFails, Mismatch, StartEngine, Succeeds, ComputeFails, Deliver,
                  OrphanEnds, Cancel
    <3> QED BY <1>0, <2>2, <3>1, TaskTokens, TokensOfClients
  <2> QED BY <1>0, <1>3, <2>1, <2>2, Steps
<1> QED BY <1>2, <1>3

LEMMA InitTokens == Init => TokensInv
<1> SUFFICES ASSUME Init, NEW c \in Client
             PROVE  ClientTokens(c)
  BY DEF TokensInv, TokensKept, ClientTokens
<1>1. Pending(c) = {} /\ Engines(c) = {}
  BY DEF Init, Pending, Engines
<1>2. Cardinality({}) = 0 /\ Burst \in Nat
  BY FS_EmptySet, ConstantTypes
<1>3. tokens[c] = Burst /\ spent[c] = 0
  BY DEF Init
<1> QED BY <1>1, <1>2, <1>3 DEF ClientTokens

\* Spec => []TokensKept: until the process shuts down every token a client's
\* bucket lacks is one of an analysis on its way or of an engine that ran and
\* was not shed: a refused or failed request always gets its token back, once
\* (protection.py, the analysis bucket; analysis_runner.py, _lead).
THEOREM TokensKeptHolds == Spec => []TokensKept
<1>1. RunnerInv /\ TokensInv /\ [Next]_vars => TokensInv'
  BY NextTokens
<1>2. TokensInv => TokensKept
  BY DEF TokensInv
<1> QED BY <1>1, <1>2, InitTokens, RunnerInvariant, PTL DEF Spec
-----------------------------------------------------------------------------
(* The flights requests can look up. *)

\* A step of one task keeps what is known of that task.
LEMMA TaskBoarding ==
    ASSUME RunnerInv, BoardingInv, NEW t \in Task, TaskAct(t)
    PROVE  /\ InTheAir(t)' => future'[t] = None
           /\ phase'[t] = "none" => key'[t] = None
           /\ current'[t] = None <=> ~computing'[t]
           /\ phase'[t] = "returned" /\ result'[t] \notin {Failed, Overloaded} =>
                computing'[t] /\ result'[t] = Promise!Whole(current'[t])
<1> USE DEF BoardingInv, InTheAir
<1>1. TypeOK /\ TasksInv
  BY DEF RunnerInv
<1>2. CASE \E c \in Client, k \in Key : Lead(c, k, t)
  BY <1>1, <1>2 DEF Lead, TypeOK, TasksInv
<1>3. CASE AcquireHeavy(t)
  BY <1>1, <1>3 DEF AcquireHeavy, TypeOK
<1>4. CASE EnterLane(t)
  BY <1>1, <1>4 DEF EnterLane, NeedsGeneral, TypeOK
<1>5. CASE Gone(t)
  BY <1>1, <1>5 DEF Gone, TypeOK
<1>6. CASE CheckoutFails(t) \/ Mismatch(t)
  BY <1>1, <1>6 DEF CheckoutFails, Mismatch, TypeOK
<1>7. CASE StartEngine(t)
  BY <1>1, <1>7, ConstantTypes DEF StartEngine, TypeOK, Version
<1>8. CASE Succeeds(t)
  BY <1>1, <1>8 DEF Succeeds, OutcomeOf, Promise!Whole, TypeOK, TasksInv, Reading
<1>9. CASE \E how \in {Failed, Overloaded} : ComputeFails(t, how)
  BY <1>1, <1>9 DEF ComputeFails, TypeOK, TasksInv
<1>10. CASE Cancel(t) /\ ~Gone(t)
  BY <1>1, <1>10 DEF Cancel, TypeOK
<1> QED BY <1>2, <1>3, <1>4, <1>5, <1>6, <1>7, <1>8, <1>9, <1>10
       DEF TaskAct, TaskStep, NotAdmitted, Refused, Deliver, OrphanEnds

\* Only a task that leads enters the map, and one that ends leaves it.
LEMMA FlightsMove ==
    ASSUME RunnerInv, BoardingInv, NEW t \in Task, TaskAct(t),
           NEW k \in Key, flights'[k] # None
    PROVE  InTheAir(flights[k])' /\ key'[flights'[k]] = k
<1>1. TypeOK /\ TasksInv
  BY DEF RunnerInv
<1>2. flights[k] # None =>
        flights[k] \in Task /\ InTheAir(flights[k]) /\ key[flights[k]] = k
  BY <1>1 DEF BoardingInv, TypeOK
<1>3. flights[k] # None /\ flights[k] # t =>
        phase'[flights[k]] \notin {"none", "orphan"} /\ key'[flights[k]] = k
  <2>1. ASSUME NEW u \in Task, u # t, InTheAir(u)
        PROVE  phase'[u] = phase[u] /\ key'[u] = key[u]
    BY <1>1, <2>1, OthersLeft
  <2>2. ASSUME flights[k] # None, flights[k] # t
        PROVE  phase'[flights[k]] = phase[flights[k]] /\ key'[flights[k]] = key[flights[k]]
    BY <1>2, <2>1, <2>2
  <2> QED BY <1>2, <2>2 DEF InTheAir
<1>4. CASE \E c \in Client, j \in Key : Lead(c, j, t)
  <2>1. PICK c \in Client, j \in Key : Lead(c, j, t)
    BY <1>4
  <2>2. /\ flights' = [flights EXCEPT ![j] = t] /\ key'[t] = j
        /\ phase[t] = "none" /\ phase'[t] = "created"
    BY <1>1, <2>1 DEF Lead, TypeOK
  <2>3. CASE k = j
    BY <1>1, <2>2, <2>3 DEF InTheAir, TypeOK
  <2>4. CASE k # j
    <3>1. flights'[k] = flights[k]
      BY <1>1, <2>2, <2>4 DEF TypeOK
    <3>2. flights[k] # t
      BY <1>2, <2>2, <3>1 DEF InTheAir
    <3> QED BY <1>3, <3>1, <3>2 DEF InTheAir
  <2> QED BY <2>3, <2>4
<1>5. CASE flights' = Unregistered(t) /\ key[t] \in Key
  <2>1. flights'[k] = flights[k] /\ ~(k = key[t] /\ flights[k] = t)
    BY <1>5 DEF Unregistered
  <2> QED BY <1>2, <1>3, <2>1 DEF InTheAir
<1>6. CASE /\ flights' = flights
           /\ InTheAir(t) => InTheAir(t)' /\ key'[t] = key[t]
  BY <1>2, <1>3, <1>6 DEF InTheAir
<1>7. CASE NotAdmitted(t) \/ Deliver(t) \/ Cancel(t)
  BY <1>1, <1>5, <1>7 DEF NotAdmitted, Refused, Deliver, Cancel, TasksInv
<1>8. CASE OrphanEnds(t)
  BY <1>6, <1>8 DEF OrphanEnds, InTheAir
<1>9. CASE \/ AcquireHeavy(t) \/ EnterLane(t) \/ CheckoutFails(t) \/ Mismatch(t)
           \/ StartEngine(t) \/ Succeeds(t)
           \/ \E how \in {Failed, Overloaded} : ComputeFails(t, how)
  BY <1>1, <1>6, <1>9 DEF AcquireHeavy, EnterLane, NeedsGeneral, CheckoutFails, Mismatch,
     StartEngine, Succeeds, ComputeFails, InTheAir, TypeOK
<1> QED BY <1>4, <1>7, <1>8, <1>9 DEF TaskAct, TaskStep

\* Every step keeps what is known of the flights.
LEMMA BoardingKept ==
    ASSUME RunnerInv, BoardingInv, [Next]_vars
    PROVE  BoardingInv'
<1>1. CASE OtherAct \/ UNCHANGED vars
  <2>1. UNCHANGED <<flights, phase, key, computing, current, result, future>>
    BY <1>1 DEF OtherAct, Join, Answer, Disconnect, Refill, Shutdown, Midnight, Reload, task,
                vars
  <2> QED BY <2>1 DEF BoardingInv, InTheAir
<1>2. ASSUME NEW t \in Task, TaskAct(t)
      PROVE  BoardingInv'
  <2>1. \A k \in Key : flights'[k] # None =>
          InTheAir(flights[k])' /\ key'[flights'[k]] = k
    BY <1>2, FlightsMove
  <2> DEFINE Known(u) ==
        /\ InTheAir(u) => future[u] = None
        /\ phase[u] = "none" => key[u] = None
        /\ current[u] = None <=> ~computing[u]
        /\ phase[u] = "returned" /\ result[u] \notin {Failed, Overloaded} =>
             computing[u] /\ result[u] = Promise!Whole(current[u])
  <2>2. Known(t)'
    BY <1>2, TaskBoarding
  <2>3. ASSUME NEW u \in Task, u # t
        PROVE  Known(u)'
    <3>1. TypeOK /\ Known(u)
      BY DEF RunnerInv, BoardingInv
    <3>2. /\ phase'[u] = phase[u] /\ key'[u] = key[u] /\ computing'[u] = computing[u]
          /\ current'[u] = current[u] /\ result'[u] = result[u] /\ future'[u] = future[u]
      BY <1>2, <2>3, <3>1, OthersLeft
    <3> QED BY <3>1, <3>2 DEF InTheAir
  <2> QED BY <2>1, <2>2, <2>3 DEF BoardingInv
<1> QED BY <1>1, <1>2, Steps DEF RunnerInv

\* So the invariants hold together.
LEMMA BoardingInvariant == Spec => [](RunnerInv /\ BoardingInv)
<1>1. Init => BoardingInv
  BY DEF Init, BoardingInv, InTheAir
<1> QED BY <1>1, InitRunner, NextRunner, BoardingKept, PTL DEF Spec

-----------------------------------------------------------------------------
(* The refinement. *)

\* How the phases of a task show in the promise.
LEMMA WorkIs ==
    \A t \in Task :
        /\ Work[t] = "none" <=> phase[t] = "none"
        /\ Work[t] = "adrift" <=> phase[t] = "orphan"
        /\ Work[t] = "flying" <=> InTheAir(t)
BY DEF Work, InTheAir

\* A step of one task moves the promise's task at most.
LEMMA WorkMoves ==
    ASSUME TypeOK, NEW t \in Task, TaskAct(t)
    PROVE  /\ phase'[t] = "none" => Work' = [Work EXCEPT ![t] = "none"]
           /\ phase'[t] = "orphan" => Work' = [Work EXCEPT ![t] = "adrift"]
           /\ InTheAir(t)' => Work' = [Work EXCEPT ![t] = "flying"]
           /\ InTheAir(t) /\ InTheAir(t)' => Work' = Work
           /\ phase'[t] = phase[t] => Work' = Work
<1>1. \A u \in Task : u # t => phase'[u] = phase[u]
  BY OthersLeft
<1> QED BY <1>1 DEF Work, InTheAir

\* A task in the map is in the air for the promise, and no other of its key is.
LEMMA AboardIs ==
    ASSUME RunnerInv, BoardingInv, NEW k \in Key
    PROVE  /\ flights[k] # None => flights[k] \in Task /\ Promise!InTheAir(flights[k], k)
           /\ flights[k] = None => \A t \in Task : ~Promise!InTheAir(t, k)
<1>1. TypeOK /\ TasksInv /\ FlightsInv
  BY DEF RunnerInv
<1>2. ASSUME flights[k] # None
      PROVE  flights[k] \in Task /\ Promise!InTheAir(flights[k], k)
  <2>1. flights[k] \in Task /\ InTheAir(flights[k]) /\ key[flights[k]] = k
    BY <1>1, <1>2 DEF BoardingInv, TypeOK
  <2>2. future[flights[k]] = None /\ Work[flights[k]] = "flying"
    BY <2>1, WorkIs DEF BoardingInv
  <2> QED BY <2>1, <2>2 DEF Promise!InTheAir
<1>3. ASSUME flights[k] = None, NEW t \in Task, Promise!InTheAir(t, k)
      PROVE  FALSE
  <2>1. InTheAir(t) /\ key[t] = k
    BY <1>3, WorkIs DEF Promise!InTheAir
  <2>2. flights[k] = t
    BY <1>1, <2>1 DEF FlightsInv, InTheAir
  <2> QED BY <1>3, <2>2, ConstantTypes
<1> QED BY <1>2, <1>3

\* What the promise's variables are, for the steps that leave them.
shown == <<served, Work, key, current, future, waits, cache>>

\* A request that finds no flight of its key starts one,
LEMMA LeadStarts ==
    ASSUME RunnerInv, BoardingInv, NEW c \in Client, NEW k \in Key, NEW t \in Task,
           Lead(c, k, t)
    PROVE  Promise!Start(c, k, t)
<1>1. TypeOK /\ TaskAct(t)
  BY DEF RunnerInv, TaskAct
<1>2. \A u \in Task : ~Promise!InTheAir(u, k)
  BY AboardIs DEF Lead, Alone
<1>3. Work[t] = "none" /\ Work' = [Work EXCEPT ![t] = "flying"]
  BY <1>1, WorkIs, WorkMoves DEF Lead, InTheAir, TypeOK
<1> QED BY <1>2, <1>3 DEF Lead, Promise!Start

\* and one that finds it boards it in the air.
LEMMA JoinBoards ==
    ASSUME RunnerInv, BoardingInv, NEW c \in Client, NEW k \in Key, Join(c, k)
    PROVE  Promise!Board(c, k)
<1>1. flights[k] \in Task /\ Promise!InTheAir(flights[k], k)
  BY AboardIs DEF Join
<1>2. Work' = Work
  BY DEF Join, task, Work
<1> QED BY <1>1, <1>2 DEF Join, task, Promise!Board

\* The engine's transaction is the one look.
LEMMA StartEngineLooks ==
    ASSUME RunnerInv, BoardingInv, NEW t \in Task, StartEngine(t)
    PROVE  Promise!Look(t)
<1>1. TypeOK /\ TaskAct(t)
  BY DEF RunnerInv, TaskAct, TaskStep
<1>2. current[t] = None /\ phase[t] # "none"
  BY DEF StartEngine, BoardingInv
<1>3. Work' = Work
  BY <1>1, WorkMoves DEF StartEngine, InTheAir, TypeOK
<1> QED BY <1>2, <1>3, WorkIs DEF StartEngine, Promise!Look

\* A put keeps an answer as the promise says.
LEMMA CachedKeeps ==
    ASSUME RunnerInv, NEW t \in Task, computing[t], phase[t] \in {"computing", "orphan"},
           Cached(t)
    PROVE  UNCHANGED cache \/ Promise!Keeps(t)
<1>1. TypeOK /\ TasksInv /\ ResultsInv
  BY DEF RunnerInv
<1>2. key[t] \in Key /\ current[t] = served
  BY <1>1 DEF TasksInv, Reading
<1> DEFINE payload == [data |-> OutcomeOf(t).data, resolver |-> OutcomeOf(t).resolver]
<1>3. CASE current[t] = key[t].version /\ cache' \in Stored(key[t], payload)
  <2>1. payload = Promise!Kept(current[t])
    BY <1>2 DEF OutcomeOf, Promise!Kept
  <2>2. payload \in Payload
    BY <1>1, <1>2, <2>1 DEF Payload, Promise!Kept, TypeOK
  <2> HIDE DEF payload
  <2>3. /\ cache' \in [Key -> Payload \cup {None}]
        /\ cache'[key[t]] = payload
        /\ \A k \in Key \ {key[t]} : cache'[k] \in {cache[k], None}
    BY <1>1, <1>2, <1>3, <2>2, StoredFacts
  <2>4. \A k \in Key : cache'[k] # None => cache'[k] = Promise!Kept(k.version)
    BY <1>1, <1>2, <1>3, CachedIsTrue DEF Promise!Kept
  <2>5. cache' \in [Key -> {None} \cup {Promise!Kept(k.version) : k \in Key}]
    BY <2>3, <2>4
  <2> QED BY <1>2, <1>3, <2>1, <2>3, <2>5 DEF Promise!Keeps
<1> QED BY <1>3 DEF Cached

LEMMA SucceedsKeeps ==
    ASSUME RunnerInv, NEW t \in Task, Succeeds(t)
    PROVE  Promise!Keep(t) \/ UNCHANGED shown
<1>1. TypeOK /\ TasksInv /\ TaskAct(t) /\ computing[t]
  BY DEF RunnerInv, TaskAct, TaskStep, Succeeds, TasksInv
<1>2. InTheAir(t) /\ InTheAir(t)'
  BY <1>1 DEF Succeeds, InTheAir, TypeOK
<1>3. Work[t] = "flying" /\ Work' = Work
  BY <1>1, <1>2, WorkIs, WorkMoves
<1>4. UNCHANGED cache \/ Promise!Keeps(t)
  BY <1>1, CachedKeeps DEF Succeeds
<1> QED BY <1>3, <1>4 DEF Succeeds, shown, Promise!Keep

\* A task that ends has answered: with what its transaction saw, or a failure.
LEMMA EndLands ==
    ASSUME RunnerInv, BoardingInv, NEW t \in Task, NotAdmitted(t) \/ Deliver(t)
    PROVE  Promise!Land(t)
<1>1. TypeOK /\ TaskAct(t)
  BY DEF RunnerInv, TaskAct, TaskStep
<1>2. InTheAir(t) /\ Gone(t) /\ UNCHANGED <<served, waits, cache>>
  BY DEF NotAdmitted, Refused, Deliver, InTheAir
<1>3. Promise!Over(t)
  BY <1>1, <1>2, WorkMoves DEF Gone, Promise!Over, TypeOK
<1>4. CASE future' = [future EXCEPT ![t] = Failed]
  BY <1>2, <1>3, <1>4, WorkIs DEF Promise!Land
<1>5. CASE Deliver(t) /\ result[t] \notin {Failed, Overloaded}
  <2>1. future' = [future EXCEPT ![t] = result[t]]
    BY <1>5 DEF Deliver
  <2>2. result[t] = Promise!Whole(current[t]) /\ current[t] # None
    BY <1>5 DEF Deliver, BoardingInv
  <2> QED BY <1>2, <1>3, <2>1, <2>2, WorkIs DEF Promise!Land
<1> QED BY <1>4, <1>5 DEF NotAdmitted, Refused, Deliver

\* A cancelled task has told those who wait, whether its thread is back or not.
LEMMA CancelEnds ==
    ASSUME RunnerInv, NEW t \in Task, Cancel(t)
    PROVE  Promise!Land(t) \/ Promise!Abandon(t)
<1>1. TypeOK /\ TaskAct(t)
  BY DEF RunnerInv, TaskAct
<1>2. /\ Work[t] = "flying" /\ future' = [future EXCEPT ![t] = Failed]
      /\ UNCHANGED <<served, waits, cache>>
  BY WorkIs DEF Cancel, InTheAir
<1>3. CASE Gone(t)
  <2>1. Promise!Over(t)
    BY <1>1, <1>3, WorkMoves DEF Gone, Promise!Over, TypeOK
  <2> QED BY <1>2, <2>1 DEF Promise!Land
<1>4. CASE /\ phase' = [phase EXCEPT ![t] = "orphan"]
           /\ UNCHANGED <<key, client, unit, computing, current, result>>
  <2>1. Work' = [Work EXCEPT ![t] = "adrift"]
    BY <1>1, <1>4, WorkMoves DEF TypeOK
  <2> QED BY <1>2, <1>4, <2>1 DEF Promise!Abandon
<1> QED BY <1>3, <1>4 DEF Cancel

LEMMA OrphanSinks ==
    ASSUME RunnerInv, NEW t \in Task, OrphanEnds(t)
    PROVE  Promise!Sink(t)
<1>1. TypeOK /\ TaskAct(t)
  BY DEF RunnerInv, TaskAct, TaskStep
<1>2. /\ Work[t] = "adrift" /\ Gone(t) /\ UNCHANGED <<served, future, waits>>
  BY WorkIs DEF OrphanEnds
<1>3. Promise!Over(t)
  BY <1>1, <1>2, WorkMoves DEF Gone, Promise!Over, TypeOK
<1>4. UNCHANGED cache \/ Promise!Keeps(t)
  BY CachedKeeps DEF OrphanEnds
<1> QED BY <1>2, <1>3, <1>4 DEF Promise!Sink

\* Lanes, the cap and what comes back from the thread are not in the promise.
LEMMA TaskGoesOn ==
    ASSUME RunnerInv, NEW t \in Task,
           \/ AcquireHeavy(t) \/ EnterLane(t) \/ CheckoutFails(t) \/ Mismatch(t)
           \/ \E how \in {Failed, Overloaded} : ComputeFails(t, how)
    PROVE  UNCHANGED shown
<1>1. TypeOK /\ TaskAct(t)
  BY DEF RunnerInv, TaskAct, TaskStep
<1>2. InTheAir(t) /\ InTheAir(t)'
  BY <1>1 DEF AcquireHeavy, EnterLane, NeedsGeneral, CheckoutFails, Mismatch, ComputeFails,
              InTheAir, TypeOK
<1>3. Work' = Work
  BY <1>1, <1>2, WorkMoves
<1> QED BY <1>3 DEF AcquireHeavy, EnterLane, CheckoutFails, Mismatch, ComputeFails, shown

\* Every step is one of the promise or shows nothing of it.
LEMMA EveryStep ==
    ASSUME RunnerInv, BoardingInv, [Next]_vars
    PROVE  Promise!Next \/ UNCHANGED shown
<1>1. CASE UNCHANGED vars
  BY <1>1 DEF vars, task, shown, Work
<1>2. CASE OtherAct
  <2>1. CASE \E c \in Client, k \in Key : Join(c, k)
    BY <2>1, JoinBoards DEF Promise!Next
  <2>2. CASE \E c \in Client : Answer(c) \/ Disconnect(c)
    BY <2>2 DEF Answer, Disconnect, task, Work, Promise!Leave, Promise!Next
  <2>3. CASE Reload
    <3>1. served \in Nat /\ Work' = Work
      BY <2>3 DEF Reload, task, Work, RunnerInv, TypeOK, Version
    <3> QED BY <2>3, <3>1 DEF Reload, task, Promise!Publish, Promise!Next
  <2>4. CASE (\E c \in Client : Refill(c)) \/ Shutdown \/ Midnight
    BY <2>4 DEF Refill, Shutdown, Midnight, task, shown, Work
  <2> QED BY <1>2, <2>1, <2>2, <2>3, <2>4 DEF OtherAct
<1>3. ASSUME NEW t \in Task, TaskAct(t)
      PROVE  Promise!Next \/ UNCHANGED shown
  <2>1. CASE \E c \in Client, k \in Key : Lead(c, k, t)
    BY <2>1, LeadStarts DEF Promise!Next
  <2>2. CASE \/ AcquireHeavy(t) \/ EnterLane(t) \/ CheckoutFails(t) \/ Mismatch(t)
             \/ \E how \in {Failed, Overloaded} : ComputeFails(t, how)
    BY <2>2, TaskGoesOn
  <2>3. CASE StartEngine(t)
    BY <2>3, StartEngineLooks DEF Promise!Next
  <2>4. CASE Succeeds(t)
    BY <2>4, SucceedsKeeps DEF Promise!Next
  <2>5. CASE NotAdmitted(t) \/ Deliver(t)
    BY <2>5, EndLands DEF Promise!Next
  <2>6. CASE Cancel(t)
    BY <2>6, CancelEnds DEF Promise!Next
  <2>7. CASE OrphanEnds(t)
    BY <2>7, OrphanSinks DEF Promise!Next
  <2> QED BY <1>3, <2>1, <2>2, <2>3, <2>4, <2>5, <2>6, <2>7 DEF TaskAct, TaskStep
<1> QED BY <1>1, <1>2, <1>3, Steps DEF RunnerInv

\* Spec => FlightsShared: a request only ever waits for a flight of its own key
\* that is not over, and every flight answers all of what it saw in one look or
\* a failure, before it is gone, whatever shutdown, lanes and reloads do
\* (analysis_runner.py, run, _lead and _compute).
THEOREM FlightsSharedHolds == Spec => FlightsShared
<1>1. Init => Promise!Init
  BY DEF Init, Promise!Init, Work
<1>2. RunnerInv /\ BoardingInv /\ [Next]_vars =>
        [Promise!Next]_<<served, Work, key, current, future, waits, cache>>
  BY EveryStep DEF shown
<1> QED BY <1>1, <1>2, BoardingInvariant, PTL DEF Spec, FlightsShared, Promise!Spec
=============================================================================

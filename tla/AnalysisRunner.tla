--------------------------- MODULE AnalysisRunner ---------------------------
(***************************************************************************)
(* How one API process computes uncached analyses: the single-flight       *)
(* runner (api/analysis_runner.py), the result cache (api/cache.py) and    *)
(* the daily cap, token buckets and admission lanes (api/protection.py).   *)
(*                                                                         *)
(* Requests and the tasks they start run on one event loop, so what a      *)
(* request does between two awaits is one action; the engine runs in a     *)
(* worker thread.  The data snapshot a request begins with can be of any   *)
(* version served so far (SnapshotStore says when it is read again), and a *)
(* reload waits for the transactions that have read the data version       *)
(* (ReloadSwitch).  Requests that change nothing (a dry run's 422, a rate  *)
(* limit, a spent cap) are not actions.                                    *)
(***************************************************************************)
EXTENDS Integers, FiniteSets

CONSTANTS
    Client,       \* clients; each has at most one request in the process
    Task,         \* detached computations that can exist at once
    Op,           \* analyses that can be asked for
    Heavy,        \* those is_heavy says need a heavy lane
    MaxVersion,   \* bound: data versions after the first
    MaxDay,       \* bound: UTC days after the first
    Limit,        \* DailyCap.limit
    Burst,        \* capacity of a client's analysis bucket
    MaxInflight,  \* general lanes
    MaxHeavy,     \* heavy lanes
    CacheSize,    \* entries of the LRU cache
    None,
    Failed,       \* an exception
    Overloaded    \* an OverloadedError

Version == 0 .. MaxVersion
Day == 0 .. MaxDay
Key == [op : Op, version : Version]

ASSUME RunnerConstants ==
    /\ IsFiniteSet(Client) /\ IsFiniteSet(Task) /\ IsFiniteSet(Op) /\ Heavy \subseteq Op
    /\ MaxVersion \in Nat /\ MaxDay \in Nat /\ Limit \in Nat /\ Burst \in Nat
    /\ MaxInflight \in Nat \ {0} /\ MaxHeavy \in Nat \ {0} /\ CacheSize \in Nat \ {0}
    /\ None \notin Task /\ None \notin Client /\ None \notin Nat

VARIABLES
    expected,  \* ATUS_EXPECTED_DATA_VERSION, or None: fixed when the process starts
    served,    \* the data version in the database
    day,       \* the UTC date
    used,      \* DailyCap.used, rolled over
    tokens,    \* the analysis bucket of each client
    cache,     \* key -> the versions its payload was computed with
    flights,   \* AnalysisRunner._flights
    waits,     \* the task whose future each client's request awaits
    phase,     \* where each task is in _lead
    key,       \* its cache key
    client,    \* whose token it took
    unit,      \* the day of the cap unit it took
    computing, \* _Progress.computing
    current,   \* the data version its transaction read first
    result,    \* what its worker thread returned or raised
    future,    \* its flight's future
    closed,    \* lanes.close() was called: the process shuts down
    ran,       \* history: the units of each day whose engine started
    late,      \* history: units of an earlier day that each day's count lacks
    spent      \* history: tokens of each client whose engine started

task == <<phase, key, client, unit, computing, current, result>>
protection == <<used, tokens>>
history == <<ran, late, spent>>
vars == <<expected, served, day, protection, cache, flights, waits, task, future,
          closed, history>>

\* What a payload was computed with, and the version its labels name.
Outcome == [data : Version, resolver : Version, label : Version]
Payload == [data : Version, resolver : Version]

\* "thread": in run_sync, before the engine.  "returned": the thread is done
\* and the loop has not resumed the task.  "orphan": the task was cancelled
\* and its thread still runs.
Phases == {"none", "created", "heavy", "thread", "computing", "returned", "orphan"}

TypeOK ==
    /\ expected \in Version \cup {None}
    /\ served \in Version /\ day \in Day
    /\ used \in 0 .. Limit
    /\ tokens \in [Client -> 0 .. Burst]
    /\ cache \in [Key -> Payload \cup {None}]
    /\ flights \in [Key -> Task \cup {None}]
    /\ waits \in [Client -> Task \cup {None}]
    /\ phase \in [Task -> Phases]
    /\ key \in [Task -> Key \cup {None}] /\ client \in [Task -> Client \cup {None}]
    /\ unit \in [Task -> Day \cup {None}]
    /\ computing \in [Task -> BOOLEAN]
    /\ current \in [Task -> Version \cup {None}]
    /\ result \in [Task -> {None, Failed, Overloaded} \cup Outcome]
    /\ future \in [Task -> {None, Failed} \cup Outcome]
    /\ closed \in BOOLEAN
    /\ ran \in [Day -> Nat] /\ late \in [Day -> Int] /\ spent \in [Client -> Int]

-----------------------------------------------------------------------------

InLane(t) == phase[t] \in {"thread", "computing", "returned"}
IsHeavy(t) == phase[t] # "none" /\ key[t].op \in Heavy
GeneralFree == Cardinality({t \in Task : InLane(t)}) < MaxInflight
HeavyFree ==
    Cardinality({t \in Task : IsHeavy(t) /\ (InLane(t) \/ phase[t] = "heavy")}) < MaxHeavy

\* Fault: a lane freed by a cancelled query is taken although the lanes closed.
AdmittingAlways == TRUE

\* The lanes are looked at before and after every wait.
Admitting == ~closed

\* A data version read now is not the snapshot's.
Changed(t) == served # key[t].version

\* Its transaction is open and has read the data version: a share lock on
\* ingestion_runs.
Reading(t) == computing[t] /\ phase[t] \in {"computing", "orphan"}

\* The snapshot a request can begin with: get refuses an unexpected version.
SnapshotVersions == {v \in 0 .. served : expected \in {None, v}}

\* put: the new entry is the newest, and any other may be the oldest.
Stored(k, payload) ==
    LET full == Cardinality({j \in Key : cache[j] # None /\ j # k}) = CacheSize
        with == [cache EXCEPT ![k] = payload]
    IN  IF full THEN {[with EXCEPT ![j] = None] : j \in {j \in Key : cache[j] # None /\ j # k}}
        ELSE {with}

-----------------------------------------------------------------------------
(* Requests: run, up to its await. *)

\* An identical computation is running: await its future, free.
Join(c, k) ==
    /\ waits[c] = None
    /\ cache[k] = None /\ flights[k] # None
    /\ waits' = [waits EXCEPT ![c] = flights[k]]
    /\ UNCHANGED <<expected, served, day, protection, cache, flights, task, future,
                   closed, history>>

\* No identical computation is running.
Alone(k) == flights[k] = None

\* The request takes a token, registers the flight and starts its task.
Lead(c, k, t) ==
    /\ waits[c] = None
    /\ cache[k] = None /\ Alone(k)
    /\ used < Limit /\ tokens[c] > 0
    /\ phase[t] = "none" /\ \A d \in Client : waits[d] # t
    /\ tokens' = [tokens EXCEPT ![c] = @ - 1]
    /\ flights' = [flights EXCEPT ![k] = t]
    /\ waits' = [waits EXCEPT ![c] = t]
    /\ phase' = [phase EXCEPT ![t] = "created"]
    /\ key' = [key EXCEPT ![t] = k]
    /\ client' = [client EXCEPT ![t] = c]
    /\ future' = [future EXCEPT ![t] = None]
    /\ UNCHANGED <<expected, served, day, used, cache, unit, computing, current, result,
                   closed, history>>

\* The future is done and the request answers.
Answer(c) ==
    /\ waits[c] # None /\ future[waits[c]] # None
    /\ waits' = [waits EXCEPT ![c] = None]
    /\ UNCHANGED <<expected, served, day, protection, cache, flights, task, future,
                   closed, history>>

\* The client goes away; the shielded future and its task stay.
Disconnect(c) ==
    /\ waits[c] # None
    /\ waits' = [waits EXCEPT ![c] = None]
    /\ UNCHANGED <<expected, served, day, protection, cache, flights, task, future,
                   closed, history>>

-----------------------------------------------------------------------------
(* The task: _lead. *)

\* Fault: what a refused computation took is not given back.
RefundNothing(t) == UNCHANGED <<protection, late>>

\* Fault: a unit is given back whether or not one was taken.
RefundUncharged(t) ==
    /\ tokens' = [tokens EXCEPT ![client[t]] = IF @ < Burst THEN @ + 1 ELSE @]
    /\ used' = IF used > 0 THEN used - 1 ELSE used
    /\ UNCHANGED late

\* Its cap unit, if it took one, and its token; never below zero, never above
\* the bucket.
Refund(t) ==
    /\ tokens' = [tokens EXCEPT ![client[t]] = IF @ < Burst THEN @ + 1 ELSE @]
    /\ used' = IF unit[t] # None /\ used > 0 THEN used - 1 ELSE used
    /\ late' = IF unit[t] \in 0 .. (day - 1) /\ used > 0 THEN [late EXCEPT ![day] = @ + 1]
               ELSE IF unit[t] = day /\ used = 0 THEN [late EXCEPT ![day] = @ - 1]
               ELSE late

\* The task is gone with its local variables.
Gone(t) ==
    /\ phase' = [phase EXCEPT ![t] = "none"]
    /\ key' = [key EXCEPT ![t] = None]
    /\ client' = [client EXCEPT ![t] = None]
    /\ unit' = [unit EXCEPT ![t] = None]
    /\ computing' = [computing EXCEPT ![t] = FALSE]
    /\ current' = [current EXCEPT ![t] = None]
    /\ result' = [result EXCEPT ![t] = None]

\* Fault: the flight of a task that is over stays where requests look it up.
StaysRegistered(t) == flights

Unregistered(t) ==
    [k \in Key |-> IF k = key[t] /\ flights[k] = t THEN None ELSE flights[k]]

\* The task ends with an exception raised before its engine started.
Refused(t) ==
    /\ Refund(t)
    /\ future' = [future EXCEPT ![t] = Failed]
    /\ flights' = Unregistered(t)
    /\ Gone(t)
    /\ UNCHANGED <<expected, served, day, cache, waits, closed, ran, spent>>

\* A heavy task takes its heavy lane first.
AcquireHeavy(t) ==
    /\ phase[t] = "created" /\ IsHeavy(t)
    /\ Admitting /\ HeavyFree
    /\ phase' = [phase EXCEPT ![t] = "heavy"]
    /\ UNCHANGED <<expected, served, day, protection, cache, flights, waits, key, client,
                   unit, computing, current, result, future, closed, history>>

NeedsGeneral(t) == phase[t] = (IF IsHeavy(t) THEN "heavy" ELSE "created")

\* The general lane, then a unit of the cap, then the worker thread.
EnterLane(t) ==
    /\ NeedsGeneral(t)
    /\ GeneralFree /\ Admitting
    /\ used < Limit
    /\ used' = used + 1
    /\ unit' = [unit EXCEPT ![t] = day]
    /\ phase' = [phase EXCEPT ![t] = "thread"]
    /\ UNCHANGED <<expected, served, day, tokens, cache, flights, waits, key, client,
                   computing, current, result, future, closed, history>>

\* No lane within wait_s, lanes closed, or the cap spent meanwhile.
NotAdmitted(t) ==
    /\ phase[t] \in {"created", "heavy"}
    /\ \/ ~Admitting
       \/ phase[t] = "created" /\ IsHeavy(t) /\ ~HeavyFree
       \/ NeedsGeneral(t) /\ (~GeneralFree \/ used >= Limit)
    /\ Refused(t)

\* No connection, a Neon pause, a full pool: the thread raises.
CheckoutFails(t) ==
    /\ phase[t] = "thread"
    /\ phase' = [phase EXCEPT ![t] = "returned"]
    /\ result' = [result EXCEPT ![t] = Failed]
    /\ UNCHANGED <<expected, served, day, protection, cache, flights, waits, key, client,
                   unit, computing, current, future, closed, history>>

\* The transaction reads another version than the pinned one.
Mismatch(t) ==
    /\ phase[t] = "thread" /\ Changed(t) /\ expected # None
    /\ phase' = [phase EXCEPT ![t] = "returned"]
    /\ result' = [result EXCEPT ![t] = Failed]
    /\ UNCHANGED <<expected, served, day, protection, cache, flights, waits, key, client,
                   unit, computing, current, future, closed, history>>

\* The engine starts; from here on the request stays charged.  The thread of a
\* cancelled task can get so far too.
StartEngine(t) ==
    /\ phase[t] \in {"thread", "orphan"} /\ ~computing[t]
    /\ Changed(t) => expected = None
    /\ phase' = [phase EXCEPT ![t] = IF @ = "thread" THEN "computing" ELSE @]
    /\ computing' = [computing EXCEPT ![t] = TRUE]
    /\ current' = [current EXCEPT ![t] = served]
    /\ ran' = [ran EXCEPT ![unit[t]] = @ + 1]
    /\ spent' = [spent EXCEPT ![client[t]] = @ + 1]
    /\ UNCHANGED <<expected, served, day, protection, cache, flights, waits, key, client,
                   unit, result, future, closed, late>>

\* Fault: the snapshot's resolver and key are used for whatever was read.
OutcomeOfSnapshot(t) ==
    [data |-> served, resolver |-> key[t].version, label |-> key[t].version]

\* Data, resolver and labels of one computation: its statements read what is
\* served as they run; the resolver is the snapshot's when the version read
\* first is its own, else the engine's.
OutcomeOf(t) ==
    [data |-> served, resolver |-> current[t], label |-> current[t]]

\* After the commit, the payload is cached if the version was the snapshot's.
Cached(t) ==
    IF current[t] # key[t].version THEN UNCHANGED cache
    ELSE cache' \in Stored(key[t], [data |-> OutcomeOf(t).data,
                                    resolver |-> OutcomeOf(t).resolver])

\* The transaction commits.
Succeeds(t) ==
    /\ phase[t] = "computing"
    /\ phase' = [phase EXCEPT ![t] = "returned"]
    /\ result' = [result EXCEPT ![t] = OutcomeOf(t)]
    /\ Cached(t)
    /\ UNCHANGED <<expected, served, day, protection, flights, waits, key, client, unit,
                   computing, current, future, closed, history>>

\* A statement fails, is cancelled or times out (overloaded), or the engine
\* refuses the request.
ComputeFails(t, how) ==
    /\ phase[t] = "computing"
    /\ phase' = [phase EXCEPT ![t] = "returned"]
    /\ result' = [result EXCEPT ![t] = how]
    /\ UNCHANGED <<expected, served, day, protection, cache, flights, waits, key, client,
                   unit, computing, current, future, closed, history>>

\* Fault: whatever failed is given back, engines that ran included.
GivenBackAlways(t) ==
    \/ result[t] \in {Failed, Overloaded} /\ Refund(t) /\ UNCHANGED spent
    \/ result[t] \notin {Failed, Overloaded} /\ UNCHANGED <<protection, late, spent>>

\* A failure before the engine started gives back all it took, one shed later
\* its token only.
GivenBack(t) ==
    \/ ~computing[t] /\ Refund(t) /\ UNCHANGED spent
    \/ /\ computing[t] /\ result[t] = Overloaded
       /\ tokens' = [tokens EXCEPT ![client[t]] = IF @ < Burst THEN @ + 1 ELSE @]
       /\ spent' = [spent EXCEPT ![client[t]] = @ - 1]
       /\ UNCHANGED <<used, late>>
    \/ /\ computing[t] /\ result[t] # Overloaded
       /\ UNCHANGED <<protection, late, spent>>

\* Back on the loop: the future, the flight, and what a failure gives back.
Deliver(t) ==
    /\ phase[t] = "returned"
    /\ GivenBack(t)
    /\ future' = [future EXCEPT ![t] =
                    IF result[t] \in {Failed, Overloaded} THEN Failed ELSE result[t]]
    /\ flights' = Unregistered(t)
    /\ Gone(t)
    /\ UNCHANGED <<expected, served, day, cache, waits, closed, ran>>

-----------------------------------------------------------------------------
(* Shutdown, time and the loader. *)

Shutdown ==
    /\ ~closed
    /\ closed' = TRUE
    /\ UNCHANGED <<expected, served, day, protection, cache, flights, waits, task, future,
                   history>>

\* Fault: a cancelled task leaves its future as it is.
CancelSilently(t) ==
    /\ closed /\ phase[t] \notin {"none", "orphan"}
    /\ IF phase[t] \in {"thread", "computing"}
       THEN /\ phase' = [phase EXCEPT ![t] = "orphan"]
            /\ UNCHANGED <<key, client, unit, computing, current, result>>
       ELSE Gone(t)
    /\ flights' = Unregistered(t)
    /\ UNCHANGED <<expected, served, day, protection, cache, waits, future, closed, history>>

\* runner.shutdown's time is over: the task ends, its thread cannot.
Cancel(t) ==
    /\ closed /\ phase[t] \notin {"none", "orphan"}
    /\ IF phase[t] \in {"thread", "computing"}
       THEN /\ phase' = [phase EXCEPT ![t] = "orphan"]
            /\ UNCHANGED <<key, client, unit, computing, current, result>>
       ELSE Gone(t)
    /\ future' = [future EXCEPT ![t] = Failed]
    /\ flights' = Unregistered(t)
    /\ UNCHANGED <<expected, served, day, protection, cache, waits, closed, history>>

\* The thread of a cancelled task ends; what it returns goes nowhere, but a
\* computation that succeeds is still cached.
OrphanEnds(t) ==
    /\ phase[t] = "orphan"
    /\ Gone(t)
    /\ UNCHANGED cache \/ (computing[t] /\ Cached(t))
    /\ UNCHANGED <<expected, served, day, protection, flights, waits, future, closed, history>>

Midnight ==
    /\ day < MaxDay
    /\ day' = day + 1
    /\ used' = 0
    /\ UNCHANGED <<expected, served, tokens, cache, flights, waits, task, future, closed,
                   history>>

\* A token flows back into a bucket.
Refill(c) ==
    /\ tokens[c] < Burst
    /\ tokens' = [tokens EXCEPT ![c] = @ + 1]
    /\ UNCHANGED <<expected, served, day, used, cache, flights, waits, task, future, closed,
                   history>>

\* `atus load` switches: not while a transaction holds ingestion_runs.
Reload ==
    /\ served < MaxVersion
    /\ \A t \in Task : ~Reading(t)
    /\ served' = served + 1
    /\ UNCHANGED <<expected, day, protection, cache, flights, waits, task, future, closed,
                   history>>

Init ==
    /\ expected \in {None, 0}
    /\ served = 0 /\ day = 0
    /\ used = 0
    /\ tokens = [c \in Client |-> Burst]
    /\ cache = [k \in Key |-> None]
    /\ flights = [k \in Key |-> None]
    /\ waits = [c \in Client |-> None]
    /\ phase = [t \in Task |-> "none"]
    /\ key = [t \in Task |-> None]
    /\ client = [t \in Task |-> None]
    /\ unit = [t \in Task |-> None]
    /\ computing = [t \in Task |-> FALSE]
    /\ current = [t \in Task |-> None]
    /\ result = [t \in Task |-> None]
    /\ future = [t \in Task |-> None]
    /\ closed = FALSE
    /\ ran = [d \in Day |-> 0] /\ late = [d \in Day |-> 0]
    /\ spent = [c \in Client |-> 0]

TaskStep(t) ==
    \/ AcquireHeavy(t) \/ EnterLane(t) \/ NotAdmitted(t)
    \/ CheckoutFails(t) \/ Mismatch(t) \/ StartEngine(t)
    \/ Succeeds(t) \/ \E how \in {Failed, Overloaded} : ComputeFails(t, how)
    \/ Deliver(t) \/ OrphanEnds(t)

Next ==
    \/ \E c \in Client, op \in Op, v \in SnapshotVersions :
         LET k == [op |-> op, version |-> v]
         IN  Join(c, k) \/ \E t \in Task : Lead(c, k, t)
    \/ \E c \in Client : Answer(c) \/ Disconnect(c) \/ Refill(c)
    \/ \E t \in Task : TaskStep(t) \/ Cancel(t)
    \/ Shutdown \/ Midnight \/ Reload

Spec == Init /\ [][Next]_vars

\* The loop resumes what is ready, a lane is granted or its wait ends, and a
\* computation ends (statement timeout and request deadline).
Fairness ==
    /\ \A t \in Task : WF_vars(TaskStep(t))
    /\ \A c \in Client : WF_vars(Answer(c))
FairSpec == Spec /\ Fairness

-----------------------------------------------------------------------------
(* Properties. *)

\* What is cached under a version, and what a request or its joiners get under
\* a label, was computed on that version alone: data and resolver, whenever
\* the reload came.
ResultsTrue ==
    /\ \A k \in Key : cache[k] # None => cache[k] = [data |-> k.version, resolver |-> k.version]
    /\ \A t \in Task : future[t] \notin {None, Failed} =>
         future[t].data = future[t].label /\ future[t].resolver = future[t].label

\* Identical requests share one computation.
OneComputation ==
    \A t, u \in Task :
        t # u /\ phase[t] # "none" /\ phase[u] # "none" /\ key[t] = key[u] =>
            "orphan" \in {phase[t], phase[u]}

\* Lanes bound the engines at work in worker threads, with those of cancelled
\* tasks, so that the pool always has connections for metadata.
LanesBound ==
    LET threads == {t \in Task : phase[t] \in {"thread", "computing", "orphan"}}
    IN  /\ Cardinality(threads) <= MaxInflight
        /\ Cardinality({t \in threads : IsHeavy(t)}) <= MaxHeavy

\* Units of a day that tasks hold and whose engine has not started.
Held(d) == {t \in Task : InLane(t) /\ unit[t] = d /\ ~computing[t]}

\* A day's count is exactly its analyses whose engine started and those on
\* their way to it, less the units of the day before given back after midnight.
CapConserved == ~closed => used + late[day] = ran[day] + Cardinality(Held(day))

\* Those given back at midnight are at most one per lane, and let at most as
\* many analyses more run.
DailyCapBound == \A d \in Day : ran[d] <= Limit + MaxInflight

\* A client's bucket never lacks a token but for its analyses on their way and
\* those whose engine ran and was not shed.
Pending(c) == {t \in Task : client[t] = c /\ phase[t] # "none" /\ ~computing[t]}
TokensKept ==
    ~closed =>
      \A c \in Client : tokens[c] + spent[c] + Cardinality(Pending(c)) >= Burst

\* Every request that awaits a computation is answered, whatever the
\* computation, its leader or the process does.
WaitersReleased == \A c \in Client : waits[c] # None ~> waits[c] = None

\* Requests see the promise of SingleFlight, whatever lanes, cap, shutdown and
\* the threads of cancelled tasks do: none waits for a flight that is over, or
\* gets, or finds in the cache, what its flight did not see in one look.
Work == [t \in Task |-> CASE phase[t] = "none" -> "none"
                          [] phase[t] = "orphan" -> "adrift"
                          [] OTHER -> "flying"]

Promise == INSTANCE SingleFlight
    WITH Flight <- Task, work <- Work, asked <- key, seen <- current
FlightsShared == Promise!Spec

\* The inductive invariants behind results, flights and lanes.  A task at work
\* knows its request, and while its transaction is open the data version it
\* read first is the one served;
TasksInv ==
    \A t \in Task :
      /\ phase[t] # "none" => key[t] \in Key /\ client[t] \in Client
      /\ phase[t] \in {"thread", "computing", "returned", "orphan"} => unit[t] \in Day
      /\ phase[t] = "computing" => computing[t]
      /\ computing[t] => phase[t] \in {"computing", "returned", "orphan"}
      /\ Reading(t) => current[t] = served

\* so what its thread returned is of one version, as is what was made of it;
OfOneVersion(outcome) ==
    outcome.data = outcome.label /\ outcome.resolver = outcome.label

ResultsInv ==
    /\ \A k \in Key : cache[k] # None => cache[k] = [data |-> k.version, resolver |-> k.version]
    /\ \A t \in Task :
         /\ result[t] \notin {None, Failed, Overloaded} => OfOneVersion(result[t])
         /\ future[t] \notin {None, Failed} => OfOneVersion(future[t])

\* a task that was not cancelled is the flight of its key;
FlightsInv ==
    \A t \in Task : phase[t] \notin {"none", "orphan"} => flights[key[t]] = t

\* a flight that can be looked up is one in the air, of that key, and what a
\* thread returned is all of what it read first;
InTheAir(t) == phase[t] \notin {"none", "orphan"}

BoardingInv ==
    /\ \A k \in Key : flights[k] # None => InTheAir(flights[k]) /\ key[flights[k]] = k
    /\ \A t \in Task :
         /\ InTheAir(t) => future[t] = None
         /\ phase[t] = "none" => key[t] = None
         /\ current[t] = None <=> ~computing[t]
         /\ phase[t] = "returned" /\ result[t] \notin {Failed, Overloaded} =>
              computing[t] /\ result[t] = Promise!Whole(current[t])

\* and the threads of cancelled tasks count too, but no lane is given after.
Working == {t \in Task : phase[t] \in {"thread", "computing", "returned", "orphan"}}
HeavyHeld == {t \in Task : IsHeavy(t) /\ (t \in Working \/ phase[t] = "heavy")}

LanesInv ==
    /\ (\E t \in Task : phase[t] = "orphan") => closed
    /\ Cardinality(Working) <= MaxInflight
    /\ Cardinality(HeavyHeld) <= MaxHeavy

RunnerInv == TypeOK /\ TasksInv /\ ResultsInv /\ FlightsInv /\ LanesInv

\* The inductive invariant behind the cap: units are of today or before, and
\* of the days gone the count taken is the limit at most; what midnight let
\* be given back late is one unit per lane then at work.
Owed(d) == {t \in Working : unit[t] = d /\ ~computing[t]}
Older(d) == {t \in Working : unit[t] < d}

DayCap(d) ==
    /\ d = day /\ ~closed => used + late[d] = ran[d] + Cardinality(Held(d))
    /\ ran[d] + Cardinality(Owed(d)) <= (IF d = day THEN used ELSE Limit) + late[d]
    /\ d <= day => late[d] + Cardinality(Older(d)) <= MaxInflight
    /\ d > day => ran[d] = 0 /\ late[d] = 0

UnitOf(t) ==
    /\ phase[t] \in {"none", "created", "heavy"} => unit[t] = None
    /\ unit[t] # None => unit[t] <= day

CapInv == (\A t \in Task : UnitOf(t)) /\ (\A d \in Day : DayCap(d))

\* The inductive invariant behind the tokens: at least the engines at work are
\* counted as spent, so what a full bucket cannot take was.
Engines(c) == {t \in Task : client[t] = c /\ computing[t]}
TokensInv ==
    /\ TokensKept
    /\ ~closed => \A c \in Client : Cardinality(Engines(c)) <= spent[c]
=============================================================================

------------------------------ MODULE EdgeWorker ------------------------------
(***************************************************************************)
(* The edge Worker's request flow (edge/src: index.ts, upstream.ts,        *)
(* wake.ts, cache.ts, admission.ts, proxy.ts): an uncached request of the  *)
(* API routes on its way through the result cache, the pause switch, the   *)
(* circuit breaker, the governor and two origin attempts, and the report   *)
(* that settles its lease.                                                 *)
(*                                                                         *)
(* The requests of one isolate interleave at the Worker's awaits; another  *)
(* release has isolates and cache keys of its own, so one release stands   *)
(* for all.  Every analysis has the same body, so there is one cache key;  *)
(* a lookup is one that the static snapshot cannot answer.  The governor   *)
(* counts the one client network's admissions (Governor.tla has the rest   *)
(* of it), and the origin is whatever the Worker can be answered by.       *)
(***************************************************************************)
EXTENDS Naturals, FiniteSets

CONSTANTS
    Slot,        \* requests in flight at once
    MaxRelease,  \* bound: data releases after the first
    MaxTime,     \* bound: the clock stops here
    DayLen,      \* ticks of a UTC day
    Threshold,   \* BREAKER_THRESHOLD
    OpenFor,     \* BREAKER_OPEN_MS
    WakeRetry, WakeInterval,  \* WAKE_RETRY_MS (a probe ends sooner), WAKE_INTERVAL_MS
    PrefixCap,   \* admissions the governor gives a network name a day
    None

Kind == {"analysis", "lookup", "health", "wake"}
Governed == {"analysis", "lookup"}
Release == 0 .. MaxRelease      \* a release is known by its DATA_VERSION
Day(t) == t \div DayLen
Days == 0 .. Day(MaxTime)
Reply == {"result", "cut", "waking", "circuit_open", "connect_failed", "origin_timeout",
          "broken_response", "overloaded", "limited", "final"}
\* SettleReport: how the request ended, and the database time the API reported.
Report == [kind : {"computed", "reused", "shed", "rejected", "not_reached"},
           db : {"zero", "some", "unreported"}]
As(ended, time) == [kind |-> ended, db |-> time]
NotReached == As("not_reached", "unreported")

ASSUME EdgeConstants ==
    /\ MaxRelease \in Nat /\ MaxTime \in Nat /\ DayLen \in Nat \ {0}
    /\ Threshold \in Nat \ {0} /\ OpenFor \in Nat \ {0}
    /\ WakeInterval \in Nat /\ WakeRetry \in 0 .. WakeInterval /\ PrefixCap \in Nat
    /\ IsFiniteSet(Slot)
    /\ None \notin Nat \cup Reply \cup Report

VARIABLES
    now,
    release,   \* the Worker's DATA_VERSION
    pausedUntil, \* its API_PAUSED_UNTIL; 0: the switch is off
    served,    \* the data version the API serves
    known,     \* the API holds or is computing the result of that version
    breaker,   \* originBreaker: its failures, and how long it stays open
    lastWake,  \* how long the last wake is still remembered
    kv,        \* the data version of the stored result, under this release's key
    rows,      \* today's admissions in the governor, by the day the name was derived under
    admitted,  \* history: today's admissions, under whatever name
    straddled, \* history: requests between naming and admission when today began
    stage,     \* where each request is
    kind,      \* its route's kind
    named,     \* the day its network's name was derived under
    tries,     \* origin attempts made
    version,   \* the data version the API answers it with
    reply,     \* what the page's call is answered
    report,    \* the SettleReport for its lease
    own,       \* history: the API began a computation for it
    severed    \* history: a connection dropped or the API died under that computation

place == <<now, release, pausedUntil>>
env == <<place, served, known>>
isolate == <<breaker, lastWake>>
counts == <<rows, admitted, straddled>>
path == <<stage, kind, named, tries, version>>
outcome == <<reply, report>>
trail == <<own, severed>>
edgeVars == <<env, isolate, kv, counts, path, outcome, trail>>

Shut == [failures |-> 0, openFor |-> 0]

EdgeTypeOK ==
    /\ now \in 0 .. MaxTime /\ release \in Release /\ served \in Release
    /\ pausedUntil \in 0 .. MaxTime
    /\ known \in BOOLEAN
    /\ breaker \in [failures : 0 .. Threshold, openFor : 0 .. OpenFor]
    /\ lastWake \in 0 .. WakeInterval
    /\ kv \in Release \cup {None}
    /\ rows \in [Days -> Nat] /\ admitted \in Nat /\ straddled \in Nat
    /\ stage \in [Slot -> {"free", "reading", "admitting", "calling", "computing",
                           "joining", "deserted", "replied"}]
    /\ kind \in [Slot -> Kind \cup {None}]
    /\ named \in [Slot -> Days] /\ tries \in [Slot -> 0 .. 2]
    /\ version \in [Slot -> Release]
    /\ reply \in [Slot -> Reply \cup {None}] /\ report \in [Slot -> Report \cup {None}]
    /\ own \in [Slot -> BOOLEAN] /\ severed \in [Slot -> BOOLEAN]

-----------------------------------------------------------------------------
(* The circuit breaker and the two ways a request leaves the Worker. *)

\* remainingOpenMs > 0
Open == breaker.openFor > 0

\* recordFailure (what matters of the count is whether it reached Threshold).
AfterFailure ==
    IF breaker.failures + 1 < Threshold
    THEN [failures |-> breaker.failures + 1, openFor |-> breaker.openFor]
    ELSE [failures |-> Threshold, openFor |-> OpenFor]

\* The request ends with an answer; an admitted analysis has a report to settle (a
\* lookup's says nothing of refunds: its counts are never given back).
Answer(c, what, settle) ==
    /\ stage' = [stage EXCEPT ![c] = "replied"]
    /\ reply' = [reply EXCEPT ![c] = IF kind[c] \in Governed THEN what ELSE None]
    /\ report' = [report EXCEPT ![c] = IF kind[c] = "analysis" THEN settle ELSE None]
    /\ named' = [named EXCEPT ![c] = 0]
    /\ tries' = [tries EXCEPT ![c] = 0]
    /\ version' = [version EXCEPT ![c] = 0]

\* Any response of the origin closes the breaker (recordSuccess).
OriginAnswers(c, what, settle) ==
    /\ breaker' = Shut
    /\ Answer(c, what, settle)

\* Fault: a call is sent whatever the breaker says.
CallOriginAnyway(c) ==
    /\ stage' = [stage EXCEPT ![c] = "calling"]
    /\ named' = [named EXCEPT ![c] = 0]
    /\ tries' = [tries EXCEPT ![c] = 1]
    /\ UNCHANGED <<version, outcome>>

\* fetchOrigin's first step.
CallOrigin(c) ==
    IF Open
    THEN Answer(c, "circuit_open", NotReached)
    ELSE /\ stage' = [stage EXCEPT ![c] = "calling"]
         /\ named' = [named EXCEPT ![c] = 0]
         /\ tries' = [tries EXCEPT ![c] = 1]
         /\ UNCHANGED <<version, outcome>>

-----------------------------------------------------------------------------
(* From the client to the governor. *)

Arrive(c, k) ==
    /\ stage[c] = "free"
    /\ stage' = [stage EXCEPT ![c] = "reading"]
    /\ kind' = [kind EXCEPT ![c] = k]
    /\ UNCHANGED <<env, isolate, kv, counts, named, tries, version, outcome, trail>>

\* readCached: a hit is an entry of this release's data version.
AnswerFromCache(c) ==
    /\ stage[c] = "reading" /\ kind[c] = "analysis"
    /\ kv = release
    /\ Answer(c, "result", None)
    /\ UNCHANGED <<env, isolate, kv, counts, kind, trail>>

\* apiPause.  (From here on the cache missed, or its read failed.)
RefusePaused(c) ==
    /\ stage[c] = "reading" /\ now < pausedUntil
    /\ Answer(c, "final", None)
    /\ UNCHANGED <<env, isolate, kv, counts, kind, trail>>

\* handleWake: the last wake is remembered, or the breaker is open, or /health is
\* asked.  (The probe outlives the reply, so the request lasts as long as it.)
Wake(c) ==
    /\ stage[c] = "reading" /\ kind[c] = "wake" /\ now >= pausedUntil
    /\ IF lastWake > 0 \/ Open
       THEN Answer(c, "result", None) /\ UNCHANGED lastWake
       ELSE /\ lastWake' = WakeRetry
            /\ CallOrigin(c)
    /\ UNCHANGED <<env, breaker, kv, counts, kind, trail>>

AskHealth(c) ==
    /\ stage[c] = "reading" /\ kind[c] = "health" /\ now >= pausedUntil
    /\ CallOrigin(c)
    /\ UNCHANGED <<env, isolate, kv, counts, kind, trail>>

\* A governed request the breaker would skip asks for no admission.
SkipGovernor(c) ==
    /\ stage[c] = "reading" /\ kind[c] \in Governed /\ now >= pausedUntil
    /\ Open
    /\ Answer(c, "circuit_open", None)
    /\ UNCHANGED <<env, isolate, kv, counts, kind, trail>>

\* Fault: the day is the client's to say.
NameClientByItsClock(c) ==
    /\ stage[c] = "reading" /\ kind[c] \in Governed /\ now >= pausedUntil
    /\ ~Open
    /\ stage' = [stage EXCEPT ![c] = "admitting"]
    /\ \E d \in Days : named' = [named EXCEPT ![c] = d]
    /\ UNCHANGED <<env, isolate, kv, counts, kind, tries, version, outcome, trail>>

\* prefixHmac derives the network's name under the Worker's day; then admit is awaited.
NameClient(c) ==
    /\ stage[c] = "reading" /\ kind[c] \in Governed /\ now >= pausedUntil
    /\ ~Open
    /\ stage' = [stage EXCEPT ![c] = "admitting"]
    /\ named' = [named EXCEPT ![c] = Day(now)]
    /\ UNCHANGED <<env, isolate, kv, counts, kind, tries, version, outcome, trail>>

\* The governor counts an admission for the name under its own day.
Count(c) ==
    /\ stage[c] = "admitting"
    /\ rows[named[c]] < PrefixCap
    /\ rows' = [rows EXCEPT ![named[c]] = @ + 1]
    /\ admitted' = admitted + 1

Admit(c) ==
    /\ Count(c)
    /\ CallOrigin(c)
    /\ UNCHANGED <<env, isolate, kv, straddled, kind, trail>>

\* A denial, by this budget or another, or a governor that cannot be reached.
Deny(c) ==
    /\ stage[c] = "admitting"
    /\ Answer(c, "final", None)
    /\ UNCHANGED <<env, isolate, kv, counts, kind, trail>>

\* withTimeout: it admitted, and the answer came too late (the lease expires).
AdmitTooLate(c) ==
    /\ Count(c)
    /\ Answer(c, "final", None)
    /\ UNCHANGED <<env, isolate, kv, straddled, kind, trail>>

-----------------------------------------------------------------------------
(* Origin attempts.  The API's own steps are external. *)

Taken(c) == stage[c] \in {"computing", "joining"}

\* The API takes an analysis: it computes it, or reuses what it holds of this version.
ApiTakes(c) ==
    /\ stage[c] = "calling" /\ kind[c] = "analysis"
    /\ version' = [version EXCEPT ![c] = served]
    /\ known' = TRUE
    /\ IF known
       THEN stage' = [stage EXCEPT ![c] = "joining"] /\ UNCHANGED own
       ELSE /\ stage' = [stage EXCEPT ![c] = "computing"]
            /\ own' = [own EXCEPT ![c] = TRUE]
    /\ UNCHANGED <<place, served, isolate, kv, counts, kind, named, tries, outcome,
                   severed>>

\* Server-Timing: an analysis of the request's own, or none.  (A lookup's reads and the
\* look at the data version that a refused analysis may have had are not told apart.)
DbTime(c) == IF stage[c] = "computing" THEN "some" ELSE "zero"

\* Fault: a reused answer is refunded, whatever the first attempt started.
RefundReused(c) == As(IF stage[c] = "joining" THEN "reused" ELSE "computed", DbTime(c))

\* settleReportFor a 2xx of the API.
SettleAs(c) ==
    IF stage[c] = "computing" THEN As("computed", DbTime(c))
    ELSE IF tries[c] = 1 THEN As("reused", DbTime(c)) ELSE As("computed", "unreported")

\* Fault: a result of any data version is kept.
StorableAnyVersion(c) == stage[c] = "computing"

\* storeHeadersAllow: X-Cache miss and the Worker's own data version.
Storable(c) == stage[c] = "computing" /\ version[c] = release

\* A result: buffered and stored (if KV takes it) when it may be and is small
\* enough, else streamed, and then it may break off at the client.
ApiResult(c) ==
    /\ Taken(c)
    /\ \/ /\ Storable(c)
          /\ kv' \in {kv, version[c]}
          /\ OriginAnswers(c, "result", SettleAs(c))
       \/ /\ \E what \in {"result", "cut"} : OriginAnswers(c, what, SettleAs(c))
          /\ UNCHANGED kv
    /\ UNCHANGED <<env, lastWake, counts, kind, trail>>

\* The result breaks off in the Worker's buffer, or is too late for Cloudflare (524).
ApiFails(c) ==
    /\ Taken(c)
    /\ \/ OriginAnswers(c, "origin_timeout", As("computed", "unreported"))
       \/ Storable(c) /\ OriginAnswers(c, "broken_response", SettleAs(c))
    /\ UNCHANGED <<env, lastWake, kv, counts, kind, trail>>

\* Metadata and health are answered without computing.
ApiReads(c) ==
    /\ stage[c] = "calling" /\ kind[c] \in {"lookup", "health"}
    /\ OriginAnswers(c, "result", As("computed", DbTime(c)))
    /\ UNCHANGED <<env, lastWake, kv, counts, kind, trail>>

\* The API's own errors, as the page is to take them and as they settle: shed (load,
\* the database lost; a rate; missing or other data, a spent day or quota), rejected,
\* and the rest (a time-out, a bug).
ApiError == {<<"overloaded", "shed">>, <<"limited", "shed">>, <<"final", "shed">>,
             <<"final", "rejected">>, <<"final", "computed">>}

\* Before it is taken the API refuses a request with no more than a look at the data
\* version.  Once the engine runs, every error but a rate limit can still come: a
\* capacity error or a lost connection, a quota (then no time is charged), an empty
\* database, too few respondents, a time-out; those who joined are told of it too (each
\* is answered on its own here).  Nothing is kept of a failed computation, and an
\* error's body may break off as well: judge then makes it one that never arrived.
ApiErrs(c) ==
    /\ Taken(c) \/ (stage[c] = "calling" /\ kind[c] # "wake")
    /\ \/ \E e \in ApiError :
             /\ Taken(c) => e[1] # "limited"
             /\ OriginAnswers(c, e[1], As(e[2], DbTime(c)))
       \/ OriginAnswers(c, "final", As("shed", "zero"))
       \/ OriginAnswers(c, "broken_response", NotReached)
    /\ known' = (known /\ ~(stage[c] = "computing" /\ version[c] = served))
    /\ UNCHANGED <<place, served, lastWake, kv, counts, kind, trail>>

\* Render or Cloudflare answers instead of the API: a waking or an error page (with
\* the API at work, if their connection to it drops), or uvicorn's own refusal.
PlatformAnswers(c) ==
    /\ Taken(c) \/ (stage[c] \in {"calling", "deserted"} /\ kind[c] # "wake")
    /\ \E what \in {"waking", "overloaded"} :
          /\ Taken(c) => what = "waking"
          /\ OriginAnswers(c, what, NotReached)
    /\ severed' = [severed EXCEPT ![c] = own[c]]
    /\ UNCHANGED <<env, lastWake, kv, counts, kind, own>>

\* probeHealth: a warm origin is remembered longer.
HealthAnswers(c) ==
    /\ stage[c] = "calling" /\ kind[c] = "wake"
    /\ OriginAnswers(c, "result", None)
    /\ lastWake' \in {lastWake, WakeInterval}
    /\ UNCHANGED <<env, kv, counts, kind, trail>>

\* waitUntil ends: the probe is cut off and its record stays "waking".
ProbeCut(c) ==
    /\ stage[c] = "calling" /\ kind[c] = "wake"
    /\ Answer(c, "result", None)
    /\ UNCHANGED <<env, isolate, kv, counts, kind, trail>>

\* The connection fails before any response: one retry at once, whatever the
\* breaker has become, then connect_failed.
AttemptFails(c) ==
    /\ stage[c] \in {"calling", "deserted"} \/ Taken(c)
    /\ breaker' = AfterFailure
    /\ severed' = [severed EXCEPT ![c] = own[c]]
    /\ IF tries[c] = 1
       THEN /\ stage' = [stage EXCEPT ![c] = "calling"]
            /\ tries' = [tries EXCEPT ![c] = @ + 1]
            /\ version' = [version EXCEPT ![c] = 0]
            /\ UNCHANGED <<named, outcome>>
       ELSE Answer(c, "connect_failed", NotReached)
    /\ UNCHANGED <<env, lastWake, kv, counts, kind, own>>

\* The caller has its answer or has left; settling and storing go on in waitUntil.
Free(c) ==
    /\ stage' = [stage EXCEPT ![c] = "free"]
    /\ kind' = [kind EXCEPT ![c] = None]
    /\ named' = [named EXCEPT ![c] = 0]
    /\ tries' = [tries EXCEPT ![c] = 0] /\ version' = [version EXCEPT ![c] = 0]
    /\ reply' = [reply EXCEPT ![c] = None] /\ report' = [report EXCEPT ![c] = None]
    /\ own' = [own EXCEPT ![c] = FALSE] /\ severed' = [severed EXCEPT ![c] = FALSE]
    /\ UNCHANGED <<env, isolate, kv, counts>>

RequestStep(c) ==
    \/ AnswerFromCache(c) \/ RefusePaused(c) \/ Wake(c) \/ AskHealth(c) \/ SkipGovernor(c)
    \/ NameClient(c) \/ Admit(c) \/ Deny(c) \/ AdmitTooLate(c)
    \/ ApiTakes(c) \/ ApiResult(c) \/ ApiFails(c) \/ ApiReads(c) \/ ApiErrs(c)
    \/ PlatformAnswers(c) \/ HealthAnswers(c) \/ ProbeCut(c) \/ AttemptFails(c)

-----------------------------------------------------------------------------
(* What happens around the requests. *)

\* The API evicts a result, or one that no request waits for fails; or its process
\* ends, with all it computes.
ApiForgets ==
    /\ known /\ \A c \in Slot : ~(stage[c] = "computing" /\ version[c] = served)
    /\ known' = FALSE
    /\ UNCHANGED <<place, served, isolate, kv, counts, path, outcome, trail>>

ApiDies ==
    /\ known
    /\ known' = FALSE
    /\ stage' = [c \in Slot |-> IF Taken(c) THEN "deserted" ELSE stage[c]]
    /\ severed' = [c \in Slot |-> severed[c] \/ (own[c] /\ Taken(c))]
    /\ UNCHANGED <<place, served, isolate, kv, counts, kind, named, tries, version,
                   outcome, own>>

\* A data release reaches the database, before or after the Worker's deploy.
Reload ==
    /\ served < MaxRelease
    /\ served' = served + 1 /\ known' = FALSE
    /\ UNCHANGED <<place, isolate, kv, counts, path, outcome, trail>>

Less(n) == IF n = 0 THEN 0 ELSE n - 1

\* Time passes.  waitUntil ends before a wake is forgotten, and a day's rows with it.
Tick ==
    /\ now < MaxTime
    /\ \A c \in Slot : ~(stage[c] = "calling" /\ kind[c] = "wake")
    /\ now' = now + 1
    /\ breaker' = [breaker EXCEPT !.openFor = Less(@)]
    /\ lastWake' = Less(lastWake)
    /\ IF Day(now') = Day(now)
       THEN UNCHANGED counts
       ELSE /\ rows' = [d \in Days |-> 0] /\ admitted' = 0
            /\ straddled' = Cardinality({c \in Slot : stage[c] = "admitting"})
    /\ UNCHANGED <<release, pausedUntil, served, known, kv, path, outcome, trail>>

Surroundings ==
    \/ ApiForgets \/ ApiDies \/ Reload \/ Tick

EdgeInit ==
    /\ now = 0 /\ release \in Release /\ pausedUntil \in 0 .. MaxTime /\ served = 0 /\ known = FALSE
    /\ breaker = Shut /\ lastWake = 0
    /\ kv = None
    /\ rows = [d \in Days |-> 0] /\ admitted = 0 /\ straddled = 0
    /\ stage = [c \in Slot |-> "free"] /\ kind = [c \in Slot |-> None]
    /\ named = [c \in Slot |-> 0]
    /\ tries = [c \in Slot |-> 0] /\ version = [c \in Slot |-> 0]
    /\ reply = [c \in Slot |-> None] /\ report = [c \in Slot |-> None]
    /\ own = [c \in Slot |-> FALSE] /\ severed = [c \in Slot |-> FALSE]

-----------------------------------------------------------------------------
(* Properties. *)

\* What a report does to an analysis' lease (settle): its counts go back, unless
\* statements ran for a rejected or reused one; the database time is charged.
CountsBack(r) ==
    \/ r.kind \in {"not_reached", "shed"}
    \/ r.kind \in {"rejected", "reused"} /\ r.db # "some"
DbTouched(r) == r.kind # "not_reached" /\ r.db # "zero"

\* What the API computed for an analysis is paid for: a result that may be its own
\* computation's (or its severed first attempt's) is counted and its time charged, and
\* so is a computation that ended in an error, but where the API shed it (the count
\* goes back, and with a spent quota the time too) or the Worker could not tell: a
\* connection dropped or the API died under it, or the error broke off.
RefundsEarned ==
    \A c \in Slot : own[c] /\ report[c] # None =>
      /\ reply[c] \in {"result", "cut", "origin_timeout"} =>
            ~CountsBack(report[c]) /\ DbTouched(report[c])
      /\ CountsBack(report[c]) =>
            severed[c] \/ report[c].kind = "shed" \/ reply[c] = "broken_response"
      /\ ~DbTouched(report[c]) =>
            \/ severed[c] \/ reply[c] = "broken_response"
            \/ report[c].kind = "shed" /\ reply[c] = "final"

\* The stored result under a release's key is one of that release's data,
\* whenever the data was reloaded, the Worker deployed or the put done.
StoredIsCurrent == kv \in {None, release}

\* A network is admitted no more often on a day than the cap, and once more for
\* each of its requests that were between naming it and admission at midnight.
NetworkDayCap == admitted <= PrefixCap + straddled

\* The breaker spares the origin: whatever other requests do to it meanwhile, the
\* only call a request sends while it is open is the retry of one it sent before.
OneCallIntoOpen ==
    [][\A c \in Slot : tries'[c] > tries[c] /\ breaker'.openFor > 0 => tries[c] = 1]_edgeVars

\* What a request's lease is settled with, and why.  A computation of its own means
\* the API took it; one that a first attempt began was severed from it, so only a
\* second attempt is sent or joins after that.  Its answer says what is given back.
TrailInv ==
    \A c \in Slot :
      /\ own[c] => kind[c] = "analysis"
      /\ stage[c] \in {"free", "reading", "admitting"} => ~own[c] /\ ~severed[c]
      /\ own[c] /\ stage[c] \in {"calling", "joining"} => tries[c] = 2
      /\ own[c] /\ stage[c] # "replied" => stage[c] = "computing" \/ severed[c]
      /\ own[c] /\ stage[c] = "replied" =>
            /\ severed[c] \/ reply[c] \in {"result", "cut", "origin_timeout",
                                          "broken_response", "overloaded", "final"}
            /\ \/ report[c] \in {As("computed", "some"), As("computed", "unreported")}
               \/ /\ reply[c] \notin {"result", "cut", "origin_timeout"}
                  /\ \/ severed[c] \/ reply[c] = "broken_response"
                     \/ report[c] \in {As("shed", "some"), As("rejected", "some")}
                     \/ reply[c] = "final" /\ report[c] = As("shed", "zero")
      /\ stage[c] # "replied" => report[c] = None

\* The inductive invariant behind the cap.  What is admitted beyond the row of
\* today's name was named on a day before, and was on its way when today began.
Straddling == {c \in Slot : stage[c] = "admitting" /\ named[c] # Day(now)}
DayInv ==
    /\ \A d \in Days : rows[d] <= PrefixCap
    /\ \A c \in Slot : stage[c] = "admitting" => named[c] <= Day(now)
    /\ admitted + Cardinality(Straddling) <= rows[Day(now)] + straddled

=============================================================================

# TLA+ models of ATUS

ATUS loads the American Time Use Survey into PostgreSQL, serves analyses of it
through a FastAPI process behind a Cloudflare Worker, and shows them in a React
page. These modules model the parts whose correctness depends on the order of
events: the page's calls with their retries over the Worker's request flow, the
quota governor of the Worker, the loader's build-and-switch reload, the API's
database transactions and data snapshot, its single-flight analysis runner, the
analytics engine whose answers it gives, and the owner's commands from the publisher's archive to the database in service.

Paths below are paths of the repository; `PROJECT.json` prefixes them with
`src/`. It also holds the map from every definition to the lines it models, the
mutants that show each property can fail, and the hazards.

Contents: 1 inventory, 2 modules, 3 runs, 4 fairness, 5 proofs, 6 findings and
remarks, 7 not modelled, 8 plan.

## 1. Inventory

### How the parts interact

```
 browser (React SPA)
    |  HTTPS; retries within a 150 s budget
 Cloudflare Worker (edge/src/index.ts)      KV result cache, deployed snapshot,
    |   RPC admit / settle  <->  Governor    pause switch, breaker per isolate
    |  HTTPS (one retry if the connection fails)
 FastAPI process (src/atus_pipeline/api)
    |   SnapshotStore   what the database contains, one copy in memory
    |   AnalysisRunner  single flight -> lanes -> daily cap -> worker thread
    |   Database        pool, deadlines, shutdown
 PostgreSQL / Neon  <-  `atus download`, `atus extract`, `atus load` (loading/),
                          `atus build-serving-db`, `atus restore-serving-db`
```

The Worker asks the governor before it forwards an uncached analysis or
metadata lookup, and settles the lease when the answer is there. The API begins
a request with the data snapshot, and an analysis reads the data version again
in its own transaction. The share lock of that read holds back the loader's
switch, which is the only way the served tables change.

### Components

| component | state | operations | what is hard | what makes it correct |
|---|---|---|---|---|
| Quota governor, `edge/src/governor.ts`, `budget.ts` | SQLite tables days, prefixes, leases; one state row (charged windows, totals, purge day, alarm, Neon figures) | admit, admitLookup, settle, alarm (expiry, purge, Neon poll), budget | settles lost, late or reordered; leases expiring in batches; RPCs during the poll; eviction in the poll; midnight | counts conserve, caps hold, no time goes unpaid, trimming forgets nothing reachable, old rows go, an alarm is always armed |
| Edge request flow, `edge/src/index.ts`, `admission.ts`, `proxy.ts`, `upstream.ts`, `cache.ts`, `pause.ts`, `wake.ts` | per isolate: breaker, last wake; KV entries | cache lookup, pause, breaker, admit, two origin attempts, judge the answer, store, settle; wake, health | requests sharing the breaker; a retry after a dropped connection meets the first attempt's computation; client leaving; a release or a midnight in between | what was computed is counted and charged; only this release's complete answers are stored; the network's cap holds; the breaker spares the origin |
| Edge static answers, `snapshot.ts`, `response.ts`, `report.ts` | none | deployed metadata, headers, operator's report | | |
| Loader, `loading/loader.py`, `switch.py` | live schema, shadow schema, `ingestion_runs`, advisory lock | load, build, switch, publish, mark failed, clean up | two loaders; readers locking tables in any order; crash or interrupt anywhere | a reader sees one load; the published version is the live one; readers are never stuck; a load ends |
| Data snapshot, `api/snapshot.py` | one snapshot, its trust, fresh and stale times, the pending read | get (strict or not), shared read, settle, invalidate | invalidation during a read; failing reads; requests joining a read that is over | answers are as recent as promised; a reported change is not forgotten; a paused database is left alone |
| Analysis runner and cache, `api/analysis_runner.py`, `cache.py` | flights, tasks, LRU cache | run (hit, join, lead), lead, compute, shutdown | reload between snapshot and computation; leader leaving; cancel with a thread still running | a result is of one version and correctly labelled; one computation per key; waiters are always answered |
| Load protection, `api/protection.py`, `middleware.py` | daily cap, token buckets, lanes, request slots | take, refund, admit, shed | refunds across midnight; lanes freed by cancelled queries | bounds hold; what is refunded was taken |
| Database layer, `api/database.py` | pool, active transactions, deadline timers, closing flag | transaction, deadline, begin_shutdown, cancel_active | cancels lost between statements; a cancel reaching the next user of a connection | nothing starts after shutdown; a cancel reaches its own transaction only |
| API surface, `api/app.py`, `routes/`, `schemas/`, `errors.py`, `metrics.py`, `observability.py` | counters | routing, validation, envelopes, metrics | the order of shutdown steps (in AnalysisRunner and Transactions) | |
| Migrations, `database/migrate.py`, `migrations/` | `schema_migrations` | apply, check | a file changed after it was applied; a migrate beside a load | each file once, in order |
| Serving build and restore, `serving/` | artifact, target database, roles, secrets file, sessions | build from one transaction, restore, apply roles, rotate the password | the source reloads while it is read; a run dies between roles, secrets and data; old sessions | the artifact is of one load; any failure has a documented way out; no session outlives its password |
| Analytics, `analytics/` | none | estimate, trend, compare over rows | denominators with windows, day types and the pandemic gap; sums of pooled years; missing traits; merged filters; rows the serving database omits; which requests share a key | an answer is the weighted mean, rate or count of the people asked about, for every request that gets it |
| Acquisition and staging, `acquisition/`, `staging/` | archives, staged files, manifest | download, extract | a command dies between two files; archives reissued under one name | the provenance in the database is that of its rows |
| Transformation and validation, `transformation/`, `validation/` | none | convert, check | none concurrent | per row |
| Frontend API client, `frontend/src/api` | one call: its attempt, its sleep, its budget | attempts, retries, time-outs, aborts | retries against the Worker's breaker, the caps and a waking API | the budget bounds the wait; retries do not multiply work |
| Frontend pages | query cache, service status | views, share links | none concurrent | presentation |
| Scripts, deployment, `scripts/`, `deploy/` | none | monitors, benchmarks, releases | | |

The behaviours that are hard to test are listed, at their lines, as `hazards`.

## 2. Modules

| module | models | kind |
|---|---|---|
| `Budget` | `edge/src/budget.ts`: days, windows, the union of charged intervals | operators |
| `LeasedQuota` | what the governor promises of its daily counts | abstract specification |
| `Governor` | `edge/src/governor.ts` | state machine, properties; refines `LeasedQuota` |
| `MCGovernor` | Neon figures and symmetry for the governor's runs | instance |
| `GovernorProofs` | lemmas and theorems about `Governor`, its refinement of `LeasedQuota` | proofs |
| `AtomicReload` | what a reload promises its readers | abstract specification |
| `ReloadSwitch` | `loading/loader.py`, `loading/switch.py`, the transactions that read | state machine; refines `AtomicReload` |
| `MCReloadSwitch` | table lists and symmetry | instance |
| `ReloadProofs` | lemmas and theorems about `ReloadSwitch`, its refinement of `AtomicReload` | proofs |
| `SingleFlight` | what the runner promises those who ask it | abstract specification |
| `AnalysisRunner` | `api/analysis_runner.py`, `cache.py`, parts of `protection.py` | state machine, properties; refines `SingleFlight` |
| `MCAnalysisRunner` | symmetry | instance |
| `RunnerProofs` | lemmas and theorems about `AnalysisRunner`, its refinement of `SingleFlight` | proofs |
| `Analytics` | `analytics/`, the canonical requests of `api/schemas/analysis.py`, `cache_key`, the rows `serving/builder.py` keeps | functions |
| `Analyses` | composes `AnalysisRunner` and `Analytics`; the reference estimates | composition, properties |
| `MCAnalyses` | surveys, requests and questions | instance |
| `SumProofs` | lemmas on sums and counts over finite sets, on the least and the i-th number of one | proofs |
| `AnalysesProofs` | lemmas about `Analytics`, theorems about `Analyses` | proofs |
| `SnapshotStore` | `api/snapshot.py` | state machine, properties |
| `Transactions` | `api/database.py` | state machine |
| `ApiData` | composes `SnapshotStore` and `Transactions` | composition, properties |
| `MCApiData` | the statements of each caller | instance |
| `ApiDataProofs` | lemmas and theorems about `SnapshotStore` and `Transactions`; the composition implements both | proofs |
| `EdgeWorker` | the request flow of `edge/src`, with the API and the governor's cap around it | state machine, properties |
| `Site` | `frontend/src/api`: the page's calls, over `EdgeWorker` | composition, properties |
| `MCSite` | which slot asks for what | instance |
| `SiteProofs` | lemmas and theorems about `Site` | proofs |
| `Acquisition` | `acquisition/`, `staging/`, the commands up to a load | state machine |
| `ServingRestore` | `serving/restore.py`, `serving/secrets_file.py`, `scripts/ops/roles.sql` | state machine |
| `Release` | composes `Acquisition`, the serving build and `ServingRestore` | composition, properties |
| `MCRelease` | instance | instance |
| `ReleaseProofs` | lemmas and theorems about `Release` | proofs |

A definition whose comment begins with "Fault:" is a plausible bug in the
definition below it. It is used by no specification: a mutant swaps it in to
show that a property would notice.

### Governor, LeasedQuota and Budget

Time is counted in ticks, and an interval [start, end) of the code is the set of
ticks in it. The code's sorted, merged list of charged windows is then a set of
ticks, `uncoveredLength` a cardinality, and the trim (`filter` on the end of a
merged window) is `KeepAfter`: a tick stays while its unbroken run reaches the
horizon. Compute is charged in ticks; the factor `NEON_MAX_CU` scales every
charge and ceiling alike.

An RPC of a Durable Object runs with the input gate closed and awaits nothing
but storage, so `admit`, `admitLookup` and `settle` are one action each
(`Admit`, `AdmitLookup`, `Settle`). Each includes the expiry, the purge and the
alarm the code runs in it. `Refuse` is a request denied by a compute or egress
budget: the expiry that ran before the denial stays. A request denied by a count
changes nothing and is no action. The alarm awaits an external fetch, during
which other RPCs run, so it is `Alarm` and then `PollSucceeds`, `PollFails` or
`PollInterrupted` (the object is evicted and the platform retries). The alarm the
object believes it has (`alarmAt`) and the platform's (`alarm`) are two
variables. The history variables `ever`, `upOf`, `kept` and `keptFor` say what
really was used, and the properties compare the books with them.

A settle may carry any report the Worker can send, at any time up to `SettleBy`
after its admission, or never. Lease ids are reused once free.

`LeasedQuota` is the promise of the daily counts without rows, purges, compute or
polls: a set of open leases, what ran of each day and each network, and today's
admissions of a network (`asks`). An analysis is admitted when every cap has room beside
all that ran and is open; a lease ends once, by a report or by lapsing as if it had run;
nothing but midnight takes an admission back. `Governor` implements it (`QuotaKept`) with
the leases of analyses as `open`, the history as `ran` and `ranFor`, and the attempts of
today's prefix rows as `asks`: the counts that `admit` reads are never the promise's own,
so a row that a refund, an expiry or a purge left wrong would admit a request that the
promise refuses. `admit`, `settle` and a day's end are steps of it; lookups, refusals
and the alarm are expiries or nothing. `EdgeWorker` keeps of the governor the `asks` alone.

### ReloadSwitch and AtomicReload

A load is named by its ingestion run. The variables are the database (`live`,
`status`, `shadow`, `built`), the loaders (`pc` and what their locals hold) and
the readers (open transaction, share locks, snapshot, the table waited for, what
was seen). The loader's steps are the commits and lock requests of `load_all`
and `switch_to_new_data`, in order. `Raise` is any exception or interrupt inside
`load_all`, also after the commit; `Crash` ends the process or its session.
PostgreSQL itself is external and modelled by what the code relies on: ACCESS
SHARE held to the end, ACCESS EXCLUSIVE one table at a time under lock_timeout,
snapshots per statement or per transaction, rollback when a session ends.
Attempts are bounded by `MaxAttempts`, which stands for `timeout_s`. The cutoff
(`clock_timestamp()` after the build) is the set of transactions open then.

Three kinds of readers are modelled: `rc`, an analysis or metadata read; `rr`,
the API's snapshot read, which locks `ingestion_runs` before its snapshot
exists; `build`, the serving builder, which does not. Readers queue behind no
waiting exclusive request, which gives them more freedom than PostgreSQL does.

`AtomicReload` has two variables, the load that is served and what each
transaction has read. `ReloadSwitch` implements it with `live` and `saw`
(`ReloadIsAtomic`): only `Commit` publishes, only to a later load, and an API
reader looks at the load served at that moment.

### AnalysisRunner and SingleFlight

A request runs on the event loop up to its await as one action (`Join`, `Lead`),
the task of `_lead` takes its lanes and cap unit (`AcquireHeavy`, `EnterLane`,
`NotAdmitted`), the worker thread opens its transaction and computes
(`CheckoutFails`, `Mismatch`, `StartEngine`, `Succeeds`, `ComputeFails`), and
the loop delivers (`Deliver`). A thread's return and the loop's resumption are
two steps, so a cancel, another request or midnight can come between them.
`Shutdown` is `lanes.close()`; `Cancel` is the end of `runner.shutdown`'s wait,
after which the thread runs on as an "orphan" (a native cancel passes
`anyio.to_thread`'s shield); it may still start its engine, if it had its
connection by then, and put its result in the cache.

The snapshot version a request begins with is any version served so far (see
SnapshotStore for which ones it can be). A computation's labels come from the
version its transaction read first (`current`), its data from what is served as
its statements run: they agree because `Reload` waits for the transactions that
have read the data version, which is what ReloadSwitch shows of the lock on
`ingestion_runs`. Requests that change nothing (a cache hit, a dry run's 422, a
rate limit, a spent cap) are no actions. `Midnight` resets `used` at once; the
code does so at the next call of `_roll`, and every read of `used` rolls first.

`SingleFlight` promises what those who ask may count on, without threads, lanes, caps,
tokens or the map of flights: one flight of a key is in the air at a time; who asks the same
meanwhile boards that one; a flight looks at the data once, whenever that is; it lands
with a failure or with a whole answer of what it saw, and is never over without having
answered; the cache keeps answers under the version they are of. `AnalysisRunner`
implements it (`FlightsShared`) with the phases of a task as three (`Work`: none, flying,
adrift) and its key, `current` and `future` as what the flight is asked, has seen and
answers. The promise looks for flights in the air where the code looks in `_flights`:
a registration that outlives its flight, or one that goes while the flight is still up, is
a step the promise does not have.

### Analytics and Analyses

`Analytics` is the engine as functions of a survey's tables, in the order the code
computes: selector and specification, refusals, population and weight conditions,
minutes per respondent, sums per year, pooled sums, and a ratio for the full sample
(weight 0) and each replicate. A ratio stays `<<numerator, denominator>>`. Standard
errors and intervals are functions of these numbers and are left out. An activity
code has one digit per tier, a week one weekend day, a year `YearLen` days; the
years keep their numbers, as 2019 and 2020 are special in the code. Filters that
compare one coded answer are alike, so sex (of the roster) and region (of the CPS)
stand for employment, state and education. `Serving` is the rows that the serving
database keeps and `Buildable` its builder's assertions.

`Analyses` gives AnalysisRunner's keys and versions a meaning: a key's `op` is the
digest of a canonical request, a version a survey, served in full or as its serving
database. `Startable` is the dry run. What an answer should be is defined from the
request and the people of the survey (`People`, `Days`, `Fraction`) without the
engine's selectors, pushdown, sums or merge; the two share only the weights, the
rules of which years a weight covers, and prefix matching.

### SnapshotStore

A snapshot is its data version. The loop's steps are `StartRead` and `JoinRead`
(`_refresh`), `NoteGeneration` and `EndLoad` (`_load` around its await),
`Settle` (`_settle`, the callback that clears `_pending` one iteration later) and
`Resume` (`get` after its await). `ReadDatabase` and `Invalidate` are worker
threads and come between any two of them. The generation counter is abstracted
to `clean`: no `invalidate()` since the running read noted it. `expected` is
chosen at start-up, any version or none.

### Transactions and ApiData

A transaction waits for a connection of the pool (`Acquire`, `AcquireFails`),
is registered unless the door is closed (`Register`), and alternates between the
check for a cancel (`Check`), the send (`Send`) and the statement's end: the
window between check and send is what a cancel falls into. A deadline is a timer
thread: `DeadlinePasses` marks the transaction, `Fire` sends one cancel, which
PostgreSQL drops when no statement of that connection runs, and the timer fires
again every `DEADLINE_RECANCEL_S` until the transaction's thread stops it
(`StopDeadline`, which waits for the timer's lock). A cancel whose own client gave
up after 5 s is not delivered later: psycopg's `cancel_safe` has closed its
connection. `TxShutdown` closes the door and cancels what is registered.

In `ApiData` the shared read of `SnapshotStore` is the transaction of the caller
`Reader`: its first statement takes SNAPSHOT_LOCK, so a reload (`Switch`) waits while
it is held, its end is `ReadDatabase` or `ReadFails`, and it competes with the
analyses for a connection. `ApiData` takes its actions from both modules and
adds none of its own to their state.

### EdgeWorker and Site

`EdgeWorker` is one isolate of one release of the Worker: the requests in its
slots interleave at the awaits (cache read, admission, fetch, settle), and share
the breaker and the last wake. All analyses have one body, hence one cache key.
Outside it are the clock, the data release, the pause switch and the API, which
may answer, shed, break off, time out, die, or go on computing for a request
that has left. Of the governor it keeps the admissions of one network per day;
`Governor` has the rest. How an answer is judged, stored in KV and reported is
part of the action that receives it (`ApiResult`, `ApiFails`, `ApiErrs`,
`PlatformAnswers`). The API's errors (`ApiError`) are told apart by what the page makes
of their code and by how they settle, and most of them can come before the engine
started or after: too few respondents, an empty database, a lost connection, a capacity
error, a spent quota, a time-out. A report has the kind and the database time, as in the
code; the time is kept for analyses that computed, since nothing else is refunded or
charged by it here, and a lookup has no report, since its counts are never given back. The settle itself is a call to the governor that may be lost
there, and changes nothing here.

In `Site` a slot is one call of the page and its present request: `NewCall`, then
attempts answered by `HandleReply`, which ends the call or sleeps (`Resend` ends the
sleep) while the budget allows. `GiveUp` is the page's abort; the request goes on
at the edge without it. `own` (the API began to compute), `severed` (a connection
dropped or the API died under the request), `straddled` (requests named before a
midnight and admitted after it), `admitted` (the network's admissions of the day under
whatever name) and `computed` (attempts of a call that were
computed) are history.

### Acquisition, ServingRestore and Release

The owner runs one command at a time; it may die between any two steps.
`Acquisition` follows one file of a release: the publisher's archive, `data/raw`,
`data/staging`, the manifest and the loaded rows, each named by the issue of the
archive its content comes from. `chain` (history) says whether the archive as it
now is was recorded and then extracted.

`ServingRestore` has the run's steps in the code's order: data (one transaction),
choice of the password, lock-out and end of the old sessions if it changes, roles,
secrets file, statistics, checks. Which of them a run makes depends on its flags
and on what it finds. Passwords are members of a finite set, and a new one is one
that nothing still holds. The API's
sessions open and close meanwhile under the password it was deployed with. A
refusal changes nothing and is a guard. A login is one step; the target is a
database of the same cluster; the secrets file is at hand or absent, never an old
copy.

`Release` composes the two with the serving build (one step: its transaction is
ReloadSwitch's `build` reader) and with a new, empty target for each release.

## 3. Runs

Bounds are CONSTANTS of the cfg named. Each run explores all reachable states
within them.

| run | cfg | what it asks | states |
|---|---|---|---|
| governor_counts | GovernorCounts | are counts conserved, caps kept and `LeasedQuota` implemented, with two networks, refunds, expiries and purges? | 155,000 |
| governor_charges | GovernorCharges | is every tick of uptime paid for, with settles and expiries in every order? | 459,000 |
| governor_poll | GovernorPoll | with the Neon poll and evictions, is the alarm right, do old rows go, does the bridge cover the uptime but for its slack? | 500,000 |
| governor_overshoot | GovernorOvershoot | ADR-015's bound on passing the ceiling | violation |
| governor_midnight | GovernorMidnight | is there a purge alarm for every midnight? | violation |
| reload | Reload | with two loaders that fail, are interrupted or die beside a reader, does each transaction see one load, is the published version live, and does everything end? | 349,000 |
| reload_builder | ReloadBuilder | is the serving builder's source of one load? | violation |
| runner_safety | RunnerSafety | is `SingleFlight` implemented, and are results true and lanes, cap and tokens kept, under reloads, failures, midnight and shutdown? | 773,000 |
| analyses | Analyses | is every answer the true one for whoever gets it, on 29 surveys and 662 questions, and is every waiting request answered? | 145,000 |
| api_data | ApiData | is a replaced snapshot never served, does a cancel reach only its transaction, does nothing slip past the shutdown, and do waiters and deadlines end? | 352,000 |
| site | Site | is what was computed paid for, are KV entries current, caps kept, work not multiplied and the origin spared, and does every call end? | 489,000 |
| release | Release | does any failed restore have a way out, do old sessions end, and is the served provenance true? | 592,000 |

Why the bounds are enough:

- `governor_counts` has a lease that can expire after one tick and settle up to
  two ticks after admission, days of two ticks and `MaxTime` 3, so a lease of one
  day settles and expires in the next, before and after the purge; caps are 1
  and 2, so they are reached with a refund pending. Compute is free there.
- `governor_charges` has two overlapping leases with a window of busy and tail
  time (`Busy` 2, `Tail` 1), an expiry after 3 ticks and a trim horizon that
  moves inside the run; two is the least number at which order matters.
  `SettleBy` = `Busy`: `UptimeWithinCeiling` holds for settles within the API's
  deadline. `governor_overshoot` lets them come up to `LeaseTTL` later.
- `governor_poll` has days of three ticks and a fetch of up to one tick, so polls
  start before and end after midnight, with admissions, settles and evictions in
  between. The idle tail is as long as the poll interval, as in the code, so a charge
  booked during a fetch reaches past the next poll (`BridgeSlack` is one tick).
- `reload` has two loaders and two runs, so one loader cleans up what the other
  left and loses a race for the advisory lock; a reader of any kind and three
  tables, so it can lock in the opposite order; and two attempts, so an attempt
  fails and a later one succeeds.
- `runner_safety` has two clients, two tasks, a light and a heavy analysis, a
  cache of one entry, a cap of one and two lanes, so every limit is reached;
  one reload and one midnight fall between any two steps.
- `analyses` has the runner with two clients, two tasks and a reload, and four
  requests: two that are one, a heavy comparison, and one that the dry run refuses.
  Its surveys have four respondents (2018, 2019 in the gap and after it, 2020), each
  without children, with them, or with age and children unknown, in every combination
  in which the first and last, who never count together, are alike; two more surveys
  cannot be built. The questions put every
  measure to years alone and pooled, covered and not, and nine populations whose
  bounds, windows and codes cut these respondents apart, alone and compared. A
  weight has two replicates, one of which can be zero where the other is not.
  What the engine answers does not depend on the run, so it is evaluated once, for
  every survey that a version can be of.
- `api_data` has the shared read (a lock and a query) and one analysis on a pool of
  one connection, so a late cancel could only hit the other's transaction; one
  request, one reload, a TTL and a retry time of one tick, so a snapshot goes
  stale and a failed read is retried.
- `site` has two slots: one makes the analyses, lookups and health requests, the
  other the wakes, which share its breaker. What an attempt made the API compute
  stays known there (`known`) until it fails or is evicted, so a retry meets its first
  attempt's work or begins anew. The breaker opens after 2 failures for 2 ticks, a wake is
  remembered for one, the call's budget is 2,
  the network's cap 1, and a day one tick in a run of 2, so midnight falls between
  the naming of a network and its admission. One data release follows the first.
  Two slots of analyses at once exceed what TLC can explore here.
- `release` has one reissue, one session of the API, and one fault anywhere in the owner's
  commands. With two, where a run dies while it repairs an earlier death, TLC finds no
  error either but takes too long to be repeated here; the safety properties are proved
  for any number of faults.

CHECK_DEADLOCK is FALSE where the clock's bound or a shutdown ends the behaviour;
the reload runs check deadlock.

## 4. Fairness

- Governor: the clock advances, the platform delivers a due alarm, and a fetch
  ends (it is aborted after `NEON_POLL_TIMEOUT_MS`). No admission, settle or
  eviction is promised.
- ReloadSwitch: a loader that is neither failing nor dead takes its next step (a
  retry loop with a deadline and lock timeouts), and a granted lock is taken. No
  reader is required to end its transaction, nor a loader to start.
- AnalysisRunner and Analyses: a task's next step happens (a lane is granted or its wait of
  `wait_s` ends; the statement timeout and the deadline end a computation), and
  the loop resumes a request whose future is done. Nothing is assumed of
  clients, reloads or shutdown.
- ApiData: the loop runs what is ready, threads run and timers fire. The read's
  statements end (`statement_timeout`); nothing is assumed of an analysis'
  statements, which only the deadline ends. A cancel that is repeated for ever is
  delivered at last, and a thread that wants the timer's lock for ever gets it
  (strong fairness on both). Fairness is on the read as a whole, so it may fail
  every time.
- Site: a request's awaits end (fetch and the governor's call have time-outs), an
  answer is handled, a sleep's timer fires, the clock runs. Nothing is assumed of
  the API, of the answers, or of callers.
- Release: a command that runs takes its next step, and the owner of a release
  that is not in service follows, again and again, the advice of the last run's
  message (strong fairness: other commands may come between). Faults are bounded by
  `MaxFaults`.

## 5. Proofs

Each theorem holds for every value of the constants that satisfies the module's
named assumptions (`BudgetConstants`, `GovernorConstants`, `ReloadConstants`,
`RunnerConstants`, `AnalyticsConstants`, `AnalysesConstants`, `SnapshotConstants`,
`TxConstants`, `ReaderAssumption`, `EdgeConstants`, `SiteConstants`, `AcqConstants`,
`RestoreConstants`): any number of networks, leases, loaders, readers, tables, clients,
tasks, versions, lanes, surveys, requests, callers, connections, requests in flight,
releases, issues and sessions, any limits and times. The theorems about a module follow
from inductive invariants, stated at the end of that module and checked by TLC before
they were proved; those about `Analyses` from the runner's, and from what the engine's
functions compute.

| module | theorem | statement |
|---|---|---|
| `GovernorProofs` | `TypeCorrect` | `Spec => []TypeOK` |
| | `NeverUnderchargedHolds` | `Spec => []NeverUndercharged` |
| | `CountsConservedHolds` | `Spec => []CountsConserved` |
| | `DailyCapsHold` | `Spec => []DailyCaps` |
| | `QuotaKeptHolds` | `Spec => QuotaKept`, the refinement of `LeasedQuota` |
| | `UptimeWithinCeilingHolds` | `SettleBy <= Busy` implies `Spec => []UptimeWithinCeiling` |
| | `AlarmBelievedHolds` | `Spec => []AlarmBelieved` |
| | `BridgeCoversUptimeHolds` | `Spec => []BridgeCoversUptime` |
| | `HorizonKeptHolds` | `Spec => []HorizonKept` |
| | `DayCoversPrefixesHolds` | `Spec => []DayCoversPrefixes` |
| | `PurgeFinalHolds` | `Spec => []PurgeFinal` |
| `ReloadProofs` | `ReloadTypes` | `Spec => []TypeOK` |
| | `VersionIsLiveHolds` | `Spec => []VersionIsLive` |
| | `NeverEmptyHolds` | `Spec => []NeverEmpty` |
| | `AllOldOrAllNewHolds` | `Spec => []AllOldOrAllNew` |
| | `SucceededStaysHolds` | `Spec => SucceededStays` |
| | `ReloadIsAtomicHolds` | `Spec => ReloadIsAtomic`, the refinement |
| `RunnerProofs` | `RunnerTypes` | `Spec => []TypeOK` |
| | `ResultsTrueHolds` | `Spec => []ResultsTrue` |
| | `OneComputationHolds` | `Spec => []OneComputation` |
| | `FlightsSharedHolds` | `Spec => FlightsShared`, the refinement of `SingleFlight` |
| | `LanesBoundHolds` | `Spec => []LanesBound` |
| | `CapConservedHolds` | `Spec => []CapConserved` |
| | `DailyCapBoundHolds` | `Spec => []DailyCapBound` |
| | `TokensKeptHolds` | `Spec => []TokensKept` |
| `AnalysesProofs` | `AnswersAreTrueHolds` | `AnalysesSpec => []AnswersAreTrue` |
| | `EstimatesAreTrueHolds` | `AnalysesSpec => []EstimatesAreTrue` |
| | `TrendIsEstimatesHolds` | `AnalysesSpec => []TrendIsEstimates` |
| | `ComparisonIsFairHolds` | `AnalysesSpec => []ComparisonIsFair` |
| `ApiDataProofs` | `SnapshotTypes` | `Spec => []TypeOK` |
| | `ReportedIsKeptHolds` | `Spec => []ReportedIsKept` |
| | `StrictIsRecentHolds` | `Spec => []StrictIsRecent` |
| | `AnswersAreRecentHolds` | `Spec => []AnswersAreRecent` |
| | `DatabaseLeftAloneHolds` | `Spec => DatabaseLeftAlone` |
| | `TxTypes` | `TxSpec => []TxTypeOK` |
| | `CancelStaysHomeOfTransactions` | `TxSpec => []CancelStaysHome` |
| | `NoneSlipsPastOfTransactions` | `TxSpec => []NoneSlipsPast` |
| | `ImplementsSnapshotStore` | `ApiSpec => Spec`, the refinement |
| | `ImplementsTransactions` | `ApiSpec => TxSpec`, the refinement |
| | `ApiTypes` | `ApiSpec => []ApiTypeOK` |
| | `ApiReportedIsKept` | `ApiSpec => []ReportedIsKept` |
| | `ApiAnswersAreRecent` | `ApiSpec => []AnswersAreRecent` |
| | `CancelStaysHomeHolds` | `ApiSpec => []CancelStaysHome` |
| | `NoneSlipsPastHolds` | `ApiSpec => []NoneSlipsPast` |
| `SiteProofs` | `SiteTypes` | `Spec => []SiteTypeOK` |
| | `RefundsEarnedHolds` | `Spec => []RefundsEarned` |
| | `StoredIsCurrentHolds` | `Spec => []StoredIsCurrent` |
| | `ComputedAtMostTwiceHolds` | `Spec => []ComputedAtMostTwice` |
| | `OneCallIntoOpenHolds` | `Spec => OneCallIntoOpen` |
| | `NetworkDayCapHolds` | `Spec => []NetworkDayCap` |
| `ReleaseProofs` | `NoStaleSessionHolds` | `Spec => []NoStaleSession` |
| | `ServedIsRecordedHolds` | `Spec => []ServedIsRecorded` |
| | `UnaskedHarmlessHolds` | `Spec => UnaskedHarmless` |

**Governor** (`ChargeInv`). `NeverUndercharged` alone is not inductive: a step
adds to the counter the length of what its window adds to `charged`, which bounds
what it adds to `ever` only if nothing counted as charged was never charged
(`charged \subseteq ever` gives the other direction of the bookkeeping, and
`HorizonKept` says the trimmed part cannot be reached by the trim of a later
step). The day totals need the purge not to delete a day that is still charged
to, hence `purgedDay <= Today` and `PurgeFinal`. `DayCoversPrefixes` needs the
shares of an expiry to be nested (a network's leases are leases of the day). The
lemmas are, in order, facts about `Budget`'s trim, the types of the expired and
purged books, `ChargeInv` for each action, and `ChargeInv` for `Next`.

The counts (`CountsInv`): `CountsConserved` speaks of the rows there are, but a
purge deletes rows whose leases may still settle. So the invariant keeps the
network's equation for every day not purged, row or no row, says that a lease of
such a day has its row, and bounds what is kept with what is in flight, from which
`DailyCaps` follows: admission is the only step that raises that sum, and it is
refused at the cap. The lemmas are about the cardinalities of leases with one
added, removed or filtered.

The quota (`AsksInv`): `CountsInv` gives for today, whose rows no purge has deleted, that
the counts `admit` reads are what ran and is open, so its guards are the promise's caps.
A settle's refund is the fate of the lease (`RefundOrRan`), and what an expiry books is
what lapses (`ExpiryLapses`). The promise starts a day with no admissions, which the
rows do because no action touches the row of a day to come (`AsksInv`): at midnight
nothing has to be reset.

The ceiling (`UptimeInv`): a day's uptime is bounded together with what its leases
are assumed to add, because that is what `computeDenial` holds against the ceiling.
A settle then only trades an assumed window for one inside it. This is where the
hypothesis `SettleBy <= Busy` enters: a settle that comes later than the assumed busy
time books a window that no admission weighed, which is the violation
`governor_overshoot` shows. The code's own deadline on the API is what makes the
hypothesis true of settles that come in time.

The alarm: the stored belief and the platform's alarm change in the same step
everywhere but in `alarm()`, which forgets the belief first, so the belief can only
be absent where there is an alarm, never the reverse.

The bridge (`BridgeInv`): whatever is booked lies less than an idle tail ahead of
the clock. At the end of a poll the ticks from its time-out and a tail on are all
booked later, hence counted by the next bridge, and the next poll starts an interval
later. What no bridge counts is therefore at most `PollTimeout + Tail -
PollInterval` ticks (`BridgeSlack`; 10 s in the code, where tail and interval are
both 5 minutes). `GovernorPeriods` names what is used of the periods: a fetch is no
longer than a day, and books are kept for at least one.

**Reload** (`ReloadInv`). The advisory lock makes one loader at a time (`OneLoader`),
so the run of a loader at work is the latest and nobody else marks it or takes its
shadow (`LoaderInv`); the latest successful run is then the live one (`RunsInv`).
A table is share-locked or locked by the switch, never both, and whatever a
transaction has read or fixed as its snapshot it holds a share lock for
(`LocksInv`): at the commit, which holds every table, no API transaction has read
anything. The builder fixes its snapshot before its first lock, so for it the
argument is the cutoff: a snapshot lacks the rows of the next load only while its
transaction is waited for (`SnapshotsInv`). `ViewsInv` states what was read. The
refinement maps `Commit` to the promise's one publishing step, to a later load by
`LoaderInv`, and a granted read to a look at the live load by `SnapshotsInv`.

**Runner** (`RunnerInv`). `ResultsTrue` needs that the version read first stays the
one served while the transaction is open (`TasksInv`; the reload's wait for the
share lock keeps it) and that results on their way to the loop are of one version
(`ResultsInv`). `OneComputation` follows from a stronger fact, that every task not
cancelled is the registered flight of its key (`FlightsInv`). `LanesBound` counts
threads of cancelled tasks that the semaphores no longer count; it holds because
such threads exist only once the lanes are closed (`LanesInv`).

The flights (`BoardingInv`): the code finds a flight in a map, the promise by what is in
the air. That every task in the air is registered is `FlightsInv`; the refinement needs
the converse too, that what is registered is in the air, of that key and not yet
answered, and that what a thread returned is all of its one look. Of the actions only
`Lead` (a `Start`), `Join` (`Board`), `StartEngine` (`Look`), `Succeeds` (`Keep`),
`NotAdmitted` and `Deliver` (`Land`), `Cancel` (`Abandon`), `OrphanEnds` (`Sink`), a
client's answer or departure (`Leave`) and the reload change what the promise speaks of;
an orphan's first read is a `Look` as well (`EveryStep`).

The cap (`CapInv`): a day's count is its started analyses and the units held on the
way, less what came back after midnight. `DailyCapBound` needs more: of every day
gone, what ran and what is still owed stays within the limit and the late refunds,
and those late so far with the holders of older units are no more than the lanes, because
a unit older than today was taken before midnight by a task that has kept its lane
since (`TasksInv` and `LanesInv` say who has one). The tokens (`TokensInv`):
`TokensKept` is inductive once a client's spent tokens are known to be at least its
engines at work, since those are what a refund may give back.

**Engine.** A sum over a finite set is a CHOOSE of a function on its subsets, and what
the induction theorems cannot be used for here is done by a least counterexample: if a
statement fails for a finite set, it fails for one of least cardinality
(`SetInduction`, whose parameter is the set of the sets it holds of). `SumProofs` has from
it that sums do not depend on the order, add up over a disjoint union, over the classes
of a partition, and over an image; that a sum of ones is a count; and that a finite set of
numbers has a least and an i-th one.

*Estimates.* Summing the minutes of the activity rows per respondent gives the time of the
respondent's activities that the request means (`MinutesAreTime`). A year's statistics are
sums over the people of that year and a multi-year request's are the sums over all of them,
with the days that the period's dates, day types and the gap leave (`StatisticsOf`,
`CombineOf`, `TotalDaysAre`, `DaysCount`). The filters' conditions on rows and traits
select the people `Belongs` speaks of, missing traits included (`BaseIsPeople`). So an
answered estimate is the reference one, and one is refused where there is none
(`EstimateIsTrue`).

*Trends and comparisons.* The statistics of a year inside a trend are those of that year
asked alone (`YearAlone`, `PointIs`), hence `TrendIs`. Two filters merged mean both of
them (`MergeMeans`), so each side of a comparison is the estimate of the filter's people
within the population, the difference changes sign with the order of the sides
(`Opposite`), and sides that conflict with the population have nobody (`NobodyInBoth`).

*The serving database.* It has the same base, weights and minutes by code, so the same
statistics, and `Run` answers as on the full tables (`ServingRun`).

*Who gets an answer.* AnalysesNext is a Next of the runner, so `RunnerInv` holds: a result
was computed, resolved and labelled with one version. The digest is injective, so all who
ask for a key asked for one job, and the answer is true for each (`RunIsTrue`).

Of a survey the theorems assume `WellKeyed`, the schema's keys and types, and
`Validated`, what the loader's checks find (`validation/db_checks.py` 187-236, 343-350) with two
things they do not enforce: that a diary is of its survey's year, of which they only warn,
and that TU20FWGT counts no diary of the gap (`analytics/weights.py` 17-23). TLC evaluates both on
every survey of the run. Weights are integers: `numeric(18,6)` counted in the last place;
the serving database's `float8` replicate columns, and floating point in general, are outside
the model.

**Snapshot** (`StoreInv`). What is trusted, and what a read under way will return if
nothing invalidated it, is no older than what was reported (`VersionInv`). A time
of freshness belongs to a trusted snapshot, and a read that something invalidated
finds none to extend (`FreshInv`); a stale answer is due to the last failure
(`StaleInv`).

**Transactions** (`TxInv`). A connection has one user from its grant to its release,
which waits for the timer to be stopped, and the mark for cancellation on it is its
user's own deadline or the shutdown's (`ConnInv`, `MarkInv`). Registration asks for an
open door, and the shutdown closes the door before it marks what is registered, so
what is active after the marking is marked. **ApiData**: every step is a step of
`SnapshotStore` or leaves its variables alone, and likewise for `Transactions`
(`StepIsOfBoth`). The composition therefore implements both, and the theorems of
each hold of it.

**Site** (`SiteInv`). `RefundsEarned` speaks of requests for which the API began a
computation (`own`), which the Worker does not know. Beside the present attempt only an
earlier one whose connection dropped can have computed, so `TrailInv` says where such a
request may be: it computes, or it was severed, and only a second attempt is sent or joins
after that, or it has its answer, and then which reports go with which answers: an answer
that is not counted and charged is an error that the API shed, or came after a loss
(`AnswerTrail`). `CallsInv` bounds what a call had computed by its transient retries and
its present attempt; a call makes at most one such retry. The network's cap
(`DayInv`) counts with the admissions of a day the requests on their way under an
earlier day's name: together they exceed the row of today's name by no more than what
was on its way at midnight, because a name is never of a day to come and days do not
go back.

**Release** (`ReleaseInv`). Old sessions end between the lock-out and the new password,
with logins refused meanwhile (`RunInv`), so every session has the role's password. A run
that died between roles.sql and the file leaves the role with a password that no session and no
deployment has (`PasswordsInv`); that a new password differs from all that is held
follows by counting, as `Password` has more members than there are holders. The
provenance that goes with the rows is that of their archive, from the staged file to
the serving database (`ChainInv`, `ProvenanceInv`).

Theorems about properties that no run lists any more (the types, `PurgeFinal`, `HorizonKept`,
`DayCoversPrefixes`, `OneComputation`, `NeverEmpty`, `StrictIsRecent`, `AnswersAreRecent`,
`DatabaseLeftAlone`) are conjuncts or consequences of the inductive invariants: the
proof covers what a run would, for all constants.

Only model-checked: liveness (`OldRowsGoAway`, `LoadsEnd`, `ReadersGoOn`,
`WaitersReleased`, `WaitersGoOn`, `DeadlineEnds`, `CallsSettle`, `FinishedByAdvice`), as
ENABLED and fairness are outside the prover's reach. Every invariant and action property
of a passing run has its theorem. No module proved about declares a RECURSIVE operator.

## 6. Findings and remarks

Violations a run shows:

1. `OvershootBounded` (`governor_overshoot`): ADR-015 bounds how far a day can pass
   its ceiling by one late settle; two requests in flight can each be late.
2. `MidnightAlarm` (`governor_midnight`): a Neon fetch that crosses midnight re-arms
   the alarm from the time after it, so the midnight just passed is skipped and the
   ended day's rows stay for up to a day without traffic.
3. `BuilderConsistent` (`reload_builder`): the serving builder fixes its snapshot
   before it locks `ingestion_runs`, so a switch in between pairs the old version
   with the new tables.

Remarks that are not runs:

- `governor.ts` 54-57 says a denial writes nothing; one by a compute budget saves
  the expiry it ran first (`Refuse`).
- `governor.ts` 49-50 says rows go at the first event after 00:00 UTC; settles and
  refused admissions do not purge.
- A settle trims to its own horizon, so a lease that is overdue but not yet
  expired can pay again for time already paid: an overcharge only.
- `governor.ts` 45-46 says usage since the previous poll is bridged with the same
  charges. Charges booked while a poll's fetch is in flight are behind the next
  bridge's start (`pollNeon` takes `cuAtPollS` after the await), and their idle tails
  reach past the next poll: up to `NEON_POLL_TIMEOUT_MS` (10 s) of uptime is in neither
  figure. `BridgeCoversUptime` allows this slack, and TLC finds it reached.
- The first Neon poll counts again only the charges of the day it began on. Just
  after midnight, or when its fetch crosses it, the bridge lacks charges of the
  other day until the second poll; `BridgeCoversUptime` therefore speaks of the
  polled day.
- `load_all` says a failure leaves the live data unchanged; an interrupt after the
  commit raises although the new data is live (`SucceededStays` shows it stays
  published).
- A unit of the daily cap refunded after midnight comes off the new day, as
  `protection.py` says; `CapConserved` counts exactly these, and `DailyCapBound`
  shows what they amount to.

- `proxy.ts` 21-22 and ADR-015 say a request reported as `connect_failed` never
  reached the API. An attempt can reach it before its connection drops
  (`admission.ts` 303-306): it is refunded and sent again although it may be
  computed. `RefundsEarned` excepts requests whose connection dropped (`severed`).
- `governor.ts` 183-187 says what is shed was refused without computing. A lost
  connection, a capacity error or an empty database found by the running analysis is
  shed too (`admission.ts` 43-44): its counts are given back, its database time is
  charged (a spent quota's is not). `RefundsEarned` allows just this; an
  analysis rejected after its query ran (422 `insufficient_data`) keeps its counts.
- An error of the API whose body breaks off is settled as never arrived
  (`proxy.ts` 236, `admission.ts` 317), though it may follow a computation, and the page
  takes it for one that may (`resilience.ts` 62): it is retried once, and its lease is
  given back whole. `RefundsEarned` excepts it.
- A streamed answer that breaks off at the page is a network error, classed as
  "waking" and sent again although it was computed (`resilience.ts` 58,
  `client.ts` 276): the exception of `ComputedAtMostTwice`.
- `atus download --force` and then `atus extract` without `--force` keep the old
  staged file while the manifest, and later `source_files`, record the new
  archive's SHA-256 (`manifest.py` 4-8). The same holds after a crash between the
  archive's replacement and `record_download`, until `download` is run again.
  `ServedIsRecorded` speaks of archives recorded and then extracted.
- `download.py` 8-10 says `atus extract` works alike on files put there by hand;
  without an `atus download` of them `record_staging` raises KeyError.
- `migrate.py` 169-170 is checked only at a load's start (`loader.py` 287): a
  migration applied during the load is overwritten by the switch, and the ledger
  keeps it as applied.
- `restore.py` 137-138 says only the file's URL works. A restore that dies between
  roles.sql and the write of the file leaves the role with a password that is in
  no file; the next run recovers, as `FinishedByAdvice` shows.
- `engine.py` 102-106 says years without a valid estimate are explicit points of a
  trend. A trend of 2020 alone under the multi-year weight is refused as a whole, and
  a year in which nobody did the activity ends a trend of minutes per participant
  (`Trend`). `TrendIsEstimates` allows both.
- With an old copy of the secrets file `--roles-only` changes the live password to
  that copy's; `operations.md` 968 tells the owner to keep the file at hand.

## 7. Not modelled, and why

- Within modelled components: `sanitizeState` and `dropImpossibleRows` (they
  repair rows this code never writes), `budget()` (a read), the rows' refund and
  denial statistics, table contents, grants and validation checks of a load,
  lexicon and search data of a snapshot, metrics, the bound on the number of
  token buckets, psycopg's repair of broken connections. Eviction of the result
  cache is any entry but the new one, where the code evicts the least recently
  used. A request that is rejected and changes nothing is no action.
- The Worker: static answers from the deployed metadata, headers, envelopes and
  logging, the operator's report, several isolates (they share only KV and the
  governor).
- The API: routing and schemas, and the middleware's request slots and
  disconnect watcher.
- Migrations: each is one transaction with its ledger row, applied by one owner's
  command, so a crash leaves a prefix; the gap beside a load is remarked on above.
- The release: the artifact's hashes, the reshaping of tables, the queries of the
  checks, and a release's several files, which are handled one by one and alike.
- The page: its static snapshot, the notice of the service's status, its query
  cache, and what it shows.
- The engine's floating point, standard errors, intervals, warnings and labels, and the
  further filters on coded answers.
- Transformation and validation are sequential functions over rows; scripts and
  deployment are glue.

## 8. Plan

Done in this order: governor (the limits on money and load), reload (the
integrity of the data), runner and snapshot (what a request sees), the API's
transactions under the snapshot, the Worker with the page's retries over it, the
release commands, and the engine under the runner.

Next modules:

1. `Migrations`: the runner and its ledger beside a load.
2. `BudgetIntervals`: the sorted interval lists of `budget.ts` against the sets of
   ticks of `Budget`, over bounded inputs.
3. The middleware's request slots, bucket and disconnect watcher, before
   `AnalysisRunner`.
4. A second analysis slot for `Site`, once a coarser governor makes it small enough.

Next abstract specifications: a metered window (what is used, what may still be used, what
a poll has reported) that Governor's compute implements, and the page's call as one
question with at most one charged answer that `Site` implements.

Next theorems: that the modules implement these two, and the invariants of the next
modules.

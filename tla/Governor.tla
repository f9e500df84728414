------------------------------ MODULE Governor ------------------------------
(***************************************************************************)
(* The quota governor Durable Object, edge/src/governor.ts.                *)
(*                                                                         *)
(* One instance with SQLite storage admits uncached analyses (`admit`) and *)
(* metadata lookups (`admitLookup`) against daily counts and compute       *)
(* ceilings, holds a lease for each, and books the real charge when the    *)
(* Worker settles it (`settle`) or when the lease expires unsettled.  An   *)
(* alarm purges the day's prefix rows at midnight and polls Neon's usage.  *)
(*                                                                         *)
(* Each RPC method runs with the object's input gate closed, so it is one  *)
(* action; the exception is the Neon poll, an external fetch during which  *)
(* other methods run, which is why the alarm is split in two.              *)
(***************************************************************************)
EXTENDS Budget

CONSTANTS
    Prefix,             \* client networks (daily HMAC of the /24 or /48)
    LeaseId,            \* lease ids in use at one time; a set of integers
    MaxTime,            \* bound: the clock stops here
    LeaseTTL,           \* LEASE_TTL_MS
    SettleBy,           \* longest time from an admission to its settle
    DbTimes,            \* db times the API can report
    PrefixAnalyses,     \* PREFIX_DAILY_ANALYSES
    PrefixAdmissions,   \* PREFIX_DAILY_ADMISSIONS
    PrefixLookups,      \* PREFIX_DAILY_LOOKUPS
    GlobalAnalyses,     \* GLOBAL_DAILY_ANALYSES
    HeavyAnalyses,      \* HEAVY_DAILY_ANALYSES
    GlobalLookups,      \* GLOBAL_DAILY_LOOKUPS
    Networks,           \* 1 / PREFIX_DAILY_CU_SHARE: networks needed to spend a day
    CeilingConservative,\* DAILY_CU_HOURS_CONSERVATIVE, in ticks
    CeilingTruth,       \* DAILY_CU_HOURS_GROUND_TRUTH, in ticks
    LightEgress,        \* EGRESS_ESTIMATE_BYTES.light
    HeavyEgress,        \* EGRESS_ESTIMATE_BYTES.heavy
    LookupEgress,       \* SNAPSHOT_READ_EGRESS_BYTES
    EgressDay,          \* EGRESS_DAILY_CONSERVATIVE_BYTES
    EgressStop,         \* EGRESS_STOP_BYTES
    Retention,          \* DAY_RETENTION_DAYS
    NeonConfigured,     \* whether the Neon key and project id are set
    PollInterval,       \* NEON_POLL_INTERVAL_MS
    PollTimeout,        \* NEON_POLL_TIMEOUT_MS
    TruthAge,           \* GROUND_TRUTH_MAX_AGE_MS
    PeriodLen,          \* length of a Neon consumption period
    PaceFloor,          \* PACING_FLOOR_CU_HOURS, in ticks
    PaceSlope,          \* PACING_SLOPE_CU_HOURS, in ticks
    PaceCap,            \* PACING_CAP_CU_HOURS, in ticks
    NeonFigures         \* usage figures Neon can report: [compute, egress]

ASSUME GovernorConstants ==
    /\ IsFiniteSet(Prefix)
    /\ LeaseId \subseteq Int /\ IsFiniteSet(LeaseId)
    /\ MaxTime \in Nat /\ LeaseTTL \in Nat /\ SettleBy \in Nat
    /\ DbTimes \subseteq Nat
    /\ PrefixAnalyses \in Nat /\ PrefixAdmissions \in Nat /\ PrefixLookups \in Nat
    /\ GlobalAnalyses \in Nat /\ HeavyAnalyses \in Nat /\ GlobalLookups \in Nat
    /\ Networks \in Nat \ {0}
    /\ CeilingConservative \in Nat /\ CeilingTruth \in Nat
    /\ LightEgress \in Nat /\ HeavyEgress \in Nat /\ LookupEgress \in Nat
    /\ EgressDay \in Nat /\ EgressStop \in Nat /\ Retention \in Nat
    /\ NeonConfigured \in BOOLEAN
    /\ PollInterval \in Nat \ {0} /\ PollTimeout \in Nat /\ TruthAge \in Nat /\ PeriodLen \in Nat \ {0}
    /\ PaceFloor \in Nat /\ PaceSlope \in Nat /\ PaceCap \in Nat
    /\ NeonFigures \subseteq [compute : Nat, egress : Nat]

\* How the periods compare: 90 s, 10 min; 10 s, a day; 40 days.
ASSUME GovernorPeriods ==
    /\ Busy <= LeaseTTL
    /\ PollTimeout <= DayLen
    /\ Retention >= 1

VARIABLES
    now,           \* the clock (Date.now())
    days,          \* table days: the totals of each UTC day (zeros: no row)
    prefixRows,    \* table prefixes: which (day, prefix) rows exist
    prefixes,      \* table prefixes: their values (zeros: no row)
    leases,        \* table leases
    charged,       \* state.charged: ticks already charged, trimmed
    cuTotal,       \* state.cuTotalS
    egressTotal,   \* state.egressTotal
    lastAdmitAt,   \* state.lastAdmitAt
    lastPollAt,    \* state.lastPollAt
    purgedDay,     \* state.purgedDay
    alarmAt,       \* state.alarmAt: the alarm the object believes is pending
    alarm,         \* the alarm the platform holds
    neon,          \* state.neon, with known = FALSE for null
    poll,          \* when the Neon fetch now in flight began
    ever,          \* history: every tick ever charged, never trimmed
    upOf,          \* history: of those, the ticks a day was the first to pay
    kept,          \* history: analyses of a day that ran, or may have run
    keptFor        \* history: analyses of a network the API answered or ran

books == <<days, prefixRows, prefixes, leases, charged, cuTotal, egressTotal>>
timers == <<lastAdmitAt, lastPollAt, purgedDay, alarmAt, alarm>>
history == <<ever, upOf, kept, keptFor>>
vars == <<now, books, timers, neon, poll, history>>

-----------------------------------------------------------------------------
(* Rows and types. *)

NoTime == -1
LongAgo == -1 - PollInterval     \* the stored 0 of INITIAL_STATE, an epoch ago
Days == 0 .. Day(MaxTime)
Today == Day(now)
Ticks == 0 .. (MaxTime + Busy + Tail)

DayRow == [admitted : Nat, heavy : Nat, cu : Nat, egress : Nat, lookups : Nat]
PrefixRow == [count : Nat, attempts : Nat, cu : Nat, lookups : Nat]
Lease == [id : LeaseId, day : Days, prefix : Prefix, heavy : BOOLEAN,
          lookup : BOOLEAN, at : 0 .. MaxTime]
Neon == [known : BOOLEAN, polledAt : Nat, compute : Nat, egress : Nat,
         start : Nat, cuBase : Nat, egressBase : Nat,
         cuAtPoll : Nat, egressAtPoll : Nat]

NoDay == [admitted |-> 0, heavy |-> 0, cu |-> 0, egress |-> 0, lookups |-> 0]
NoPrefix == [count |-> 0, attempts |-> 0, cu |-> 0, lookups |-> 0]
NoNeon == [known |-> FALSE, polledAt |-> 0, compute |-> 0, egress |-> 0,
           start |-> 0, cuBase |-> 0, egressBase |-> 0,
           cuAtPoll |-> 0, egressAtPoll |-> 0]

TypeOK ==
    /\ now \in 0 .. MaxTime
    /\ days \in [Days -> DayRow]
    /\ prefixRows \subseteq Days \X Prefix
    /\ prefixes \in [Days -> [Prefix -> PrefixRow]]
    /\ leases \subseteq Lease /\ IsFiniteSet(leases)
    /\ charged \subseteq Ticks
    /\ cuTotal \in Nat /\ egressTotal \in Nat
    /\ lastAdmitAt \in Int /\ lastPollAt \in Int
    /\ purgedDay \in Int /\ alarmAt \in Int /\ alarm \in Int
    /\ neon \in Neon
    /\ poll \in {NoTime} \cup 0 .. MaxTime
    /\ ever \subseteq Ticks
    /\ upOf \in [Days -> SUBSET Ticks]
    /\ kept \in [Days -> [all : Nat, heavy : Nat]]
    /\ keptFor \in [Days -> [Prefix -> Nat]]

-----------------------------------------------------------------------------
(* Lease expiry (expireLeases).  These are the books as they stand once    *)
(* every lease older than LeaseTTL has been charged its provisional window *)
(* and dropped; without such a lease they are the books themselves.        *)

Stale == {l \in leases : l.at < now - LeaseTTL}
Live == leases \ Stale

\* ORDER BY admitted_at; equal times come in an order SQL leaves open.
Before(m, l) == m.at < l.at \/ (m.at = l.at /\ m.id < l.id)

\* The time a set of leases is assumed to keep the compute up.
UpTime(S) == UNION {Provisional(l.at) : l \in S}

\* What an expired lease adds to the union: leases admitted earlier paid first.
ExpiryAdds(l) ==
    Uncovered(Provisional(l.at), charged \cup UpTime({m \in Stale : Before(m, l)}))
ExpiryAddsAll(S) == UNION {ExpiryAdds(l) : l \in S}

\* The egress estimates a set of leases holds (sumEgress).
EgressOf(S) ==
    LightEgress * Cardinality({l \in S : ~l.lookup /\ ~l.heavy})
      + HeavyEgress * Cardinality({l \in S : ~l.lookup /\ l.heavy})
      + LookupEgress * Cardinality({l \in S : l.lookup})

OfDay(S, d) == {l \in S : l.day = d}
OfPrefix(S, d, p) == {l \in S : l.day = d /\ l.prefix = p}

DaysExpired ==
    [d \in Days |->
        [days[d] EXCEPT
            !.cu = @ + Cardinality(ExpiryAddsAll(OfDay(Stale, d))),
            !.egress = @ + EgressOf(OfDay(Stale, d))]]

\* Fault: a network is charged its leases' whole windows, not what they add.
WholeWindowsExpired ==
    [d \in Days |-> [p \in Prefix |->
        IF <<d, p>> \in prefixRows
        THEN [prefixes[d][p] EXCEPT
                !.cu = @ + Cardinality(UpTime(OfPrefix(Stale, d, p)))]
        ELSE prefixes[d][p]]]

PrefixesExpired ==
    [d \in Days |-> [p \in Prefix |->
        IF <<d, p>> \in prefixRows
        THEN [prefixes[d][p] EXCEPT
                !.cu = @ + Cardinality(ExpiryAddsAll(OfPrefix(Stale, d, p)))]
        ELSE prefixes[d][p]]]
ChargedExpired ==
    IF Stale = {} THEN charged
    ELSE AddCharged(charged, UpTime(Stale), now - LeaseTTL)
\* Fault: the windows are added before the charge is taken.
ChargeAfterAdding == cuTotal + Cardinality(Uncovered(UpTime(Stale), ChargedExpired))

CuTotalExpired == cuTotal + Cardinality(Uncovered(UpTime(Stale), charged))
EgressTotalExpired == egressTotal + EgressOf(Stale)

UpOfExpired ==
    [d \in Days |-> upOf[d] \cup (ExpiryAddsAll(OfDay(Stale, d)) \ ever)]

\* An expired analysis may have run.
Analyses(S) == {l \in S : ~l.lookup}
Heavies(S) == {l \in S : ~l.lookup /\ l.heavy}
KeptExpired ==
    [d \in Days |->
        [all |-> kept[d].all + Cardinality(Analyses(OfDay(Stale, d))),
         heavy |-> kept[d].heavy + Cardinality(Heavies(OfDay(Stale, d)))]]
KeptForExpired ==
    [d \in Days |-> [p \in Prefix |->
        keptFor[d][p] + Cardinality(Analyses(OfPrefix(Stale, d, p)))]]

-----------------------------------------------------------------------------
(* Budgets (admit, admitLookup, computeDenial). *)

NeonCurrent == NeonConfigured /\ neon.known /\ now < neon.start + PeriodLen
DayCeiling ==
    IF NeonCurrent /\ now - neon.polledAt <= TruthAge
    THEN CeilingTruth ELSE CeilingConservative

\* min(cap, floor + slope x share of the period elapsed); charges are whole.
Allowance ==
    LET line == PaceFloor + (PaceSlope * (now - neon.start)) \div PeriodLen
    IN  IF line <= PaceCap THEN line ELSE PaceCap

\* Fault: one analysis too many.
CountsAllowOneMore(p, heavy) ==
    /\ prefixes[Today][p].count <= PrefixAnalyses
    /\ prefixes[Today][p].attempts < PrefixAdmissions
    /\ days[Today].admitted < GlobalAnalyses
    /\ heavy => days[Today].heavy < HeavyAnalyses

AnalysisCountsAllow(p, heavy) ==
    /\ prefixes[Today][p].count < PrefixAnalyses
    /\ prefixes[Today][p].attempts < PrefixAdmissions
    /\ days[Today].admitted < GlobalAnalyses
    /\ heavy => days[Today].heavy < HeavyAnalyses

LookupCountsAllow(p) ==
    /\ prefixes[Today][p].lookups < PrefixLookups
    /\ days[Today].lookups < GlobalLookups

\* Fault: requests in flight are not counted.
CandidateAlone(S) == Cardinality(Uncovered(Provisional(now), ChargedExpired))

\* The charge of a set of live leases and one more request admitted now.
WithCandidate(S) ==
    Cardinality(Uncovered(UpTime(S) \cup Provisional(now), ChargedExpired))

ComputeAllows(p, estimate) ==
    LET todays == OfDay(Live, Today)
        mine == OfPrefix(Live, Today, p)
    IN  /\ Networks * (PrefixesExpired[Today][p].cu + WithCandidate(mine)) <= DayCeiling
        /\ DaysExpired[Today].cu + WithCandidate(todays) <= DayCeiling
        /\ ~NeonCurrent =>
             DaysExpired[Today].egress + EgressOf(todays) + estimate <= EgressDay
        /\ NeonCurrent =>
             /\ neon.egress + (EgressTotalExpired - neon.egressBase)
                  + EgressOf(Live) + estimate < EgressStop
             /\ neon.compute + (CuTotalExpired - neon.cuBase)
                  + WithCandidate(Live) <= Allowance

-----------------------------------------------------------------------------
(* The midnight purge and the alarm (purge, scheduleAlarm). *)

\* Fault: yesterday's rows are kept.
PurgedRowsLate(R) ==
    IF purgedDay = Today THEN R ELSE {r \in R : r[1] >= Today - 1}

PurgedDays(D) ==
    IF purgedDay = Today THEN D
    ELSE [d \in Days |-> IF d < Today - Retention THEN NoDay ELSE D[d]]
PurgedRows(R) ==
    IF purgedDay = Today THEN R ELSE {r \in R : r[1] >= Today}
PurgedPrefixes(P) ==
    IF purgedDay = Today THEN P
    ELSE [d \in Days |-> IF d < Today THEN [p \in Prefix |-> NoPrefix] ELSE P[d]]

\* Fault: no midnight alarm.
PollTimes(admitAt, pollAt, pending) ==
    IF NeonConfigured /\ now - admitAt <= PollInterval
    THEN {Larger(now, pollAt + PollInterval)} ELSE {}

\* The times an alarm is wanted at: the next poll and the next midnight.
WantedTimes(admitAt, pollAt, pending) ==
    (IF NeonConfigured /\ now - admitAt <= PollInterval
     THEN {Larger(now, pollAt + PollInterval)} ELSE {})
      \cup (IF pending THEN {NextMidnight(now)} ELSE {})

\* Fault: an alarm the platform still holds is not replaced.
ScheduleIfNone(times, current) ==
    LET earliest == CHOOSE t \in times : \A u \in times : t <= u
    IN  IF times = {} \/ (current >= now /\ current <= earliest)
        THEN /\ alarmAt' = current
             /\ UNCHANGED alarm
        ELSE /\ alarmAt' = earliest
             /\ alarm' = IF alarm = NoTime THEN earliest ELSE alarm

\* An alarm still ahead and early enough is kept; otherwise the earliest
\* wanted time is stored and handed to the platform.
ScheduleAlarm(times, current) ==
    LET earliest == CHOOSE t \in times : \A u \in times : t <= u
    IN  IF times = {} \/ (current >= now /\ current <= earliest)
        THEN /\ alarmAt' = current
             /\ UNCHANGED alarm
        ELSE /\ alarmAt' = earliest
             /\ alarm' = earliest

-----------------------------------------------------------------------------
(* Actions. *)

\* The lease rows, the totals and the history after an expiry, no admission.
BookExpiry ==
    /\ charged' = ChargedExpired
    /\ cuTotal' = CuTotalExpired
    /\ egressTotal' = EgressTotalExpired
    /\ ever' = ever \cup UpTime(Stale)
    /\ upOf' = UpOfExpired
    /\ kept' = KeptExpired
    /\ keptFor' = KeptForExpired

\* Insert the lease and its counts, then purge and re-arm the alarm.
Grant(lease, dayRow, prefixRow, admitAt) ==
    /\ BookExpiry
    /\ leases' = Live \cup {lease}
    /\ days' = PurgedDays([DaysExpired EXCEPT ![Today] = dayRow])
    /\ prefixRows' = PurgedRows(prefixRows \cup {<<Today, lease.prefix>>})
    /\ prefixes' = PurgedPrefixes(
                      [PrefixesExpired EXCEPT ![Today][lease.prefix] = prefixRow])
    /\ purgedDay' = Today
    /\ lastAdmitAt' = admitAt
    /\ ScheduleAlarm(WantedTimes(admitAt, lastPollAt, TRUE), alarmAt)
    /\ UNCHANGED <<now, lastPollAt, neon, poll>>

One(condition) == IF condition THEN 1 ELSE 0
FreeId(i) == \A l \in leases : l.id # i

\* admit: an uncached analysis passes every budget.
Admit(p, heavy, i) ==
    LET day == DaysExpired[Today]
        row == PrefixesExpired[Today][p]
    IN  /\ FreeId(i)
        /\ AnalysisCountsAllow(p, heavy)
        /\ ComputeAllows(p, IF heavy THEN HeavyEgress ELSE LightEgress)
        /\ Grant([id |-> i, day |-> Today, prefix |-> p, heavy |-> heavy,
                  lookup |-> FALSE, at |-> now],
                 [day EXCEPT !.admitted = @ + 1,
                             !.heavy = @ + One(heavy)],
                 [row EXCEPT !.count = @ + 1, !.attempts = @ + 1],
                 now)

\* admitLookup: a metadata GET the snapshot could not answer.
AdmitLookup(p, i) ==
    /\ FreeId(i)
    /\ LookupCountsAllow(p)
    /\ ComputeAllows(p, LookupEgress)
    /\ Grant([id |-> i, day |-> Today, prefix |-> p, heavy |-> FALSE,
              lookup |-> TRUE, at |-> now],
             [DaysExpired[Today] EXCEPT !.lookups = @ + 1],
             [PrefixesExpired[Today][p] EXCEPT !.lookups = @ + 1],
             lastAdmitAt)

\* A request refused by a compute or egress budget still books the expiry the
\* check ran first.  (One refused by a count changes nothing.)
Refuse(p, heavy, lookup) ==
    /\ Stale # {}
    /\ IF lookup
       THEN LookupCountsAllow(p) /\ ~ComputeAllows(p, LookupEgress)
       ELSE /\ AnalysisCountsAllow(p, heavy)
            /\ ~ComputeAllows(p, IF heavy THEN HeavyEgress ELSE LightEgress)
    /\ BookExpiry
    /\ leases' = Live
    /\ days' = DaysExpired
    /\ prefixes' = PrefixesExpired
    /\ UNCHANGED <<now, prefixRows, timers, neon, poll>>

\* How the Worker saw an admitted request end (SettleReport).
Reports ==
    {[kind |-> "not_reached", db |-> Unreported]}
      \cup [kind : {"shed", "rejected", "reused", "computed"},
            db : DbTimes \cup {Unreported}]

RefundsPrefix(l, r) == ~l.lookup /\ r.kind \in {"not_reached", "shed"}

\* Fault: a refusal that ran statements is refunded too.
RefundsRan(l, r) == ~l.lookup /\ r.kind # "computed"

RefundsCounts(l, r) ==
    \/ RefundsPrefix(l, r)
    \/ ~l.lookup /\ r.kind \in {"rejected", "reused"} /\ r.db <= 0
TouchedDb(r) == r.kind # "not_reached" /\ r.db # 0

\* For the history: the API computed the analysis or ran statements for it,
\* and the API answered it (an invalid request is charged to its network).
Ran(r) ==
    \/ r.kind = "computed"
    \/ r.kind \in {"rejected", "reused"} /\ r.db > 0
Answered(r) == r.kind \in {"computed", "rejected", "reused"}

\* MAX(0, n - k)
Less(n, k) == Larger(0, n - k)

\* The window a settle charges, and the rows of the lease's day and network
\* once `cu` ticks of it were new.
SettleWindow(l, r) ==
    IF TouchedDb(r) THEN Window(DbStart(l.at, now, r.db), now) ELSE {}
SettleEgress(l, r) == IF TouchedDb(r) THEN EgressOf({l}) ELSE 0
SettledDay(l, r, cu) ==
    LET row == days[l.day]
    IN  [admitted |-> Less(row.admitted, One(RefundsCounts(l, r))),
         heavy |-> Less(row.heavy, One(RefundsCounts(l, r) /\ l.heavy)),
         cu |-> row.cu + cu,
         egress |-> row.egress + SettleEgress(l, r),
         lookups |-> row.lookups]

\* Fault: what is given back may be asked for again.
SettledAsks(l, r, cu) ==
    LET row == prefixes[l.day][l.prefix]
        back == One(RefundsPrefix(l, r))
    IN  [row EXCEPT !.count = Less(@, back), !.attempts = Less(@, back), !.cu = @ + cu]

SettledPrefix(l, r, cu) ==
    LET row == prefixes[l.day][l.prefix]
    IN  [count |-> Less(row.count, One(RefundsPrefix(l, r))),
         attempts |-> row.attempts,
         cu |-> row.cu + cu,
         lookups |-> row.lookups]

\* settle of a lease that still exists.
Settle(l, r) ==
    LET window == SettleWindow(l, r)
        cu == Cardinality(Uncovered(window, charged))
        ran == ~l.lookup /\ Ran(r)
        answered == ~l.lookup /\ Answered(r)
    IN  /\ now - l.at <= SettleBy
        /\ leases' = leases \ {l}
        /\ days' = [days EXCEPT ![l.day] = SettledDay(l, r, cu)]
        /\ prefixes' = IF <<l.day, l.prefix>> \in prefixRows
                       THEN [prefixes EXCEPT ![l.day][l.prefix] = SettledPrefix(l, r, cu)]
                       ELSE prefixes
        /\ charged' = IF TouchedDb(r)
                      THEN AddCharged(charged, window, now - LeaseTTL) ELSE charged
        /\ cuTotal' = cuTotal + cu
        /\ egressTotal' = egressTotal + SettleEgress(l, r)
        /\ ever' = ever \cup window
        /\ upOf' = [upOf EXCEPT ![l.day] = @ \cup (window \ ever)]
        /\ kept' = [kept EXCEPT ![l.day] = [all |-> kept[l.day].all + One(ran),
                                           heavy |-> kept[l.day].heavy + One(ran /\ l.heavy)]]
        /\ keptFor' = [keptFor EXCEPT ![l.day][l.prefix] = @ + One(answered)]
        /\ UNCHANGED <<now, prefixRows, timers, neon, poll>>

\* pollDue: traffic in the last interval, and the last attempt that old.
PollDue ==
    /\ NeonConfigured
    /\ now - lastAdmitAt <= PollInterval
    /\ now - lastPollAt >= PollInterval

\* alarm(), up to the Neon fetch or, when no poll is due, to its end.
Alarm ==
    /\ alarm # NoTime /\ now >= alarm
    /\ poll = NoTime
    /\ BookExpiry
    /\ leases' = Live
    /\ days' = PurgedDays(DaysExpired)
    /\ prefixRows' = PurgedRows(prefixRows)
    /\ prefixes' = PurgedPrefixes(PrefixesExpired)
    /\ purgedDay' = Today
    /\ IF PollDue
       THEN /\ poll' = now
            /\ lastPollAt' = now
            /\ alarmAt' = NoTime
            /\ alarm' = NoTime
       ELSE /\ LET times == WantedTimes(lastAdmitAt, lastPollAt,
                                        prefixRows' # {} \/ leases' # {})
               IN  IF times = {} THEN alarmAt' = NoTime /\ alarm' = NoTime
                   ELSE ScheduleAlarm(times, NoTime)
            /\ UNCHANGED <<lastPollAt, poll>>
    /\ UNCHANGED <<now, lastAdmitAt, neon>>

\* Fault: the handler ends without scheduling the next alarm.
PollEndsUnarmed(result) ==
    /\ poll # NoTime
    /\ neon' = result
    /\ poll' = NoTime
    /\ UNCHANGED <<now, books, timers, history>>

\* The fetch ends: pollNeon's second half on the state as it is now, and the
\* alarm handler's last step.
PollEnds(result) ==
    /\ poll # NoTime
    /\ neon' = result
    /\ poll' = NoTime
    /\ ScheduleAlarm(WantedTimes(lastAdmitAt, lastPollAt,
                                 prefixRows # {} \/ leases # {}), alarmAt)
    /\ UNCHANGED <<now, books, lastAdmitAt, lastPollAt, purgedDay, history>>

\* Fault: the bridge starts at this poll's counters.
PolledFromNow(figure) ==
    [known |-> TRUE, polledAt |-> poll,
     compute |-> figure.compute, egress |-> figure.egress,
     start |-> (poll \div PeriodLen) * PeriodLen,
     cuBase |-> cuTotal, egressBase |-> egressTotal,
     cuAtPoll |-> cuTotal, egressAtPoll |-> egressTotal]

\* Bases are the counters at the previous poll; the first poll counts the
\* day it began on again.
Polled(figure) ==
    [known |-> TRUE,
     polledAt |-> poll,
     compute |-> figure.compute,
     egress |-> figure.egress,
     start |-> (poll \div PeriodLen) * PeriodLen,
     cuBase |-> IF neon.known THEN neon.cuAtPoll
                ELSE Less(cuTotal, days[Day(poll)].cu),
     egressBase |-> IF neon.known THEN neon.egressAtPoll
                    ELSE Less(egressTotal, days[Day(poll)].egress),
     cuAtPoll |-> cuTotal,
     egressAtPoll |-> egressTotal]

PollSucceeds == \E figure \in NeonFigures : PollEnds(Polled(figure))
PollFails == PollEnds(neon)

\* The instance is evicted during the fetch: the handler did not return, so
\* the platform runs the alarm again.
PollInterrupted ==
    /\ poll # NoTime
    /\ poll' = NoTime
    /\ alarm' = IF alarm = NoTime THEN now ELSE alarm
    /\ UNCHANGED <<now, books, lastAdmitAt, lastPollAt, purgedDay, alarmAt, neon, history>>

\* The fetch is aborted after PollTimeout, so the clock waits for it then.
Tick ==
    /\ now < MaxTime
    /\ poll # NoTime => now - poll < PollTimeout
    /\ now' = now + 1
    /\ UNCHANGED <<books, timers, neon, poll, history>>

Init ==
    /\ now = 0
    /\ days = [d \in Days |-> NoDay]
    /\ prefixRows = {}
    /\ prefixes = [d \in Days |-> [p \in Prefix |-> NoPrefix]]
    /\ leases = {} /\ charged = {} /\ cuTotal = 0 /\ egressTotal = 0
    /\ lastAdmitAt = LongAgo /\ lastPollAt = LongAgo
    /\ purgedDay = NoTime /\ alarmAt = NoTime /\ alarm = NoTime
    /\ neon = NoNeon
    /\ poll = NoTime
    /\ ever = {}
    /\ upOf = [d \in Days |-> {}]
    /\ kept = [d \in Days |-> [all |-> 0, heavy |-> 0]]
    /\ keptFor = [d \in Days |-> [p \in Prefix |-> 0]]

Next ==
    \/ \E p \in Prefix, heavy \in BOOLEAN, i \in LeaseId : Admit(p, heavy, i)
    \/ \E p \in Prefix, i \in LeaseId : AdmitLookup(p, i)
    \/ \E p \in Prefix, heavy \in BOOLEAN, lookup \in BOOLEAN : Refuse(p, heavy, lookup)
    \/ \E l \in leases, r \in Reports : Settle(l, r)
    \/ Alarm
    \/ PollSucceeds
    \/ PollFails
    \/ PollInterrupted
    \/ Tick

Spec == Init /\ [][Next]_vars

\* Time passes, the platform delivers alarms and the fetch ends or times out.
\* Admissions, settles and evictions are not promised.
Fairness ==
    /\ WF_vars(Tick)
    /\ WF_vars(Alarm)
    /\ WF_vars(PollSucceeds \/ PollFails)
FairSpec == Spec /\ Fairness

-----------------------------------------------------------------------------
(* Properties. *)

\* A day's admitted and heavy counts are exactly its analyses that ran (or
\* whose lease expired) and those in flight, and a network's count exactly
\* those the API answered: a refund gives back one admission, never two and
\* never one that ran, whatever the order of settles, expiries and purges.
CountsConserved ==
    /\ \A d \in Days : d >= purgedDay - Retention =>
         /\ days[d].admitted = kept[d].all + Cardinality(Analyses(OfDay(leases, d)))
         /\ days[d].heavy = kept[d].heavy + Cardinality(Heavies(OfDay(leases, d)))
    /\ \A d \in Days, p \in Prefix : <<d, p>> \in prefixRows =>
         prefixes[d][p].count =
           keptFor[d][p] + Cardinality(Analyses(OfPrefix(leases, d, p)))

\* The analyses of a day that ran, with those still in flight, stay within the
\* global and heavy caps, and a network's of today within its own.
DailyCaps ==
    /\ \A d \in Days :
         /\ kept[d].all + Cardinality(Analyses(OfDay(leases, d))) <= GlobalAnalyses
         /\ kept[d].heavy + Cardinality(Heavies(OfDay(leases, d))) <= HeavyAnalyses
    /\ \A p \in Prefix :
         keptFor[Today][p] + Cardinality(Analyses(OfPrefix(leases, Today, p)))
           <= PrefixAnalyses

\* The counts are the promise of LeasedQuota: whatever the order of settles,
\* expiries, purges and polls, a request is admitted exactly against what ran and
\* what may still run, and refunds do not let a network ask for ever.
Promise == INSTANCE LeasedQuota
    WITH Network <- Prefix, PerNetwork <- PrefixAnalyses, AsksPerNetwork <- PrefixAdmissions,
         PerDay <- GlobalAnalyses, HeavyPerDay <- HeavyAnalyses,
         today <- Today, open <- Analyses(leases), ran <- kept, ranFor <- keptFor,
         asks <- [p \in Prefix |-> prefixes[Today][p].attempts]
QuotaKept == Promise!Spec

\* The charge model is an upper bound: neither the counter nor a day's total
\* is ever below the length of the union of the windows charged to it,
\* whatever was trimmed.
NeverUndercharged ==
    /\ Cardinality(ever) <= cuTotal
    /\ \A d \in Days : d >= purgedDay - Retention => Cardinality(upOf[d]) <= days[d].cu

\* A lease's charge goes to its network and to its day alike, so a network is
\* never charged more than its day.
DayCoversPrefixes ==
    \A d \in Days, p \in Prefix : prefixes[d][p].cu <= days[d].cu

\* Trimming forgets only what no unexpired lease can reach: every charged tick
\* from LeaseTTL ago on is still known to be charged.
HorizonKept == \A t \in ever : t >= now - LeaseTTL => t \in charged

Ceiling == Larger(CeilingConservative, CeilingTruth)

\* When every settle comes within the provisional window (the API's deadline)
\* or not at all, the time Neon was up for a day's requests stays within the
\* day's ceiling, however many were in flight together.
UptimeWithinCeiling == \A d \in Days : Cardinality(upOf[d]) <= Ceiling

\* ADR-015: the request that crosses the budget can pass it by what its settle
\* is later than the provisional window, at most LeaseTTL - Busy.
OvershootBounded ==
    \A d \in Days : Cardinality(upOf[d]) <= Ceiling + (LeaseTTL - Busy)

\* While a prefix row or a lease exists, an alarm is pending no later than the
\* next midnight, or the alarm handler is running.
PurgeArmed ==
    prefixRows # {} \/ leases # {} =>
      \/ poll # NoTime
      \/ alarm # NoTime /\ alarm <= NextMidnight(now)

\* The alarm the object believes is pending is the one the platform holds.
AlarmBelieved == alarmAt >= now => alarm = alarmAt

\* What is booked while a poll is in flight is in the counters it ends with, and
\* the idle tails of that reach past the next poll by this much at most.
BridgeSlack == Larger(0, PollTimeout + Tail - PollInterval)

\* Neon's figure can be missing only time from the poll on: the charges the
\* bridge adds to it (those since the poll before) cover every tick of uptime
\* from the moment it was read that the requests of that day paid for, up to
\* BridgeSlack.  (The first poll counts that one day's charges only.)
BridgeUptime == {t \in upOf[Day(neon.polledAt)] : t >= neon.polledAt}
BridgeCoversUptime ==
    neon.known => Cardinality(BridgeUptime) <= cuTotal - neon.cuBase + BridgeSlack

\* Once a day's purge has run, no row of an earlier day comes back.
PurgeFinal == \A r \in prefixRows : r[1] >= purgedDay

\* The prefix rows of a day are deleted in the end, with or without traffic
\* (of every day that has two midnights after it before the clock's bound).
OldRowsGoAway ==
    \A d \in Days :
        (Today > d /\ (d + 2) * DayLen <= MaxTime)
          ~> (\A r \in prefixRows : r[1] # d)

\* governor.ts: "a midnight alarm makes sure that happens even without traffic".
\* While a past day's prefix row is left, the alarm that deletes it is due or
\* its handler is running.
MidnightAlarm ==
    (\E r \in prefixRows : r[1] < Today) =>
        poll # NoTime \/ (alarm # NoTime /\ alarm <= now)

\* The inductive invariant behind the charge properties: what is still known to
\* be charged was charged, and no purge ran for a day that has not begun.
ChargeInv ==
    /\ TypeOK
    /\ charged \subseteq ever
    /\ purgedDay <= Today
    /\ NeverUndercharged
    /\ HorizonKept
    /\ DayCoversPrefixes
    /\ PurgeFinal

\* The inductive invariant behind the count properties: of the days not purged
\* a network's count is its analyses answered or in flight whether or not it
\* has a row yet, and a lease's row outlives the lease up to its day's purge.
CountsInv ==
    /\ CountsConserved
    /\ DailyCaps
    /\ \A d \in Days, p \in Prefix :
         /\ d >= purgedDay =>
              prefixes[d][p].count =
                keptFor[d][p] + Cardinality(Analyses(OfPrefix(leases, d, p)))
         /\ keptFor[d][p] + Cardinality(Analyses(OfPrefix(leases, d, p)))
              <= PrefixAnalyses
    /\ \A l \in leases : l.day >= purgedDay => <<l.day, l.prefix>> \in prefixRows

\* A network's admissions of a day begin at none.
AsksInv == \A d \in Days, p \in Prefix : d > Today => prefixes[d][p].attempts = 0

\* The inductive invariant behind BridgeCoversUptime: charges reach no further
\* than an idle tail ahead, polls are an interval apart and end by their
\* timeout, and what a poll ends with covers the time from its tails on.
BridgeInv ==
    /\ \A t \in ever : t < now + Tail
    /\ \A d \in Days : upOf[d] \subseteq ever
    /\ lastPollAt <= now
    /\ poll # NoTime => poll = lastPollAt /\ now - poll <= PollTimeout
    /\ neon.known =>
         /\ neon.polledAt <= lastPollAt
         /\ poll # NoTime => neon.polledAt + PollInterval <= poll
         /\ Cardinality({t \in ever : t >= neon.polledAt + PollTimeout + Tail})
              <= cuTotal - neon.cuAtPoll
    /\ BridgeCoversUptime

\* The inductive invariant behind UptimeWithinCeiling: so does the time a day
\* has paid for with what its leases are assumed to add.
UptimeInv ==
    \A d \in Days :
        /\ upOf[d] \subseteq ever
        /\ Cardinality(upOf[d] \cup (UpTime(OfDay(leases, d)) \ ever)) <= Ceiling
=============================================================================

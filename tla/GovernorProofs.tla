--------------------------- MODULE GovernorProofs ---------------------------
(***************************************************************************)
(* Theorems about the quota governor, for every value of the constants.    *)
(***************************************************************************)
EXTENDS Governor, TLAPS, FiniteSetTheorems

-----------------------------------------------------------------------------
(* Arithmetic: days grow with time. *)

LEMMA DivFact ==
    ASSUME NEW a \in Nat, NEW n \in Nat \ {0}
    PROVE  /\ a \div n \in Nat
           /\ n * (a \div n) <= a
           /\ a < n * (a \div n) + n
BY Z3

LEMMA DivMono ==
    ASSUME NEW n \in Nat \ {0}, NEW a \in Nat, NEW b \in Nat, a <= b
    PROVE  a \div n <= b \div n
<1> DEFINE p == a \div n
           q == b \div n
<1>1. /\ p \in Nat /\ n * p <= a
      /\ q \in Nat /\ b < n * q + n
  BY DivFact
<1> HIDE DEF p, q
<1>2. SUFFICES ASSUME q < p PROVE FALSE
  BY <1>1 DEF p, q
<1>3. n * (q + 1) <= n * p
  <2>1. PICK k \in Nat : p = q + 1 + k
    BY <1>1, <1>2
  <2>2. n * p = n * (q + 1) + n * k
    BY <2>1, <1>1
  <2>3. n * k \in Nat
    BY <2>1
  <2> QED BY <1>1, <2>2, <2>3
<1>4. n * (q + 1) = n * q + n
  BY <1>1
<1> QED BY <1>1, <1>3, <1>4

LEMMA DayMono ==
    ASSUME NEW s \in 0 .. MaxTime, NEW t \in 0 .. MaxTime, s <= t
    PROVE  Day(s) <= Day(t) /\ Day(s) \in Days /\ Day(t) \in Days
<1>1. DayLen \in Nat \ {0} /\ MaxTime \in Nat
  BY BudgetConstants, GovernorConstants
<1>2. Day(s) \in Nat /\ Day(t) \in Nat /\ Day(MaxTime) \in Nat
  BY <1>1, DivFact DEF Day
<1>3. Day(s) <= Day(t) /\ Day(t) <= Day(MaxTime)
  BY <1>1, DivMono DEF Day
<1> QED BY <1>2, <1>3 DEF Days

-----------------------------------------------------------------------------
(* Sets of ticks. *)

LEMMA TicksFinite ==
    ASSUME NEW S \in SUBSET Ticks
    PROVE  IsFiniteSet(S) /\ Cardinality(S) \in Nat
<1>1. IsFiniteSet(Ticks)
  BY BudgetConstants, GovernorConstants, FS_Interval DEF Ticks
<1> QED BY <1>1, FS_Subset, FS_CardinalityType

LEMMA UpTimeTicks ==
    ASSUME TypeOK, NEW S \in SUBSET leases
    PROVE  UpTime(S) \in SUBSET Ticks
BY BudgetConstants, GovernorConstants
   DEF TypeOK, Lease, UpTime, Provisional, Window, Ticks

\* What AddCharged keeps was charged before or is the new window, and what it
\* drops ended before keepAfter.
LEMMA AddChargedKeeps ==
    ASSUME NEW C \in SUBSET Ticks, NEW W \in SUBSET Ticks, NEW k \in Int
    PROVE  /\ AddCharged(C, W, k) \subseteq C \cup W
           /\ \A t \in C \cup W : t >= k => t \in AddCharged(C, W, k)
<1>1. \A t \in Ticks : t .. t = {t}
  BY BudgetConstants, GovernorConstants DEF Ticks
<1> QED BY <1>1 DEF AddCharged, KeepAfter, Ticks

\* A union grows by no more than what is new to a smaller set.
LEMMA UnionGrows ==
    ASSUME NEW E \in SUBSET Ticks, NEW C \in SUBSET E, NEW W \in SUBSET Ticks
    PROVE  Cardinality(E \cup W) <= Cardinality(E) + Cardinality(Uncovered(W, C))
<1>1. /\ IsFiniteSet(E) /\ IsFiniteSet(W \ C) /\ IsFiniteSet(W \ E)
      /\ Cardinality(E) \in Nat /\ Cardinality(W \ C) \in Nat
      /\ Cardinality(W \ E) \in Nat
  BY TicksFinite
<1>2. E \cup W = E \cup (W \ E) /\ E \cap (W \ E) = {}
  OBVIOUS
<1>3. Cardinality(E \cup W) = Cardinality(E) + Cardinality(W \ E)
  BY <1>1, <1>2, FS_Union, FS_EmptySet
<1>4. Cardinality(W \ E) <= Cardinality(W \ C)
  BY <1>1, FS_Subset
<1> QED BY <1>1, <1>3, <1>4 DEF Uncovered

-----------------------------------------------------------------------------
(* Types. *)

LEMMA TodayIsADay ==
    ASSUME TypeOK
    PROVE  Today \in Days
BY DayMono DEF TypeOK, Today

LEMMA EgressType ==
    ASSUME NEW S, IsFiniteSet(S)
    PROVE  EgressOf(S) \in Nat
<1> DEFINE A == {l \in S : ~l.lookup /\ ~l.heavy}
           B == {l \in S : ~l.lookup /\ l.heavy}
           C == {l \in S : l.lookup}
<1>1. Cardinality(A) \in Nat /\ Cardinality(B) \in Nat /\ Cardinality(C) \in Nat
  BY FS_Subset, FS_CardinalityType
<1>2. LightEgress \in Nat /\ HeavyEgress \in Nat /\ LookupEgress \in Nat
  BY GovernorConstants
<1> HIDE DEF A, B, C
<1>3. /\ LightEgress * Cardinality(A) \in Nat
      /\ HeavyEgress * Cardinality(B) \in Nat
      /\ LookupEgress * Cardinality(C) \in Nat
  BY <1>1, <1>2
<1> QED BY <1>3 DEF EgressOf, A, B, C

LEMMA ExpiryAddsTicks ==
    ASSUME TypeOK, NEW S \in SUBSET Stale
    PROVE  /\ ExpiryAddsAll(S) \in SUBSET Ticks
           /\ ExpiryAddsAll(S) \subseteq UpTime(Stale)
           /\ ExpiryAddsAll(S) \subseteq UpTime(S)
           /\ Cardinality(ExpiryAddsAll(S)) \in Nat
<1>1. ExpiryAddsAll(S) \subseteq UpTime(S) /\ UpTime(S) \subseteq UpTime(Stale)
  BY DEF ExpiryAddsAll, ExpiryAdds, Uncovered, UpTime
<1>2. UpTime(Stale) \in SUBSET Ticks
  BY UpTimeTicks DEF Stale
<1> QED BY <1>1, <1>2, TicksFinite

LEMMA LeaseCounts ==
    ASSUME TypeOK, NEW S \in SUBSET leases
    PROVE  /\ IsFiniteSet(S)
           /\ Cardinality(Analyses(S)) \in Nat
           /\ Cardinality(Heavies(S)) \in Nat
<1>1. IsFiniteSet(S)
  BY FS_Subset DEF TypeOK
<1> QED BY <1>1, FS_Subset, FS_CardinalityType DEF Analyses, Heavies

LEMMA DayRowGrows ==
    ASSUME NEW row \in DayRow, NEW a \in Nat, NEW b \in Nat
    PROVE  [row EXCEPT !.cu = @ + a, !.egress = @ + b] \in DayRow
<1>1. [row EXCEPT !.cu = @ + a] \in DayRow
  BY DEF DayRow
<1>2. ASSUME NEW r \in DayRow
      PROVE  [r EXCEPT !.egress = row.egress + b] \in DayRow
  BY DEF DayRow
<1> QED BY <1>1, <1>2

LEMMA PrefixRowGrows ==
    ASSUME NEW row \in PrefixRow, NEW a \in Nat
    PROVE  [row EXCEPT !.cu = @ + a] \in PrefixRow
BY DEF PrefixRow

\* The books after an expiry have the types of the books.
LEMMA ExpiryType ==
    ASSUME TypeOK
    PROVE  /\ DaysExpired \in [Days -> DayRow]
           /\ PrefixesExpired \in [Days -> [Prefix -> PrefixRow]]
           /\ ChargedExpired \in SUBSET Ticks
           /\ CuTotalExpired \in Nat
           /\ EgressTotalExpired \in Nat
           /\ ever \cup UpTime(Stale) \in SUBSET Ticks
           /\ UpOfExpired \in [Days -> SUBSET Ticks]
           /\ KeptExpired \in [Days -> [all : Nat, heavy : Nat]]
           /\ KeptForExpired \in [Days -> [Prefix -> Nat]]
<1>1. Stale \in SUBSET leases
  BY DEF Stale
<1>2. UpTime(Stale) \in SUBSET Ticks
  BY <1>1, UpTimeTicks
<1>3. ASSUME NEW d \in Days
      PROVE  /\ OfDay(Stale, d) \in SUBSET Stale
             /\ Cardinality(ExpiryAddsAll(OfDay(Stale, d))) \in Nat
             /\ ExpiryAddsAll(OfDay(Stale, d)) \in SUBSET Ticks
             /\ EgressOf(OfDay(Stale, d)) \in Nat
             /\ Cardinality(Analyses(OfDay(Stale, d))) \in Nat
             /\ Cardinality(Heavies(OfDay(Stale, d))) \in Nat
  <2>1. OfDay(Stale, d) \in SUBSET Stale
    BY DEF OfDay
  <2> QED BY <1>1, <2>1, ExpiryAddsTicks, EgressType, LeaseCounts
<1>4. ASSUME NEW d \in Days, NEW p \in Prefix
      PROVE  /\ Cardinality(ExpiryAddsAll(OfPrefix(Stale, d, p))) \in Nat
             /\ Cardinality(Analyses(OfPrefix(Stale, d, p))) \in Nat
  <2>1. OfPrefix(Stale, d, p) \in SUBSET Stale
    BY DEF OfPrefix
  <2> QED BY <1>1, <2>1, ExpiryAddsTicks, LeaseCounts
<1>5. DaysExpired \in [Days -> DayRow]
  BY <1>3, DayRowGrows DEF TypeOK, DaysExpired
<1>6. PrefixesExpired \in [Days -> [Prefix -> PrefixRow]]
  BY <1>4, PrefixRowGrows DEF TypeOK, PrefixesExpired
<1>7. ChargedExpired \in SUBSET Ticks
  BY <1>2 DEF TypeOK, ChargedExpired, AddCharged, KeepAfter
<1>8. CuTotalExpired \in Nat /\ EgressTotalExpired \in Nat
  <2>1. Uncovered(UpTime(Stale), charged) \in SUBSET Ticks
    BY <1>2 DEF Uncovered
  <2>2. EgressOf(Stale) \in Nat
    BY <1>1, EgressType, LeaseCounts
  <2> QED BY <2>1, <2>2, TicksFinite DEF TypeOK, CuTotalExpired, EgressTotalExpired
<1>9. UpOfExpired \in [Days -> SUBSET Ticks]
  BY <1>3 DEF TypeOK, UpOfExpired
<1>10. KeptExpired \in [Days -> [all : Nat, heavy : Nat]]
  BY <1>3 DEF TypeOK, KeptExpired
<1>11. KeptForExpired \in [Days -> [Prefix -> Nat]]
  BY <1>4 DEF TypeOK, KeptForExpired
<1> QED BY <1>2, <1>5, <1>6, <1>7, <1>8, <1>9, <1>10, <1>11 DEF TypeOK

LEMMA NextMidnightType ==
    ASSUME NEW t \in Nat
    PROVE  NextMidnight(t) \in Nat
<1> DEFINE d == t \div DayLen
<1>1. d \in Nat
  BY BudgetConstants, DivFact
<1> HIDE DEF d
<1>2. (d + 1) * DayLen \in Nat
  BY <1>1, BudgetConstants
<1> QED BY <1>2 DEF NextMidnight, d

\* Two times at most: a minimum exists without induction.
LEMMA EarliestType ==
    ASSUME TypeOK, NEW admitAt \in Int, NEW pollAt \in Int, NEW pending \in BOOLEAN,
           WantedTimes(admitAt, pollAt, pending) # {}
    PROVE  (CHOOSE t \in WantedTimes(admitAt, pollAt, pending) :
              \A w \in WantedTimes(admitAt, pollAt, pending) : t <= w) \in Int
<1> DEFINE u == Larger(now, pollAt + PollInterval)
           v == NextMidnight(now)
           T == WantedTimes(admitAt, pollAt, pending)
<1>1. now \in Nat
  BY GovernorConstants DEF TypeOK
<1>2. u \in Int /\ v \in Int
  BY <1>1, GovernorConstants, NextMidnightType DEF Larger
<1>3. T = {u} \/ T = {v} \/ T = {u, v}
  BY DEF WantedTimes
<1> HIDE DEF u, v, T
<1>4. \E t \in T : \A w \in T : t <= w
  BY <1>2, <1>3
<1>5. T \in SUBSET Int
  BY <1>2, <1>3
<1>6. (CHOOSE t \in T : \A w \in T : t <= w) \in T
  BY <1>4
<1> QED BY <1>5, <1>6 DEF T

LEMMA ScheduleType ==
    ASSUME TypeOK, NEW admitAt \in Int, NEW pollAt \in Int, NEW pending \in BOOLEAN,
           NEW current \in Int,
           ScheduleAlarm(WantedTimes(admitAt, pollAt, pending), current)
    PROVE  alarmAt' \in Int /\ alarm' \in Int
<1> DEFINE T == WantedTimes(admitAt, pollAt, pending)
           earliest == CHOOSE t \in T : \A w \in T : t <= w
<1>1. T # {} => earliest \in Int
  BY EarliestType
<1>2. \/ alarmAt' = current /\ alarm' = alarm
      \/ T # {} /\ alarmAt' = earliest /\ alarm' = earliest
  BY DEF ScheduleAlarm
<1> QED BY <1>1, <1>2 DEF TypeOK

LEMMA PurgedTypes ==
    ASSUME TypeOK,
           NEW D \in [Days -> DayRow], NEW P \in [Days -> [Prefix -> PrefixRow]],
           NEW R \in SUBSET (Days \X Prefix)
    PROVE  /\ PurgedDays(D) \in [Days -> DayRow]
           /\ PurgedPrefixes(P) \in [Days -> [Prefix -> PrefixRow]]
           /\ PurgedRows(R) \in SUBSET (Days \X Prefix)
<1>1. NoDay \in DayRow /\ NoPrefix \in PrefixRow
  BY DEF NoDay, DayRow, NoPrefix, PrefixRow
<1> QED BY <1>1 DEF PurgedDays, PurgedPrefixes, PurgedRows

\* The empty tables and the initial state have their types.
LEMMA InitType == Init => TypeOK
<1> SUFFICES ASSUME Init PROVE TypeOK
  OBVIOUS
<1> USE BudgetConstants, GovernorConstants
<1>1. LongAgo \in Int /\ NoTime \in Int
  BY DEF LongAgo, NoTime
<1>2. NoDay \in DayRow /\ NoPrefix \in PrefixRow /\ NoNeon \in Neon
  BY DEF NoDay, DayRow, NoPrefix, PrefixRow, NoNeon, Neon
<1>3. IsFiniteSet({})
  BY FS_EmptySet
<1> QED BY <1>1, <1>2, <1>3 DEF Init, TypeOK

LEMMA BookExpiryType ==
    ASSUME TypeOK, BookExpiry
    PROVE  /\ charged' \in SUBSET Ticks /\ cuTotal' \in Nat /\ egressTotal' \in Nat
           /\ ever' \in SUBSET Ticks /\ upOf' \in [Days -> SUBSET Ticks]
           /\ kept' \in [Days -> [all : Nat, heavy : Nat]]
           /\ keptFor' \in [Days -> [Prefix -> Nat]]
BY ExpiryType DEF BookExpiry

LEMMA LiveType ==
    ASSUME TypeOK
    PROVE  /\ Live \in SUBSET leases /\ Live \in SUBSET Lease
           /\ IsFiniteSet(Live)
BY FS_Subset DEF Live, TypeOK

LEMMA OneType ==
    ASSUME NEW c
    PROVE  One(c) \in Nat
BY DEF One

LEMMA GrantType ==
    ASSUME TypeOK, NEW l \in Lease, NEW dayRow \in DayRow, NEW prefixRow \in PrefixRow,
           NEW admitAt \in Int, Grant(l, dayRow, prefixRow, admitAt)
    PROVE  TypeOK'
<1>1. /\ charged' \in SUBSET Ticks /\ cuTotal' \in Nat /\ egressTotal' \in Nat
      /\ ever' \in SUBSET Ticks /\ upOf' \in [Days -> SUBSET Ticks]
      /\ kept' \in [Days -> [all : Nat, heavy : Nat]]
      /\ keptFor' \in [Days -> [Prefix -> Nat]]
  BY BookExpiryType DEF Grant
<1>2. leases' \in SUBSET Lease /\ IsFiniteSet(leases')
  BY LiveType, FS_AddElement DEF Grant
<1>3. [DaysExpired EXCEPT ![Today] = dayRow] \in [Days -> DayRow]
  BY ExpiryType
<1>4. [PrefixesExpired EXCEPT ![Today][l.prefix] = prefixRow]
        \in [Days -> [Prefix -> PrefixRow]]
  BY ExpiryType
<1>5. prefixRows \cup {<<Today, l.prefix>>} \in SUBSET (Days \X Prefix)
  BY TodayIsADay DEF Lease, TypeOK
<1>6. /\ days' \in [Days -> DayRow]
      /\ prefixes' \in [Days -> [Prefix -> PrefixRow]]
      /\ prefixRows' \in SUBSET (Days \X Prefix)
  <2> DEFINE D == [DaysExpired EXCEPT ![Today] = dayRow]
             P == [PrefixesExpired EXCEPT ![Today][l.prefix] = prefixRow]
             R == prefixRows \cup {<<Today, l.prefix>>}
  <2>1. /\ days' = PurgedDays(D)
        /\ prefixes' = PurgedPrefixes(P)
        /\ prefixRows' = PurgedRows(R)
    BY DEF Grant
  <2>2. /\ D \in [Days -> DayRow]
        /\ P \in [Days -> [Prefix -> PrefixRow]]
        /\ R \in SUBSET (Days \X Prefix)
    BY <1>3, <1>4, <1>5
  <2> HIDE DEF D, P, R
  <2> QED BY <2>1, <2>2, PurgedTypes
<1>7. alarmAt' \in Int /\ alarm' \in Int
  BY ScheduleType DEF Grant, TypeOK
<1>8. purgedDay' \in Int /\ lastAdmitAt' \in Int
  BY TodayIsADay DEF Grant, Days
<1> QED BY <1>1, <1>2, <1>6, <1>7, <1>8 DEF Grant, TypeOK

LEMMA AdmitType ==
    ASSUME TypeOK, NEW p \in Prefix, NEW heavy \in BOOLEAN, NEW i \in LeaseId,
           Admit(p, heavy, i)
    PROVE  TypeOK'
<1> DEFINE day == DaysExpired[Today]
           row == PrefixesExpired[Today][p]
           l == [id |-> i, day |-> Today, prefix |-> p, heavy |-> heavy,
                 lookup |-> FALSE, at |-> now]
           dayRow == [day EXCEPT !.admitted = @ + 1,
                                 !.heavy = @ + One(heavy)]
           prefixRow == [row EXCEPT !.count = @ + 1, !.attempts = @ + 1]
<1>1. day \in DayRow /\ row \in PrefixRow
  BY ExpiryType, TodayIsADay
<1>2. l \in Lease
  BY TodayIsADay DEF Lease, TypeOK
<1>3. now \in Int
  BY DEF TypeOK
<1>4. Grant(l, dayRow, prefixRow, now)
  BY DEF Admit
<1> HIDE DEF day, row, l
<1>5. dayRow \in DayRow
  <2>1. [day EXCEPT !.admitted = @ + 1] \in DayRow
    BY <1>1 DEF DayRow
  <2>2. ASSUME NEW r \in DayRow, NEW n \in Nat
        PROVE  [r EXCEPT !.heavy = n] \in DayRow
    BY DEF DayRow
  <2>3. day.heavy + One(heavy) \in Nat
    BY <1>1, OneType DEF DayRow
  <2> QED BY <2>1, <2>2, <2>3
<1>6. prefixRow \in PrefixRow
  <2>1. [row EXCEPT !.count = @ + 1] \in PrefixRow
    BY <1>1 DEF PrefixRow
  <2>2. ASSUME NEW r \in PrefixRow, NEW n \in Nat
        PROVE  [r EXCEPT !.attempts = n] \in PrefixRow
    BY DEF PrefixRow
  <2>3. row.attempts + 1 \in Nat
    BY <1>1 DEF PrefixRow
  <2> QED BY <2>1, <2>2, <2>3
<1> HIDE DEF dayRow, prefixRow
<1> QED BY <1>2, <1>3, <1>4, <1>5, <1>6, GrantType

LEMMA AdmitLookupType ==
    ASSUME TypeOK, NEW p \in Prefix, NEW i \in LeaseId, AdmitLookup(p, i)
    PROVE  TypeOK'
<1> DEFINE day == DaysExpired[Today]
           row == PrefixesExpired[Today][p]
           l == [id |-> i, day |-> Today, prefix |-> p, heavy |-> FALSE,
                 lookup |-> TRUE, at |-> now]
           dayRow == [day EXCEPT !.lookups = @ + 1]
           prefixRow == [row EXCEPT !.lookups = @ + 1]
<1>1. day \in DayRow /\ row \in PrefixRow
  BY ExpiryType, TodayIsADay
<1>2. l \in Lease
  BY TodayIsADay DEF Lease, TypeOK
<1>3. lastAdmitAt \in Int
  BY DEF TypeOK
<1>4. Grant(l, dayRow, prefixRow, lastAdmitAt)
  BY DEF AdmitLookup
<1> HIDE DEF day, row, l
<1>5. dayRow \in DayRow
  BY <1>1 DEF DayRow
<1>6. prefixRow \in PrefixRow
  BY <1>1 DEF PrefixRow
<1> HIDE DEF dayRow, prefixRow
<1> QED BY <1>2, <1>3, <1>4, <1>5, <1>6, GrantType

LEMMA RefuseType ==
    ASSUME TypeOK, NEW p \in Prefix, NEW heavy \in BOOLEAN, NEW lookup \in BOOLEAN,
           Refuse(p, heavy, lookup)
    PROVE  TypeOK'
<1>1. leases' \in SUBSET Lease /\ IsFiniteSet(leases')
  BY LiveType DEF Refuse
<1>2. days' \in [Days -> DayRow] /\ prefixes' \in [Days -> [Prefix -> PrefixRow]]
  BY ExpiryType DEF Refuse
<1>3. BookExpiry
  BY DEF Refuse
<1> QED BY <1>1, <1>2, <1>3, BookExpiryType DEF Refuse, TypeOK, timers

\* The window a settle charges is a set of ticks.
LEMMA SettleWindowTicks ==
    ASSUME TypeOK, NEW l \in leases, NEW db \in Nat \cup {Unreported}
    PROVE  Window(DbStart(l.at, now, db), now) \in SUBSET Ticks
<1>1. l.at \in Nat /\ now \in 0 .. MaxTime
  BY GovernorConstants DEF TypeOK, Lease
<1>2. DbStart(l.at, now, db) \in Nat
  BY <1>1, BudgetConstants DEF DbStart, Larger, Unreported
<1> QED BY <1>1, <1>2, BudgetConstants, GovernorConstants DEF Window, Ticks

LEMMA ReportDb ==
    ASSUME NEW r \in Reports
    PROVE  r.db \in Nat \cup {Unreported}
<1>1. CASE r = [kind |-> "not_reached", db |-> Unreported]
  BY <1>1
<1>2. CASE r \in [kind : {"shed", "rejected", "reused", "computed"},
                 db : DbTimes \cup {Unreported}]
  BY <1>2, GovernorConstants
<1> QED BY <1>1, <1>2 DEF Reports

LEMMA LessType ==
    ASSUME NEW n \in Nat, NEW k \in Nat
    PROVE  Less(n, k) \in Nat /\ Less(n, k) <= n
BY DEF Less, Larger

\* Of what was counted as kept and as leased, what is given back is leased no more.
LEMMA LessBack ==
    ASSUME NEW n \in Nat, NEW k \in Nat, NEW m \in Nat, NEW back \in Nat, NEW stay \in Nat
    PROVE  /\ n = k + (m + (back + stay)) => Less(n, back) = (k + stay) + m
           /\ (k + stay) + m <= k + (m + (back + stay))
<1>1. (k + stay) + m <= k + (m + (back + stay))
  OBVIOUS
<1>2. ASSUME n = k + (m + (back + stay)) PROVE Less(n, back) = (k + stay) + m
  <2>1. n - back = (k + stay) + m
    BY <1>2
  <2> QED BY <2>1 DEF Less, Larger
<1> QED BY <1>1, <1>2

LEMMA SettleType ==
    ASSUME TypeOK, NEW l \in leases, NEW r \in Reports, Settle(l, r)
    PROVE  TypeOK'
<1> DEFINE window == SettleWindow(l, r)
           cu == Cardinality(Uncovered(window, charged))
           dayRow == SettledDay(l, r, cu)
           prefixRow == SettledPrefix(l, r, cu)
<1>1. l \in Lease /\ l.day \in Days /\ l.prefix \in Prefix
  BY DEF TypeOK, Lease
<1>2. window \in SUBSET Ticks
  BY SettleWindowTicks, ReportDb DEF SettleWindow
<1>3. cu \in Nat
  BY <1>2, TicksFinite DEF Uncovered
<1>4. SettleEgress(l, r) \in Nat
  BY EgressType, FS_Singleton DEF SettleEgress
<1>5. days[l.day] \in DayRow /\ prefixes[l.day][l.prefix] \in PrefixRow
  BY <1>1 DEF TypeOK
<1>6. /\ leases' = leases \ {l}
      /\ days' = [days EXCEPT ![l.day] = dayRow]
      /\ prefixes' = IF <<l.day, l.prefix>> \in prefixRows
                     THEN [prefixes EXCEPT ![l.day][l.prefix] = prefixRow]
                     ELSE prefixes
      /\ charged' = IF TouchedDb(r)
                    THEN AddCharged(charged, window, now - LeaseTTL) ELSE charged
      /\ cuTotal' = cuTotal + cu
      /\ egressTotal' = egressTotal + SettleEgress(l, r)
      /\ ever' = ever \cup window
      /\ upOf' = [upOf EXCEPT ![l.day] = @ \cup (window \ ever)]
      /\ UNCHANGED <<now, prefixRows, timers, neon, poll>>
  BY DEF Settle
<1>7. kept' \in [Days -> [all : Nat, heavy : Nat]]
  <2> DEFINE row == [all |-> kept[l.day].all + One(~l.lookup /\ Ran(r)),
                     heavy |-> kept[l.day].heavy + One((~l.lookup /\ Ran(r)) /\ l.heavy)]
  <2>1. kept' = [kept EXCEPT ![l.day] = row]
    BY DEF Settle
  <2>2. row \in [all : Nat, heavy : Nat]
    BY <1>1, OneType DEF TypeOK
  <2> HIDE DEF row
  <2> QED BY <1>1, <2>1, <2>2 DEF TypeOK
<1>8. keptFor' \in [Days -> [Prefix -> Nat]]
  <2>1. PICK n \in Nat : keptFor' = [keptFor EXCEPT ![l.day][l.prefix] = @ + n]
    BY OneType DEF Settle
  <2> QED BY <1>1, <2>1 DEF TypeOK
<1>9. dayRow \in DayRow
  <2> DEFINE row == days[l.day]
             refund == One(RefundsCounts(l, r))
             heavy == One(RefundsCounts(l, r) /\ l.heavy)
             bytes == SettleEgress(l, r)
  <2>1. dayRow = [admitted |-> Less(row.admitted, refund), heavy |-> Less(row.heavy, heavy),
                  cu |-> row.cu + cu, egress |-> row.egress + bytes,
                  lookups |-> row.lookups]
    BY DEF SettledDay
  <2>2. row \in DayRow /\ refund \in Nat /\ heavy \in Nat /\ bytes \in Nat
    BY <1>4, <1>5, OneType
  <2> HIDE DEF row, refund, heavy, bytes, cu, dayRow
  <2>3. /\ row.admitted \in Nat /\ row.heavy \in Nat
        /\ row.cu + cu \in Nat /\ row.egress + bytes \in Nat /\ row.lookups \in Nat
    BY <1>3, <2>2 DEF DayRow
  <2>4. Less(row.admitted, refund) \in Nat /\ Less(row.heavy, heavy) \in Nat
    BY <2>2, <2>3, LessType
  <2> QED BY <2>1, <2>3, <2>4 DEF DayRow
<1>10. prefixRow \in PrefixRow
  <2> DEFINE row == prefixes[l.day][l.prefix]
             back == One(RefundsPrefix(l, r))
  <2>1. prefixRow = [count |-> Less(row.count, back), attempts |-> row.attempts,
                     cu |-> row.cu + cu, lookups |-> row.lookups]
    BY DEF SettledPrefix
  <2>2. row \in PrefixRow /\ back \in Nat
    BY <1>5, OneType
  <2> HIDE DEF row, back, cu, prefixRow
  <2>3. /\ row.count \in Nat /\ row.attempts \in Nat
        /\ row.cu + cu \in Nat /\ row.lookups \in Nat
    BY <1>3, <2>2 DEF PrefixRow
  <2>4. Less(row.count, back) \in Nat
    BY <2>2, <2>3, LessType
  <2> QED BY <2>1, <2>3, <2>4 DEF PrefixRow
<1> HIDE DEF window, cu, dayRow, prefixRow
<1>11. /\ days' \in [Days -> DayRow]
       /\ prefixes' \in [Days -> [Prefix -> PrefixRow]]
  BY <1>1, <1>6, <1>9, <1>10 DEF TypeOK
<1>12. leases' \in SUBSET Lease /\ IsFiniteSet(leases')
  BY <1>6, FS_RemoveElement DEF TypeOK
<1>13. charged' \in SUBSET Ticks /\ ever' \in SUBSET Ticks
  BY <1>2, <1>6 DEF TypeOK, AddCharged, KeepAfter
<1>14. upOf' \in [Days -> SUBSET Ticks]
  BY <1>2, <1>6 DEF TypeOK
<1> QED BY <1>3, <1>4, <1>6, <1>7, <1>8, <1>11, <1>12, <1>13, <1>14 DEF TypeOK, timers

LEMMA AlarmType ==
    ASSUME TypeOK, Alarm
    PROVE  TypeOK'
<1>1. /\ charged' \in SUBSET Ticks /\ cuTotal' \in Nat /\ egressTotal' \in Nat
      /\ ever' \in SUBSET Ticks /\ upOf' \in [Days -> SUBSET Ticks]
      /\ kept' \in [Days -> [all : Nat, heavy : Nat]]
      /\ keptFor' \in [Days -> [Prefix -> Nat]]
  BY BookExpiryType DEF Alarm
<1>2. leases' \in SUBSET Lease /\ IsFiniteSet(leases')
  BY LiveType DEF Alarm
<1>3. /\ days' \in [Days -> DayRow]
      /\ prefixes' \in [Days -> [Prefix -> PrefixRow]]
      /\ prefixRows' \in SUBSET (Days \X Prefix)
  <2>1. /\ days' = PurgedDays(DaysExpired)
        /\ prefixes' = PurgedPrefixes(PrefixesExpired)
        /\ prefixRows' = PurgedRows(prefixRows)
    BY DEF Alarm
  <2>2. prefixRows \in SUBSET (Days \X Prefix)
    BY DEF TypeOK
  <2> QED BY <2>1, <2>2, ExpiryType, PurgedTypes
<1>4. NoTime \in Int /\ now \in 0 .. MaxTime /\ now \in Int
  BY DEF NoTime, TypeOK
<1>5. /\ alarmAt' \in Int /\ alarm' \in Int
      /\ lastPollAt' \in Int /\ poll' \in {NoTime} \cup 0 .. MaxTime
  <2>1. CASE PollDue
    BY <1>4, <2>1 DEF Alarm
  <2>2. CASE ~PollDue
    <3> DEFINE pending == prefixRows' # {} \/ leases' # {}
               times == WantedTimes(lastAdmitAt, lastPollAt, pending)
    <3>1. /\ lastPollAt' = lastPollAt /\ poll' = poll
          /\ \/ alarmAt' = NoTime /\ alarm' = NoTime
             \/ ScheduleAlarm(times, NoTime)
      BY <2>2 DEF Alarm
    <3>2. pending \in BOOLEAN
      OBVIOUS
    <3> HIDE DEF pending
    <3>3. alarmAt' \in Int /\ alarm' \in Int
      BY <1>4, <3>1, <3>2, ScheduleType DEF TypeOK
    <3> QED BY <3>1, <3>3 DEF TypeOK
  <2> QED BY <2>1, <2>2
<1>6. purgedDay' \in Int
  BY TodayIsADay DEF Alarm, Days
<1> QED BY <1>1, <1>2, <1>3, <1>5, <1>6 DEF Alarm, TypeOK

LEMMA PollEndsType ==
    ASSUME TypeOK, NEW result \in Neon, PollEnds(result)
    PROVE  TypeOK'
<1>1. alarmAt' \in Int /\ alarm' \in Int
  <2> DEFINE pending == prefixRows # {} \/ leases # {}
  <2>1. ScheduleAlarm(WantedTimes(lastAdmitAt, lastPollAt, pending), alarmAt)
    BY DEF PollEnds
  <2>2. pending \in BOOLEAN
    OBVIOUS
  <2> HIDE DEF pending
  <2> QED BY <2>1, <2>2, ScheduleType DEF TypeOK
<1> QED BY <1>1 DEF PollEnds, TypeOK, books, history

LEMMA PolledType ==
    ASSUME TypeOK, poll # NoTime, NEW figure \in NeonFigures
    PROVE  Polled(figure) \in Neon
<1> DEFINE start == (poll \div PeriodLen) * PeriodLen
           cuBase == IF neon.known THEN neon.cuAtPoll
                     ELSE Less(cuTotal, days[Day(poll)].cu)
           egressBase == IF neon.known THEN neon.egressAtPoll
                         ELSE Less(egressTotal, days[Day(poll)].egress)
<1>1. poll \in 0 .. MaxTime /\ poll \in Nat
  BY GovernorConstants DEF TypeOK
<1>2. start \in Nat
  <2> DEFINE d == poll \div PeriodLen
  <2>1. d \in Nat
    BY <1>1, GovernorConstants, DivFact
  <2> HIDE DEF d
  <2>2. d * PeriodLen \in Nat
    BY <2>1, GovernorConstants
  <2> QED BY <2>2 DEF d
<1>3. Day(poll) \in Days
  BY <1>1, DayMono
<1>4. days[Day(poll)] \in DayRow /\ neon \in Neon
      /\ cuTotal \in Nat /\ egressTotal \in Nat
  BY <1>3 DEF TypeOK
<1>5. cuBase \in Nat /\ egressBase \in Nat
  BY <1>4, LessType DEF DayRow, Neon
<1>6. figure.compute \in Nat /\ figure.egress \in Nat
  BY GovernorConstants
<1>7. Polled(figure) =
        [known |-> TRUE, polledAt |-> poll, compute |-> figure.compute,
         egress |-> figure.egress, start |-> start,
         cuBase |-> cuBase, egressBase |-> egressBase,
         cuAtPoll |-> cuTotal, egressAtPoll |-> egressTotal]
  BY DEF Polled
<1> HIDE DEF start, cuBase, egressBase
<1> QED BY <1>1, <1>2, <1>4, <1>5, <1>6, <1>7 DEF Neon

LEMMA NextType ==
    ASSUME TypeOK, [Next]_vars
    PROVE  TypeOK'
<1> USE DEF TypeOK
<1>1. ASSUME NEW p \in Prefix, NEW heavy \in BOOLEAN, NEW i \in LeaseId,
             Admit(p, heavy, i)
      PROVE  TypeOK'
  BY <1>1, AdmitType
<1>2. ASSUME NEW p \in Prefix, NEW i \in LeaseId, AdmitLookup(p, i)
      PROVE  TypeOK'
  BY <1>2, AdmitLookupType
<1>3. ASSUME NEW p \in Prefix, NEW heavy \in BOOLEAN, NEW lookup \in BOOLEAN,
             Refuse(p, heavy, lookup)
      PROVE  TypeOK'
  BY <1>3, RefuseType
<1>4. ASSUME NEW l \in leases, NEW r \in Reports, Settle(l, r)
      PROVE  TypeOK'
  BY <1>4, SettleType
<1>5. CASE Alarm
  BY <1>5, AlarmType
<1>6. CASE PollSucceeds
  <2>1. PICK figure \in NeonFigures : PollEnds(Polled(figure))
    BY <1>6 DEF PollSucceeds
  <2>2. poll # NoTime
    BY <2>1 DEF PollEnds
  <2> QED BY <2>1, <2>2, PolledType, PollEndsType
<1>7. CASE PollFails
  BY <1>7, PollEndsType DEF PollFails
<1>8. CASE PollInterrupted
  BY <1>8, GovernorConstants DEF PollInterrupted, books, history, NoTime
<1>9. CASE Tick
  BY <1>9, GovernorConstants DEF Tick, books, timers, history
<1>10. CASE UNCHANGED vars
  BY <1>10 DEF vars, books, timers, history
<1> HIDE DEF TypeOK
<1> QED BY <1>1, <1>2, <1>3, <1>4, <1>5, <1>6, <1>7, <1>8, <1>9, <1>10 DEF Next

\* The books, timers and history always have their types: in particular no
\* count, charge or total is ever negative, and nothing is charged to a time
\* before the program started.
THEOREM TypeCorrect == Spec => []TypeOK
<1> QED BY InitType, NextType, PTL DEF Spec

-----------------------------------------------------------------------------
(* Charges: the counters bound the union of what was charged. *)

\* A set no larger than n, grown by what is new of X to a larger set, stays
\* within n and the size of X.
LEMMA DayGrows ==
    ASSUME NEW U \in SUBSET Ticks, NEW X \in SUBSET Ticks, NEW Y \in SUBSET X,
           NEW n \in Nat, Cardinality(U) <= n
    PROVE  Cardinality(U \cup Y) <= n + Cardinality(X)
<1>1. /\ IsFiniteSet(U) /\ IsFiniteSet(X) /\ IsFiniteSet(Y)
      /\ Cardinality(U) \in Nat /\ Cardinality(X) \in Nat /\ Cardinality(Y) \in Nat
  BY TicksFinite
<1>2. Cardinality(Y) <= Cardinality(X)
  BY <1>1, FS_Subset
<1>3. Cardinality(U \cup Y) = Cardinality(U) + Cardinality(Y) - Cardinality(U \cap Y)
  BY <1>1, FS_Union
<1>4. Cardinality(U \cap Y) \in Nat
  BY <1>1, FS_Intersection, FS_CardinalityType
<1> QED BY <1>1, <1>2, <1>3, <1>4

\* One charge of a window W: the history grows by W and the counter by what
\* of W was not known to be charged.
ChargeOf(W) ==
    /\ ever' = ever \cup W
    /\ cuTotal' = cuTotal + Cardinality(Uncovered(W, charged))
    /\ \/ charged' = AddCharged(charged, W, now - LeaseTTL)
       \/ W = {} /\ charged' = charged
    /\ now' = now

LEMMA ChargeKeeps ==
    ASSUME TypeOK, charged \subseteq ever, Cardinality(ever) <= cuTotal, HorizonKept,
           NEW W \in SUBSET Ticks, ChargeOf(W)
    PROVE  /\ charged' \subseteq ever'
           /\ Cardinality(ever') <= cuTotal'
           /\ HorizonKept'
<1>1. /\ charged \in SUBSET Ticks /\ ever \in SUBSET Ticks /\ now - LeaseTTL \in Int
      /\ cuTotal \in Nat /\ Cardinality(ever) \in Nat
  BY TicksFinite, GovernorConstants DEF TypeOK
<1>2. /\ AddCharged(charged, W, now - LeaseTTL) \subseteq charged \cup W
      /\ \A t \in charged \cup W :
           t >= now - LeaseTTL => t \in AddCharged(charged, W, now - LeaseTTL)
  BY <1>1, AddChargedKeeps
<1>3. charged' \subseteq ever'
  BY <1>2 DEF ChargeOf
<1>4. Cardinality(ever') <= cuTotal'
  <2>1. Cardinality(ever \cup W) <= Cardinality(ever) + Cardinality(Uncovered(W, charged))
    BY <1>1, UnionGrows
  <2>2. Cardinality(Uncovered(W, charged)) \in Nat /\ Cardinality(ever \cup W) \in Nat
    BY <1>1, TicksFinite DEF Uncovered
  <2> QED BY <1>1, <2>1, <2>2 DEF ChargeOf
<1>5. HorizonKept'
  <2> SUFFICES ASSUME NEW t \in ever', t >= now - LeaseTTL PROVE t \in charged'
    BY DEF HorizonKept, ChargeOf
  <2>1. t \in charged \cup W
    BY DEF HorizonKept, ChargeOf
  <2> QED BY <1>2, <2>1 DEF ChargeOf
<1> QED BY <1>3, <1>4, <1>5

LEMMA ExpiryIsCharge ==
    ASSUME TypeOK, BookExpiry, now' = now
    PROVE  /\ UpTime(Stale) \in SUBSET Ticks
           /\ ChargeOf(UpTime(Stale))
<1>1. UpTime(Stale) \in SUBSET Ticks
  BY UpTimeTicks DEF Stale
<1>2. Stale = {} => UpTime(Stale) = {}
  BY DEF UpTime
<1> QED BY <1>1, <1>2 DEF BookExpiry, ChargeOf, ChargedExpired, CuTotalExpired

\* What a set D of day rows must be for the days' totals to bound the time a
\* day was the first to pay, given in U.
DaysBound(D, U, first) == \A d \in Days : d >= first => Cardinality(U[d]) <= D[d].cu

LEMMA ExpiryDays ==
    ASSUME ChargeInv
    PROVE  /\ DaysBound(DaysExpired, UpOfExpired, purgedDay - Retention)
           /\ \A d \in Days, p \in Prefix : PrefixesExpired[d][p].cu <= DaysExpired[d].cu
<1> USE DEF ChargeInv
<1>1. ASSUME NEW d \in Days, d >= purgedDay - Retention
      PROVE  Cardinality(UpOfExpired[d]) <= DaysExpired[d].cu
  <2> DEFINE X == ExpiryAddsAll(OfDay(Stale, d))
  <2>1. X \in SUBSET Ticks
    BY ExpiryAddsTicks DEF OfDay
  <2>2. UpOfExpired[d] = upOf[d] \cup (X \ ever)
    BY DEF UpOfExpired
  <2>3. DaysExpired[d].cu = days[d].cu + Cardinality(X)
    BY DEF DaysExpired, TypeOK, DayRow
  <2>4. upOf[d] \in SUBSET Ticks /\ days[d].cu \in Nat
    BY DEF TypeOK, DayRow
  <2>5. Cardinality(upOf[d]) <= days[d].cu
    BY <1>1 DEF NeverUndercharged
  <2> HIDE DEF X
  <2> QED BY <2>1, <2>2, <2>3, <2>4, <2>5, DayGrows
<1>2. ASSUME NEW d \in Days, NEW p \in Prefix
      PROVE  PrefixesExpired[d][p].cu <= DaysExpired[d].cu
  <2> DEFINE X == ExpiryAddsAll(OfDay(Stale, d))
             Y == ExpiryAddsAll(OfPrefix(Stale, d, p))
  <2>1. Y \subseteq X
    BY DEF ExpiryAddsAll, OfDay, OfPrefix
  <2>2. X \in SUBSET Ticks
    BY ExpiryAddsTicks DEF OfDay
  <2>3. DaysExpired[d].cu = days[d].cu + Cardinality(X)
    BY DEF DaysExpired, TypeOK, DayRow
  <2>4. \/ PrefixesExpired[d][p].cu = prefixes[d][p].cu + Cardinality(Y)
        \/ PrefixesExpired[d][p].cu = prefixes[d][p].cu
    BY DEF PrefixesExpired, TypeOK, PrefixRow
  <2>5. prefixes[d][p].cu <= days[d].cu
    BY DEF DayCoversPrefixes
  <2>6. days[d].cu \in Nat /\ prefixes[d][p].cu \in Nat
    BY DEF TypeOK, DayRow, PrefixRow
  <2> HIDE DEF X, Y
  <2>7. /\ Cardinality(Y) <= Cardinality(X)
        /\ Cardinality(X) \in Nat /\ Cardinality(Y) \in Nat
    BY <2>1, <2>2, TicksFinite, FS_Subset
  <2> QED BY <2>3, <2>4, <2>5, <2>6, <2>7
<1> QED BY <1>1, <1>2 DEF DaysBound

\* A purge for today keeps both bounds.
LEMMA PurgeKeeps ==
    ASSUME TypeOK, purgedDay <= Today,
           NEW D \in [Days -> DayRow], NEW P \in [Days -> [Prefix -> PrefixRow]],
           NEW U, DaysBound(D, U, purgedDay - Retention),
           \A d \in Days, p \in Prefix : P[d][p].cu <= D[d].cu
    PROVE  /\ DaysBound(PurgedDays(D), U, Today - Retention)
           /\ \A d \in Days, p \in Prefix : PurgedPrefixes(P)[d][p].cu <= PurgedDays(D)[d].cu
<1>1. Today \in Int /\ purgedDay \in Int /\ Retention \in Nat
  BY TodayIsADay, GovernorConstants DEF TypeOK, Days
<1>2. DaysBound(PurgedDays(D), U, Today - Retention)
  BY <1>1 DEF DaysBound, PurgedDays, Days
<1>3. ASSUME NEW d \in Days, NEW p \in Prefix
      PROVE  PurgedPrefixes(P)[d][p].cu <= PurgedDays(D)[d].cu
  <2>1. CASE purgedDay = Today
    BY <2>1 DEF PurgedPrefixes, PurgedDays
  <2>2. CASE purgedDay # Today /\ d < Today
    <3>1. PurgedPrefixes(P)[d][p].cu = 0
      BY <2>2 DEF PurgedPrefixes, NoPrefix
    <3>2. PurgedDays(D)[d].cu \in Nat
      BY PurgedTypes DEF DayRow, NoDay, PurgedDays
    <3> QED BY <3>1, <3>2
  <2>3. CASE purgedDay # Today /\ ~(d < Today)
    <3>1. ~(d < Today - Retention)
      BY <1>1, <2>3 DEF Days
    <3> QED BY <2>3, <3>1 DEF PurgedPrefixes, PurgedDays
  <2> QED BY <2>1, <2>2, <2>3
<1> QED BY <1>2, <1>3

LEMMA GrantCharges ==
    ASSUME ChargeInv, NEW l \in Lease, NEW dayRow \in DayRow, NEW prefixRow \in PrefixRow,
           NEW admitAt \in Int, Grant(l, dayRow, prefixRow, admitAt),
           l.day = Today,
           dayRow.cu = DaysExpired[Today].cu,
           prefixRow.cu = PrefixesExpired[Today][l.prefix].cu,
           TypeOK'
    PROVE  ChargeInv'
<1> DEFINE D == [DaysExpired EXCEPT ![Today] = dayRow]
           P == [PrefixesExpired EXCEPT ![Today][l.prefix] = prefixRow]
<1>1. TypeOK /\ purgedDay <= Today /\ Today \in Days
  BY TodayIsADay DEF ChargeInv
<1>2. /\ DaysExpired \in [Days -> DayRow]
      /\ PrefixesExpired \in [Days -> [Prefix -> PrefixRow]]
  BY <1>1, ExpiryType
<1>3. \A d \in Days : D[d].cu = DaysExpired[d].cu
  BY <1>1, <1>2
<1>4. \A d \in Days, p \in Prefix : P[d][p].cu = PrefixesExpired[d][p].cu
  BY <1>1, <1>2
<1>5. /\ DaysBound(D, UpOfExpired, purgedDay - Retention)
      /\ \A d \in Days, p \in Prefix : P[d][p].cu <= D[d].cu
  BY <1>3, <1>4, ExpiryDays DEF DaysBound
<1>6. D \in [Days -> DayRow] /\ P \in [Days -> [Prefix -> PrefixRow]]
  BY <1>2
<1>7. /\ days' = PurgedDays(D) /\ prefixes' = PurgedPrefixes(P)
      /\ prefixRows' = PurgedRows(prefixRows \cup {<<Today, l.prefix>>})
      /\ purgedDay' = Today /\ now' = now /\ BookExpiry
  BY DEF Grant
<1> HIDE DEF D, P
<1>8. /\ DaysBound(PurgedDays(D), UpOfExpired, Today - Retention)
      /\ \A d \in Days, p \in Prefix : PurgedPrefixes(P)[d][p].cu <= PurgedDays(D)[d].cu
  BY <1>1, <1>5, <1>6, PurgeKeeps
<1>9. ChargeOf(UpTime(Stale)) /\ UpTime(Stale) \in SUBSET Ticks
  BY <1>1, <1>7, ExpiryIsCharge
<1>10. charged' \subseteq ever' /\ Cardinality(ever') <= cuTotal' /\ HorizonKept'
  BY <1>1, <1>9, ChargeKeeps DEF ChargeInv, NeverUndercharged
<1>11. NeverUndercharged'
  BY <1>7, <1>8, <1>10 DEF NeverUndercharged, DaysBound, BookExpiry
<1>12. DayCoversPrefixes'
  BY <1>7, <1>8 DEF DayCoversPrefixes
<1>13. PurgeFinal'
  BY <1>1, <1>7 DEF PurgeFinal, PurgedRows, ChargeInv, Days
<1>14. purgedDay' <= Today'
  BY <1>1, <1>7 DEF Today, Days
<1> QED BY <1>10, <1>11, <1>12, <1>13, <1>14 DEF ChargeInv

LEMMA AdmitCharges ==
    ASSUME ChargeInv, NEW p \in Prefix, NEW heavy \in BOOLEAN, NEW i \in LeaseId,
           Admit(p, heavy, i)
    PROVE  ChargeInv'
<1> DEFINE day == DaysExpired[Today]
           row == PrefixesExpired[Today][p]
           l == [id |-> i, day |-> Today, prefix |-> p, heavy |-> heavy,
                 lookup |-> FALSE, at |-> now]
           dayOne == [day EXCEPT !.admitted = @ + 1]
           dayRow == [day EXCEPT !.admitted = @ + 1, !.heavy = @ + One(heavy)]
           rowOne == [row EXCEPT !.count = @ + 1]
           prefixRow == [row EXCEPT !.count = @ + 1, !.attempts = @ + 1]
<1>0. TypeOK
  BY DEF ChargeInv
<1>1. day \in DayRow /\ row \in PrefixRow
  BY <1>0, ExpiryType, TodayIsADay
<1>2. l \in Lease /\ l.day = Today /\ l.prefix = p
  BY <1>0, TodayIsADay DEF Lease, TypeOK
<1>3. now \in Int
  BY <1>0 DEF TypeOK
<1>4. Grant(l, dayRow, prefixRow, now)
  BY DEF Admit
<1>5. TypeOK'
  BY <1>0, AdmitType
<1>6. dayOne \in DayRow /\ dayOne.cu = day.cu
  <2> HIDE DEF day
  <2> QED BY <1>1 DEF DayRow
<1>7. rowOne \in PrefixRow /\ rowOne.cu = row.cu
  <2> HIDE DEF row
  <2> QED BY <1>1 DEF PrefixRow
<1>8. dayRow = [dayOne EXCEPT !.heavy = day.heavy + One(heavy)]
  OBVIOUS
<1>9. prefixRow = [rowOne EXCEPT !.attempts = row.attempts + 1]
  OBVIOUS
<1> HIDE DEF day, row, l, dayOne, rowOne
<1>10. dayRow \in DayRow /\ dayRow.cu = day.cu
  <2>1. day.heavy + One(heavy) \in Nat
    BY <1>1, OneType DEF DayRow
  <2> HIDE DEF dayRow
  <2> QED BY <1>6, <1>8, <2>1 DEF DayRow
<1>11. prefixRow \in PrefixRow /\ prefixRow.cu = row.cu
  <2>1. row.attempts + 1 \in Nat
    BY <1>1 DEF PrefixRow
  <2> HIDE DEF prefixRow
  <2> QED BY <1>7, <1>9, <2>1 DEF PrefixRow
<1> HIDE DEF dayRow, prefixRow
<1> QED BY <1>2, <1>3, <1>4, <1>5, <1>10, <1>11, GrantCharges DEF day, row

LEMMA AdmitLookupCharges ==
    ASSUME ChargeInv, NEW p \in Prefix, NEW i \in LeaseId, AdmitLookup(p, i)
    PROVE  ChargeInv'
<1> DEFINE day == DaysExpired[Today]
           row == PrefixesExpired[Today][p]
           l == [id |-> i, day |-> Today, prefix |-> p, heavy |-> FALSE,
                 lookup |-> TRUE, at |-> now]
           dayRow == [day EXCEPT !.lookups = @ + 1]
           prefixRow == [row EXCEPT !.lookups = @ + 1]
<1>0. TypeOK
  BY DEF ChargeInv
<1>1. day \in DayRow /\ row \in PrefixRow
  BY <1>0, ExpiryType, TodayIsADay
<1>2. l \in Lease /\ l.day = Today /\ l.prefix = p
  BY <1>0, TodayIsADay DEF Lease, TypeOK
<1>3. lastAdmitAt \in Int
  BY <1>0 DEF TypeOK
<1>4. Grant(l, dayRow, prefixRow, lastAdmitAt)
  BY DEF AdmitLookup
<1>5. TypeOK'
  BY <1>0, AdmitLookupType
<1> HIDE DEF day, row, l
<1>6. dayRow \in DayRow /\ dayRow.cu = day.cu
  BY <1>1 DEF DayRow
<1>7. prefixRow \in PrefixRow /\ prefixRow.cu = row.cu
  BY <1>1 DEF PrefixRow
<1> HIDE DEF dayRow, prefixRow
<1> QED BY <1>2, <1>3, <1>4, <1>5, <1>6, <1>7, GrantCharges DEF day, row

LEMMA RefuseCharges ==
    ASSUME ChargeInv, NEW p \in Prefix, NEW heavy \in BOOLEAN, NEW lookup \in BOOLEAN,
           Refuse(p, heavy, lookup)
    PROVE  ChargeInv'
<1>1. TypeOK /\ TypeOK'
  BY RefuseType DEF ChargeInv
<1>2. /\ days' = DaysExpired /\ prefixes' = PrefixesExpired
      /\ prefixRows' = prefixRows /\ purgedDay' = purgedDay /\ now' = now /\ BookExpiry
  BY DEF Refuse, timers
<1>3. ChargeOf(UpTime(Stale)) /\ UpTime(Stale) \in SUBSET Ticks
  BY <1>1, <1>2, ExpiryIsCharge
<1>4. charged' \subseteq ever' /\ Cardinality(ever') <= cuTotal' /\ HorizonKept'
  BY <1>1, <1>3, ChargeKeeps DEF ChargeInv, NeverUndercharged
<1>5. NeverUndercharged' /\ DayCoversPrefixes'
  BY <1>2, <1>4, ExpiryDays
     DEF NeverUndercharged, DayCoversPrefixes, DaysBound, BookExpiry
<1>6. PurgeFinal' /\ purgedDay' <= Today'
  BY <1>2 DEF ChargeInv, PurgeFinal, Today
<1> QED BY <1>1, <1>4, <1>5, <1>6 DEF ChargeInv

LEMMA AlarmCharges ==
    ASSUME ChargeInv, Alarm
    PROVE  ChargeInv'
<1>1. TypeOK /\ TypeOK' /\ purgedDay <= Today /\ Today \in Days
  BY AlarmType, TodayIsADay DEF ChargeInv
<1>2. /\ days' = PurgedDays(DaysExpired) /\ prefixes' = PurgedPrefixes(PrefixesExpired)
      /\ prefixRows' = PurgedRows(prefixRows)
      /\ purgedDay' = Today /\ now' = now /\ BookExpiry
  BY DEF Alarm
<1>3. ChargeOf(UpTime(Stale)) /\ UpTime(Stale) \in SUBSET Ticks
  BY <1>1, <1>2, ExpiryIsCharge
<1>4. charged' \subseteq ever' /\ Cardinality(ever') <= cuTotal' /\ HorizonKept'
  BY <1>1, <1>3, ChargeKeeps DEF ChargeInv, NeverUndercharged
<1>5. /\ DaysBound(PurgedDays(DaysExpired), UpOfExpired, Today - Retention)
      /\ \A d \in Days, p \in Prefix :
           PurgedPrefixes(PrefixesExpired)[d][p].cu <= PurgedDays(DaysExpired)[d].cu
  BY <1>1, ExpiryType, ExpiryDays, PurgeKeeps
<1>6. NeverUndercharged' /\ DayCoversPrefixes'
  BY <1>2, <1>4, <1>5 DEF NeverUndercharged, DayCoversPrefixes, DaysBound, BookExpiry
<1>7. PurgeFinal' /\ purgedDay' <= Today'
  BY <1>1, <1>2 DEF ChargeInv, PurgeFinal, PurgedRows, Today, Days
<1> QED BY <1>1, <1>4, <1>6, <1>7 DEF ChargeInv

LEMMA SettleCharges ==
    ASSUME ChargeInv, NEW l \in leases, NEW r \in Reports, Settle(l, r)
    PROVE  ChargeInv'
<1> DEFINE window == SettleWindow(l, r)
           new == Uncovered(window, charged)
           cu == Cardinality(new)
<1>1. TypeOK /\ TypeOK'
  BY SettleType DEF ChargeInv
<1>2. l.day \in Days /\ l.prefix \in Prefix
  BY <1>1 DEF TypeOK, Lease
<1>3. window \in SUBSET Ticks
  BY <1>1, SettleWindowTicks, ReportDb DEF SettleWindow
<1>4. new \in SUBSET Ticks /\ cu \in Nat
  BY <1>3, TicksFinite DEF Uncovered
<1>5. /\ days' = [days EXCEPT ![l.day] = SettledDay(l, r, cu)]
      /\ prefixes' = IF <<l.day, l.prefix>> \in prefixRows
                     THEN [prefixes EXCEPT ![l.day][l.prefix] = SettledPrefix(l, r, cu)]
                     ELSE prefixes
      /\ upOf' = [upOf EXCEPT ![l.day] = @ \cup (window \ ever)]
      /\ prefixRows' = prefixRows /\ purgedDay' = purgedDay /\ now' = now
  BY DEF Settle, timers
<1>6. ChargeOf(window)
  BY DEF Settle, ChargeOf, SettleWindow
<1>7. charged' \subseteq ever' /\ Cardinality(ever') <= cuTotal' /\ HorizonKept'
  BY <1>1, <1>3, <1>6, ChargeKeeps DEF ChargeInv, NeverUndercharged
<1>8. SettledDay(l, r, cu).cu = days[l.day].cu + cu
  BY DEF SettledDay
<1>9. SettledPrefix(l, r, cu).cu = prefixes[l.day][l.prefix].cu + cu
  BY DEF SettledPrefix
<1>10. charged \subseteq ever /\ window \ ever \subseteq new
  BY DEF ChargeInv, Uncovered
<1> HIDE DEF window, new, cu
<1>11. ASSUME NEW d \in Days, d >= purgedDay - Retention
       PROVE  Cardinality(upOf'[d]) <= days'[d].cu
  <2>1. /\ upOf[d] \in SUBSET Ticks /\ days[d].cu \in Nat
        /\ Cardinality(upOf[d]) <= days[d].cu
    BY <1>1, <1>11 DEF TypeOK, DayRow, ChargeInv, NeverUndercharged
  <2>2. CASE d = l.day
    <3>1. upOf'[d] = upOf[d] \cup (window \ ever)
      BY <1>1, <1>2, <1>5, <2>2 DEF TypeOK
    <3>2. days'[d].cu = days[d].cu + cu
      BY <1>1, <1>2, <1>5, <1>8, <2>2 DEF TypeOK
    <3>3. Cardinality(upOf[d] \cup (window \ ever)) <= days[d].cu + Cardinality(new)
      BY <1>4, <1>10, <2>1, DayGrows
    <3> QED BY <3>1, <3>2, <3>3 DEF cu
  <2>3. CASE d # l.day
    BY <1>1, <1>5, <2>1, <2>3 DEF TypeOK
  <2> QED BY <2>2, <2>3
<1>12. NeverUndercharged'
  BY <1>5, <1>7, <1>11 DEF NeverUndercharged
<1>13. DayCoversPrefixes'
  <2> SUFFICES ASSUME NEW d \in Days, NEW p \in Prefix
               PROVE  prefixes'[d][p].cu <= days'[d].cu
    BY DEF DayCoversPrefixes
  <2>1. /\ prefixes[d][p].cu <= days[d].cu
        /\ prefixes[d][p].cu \in Nat /\ days[d].cu \in Nat
    BY <1>1 DEF TypeOK, DayRow, PrefixRow, ChargeInv, DayCoversPrefixes
  <2>2. \/ prefixes'[d][p].cu = prefixes[d][p].cu
        \/ d = l.day /\ prefixes'[d][p].cu = prefixes[d][p].cu + cu
    BY <1>1, <1>2, <1>5, <1>9 DEF TypeOK
  <2>3. days'[d].cu = IF d = l.day THEN days[d].cu + cu ELSE days[d].cu
    BY <1>1, <1>2, <1>5, <1>8 DEF TypeOK
  <2> QED BY <1>4, <2>1, <2>2, <2>3
<1>14. PurgeFinal' /\ purgedDay' <= Today'
  BY <1>5 DEF ChargeInv, PurgeFinal, Today
<1> QED BY <1>1, <1>7, <1>12, <1>13, <1>14 DEF ChargeInv

LEMMA TickCharges ==
    ASSUME ChargeInv, Tick
    PROVE  ChargeInv'
<1>1. TypeOK /\ TypeOK'
  BY NextType DEF ChargeInv, Next
<1>2. now \in 0 .. MaxTime /\ now' \in 0 .. MaxTime /\ now' = now + 1
  BY <1>1 DEF TypeOK, Tick
<1>3. Today <= Today' /\ Today \in Days /\ Today' \in Days
  BY <1>2, DayMono DEF Today
<1>4. purgedDay' <= Today'
  BY <1>1, <1>3 DEF Tick, timers, ChargeInv, TypeOK, Days
<1>5. HorizonKept'
  BY <1>1, <1>2, GovernorConstants
     DEF Tick, books, history, ChargeInv, HorizonKept, TypeOK, Ticks
<1>6. charged' \subseteq ever' /\ NeverUndercharged' /\ DayCoversPrefixes' /\ PurgeFinal'
  BY DEF Tick, books, timers, history, ChargeInv, NeverUndercharged,
         DayCoversPrefixes, PurgeFinal
<1> QED BY <1>1, <1>4, <1>5, <1>6 DEF ChargeInv

\* A step that leaves the clock, the books, the purge day and the history alone.
LEMMA QuietCharges ==
    ASSUME ChargeInv, TypeOK', UNCHANGED <<now, books, purgedDay, history>>
    PROVE  ChargeInv'
BY DEF books, history, ChargeInv, NeverUndercharged, HorizonKept,
       DayCoversPrefixes, PurgeFinal, Today

LEMMA InitCharges == Init => ChargeInv
<1> SUFFICES ASSUME Init PROVE ChargeInv
  OBVIOUS
<1>1. TypeOK
  BY InitType
<1>2. Today \in Days
  BY <1>1, TodayIsADay
<1>3. Cardinality({}) = 0
  BY FS_EmptySet
<1>4. NeverUndercharged
  BY <1>3 DEF Init, NeverUndercharged, NoDay
<1>5. HorizonKept /\ PurgeFinal
  BY DEF Init, HorizonKept, PurgeFinal
<1>6. DayCoversPrefixes
  BY DEF Init, DayCoversPrefixes, NoDay, NoPrefix
<1>7. purgedDay <= Today
  BY <1>2 DEF Init, NoTime, Days
<1>8. charged \subseteq ever
  BY DEF Init
<1> QED BY <1>1, <1>4, <1>5, <1>6, <1>7, <1>8 DEF ChargeInv

LEMMA NextCharges ==
    ASSUME ChargeInv, [Next]_vars
    PROVE  ChargeInv'
<1>0. TypeOK'
  BY NextType DEF ChargeInv
<1>1. ASSUME NEW p \in Prefix, NEW heavy \in BOOLEAN, NEW i \in LeaseId,
             Admit(p, heavy, i)
      PROVE  ChargeInv'
  BY <1>1, AdmitCharges
<1>2. ASSUME NEW p \in Prefix, NEW i \in LeaseId, AdmitLookup(p, i)
      PROVE  ChargeInv'
  BY <1>2, AdmitLookupCharges
<1>3. ASSUME NEW p \in Prefix, NEW heavy \in BOOLEAN, NEW lookup \in BOOLEAN,
             Refuse(p, heavy, lookup)
      PROVE  ChargeInv'
  BY <1>3, RefuseCharges
<1>4. ASSUME NEW l \in leases, NEW r \in Reports, Settle(l, r)
      PROVE  ChargeInv'
  BY <1>4, SettleCharges
<1>5. CASE Alarm
  BY <1>5, AlarmCharges
<1>6. CASE PollSucceeds \/ PollFails
  <2>1. PICK result : PollEnds(result)
    BY <1>6 DEF PollSucceeds, PollFails
  <2> QED BY <1>0, <2>1, QuietCharges DEF PollEnds
<1>7. CASE PollInterrupted
  BY <1>0, <1>7, QuietCharges DEF PollInterrupted
<1>8. CASE Tick
  BY <1>8, TickCharges
<1>9. CASE UNCHANGED vars
  BY <1>0, <1>9, QuietCharges DEF vars, timers
<1> QED BY <1>1, <1>2, <1>3, <1>4, <1>5, <1>6, <1>7, <1>8, <1>9 DEF Next

LEMMA ChargesInvariant == Spec => []ChargeInv
<1> QED BY InitCharges, NextCharges, PTL DEF Spec

\* However admissions, settles, expiries and purges interleave, and whatever
\* is trimmed from state.charged, neither the bridge counter nor a day's total
\* is below the length of the union of the windows it was charged for
\* (chargeWindow, expireLeases, addCharged): an over-charge at worst.
THEOREM NeverUnderchargedHolds == Spec => []NeverUndercharged
<1>1. ChargeInv => NeverUndercharged
  BY DEF ChargeInv
<1> QED BY <1>1, ChargesInvariant, PTL

\* addCharged's trimming never forgets a tick that a lease not yet expired can
\* still be charged for.
THEOREM HorizonKeptHolds == Spec => []HorizonKept
<1>1. ChargeInv => HorizonKept
  BY DEF ChargeInv
<1> QED BY <1>1, ChargesInvariant, PTL

\* A network's recorded compute (chargePrefix) is never above its day's
\* (charge), across settles, expiries and the midnight purge.
THEOREM DayCoversPrefixesHolds == Spec => []DayCoversPrefixes
<1>1. ChargeInv => DayCoversPrefixes
  BY DEF ChargeInv
<1> QED BY <1>1, ChargesInvariant, PTL

\* After the purge of a day, no later admission, settle or expiry brings back
\* a prefix row of an earlier day.
THEOREM PurgeFinalHolds == Spec => []PurgeFinal
<1>1. ChargeInv => PurgeFinal
  BY DEF ChargeInv
<1> QED BY <1>1, ChargesInvariant, PTL
-----------------------------------------------------------------------------
(* Counts: refunds, settles, expiries and purges keep the ledgers balanced. *)

\* What day rows D and the history K must be of a set L of leases, and network
\* rows P of the history F: the counts of CountsInv, for any books.
DayLedger(D, K, L, first) ==
    \A d \in Days : d >= first =>
        /\ D[d].admitted = K[d].all + Cardinality(Analyses(OfDay(L, d)))
        /\ D[d].heavy = K[d].heavy + Cardinality(Heavies(OfDay(L, d)))
NetworkLedger(P, F, L, first) ==
    \A d \in Days, p \in Prefix : d >= first =>
        P[d][p].count = F[d][p] + Cardinality(Analyses(OfPrefix(L, d, p)))
WithinCaps(K, F, L) ==
    /\ \A d \in Days :
         /\ K[d].all + Cardinality(Analyses(OfDay(L, d))) <= GlobalAnalyses
         /\ K[d].heavy + Cardinality(Heavies(OfDay(L, d))) <= HeavyAnalyses
    /\ \A d \in Days, p \in Prefix :
         F[d][p] + Cardinality(Analyses(OfPrefix(L, d, p))) <= PrefixAnalyses
HaveRows(L, R, first) ==
    \A l \in L : l.day >= first => <<l.day, l.prefix>> \in R

\* What the ledgers and the caps say of the books as they stand, and back.
LEMMA LedgersOfCounts ==
    ASSUME ChargeInv, CountsInv
    PROVE  /\ DayLedger(days, kept, leases, purgedDay - Retention)
           /\ NetworkLedger(prefixes, keptFor, leases, purgedDay)
           /\ WithinCaps(kept, keptFor, leases)
           /\ HaveRows(leases, prefixRows, purgedDay)
BY DEF CountsInv, CountsConserved, DailyCaps, DayLedger, NetworkLedger, WithinCaps, HaveRows

LEMMA CountsOfLedgers ==
    ASSUME ChargeInv,
           DayLedger(days, kept, leases, purgedDay - Retention),
           NetworkLedger(prefixes, keptFor, leases, purgedDay),
           WithinCaps(kept, keptFor, leases),
           HaveRows(leases, prefixRows, purgedDay)
    PROVE  CountsInv
<1>1. TypeOK /\ Today \in Days
  BY TodayIsADay DEF ChargeInv
<1>2. CountsConserved
  <2>1. \A d \in Days, p \in Prefix : <<d, p>> \in prefixRows => d >= purgedDay
    BY DEF ChargeInv, PurgeFinal
  <2> QED BY <2>1 DEF CountsConserved, DayLedger, NetworkLedger
<1>3. DailyCaps
  BY <1>1 DEF DailyCaps, WithinCaps
<1> QED BY <1>2, <1>3 DEF CountsInv, NetworkLedger, WithinCaps, HaveRows

LEMMA AddedCard ==
    ASSUME NEW L, IsFiniteSet(L), NEW l, l \notin L, NEW A \in SUBSET L
    PROVE  /\ Cardinality(A \cup {l}) = Cardinality(A) + 1
           /\ Cardinality(A) \in Nat
BY FS_Subset, FS_AddElement, FS_CardinalityType

\* What one more lease adds to the counts of a day and of a network.
LEMMA CountAdded ==
    ASSUME NEW L, IsFiniteSet(L), NEW l, l \notin L, NEW d
    PROVE  /\ Cardinality(Analyses(OfDay(L \cup {l}, d)))
                = Cardinality(Analyses(OfDay(L, d))) + One(~l.lookup /\ l.day = d)
           /\ Cardinality(Heavies(OfDay(L \cup {l}, d)))
                = Cardinality(Heavies(OfDay(L, d)))
                    + One(~l.lookup /\ l.heavy /\ l.day = d)
<1>1. Cardinality(Analyses(OfDay(L \cup {l}, d)))
        = Cardinality(Analyses(OfDay(L, d))) + One(~l.lookup /\ l.day = d)
  <2> DEFINE A == Analyses(OfDay(L, d))
             B == Analyses(OfDay(L \cup {l}, d))
  <2>1. A \in SUBSET L
    BY DEF Analyses, OfDay
  <2>2. B = IF ~l.lookup /\ l.day = d THEN A \cup {l} ELSE A
    BY DEF Analyses, OfDay
  <2> HIDE DEF A, B
  <2>3. Cardinality(B) = Cardinality(A) + One(~l.lookup /\ l.day = d)
    BY <2>1, <2>2, AddedCard DEF One
  <2> QED BY <2>3 DEF A, B
<1>2. Cardinality(Heavies(OfDay(L \cup {l}, d)))
        = Cardinality(Heavies(OfDay(L, d))) + One(~l.lookup /\ l.heavy /\ l.day = d)
  <2> DEFINE A == Heavies(OfDay(L, d))
             B == Heavies(OfDay(L \cup {l}, d))
  <2>1. A \in SUBSET L
    BY DEF Heavies, OfDay
  <2>2. B = IF ~l.lookup /\ l.heavy /\ l.day = d THEN A \cup {l} ELSE A
    BY DEF Heavies, OfDay
  <2> HIDE DEF A, B
  <2>3. Cardinality(B) = Cardinality(A) + One(~l.lookup /\ l.heavy /\ l.day = d)
    BY <2>1, <2>2, AddedCard DEF One
  <2> QED BY <2>3 DEF A, B
<1> QED BY <1>1, <1>2

LEMMA CountAddedFor ==
    ASSUME NEW L, IsFiniteSet(L), NEW l, l \notin L, NEW d, NEW p
    PROVE  Cardinality(Analyses(OfPrefix(L \cup {l}, d, p)))
             = Cardinality(Analyses(OfPrefix(L, d, p)))
                 + One(~l.lookup /\ l.day = d /\ l.prefix = p)
<1> DEFINE A == Analyses(OfPrefix(L, d, p))
           B == Analyses(OfPrefix(L \cup {l}, d, p))
<1>1. A \in SUBSET L
  BY DEF Analyses, OfPrefix
<1>2. B = IF ~l.lookup /\ l.day = d /\ l.prefix = p THEN A \cup {l} ELSE A
  BY DEF Analyses, OfPrefix
<1> HIDE DEF A, B
<1>3. Cardinality(B) = Cardinality(A) + One(~l.lookup /\ l.day = d /\ l.prefix = p)
  BY <1>1, <1>2, AddedCard DEF One
<1> QED BY <1>3 DEF A, B

\* The leases are the expired ones and the live ones.
LEMMA CountsSplit ==
    ASSUME TypeOK, NEW d, NEW p
    PROVE  /\ Cardinality(Analyses(OfDay(leases, d)))
                = Cardinality(Analyses(OfDay(Stale, d)))
                    + Cardinality(Analyses(OfDay(Live, d)))
           /\ Cardinality(Heavies(OfDay(leases, d)))
                = Cardinality(Heavies(OfDay(Stale, d)))
                    + Cardinality(Heavies(OfDay(Live, d)))
           /\ Cardinality(Analyses(OfPrefix(leases, d, p)))
                = Cardinality(Analyses(OfPrefix(Stale, d, p)))
                    + Cardinality(Analyses(OfPrefix(Live, d, p)))
<1>1. ASSUME NEW A \in SUBSET leases, NEW B \in SUBSET leases, A \cap B = {}
      PROVE  Cardinality(A \cup B) = Cardinality(A) + Cardinality(B)
  <2>1. IsFiniteSet(A) /\ IsFiniteSet(B)
    BY FS_Subset DEF TypeOK
  <2>2. Cardinality(A) \in Nat /\ Cardinality(B) \in Nat /\ Cardinality({}) = 0
    BY <2>1, FS_CardinalityType, FS_EmptySet
  <2>3. Cardinality(A \cup B)
          = Cardinality(A) + Cardinality(B) - Cardinality(A \cap B)
    BY <2>1, FS_Union
  <2>4. Cardinality(A \cap B) = 0
    BY <1>1, <2>2
  <2>5. \A x, a, b \in Nat : x = a + b - 0 => x = a + b
    OBVIOUS
  <2>6. Cardinality(A \cup B) \in Nat
    BY <2>1, FS_Union, FS_CardinalityType
  <2> HIDE <2>1
  <2> QED BY <2>2, <2>3, <2>4, <2>5, <2>6
<1>2. /\ Live \in SUBSET leases /\ Stale \in SUBSET leases
      /\ Live \cap Stale = {} /\ leases = Stale \cup Live
  BY DEF Live, Stale
<1>3. Cardinality(Analyses(OfDay(leases, d)))
        = Cardinality(Analyses(OfDay(Stale, d))) + Cardinality(Analyses(OfDay(Live, d)))
  <2> DEFINE A == Analyses(OfDay(Stale, d))
             B == Analyses(OfDay(Live, d))
  <2>1. /\ A \in SUBSET leases /\ B \in SUBSET leases /\ A \cap B = {}
        /\ Analyses(OfDay(leases, d)) = A \cup B
    BY <1>2 DEF Analyses, OfDay
  <2> HIDE DEF A, B
  <2>2. Cardinality(A \cup B) = Cardinality(A) + Cardinality(B)
    BY <1>1, <2>1
  <2> QED BY <2>1, <2>2 DEF A, B
<1>4. Cardinality(Heavies(OfDay(leases, d)))
        = Cardinality(Heavies(OfDay(Stale, d))) + Cardinality(Heavies(OfDay(Live, d)))
  <2> DEFINE A == Heavies(OfDay(Stale, d))
             B == Heavies(OfDay(Live, d))
  <2>1. /\ A \in SUBSET leases /\ B \in SUBSET leases /\ A \cap B = {}
        /\ Heavies(OfDay(leases, d)) = A \cup B
    BY <1>2 DEF Heavies, OfDay
  <2> HIDE DEF A, B
  <2>2. Cardinality(A \cup B) = Cardinality(A) + Cardinality(B)
    BY <1>1, <2>1
  <2> QED BY <2>1, <2>2 DEF A, B
<1>5. Cardinality(Analyses(OfPrefix(leases, d, p)))
        = Cardinality(Analyses(OfPrefix(Stale, d, p)))
            + Cardinality(Analyses(OfPrefix(Live, d, p)))
  <2> DEFINE A == Analyses(OfPrefix(Stale, d, p))
             B == Analyses(OfPrefix(Live, d, p))
  <2>1. /\ A \in SUBSET leases /\ B \in SUBSET leases /\ A \cap B = {}
        /\ Analyses(OfPrefix(leases, d, p)) = A \cup B
    BY <1>2 DEF Analyses, OfPrefix
  <2> HIDE DEF A, B
  <2>2. Cardinality(A \cup B) = Cardinality(A) + Cardinality(B)
    BY <1>1, <2>1
  <2> QED BY <2>1, <2>2 DEF A, B
<1> QED BY <1>3, <1>4, <1>5

LEMMA CountNats ==
    ASSUME NEW L, IsFiniteSet(L), NEW d, NEW p
    PROVE  /\ Cardinality(Analyses(OfDay(L, d))) \in Nat
           /\ Cardinality(Heavies(OfDay(L, d))) \in Nat
           /\ Cardinality(Analyses(OfPrefix(L, d, p))) \in Nat
<1>1. /\ Analyses(OfDay(L, d)) \in SUBSET L /\ Heavies(OfDay(L, d)) \in SUBSET L
      /\ Analyses(OfPrefix(L, d, p)) \in SUBSET L
  BY DEF Analyses, Heavies, OfDay, OfPrefix
<1> QED BY <1>1, FS_Subset, FS_CardinalityType

\* An expiry charges and counts nothing.
LEMMA ExpiryRows ==
    ASSUME TypeOK
    PROVE  /\ \A d \in Days : /\ DaysExpired[d].admitted = days[d].admitted
                              /\ DaysExpired[d].heavy = days[d].heavy
           /\ \A d \in Days, p \in Prefix :
                PrefixesExpired[d][p].count = prefixes[d][p].count
<1>1. \A d \in Days : /\ DaysExpired[d].admitted = days[d].admitted
                      /\ DaysExpired[d].heavy = days[d].heavy
  BY DEF DaysExpired, TypeOK, DayRow
<1>2. \A d \in Days, p \in Prefix :
        PrefixesExpired[d][p].count = prefixes[d][p].count
  BY DEF PrefixesExpired, TypeOK, PrefixRow
<1> QED BY <1>1, <1>2

\* An expiry moves its analyses from those in flight to those that may have run.
LEMMA ExpiryCounts ==
    ASSUME ChargeInv, CountsInv
    PROVE  /\ DayLedger(DaysExpired, KeptExpired, Live, purgedDay - Retention)
           /\ NetworkLedger(PrefixesExpired, KeptForExpired, Live, purgedDay)
           /\ WithinCaps(KeptExpired, KeptForExpired, Live)
           /\ HaveRows(Live, prefixRows, purgedDay)
<1>1. TypeOK
  BY DEF ChargeInv
<1>2. IsFiniteSet(Stale) /\ IsFiniteSet(Live) /\ Live \in SUBSET leases
  BY <1>1, FS_Subset DEF Stale, Live, TypeOK
<1>3. ASSUME NEW d \in Days
      PROVE  /\ DaysExpired[d].admitted = days[d].admitted
             /\ DaysExpired[d].heavy = days[d].heavy
  BY <1>1, ExpiryRows
<1>4. ASSUME NEW d \in Days, NEW p \in Prefix
      PROVE  PrefixesExpired[d][p].count = prefixes[d][p].count
  BY <1>1, ExpiryRows
<1>5. ASSUME NEW d \in Days
      PROVE  /\ KeptExpired[d].all + Cardinality(Analyses(OfDay(Live, d)))
                  = kept[d].all + Cardinality(Analyses(OfDay(leases, d)))
             /\ KeptExpired[d].heavy + Cardinality(Heavies(OfDay(Live, d)))
                  = kept[d].heavy + Cardinality(Heavies(OfDay(leases, d)))
  <2>1. /\ KeptExpired[d].all = kept[d].all + Cardinality(Analyses(OfDay(Stale, d)))
        /\ KeptExpired[d].heavy = kept[d].heavy + Cardinality(Heavies(OfDay(Stale, d)))
    BY DEF KeptExpired
  <2>2. kept[d].all \in Nat /\ kept[d].heavy \in Nat
    BY <1>1 DEF TypeOK
  <2> QED BY <1>1, <1>2, <2>1, <2>2, CountsSplit, CountNats
<1>6. ASSUME NEW d \in Days, NEW p \in Prefix
      PROVE  KeptForExpired[d][p] + Cardinality(Analyses(OfPrefix(Live, d, p)))
               = keptFor[d][p] + Cardinality(Analyses(OfPrefix(leases, d, p)))
  <2>1. KeptForExpired[d][p]
          = keptFor[d][p] + Cardinality(Analyses(OfPrefix(Stale, d, p)))
    BY DEF KeptForExpired
  <2>2. keptFor[d][p] \in Nat
    BY <1>1 DEF TypeOK
  <2> QED BY <1>1, <1>2, <2>1, <2>2, CountsSplit, CountNats
<1>7. DayLedger(DaysExpired, KeptExpired, Live, purgedDay - Retention)
  BY <1>3, <1>5, LedgersOfCounts DEF DayLedger
<1>8. NetworkLedger(PrefixesExpired, KeptForExpired, Live, purgedDay)
  BY <1>4, <1>6, LedgersOfCounts DEF NetworkLedger
<1>9. WithinCaps(KeptExpired, KeptForExpired, Live)
  BY <1>5, <1>6, LedgersOfCounts DEF WithinCaps
<1>10. HaveRows(Live, prefixRows, purgedDay)
  BY <1>2, LedgersOfCounts DEF HaveRows
<1> QED BY <1>7, <1>8, <1>9, <1>10

\* A purge deletes a day's network rows before the day is out of the ledger,
\* and its totals only once it is.
LEMMA PurgeCounts ==
    ASSUME TypeOK, purgedDay <= Today,
           NEW D \in [Days -> DayRow], NEW P \in [Days -> [Prefix -> PrefixRow]],
           NEW R \in SUBSET (Days \X Prefix), NEW K, NEW F, NEW L \in SUBSET Lease,
           DayLedger(D, K, L, purgedDay - Retention),
           NetworkLedger(P, F, L, purgedDay), HaveRows(L, R, purgedDay)
    PROVE  /\ DayLedger(PurgedDays(D), K, L, Today - Retention)
           /\ NetworkLedger(PurgedPrefixes(P), F, L, Today)
           /\ HaveRows(L, PurgedRows(R), Today)
<1>1. /\ Today \in Int /\ purgedDay \in Int /\ Retention \in Nat
      /\ \A d \in Days : d \in Int
  BY TodayIsADay, GovernorConstants DEF TypeOK, Days
<1>2. \A d \in Days : d >= Today - Retention =>
        PurgedDays(D)[d] = D[d] /\ d >= purgedDay - Retention
  BY <1>1 DEF PurgedDays
<1>3. \A d \in Days : d >= Today =>
        PurgedPrefixes(P)[d] = P[d] /\ d >= purgedDay
  BY <1>1 DEF PurgedPrefixes
<1>4. \A l \in L : l.day >= Today => l.day >= purgedDay /\ l.day \in Days
  BY <1>1 DEF Lease
<1>5. \A r \in R : r[1] >= Today => r \in PurgedRows(R)
  BY DEF PurgedRows
<1>6. DayLedger(PurgedDays(D), K, L, Today - Retention)
  BY <1>2 DEF DayLedger
<1>7. NetworkLedger(PurgedPrefixes(P), F, L, Today)
  BY <1>3 DEF NetworkLedger
<1>8. HaveRows(L, PurgedRows(R), Today)
  BY <1>4, <1>5 DEF HaveRows
<1> QED BY <1>6, <1>7, <1>8

\* What an admission adds to a day's row, to a network's row and to the caps.
LEMMA GrantCounts ==
    ASSUME ChargeInv, CountsInv, ChargeInv', NEW l \in Lease, l \notin leases,
           NEW dayRow \in DayRow, NEW prefixRow \in PrefixRow, NEW admitAt,
           Grant(l, dayRow, prefixRow, admitAt), l.day = Today,
           dayRow.admitted = DaysExpired[Today].admitted + One(~l.lookup),
           dayRow.heavy = DaysExpired[Today].heavy + One(~l.lookup /\ l.heavy),
           prefixRow.count = PrefixesExpired[Today][l.prefix].count + One(~l.lookup),
           ~l.lookup => AnalysisCountsAllow(l.prefix, l.heavy)
    PROVE  CountsInv'
<1> DEFINE D == [DaysExpired EXCEPT ![Today] = dayRow]
           P == [PrefixesExpired EXCEPT ![Today][l.prefix] = prefixRow]
           R == prefixRows \cup {<<Today, l.prefix>>}
           L == Live \cup {l}
<1>1. /\ TypeOK /\ purgedDay <= Today /\ Today \in Days
      /\ purgedDay \in Int /\ Retention \in Nat /\ Today \in Int
  <2>1. TypeOK /\ purgedDay <= Today
    BY DEF ChargeInv
  <2>2. Today \in Days
    BY <2>1, TodayIsADay
  <2> QED BY <2>1, <2>2, GovernorConstants DEF TypeOK, Days
<1>2. /\ DaysExpired \in [Days -> DayRow]
      /\ PrefixesExpired \in [Days -> [Prefix -> PrefixRow]]
      /\ KeptExpired \in [Days -> [all : Nat, heavy : Nat]]
      /\ KeptForExpired \in [Days -> [Prefix -> Nat]]
  BY <1>1, ExpiryType
<1>3. IsFiniteSet(Live) /\ l \notin Live /\ l.prefix \in Prefix /\ L \in SUBSET Lease
  BY <1>1, LiveType DEF Lease
<1>4. /\ DayLedger(DaysExpired, KeptExpired, Live, purgedDay - Retention)
      /\ NetworkLedger(PrefixesExpired, KeptForExpired, Live, purgedDay)
      /\ WithinCaps(KeptExpired, KeptForExpired, Live)
      /\ HaveRows(Live, prefixRows, purgedDay)
  BY ExpiryCounts
<1>5. ASSUME NEW d \in Days
      PROVE  /\ Cardinality(Analyses(OfDay(L, d)))
                  = Cardinality(Analyses(OfDay(Live, d))) + One(~l.lookup /\ l.day = d)
             /\ Cardinality(Heavies(OfDay(L, d)))
                  = Cardinality(Heavies(OfDay(Live, d)))
                      + One(~l.lookup /\ l.heavy /\ l.day = d)
             /\ Cardinality(Analyses(OfDay(Live, d))) \in Nat
             /\ Cardinality(Heavies(OfDay(Live, d))) \in Nat
  <2>1. /\ Cardinality(Analyses(OfDay(L, d)))
             = Cardinality(Analyses(OfDay(Live, d))) + One(~l.lookup /\ l.day = d)
        /\ Cardinality(Heavies(OfDay(L, d)))
             = Cardinality(Heavies(OfDay(Live, d)))
                 + One(~l.lookup /\ l.heavy /\ l.day = d)
    <3>1. IsFiniteSet(Live) /\ l \notin Live
      BY <1>3
    <3> HIDE DEF L
    <3>2. L = Live \cup {l}
      BY DEF L
    <3>3. Cardinality(Analyses(OfDay(Live \cup {l}, d)))
             = Cardinality(Analyses(OfDay(Live, d))) + One(~l.lookup /\ l.day = d)
      BY <3>1, CountAdded
    <3>4. Cardinality(Heavies(OfDay(Live \cup {l}, d)))
             = Cardinality(Heavies(OfDay(Live, d)))
                 + One(~l.lookup /\ l.heavy /\ l.day = d)
      BY <3>1, CountAdded
    <3> QED BY <3>2, <3>3, <3>4
  <2>2. /\ Cardinality(Analyses(OfDay(Live, d))) \in Nat
        /\ Cardinality(Heavies(OfDay(Live, d))) \in Nat
    BY <1>3, CountNats
  <2> QED BY <2>1, <2>2
<1>6. ASSUME NEW d \in Days, NEW p \in Prefix
      PROVE  /\ Cardinality(Analyses(OfPrefix(L, d, p)))
                  = Cardinality(Analyses(OfPrefix(Live, d, p)))
                      + One(~l.lookup /\ l.day = d /\ l.prefix = p)
             /\ Cardinality(Analyses(OfPrefix(Live, d, p))) \in Nat
  BY <1>3, CountAddedFor, CountNats
<1>7. /\ days' = PurgedDays(D) /\ prefixes' = PurgedPrefixes(P)
      /\ prefixRows' = PurgedRows(R) /\ leases' = L
      /\ kept' = KeptExpired /\ keptFor' = KeptForExpired
      /\ purgedDay' = Today
  BY DEF Grant, BookExpiry
<1>8. /\ D \in [Days -> DayRow] /\ P \in [Days -> [Prefix -> PrefixRow]]
      /\ R \in SUBSET (Days \X Prefix)
  BY <1>1, <1>2, <1>3 DEF TypeOK
<1>9. \A d \in Days : D[d] = IF d = Today THEN dayRow ELSE DaysExpired[d]
  BY <1>1, <1>2
<1>10. \A d \in Days, p \in Prefix :
         P[d][p] = IF d = Today /\ p = l.prefix THEN prefixRow ELSE PrefixesExpired[d][p]
  BY <1>1, <1>2, <1>3
<1> HIDE DEF D, P, L
<1>11. DayLedger(D, KeptExpired, L, purgedDay - Retention)
  <2> SUFFICES ASSUME NEW d \in Days, d >= purgedDay - Retention
               PROVE  /\ D[d].admitted = KeptExpired[d].all
                           + Cardinality(Analyses(OfDay(L, d)))
                      /\ D[d].heavy = KeptExpired[d].heavy
                           + Cardinality(Heavies(OfDay(L, d)))
    BY DEF DayLedger
  <2>1. /\ DaysExpired[d].admitted
             = KeptExpired[d].all + Cardinality(Analyses(OfDay(Live, d)))
        /\ DaysExpired[d].heavy
             = KeptExpired[d].heavy + Cardinality(Heavies(OfDay(Live, d)))
    BY <1>4 DEF DayLedger
  <2>2. KeptExpired[d].all \in Nat /\ KeptExpired[d].heavy \in Nat
    BY <1>2
  <2>3. CASE d = Today
    BY <1>5, <1>9, <2>1, <2>2, <2>3 DEF One
  <2>4. CASE d # Today
    BY <1>5, <1>9, <2>1, <2>2, <2>4 DEF One
  <2> QED BY <2>3, <2>4
<1>12. NetworkLedger(P, KeptForExpired, L, purgedDay)
  <2> SUFFICES ASSUME NEW d \in Days, NEW p \in Prefix, d >= purgedDay
               PROVE  P[d][p].count
                        = KeptForExpired[d][p] + Cardinality(Analyses(OfPrefix(L, d, p)))
    BY DEF NetworkLedger
  <2>1. PrefixesExpired[d][p].count
          = KeptForExpired[d][p] + Cardinality(Analyses(OfPrefix(Live, d, p)))
    BY <1>4 DEF NetworkLedger
  <2>2. KeptForExpired[d][p] \in Nat
    BY <1>2
  <2>3. CASE d = Today /\ p = l.prefix
    BY <1>6, <1>10, <2>1, <2>2, <2>3 DEF One
  <2>4. CASE ~(d = Today /\ p = l.prefix)
    BY <1>6, <1>10, <2>1, <2>2, <2>4 DEF One
  <2> QED BY <2>3, <2>4
<1>13. HaveRows(L, R, purgedDay)
  BY <1>4 DEF HaveRows, L
<1>14. WithinCaps(KeptExpired, KeptForExpired, L)
  <2>1. /\ DaysExpired[Today].admitted = days[Today].admitted
        /\ DaysExpired[Today].heavy = days[Today].heavy
        /\ PrefixesExpired[Today][l.prefix].count = prefixes[Today][l.prefix].count
    BY <1>1, <1>3, ExpiryRows
  <2>2. ~l.lookup =>
          /\ DaysExpired[Today].admitted < GlobalAnalyses
          /\ l.heavy => DaysExpired[Today].heavy < HeavyAnalyses
          /\ PrefixesExpired[Today][l.prefix].count < PrefixAnalyses
    BY <2>1 DEF AnalysisCountsAllow
  <2>3. Today >= purgedDay - Retention /\ Today >= purgedDay
    BY <1>1
  <2>4. /\ DaysExpired[Today].admitted
             = KeptExpired[Today].all + Cardinality(Analyses(OfDay(Live, Today)))
        /\ DaysExpired[Today].heavy
             = KeptExpired[Today].heavy + Cardinality(Heavies(OfDay(Live, Today)))
        /\ PrefixesExpired[Today][l.prefix].count
             = KeptForExpired[Today][l.prefix]
                 + Cardinality(Analyses(OfPrefix(Live, Today, l.prefix)))
    BY <1>1, <1>3, <1>4, <2>3 DEF DayLedger, NetworkLedger
  <2>5. /\ GlobalAnalyses \in Nat /\ HeavyAnalyses \in Nat /\ PrefixAnalyses \in Nat
    BY GovernorConstants
  <2>6. ASSUME NEW d \in Days
        PROVE  /\ KeptExpired[d].all + Cardinality(Analyses(OfDay(L, d))) <= GlobalAnalyses
               /\ KeptExpired[d].heavy + Cardinality(Heavies(OfDay(L, d))) <= HeavyAnalyses
    <3>1. /\ KeptExpired[d].all + Cardinality(Analyses(OfDay(Live, d))) <= GlobalAnalyses
          /\ KeptExpired[d].heavy + Cardinality(Heavies(OfDay(Live, d))) <= HeavyAnalyses
      BY <1>4 DEF WithinCaps
    <3>2. KeptExpired[d].all \in Nat /\ KeptExpired[d].heavy \in Nat
      BY <1>2
    <3>3. CASE d = Today
      BY <1>5, <2>2, <2>4, <2>5, <3>1, <3>2, <3>3 DEF One
    <3>4. CASE d # Today
      BY <1>5, <3>1, <3>2, <3>4 DEF One
    <3> QED BY <3>3, <3>4
  <2>7. ASSUME NEW d \in Days, NEW p \in Prefix
        PROVE  KeptForExpired[d][p] + Cardinality(Analyses(OfPrefix(L, d, p)))
                 <= PrefixAnalyses
    <3>1. KeptForExpired[d][p] + Cardinality(Analyses(OfPrefix(Live, d, p)))
            <= PrefixAnalyses
      BY <1>4 DEF WithinCaps
    <3>2. KeptForExpired[d][p] \in Nat
      BY <1>2
    <3>3. CASE d = Today /\ p = l.prefix
      BY <1>6, <2>2, <2>4, <2>5, <3>1, <3>2, <3>3 DEF One
    <3>4. CASE ~(d = Today /\ p = l.prefix)
      BY <1>6, <3>1, <3>2, <3>4 DEF One
    <3> QED BY <3>3, <3>4
  <2> QED BY <2>6, <2>7 DEF WithinCaps
<1> HIDE DEF R
<1>15. /\ DayLedger(PurgedDays(D), KeptExpired, L, Today - Retention)
       /\ NetworkLedger(PurgedPrefixes(P), KeptForExpired, L, Today)
       /\ HaveRows(L, PurgedRows(R), Today)
  BY <1>1, <1>3, <1>8, <1>11, <1>12, <1>13, PurgeCounts
<1>16. /\ DayLedger(days, kept, leases, purgedDay - Retention)'
       /\ NetworkLedger(prefixes, keptFor, leases, purgedDay)'
       /\ WithinCaps(kept, keptFor, leases)'
       /\ HaveRows(leases, prefixRows, purgedDay)'
  BY <1>7, <1>14, <1>15 DEF DayLedger, NetworkLedger, WithinCaps, HaveRows
<1> QED BY <1>16, CountsOfLedgers, PTL

LEMMA RefuseCounts ==
    ASSUME ChargeInv, CountsInv, ChargeInv', NEW p, NEW heavy, NEW lookup,
           Refuse(p, heavy, lookup)
    PROVE  CountsInv'
<1>1. /\ days' = DaysExpired /\ prefixes' = PrefixesExpired
      /\ prefixRows' = prefixRows /\ leases' = Live
      /\ kept' = KeptExpired /\ keptFor' = KeptForExpired
      /\ purgedDay' = purgedDay
  BY DEF Refuse, BookExpiry, timers
<1>2. /\ DayLedger(days, kept, leases, purgedDay - Retention)'
      /\ NetworkLedger(prefixes, keptFor, leases, purgedDay)'
      /\ WithinCaps(kept, keptFor, leases)'
      /\ HaveRows(leases, prefixRows, purgedDay)'
  BY <1>1, ExpiryCounts DEF DayLedger, NetworkLedger, WithinCaps, HaveRows
<1> QED BY <1>2, CountsOfLedgers, PTL

LEMMA AlarmCounts ==
    ASSUME ChargeInv, CountsInv, ChargeInv', Alarm
    PROVE  CountsInv'
<1>1. TypeOK /\ purgedDay <= Today
  BY DEF ChargeInv
<1>2. /\ days' = PurgedDays(DaysExpired) /\ prefixes' = PurgedPrefixes(PrefixesExpired)
      /\ prefixRows' = PurgedRows(prefixRows) /\ leases' = Live
      /\ kept' = KeptExpired /\ keptFor' = KeptForExpired
      /\ purgedDay' = Today
  BY DEF Alarm, BookExpiry
<1>3. /\ DaysExpired \in [Days -> DayRow]
      /\ PrefixesExpired \in [Days -> [Prefix -> PrefixRow]]
      /\ prefixRows \in SUBSET (Days \X Prefix) /\ Live \in SUBSET Lease
  BY <1>1, ExpiryType, LiveType DEF TypeOK
<1>4. /\ DayLedger(PurgedDays(DaysExpired), KeptExpired, Live, Today - Retention)
      /\ NetworkLedger(PurgedPrefixes(PrefixesExpired), KeptForExpired, Live, Today)
      /\ HaveRows(Live, PurgedRows(prefixRows), Today)
      /\ WithinCaps(KeptExpired, KeptForExpired, Live)
  BY <1>1, <1>3, ExpiryCounts, PurgeCounts
<1>5. /\ DayLedger(days, kept, leases, purgedDay - Retention)'
      /\ NetworkLedger(prefixes, keptFor, leases, purgedDay)'
      /\ WithinCaps(kept, keptFor, leases)'
      /\ HaveRows(leases, prefixRows, purgedDay)'
  BY <1>2, <1>4 DEF DayLedger, NetworkLedger, WithinCaps, HaveRows
<1> QED BY <1>5, CountsOfLedgers, PTL

\* A settle gives an admission back exactly when the analysis did not run, and
\* a network's exactly when the API did not answer.
LEMMA RefundOrRan ==
    ASSUME NEW l \in Lease, NEW r \in Reports, ~l.lookup
    PROVE  /\ RefundsCounts(l, r) <=> ~Ran(r)
           /\ RefundsPrefix(l, r) <=> ~Answered(r)
<1>1. r.db \in Int
  BY ReportDb DEF Unreported
<1>2. CASE r = [kind |-> "not_reached", db |-> Unreported]
  BY <1>2 DEF RefundsCounts, RefundsPrefix, Ran, Answered
<1>3. CASE r \in [kind : {"shed", "rejected", "reused", "computed"},
                 db : DbTimes \cup {Unreported}]
  <2>1. r.kind \in {"shed", "rejected", "reused", "computed"}
    BY <1>3
  <2> QED BY <1>1, <2>1 DEF RefundsCounts, RefundsPrefix, Ran, Answered
<1> QED BY <1>2, <1>3 DEF Reports

LEMMA SettleCounts ==
    ASSUME ChargeInv, CountsInv, ChargeInv', NEW l \in leases, NEW r \in Reports,
           Settle(l, r)
    PROVE  CountsInv'
<1> DEFINE L == leases \ {l}
           analysis == ~l.lookup
           ran == Ran(r)
           answered == Answered(r)
           cu == Cardinality(Uncovered(SettleWindow(l, r), charged))
<1>1. /\ TypeOK /\ l \in Lease /\ l.day \in Days /\ l.prefix \in Prefix
      /\ l.heavy \in BOOLEAN /\ l.lookup \in BOOLEAN
      /\ IsFiniteSet(leases) /\ IsFiniteSet(L) /\ l \notin L
  BY FS_RemoveElement DEF ChargeInv, TypeOK, Lease
<1>2. /\ analysis \in BOOLEAN /\ ran \in BOOLEAN /\ answered \in BOOLEAN
  BY DEF Ran, Answered
<1>3. /\ RefundsCounts(l, r) = (analysis /\ ~ran)
      /\ RefundsPrefix(l, r) = (analysis /\ ~answered)
  BY <1>1, RefundOrRan DEF RefundsCounts, RefundsPrefix
<1>4. L \cup {l} = leases
  OBVIOUS
<1>5. ASSUME NEW d \in Days
      PROVE  /\ Cardinality(Analyses(OfDay(leases, d)))
                  = Cardinality(Analyses(OfDay(L, d))) + One(~l.lookup /\ l.day = d)
             /\ Cardinality(Heavies(OfDay(leases, d)))
                  = Cardinality(Heavies(OfDay(L, d)))
                      + One(~l.lookup /\ l.heavy /\ l.day = d)
             /\ Cardinality(Analyses(OfDay(L, d))) \in Nat
             /\ Cardinality(Heavies(OfDay(L, d))) \in Nat
             /\ Cardinality(Analyses(OfDay(leases, d))) \in Nat
             /\ Cardinality(Heavies(OfDay(leases, d))) \in Nat
  <2> HIDE DEF L
  <2>1. /\ Cardinality(Analyses(OfDay(L \cup {l}, d)))
             = Cardinality(Analyses(OfDay(L, d))) + One(~l.lookup /\ l.day = d)
        /\ Cardinality(Heavies(OfDay(L \cup {l}, d)))
             = Cardinality(Heavies(OfDay(L, d)))
                 + One(~l.lookup /\ l.heavy /\ l.day = d)
    BY <1>1, CountAdded
  <2> QED BY <1>1, <1>4, <2>1, CountNats
<1>6. ASSUME NEW d \in Days, NEW p \in Prefix
      PROVE  /\ Cardinality(Analyses(OfPrefix(leases, d, p)))
                  = Cardinality(Analyses(OfPrefix(L, d, p)))
                      + One(~l.lookup /\ l.day = d /\ l.prefix = p)
             /\ Cardinality(Analyses(OfPrefix(L, d, p))) \in Nat
             /\ Cardinality(Analyses(OfPrefix(leases, d, p))) \in Nat
  <2> HIDE DEF L
  <2>1. Cardinality(Analyses(OfPrefix(L \cup {l}, d, p)))
          = Cardinality(Analyses(OfPrefix(L, d, p)))
              + One(~l.lookup /\ l.day = d /\ l.prefix = p)
    BY <1>1, CountAddedFor
  <2> QED BY <1>1, <1>4, <2>1, CountNats
<1>7. /\ days' = [days EXCEPT ![l.day] = SettledDay(l, r, cu)]
      /\ prefixes' = IF <<l.day, l.prefix>> \in prefixRows
                     THEN [prefixes EXCEPT ![l.day][l.prefix] = SettledPrefix(l, r, cu)]
                     ELSE prefixes
      /\ leases' = L /\ prefixRows' = prefixRows /\ purgedDay' = purgedDay
      /\ kept' = [kept EXCEPT ![l.day] =
                    [all |-> kept[l.day].all + One(analysis /\ ran),
                     heavy |-> kept[l.day].heavy + One((analysis /\ ran) /\ l.heavy)]]
      /\ keptFor' = [keptFor EXCEPT ![l.day][l.prefix] = @ + One(analysis /\ answered)]
  BY DEF Settle, timers
<1>8. /\ SettledDay(l, r, cu).admitted
           = Less(days[l.day].admitted, One(analysis /\ ~ran))
      /\ SettledDay(l, r, cu).heavy
           = Less(days[l.day].heavy, One((analysis /\ ~ran) /\ l.heavy))
      /\ SettledPrefix(l, r, cu).count
           = Less(prefixes[l.day][l.prefix].count, One(analysis /\ ~answered))
  BY <1>3 DEF SettledDay, SettledPrefix
<1>9. /\ DayLedger(days, kept, leases, purgedDay - Retention)
      /\ NetworkLedger(prefixes, keptFor, leases, purgedDay)
      /\ WithinCaps(kept, keptFor, leases)
      /\ HaveRows(leases, prefixRows, purgedDay)
  BY LedgersOfCounts
<1> HIDE DEF L, analysis, ran, answered, cu
<1>10. ASSUME NEW d \in Days
       PROVE  /\ d >= purgedDay - Retention =>
                   /\ days'[d].admitted = kept'[d].all + Cardinality(Analyses(OfDay(L, d)))
                   /\ days'[d].heavy = kept'[d].heavy + Cardinality(Heavies(OfDay(L, d)))
              /\ kept'[d].all + Cardinality(Analyses(OfDay(L, d))) <= GlobalAnalyses
              /\ kept'[d].heavy + Cardinality(Heavies(OfDay(L, d))) <= HeavyAnalyses
  <2>1. /\ days[d].admitted \in Nat /\ days[d].heavy \in Nat
        /\ kept[d].all \in Nat /\ kept[d].heavy \in Nat
        /\ GlobalAnalyses \in Nat /\ HeavyAnalyses \in Nat
    BY <1>1, GovernorConstants DEF TypeOK, DayRow
  <2>2. /\ d >= purgedDay - Retention =>
             /\ days[d].admitted = kept[d].all + Cardinality(Analyses(OfDay(leases, d)))
             /\ days[d].heavy = kept[d].heavy + Cardinality(Heavies(OfDay(leases, d)))
        /\ kept[d].all + Cardinality(Analyses(OfDay(leases, d))) <= GlobalAnalyses
        /\ kept[d].heavy + Cardinality(Heavies(OfDay(leases, d))) <= HeavyAnalyses
    BY <1>9 DEF DayLedger, WithinCaps
  <2>3. CASE d = l.day
    <3>1. /\ days'[d].admitted = Less(days[d].admitted, One(analysis /\ ~ran))
          /\ days'[d].heavy = Less(days[d].heavy, One((analysis /\ l.heavy) /\ ~ran))
      <4>1. days'[d] = SettledDay(l, r, cu)
        BY <1>1, <1>7, <2>3 DEF TypeOK
      <4>2. ((analysis /\ ~ran) /\ l.heavy) = ((analysis /\ l.heavy) /\ ~ran)
        BY <1>1, <1>2
      <4> QED BY <1>8, <2>3, <4>1, <4>2
    <3>2. /\ kept'[d].all = kept[d].all + One(analysis /\ ran)
          /\ kept'[d].heavy = kept[d].heavy + One((analysis /\ l.heavy) /\ ran)
      <4>1. kept'[d] = [all |-> kept[d].all + One(analysis /\ ran),
                        heavy |-> kept[d].heavy + One((analysis /\ ran) /\ l.heavy)]
        BY <1>1, <1>7, <2>3 DEF TypeOK
      <4>2. ((analysis /\ ran) /\ l.heavy) = ((analysis /\ l.heavy) /\ ran)
        BY <1>1, <1>2
      <4> QED BY <4>1, <4>2
    <3>3. /\ Cardinality(Analyses(OfDay(leases, d)))
               = Cardinality(Analyses(OfDay(L, d))) + One(analysis)
          /\ Cardinality(Heavies(OfDay(leases, d)))
               = Cardinality(Heavies(OfDay(L, d))) + One(analysis /\ l.heavy)
      BY <1>5, <2>3 DEF analysis, One
    <3>4. (analysis /\ l.heavy) \in BOOLEAN
      BY <1>1, <1>2
    <3>5. /\ days[d].admitted = kept[d].all + Cardinality(Analyses(OfDay(leases, d)))
               => days'[d].admitted = kept'[d].all + Cardinality(Analyses(OfDay(L, d)))
          /\ kept'[d].all + Cardinality(Analyses(OfDay(L, d)))
               <= kept[d].all + Cardinality(Analyses(OfDay(leases, d)))
      <4> DEFINE back == One(analysis /\ ~ran)
                 stay == One(analysis /\ ran)
                 m == Cardinality(Analyses(OfDay(L, d)))
      <4>1. back \in Nat /\ stay \in Nat /\ m \in Nat
        BY <1>5, OneType
      <4>2. Cardinality(Analyses(OfDay(leases, d))) = m + (back + stay)
        <5>1. One(analysis) = back + stay
          BY DEF One
        <5> HIDE DEF back, stay
        <5> QED BY <3>3, <4>1, <5>1
      <4>3. days'[d].admitted = Less(days[d].admitted, back)
            /\ kept'[d].all = kept[d].all + stay
        BY <3>1, <3>2
      <4> HIDE DEF back, stay, m
      <4>4. /\ days[d].admitted = kept[d].all + (m + (back + stay))
                 => Less(days[d].admitted, back) = (kept[d].all + stay) + m
            /\ (kept[d].all + stay) + m <= kept[d].all + (m + (back + stay))
        <5> DEFINE n == days[d].admitted
                   k == kept[d].all
        <5>1. n \in Nat /\ k \in Nat
          BY <2>1
        <5> HIDE DEF n, k
        <5>2. /\ n = k + (m + (back + stay)) => Less(n, back) = (k + stay) + m
              /\ (k + stay) + m <= k + (m + (back + stay))
          BY <4>1, <5>1, LessBack
        <5> QED BY <5>2 DEF n, k
      <4> QED BY <4>2, <4>3, <4>4 DEF m
    <3>6. /\ days[d].heavy = kept[d].heavy + Cardinality(Heavies(OfDay(leases, d)))
               => days'[d].heavy = kept'[d].heavy + Cardinality(Heavies(OfDay(L, d)))
          /\ kept'[d].heavy + Cardinality(Heavies(OfDay(L, d)))
               <= kept[d].heavy + Cardinality(Heavies(OfDay(leases, d)))
      <4> DEFINE back == One((analysis /\ l.heavy) /\ ~ran)
                 stay == One((analysis /\ l.heavy) /\ ran)
                 m == Cardinality(Heavies(OfDay(L, d)))
      <4>1. back \in Nat /\ stay \in Nat /\ m \in Nat
        BY <1>5, OneType
      <4>2. Cardinality(Heavies(OfDay(leases, d))) = m + (back + stay)
        <5>1. One(analysis /\ l.heavy) = back + stay
          BY DEF One
        <5> HIDE DEF back, stay
        <5> QED BY <3>3, <4>1, <5>1
      <4>3. days'[d].heavy = Less(days[d].heavy, back)
            /\ kept'[d].heavy = kept[d].heavy + stay
        BY <3>1, <3>2
      <4> HIDE DEF back, stay, m
      <4>4. /\ days[d].heavy = kept[d].heavy + (m + (back + stay))
                 => Less(days[d].heavy, back) = (kept[d].heavy + stay) + m
            /\ (kept[d].heavy + stay) + m <= kept[d].heavy + (m + (back + stay))
        <5> DEFINE n == days[d].heavy
                   k == kept[d].heavy
        <5>1. n \in Nat /\ k \in Nat
          BY <2>1
        <5> HIDE DEF n, k
        <5>2. /\ n = k + (m + (back + stay)) => Less(n, back) = (k + stay) + m
              /\ (k + stay) + m <= k + (m + (back + stay))
          BY <4>1, <5>1, LessBack
        <5> QED BY <5>2 DEF n, k
      <4> QED BY <4>2, <4>3, <4>4 DEF m
    <3>7. kept'[d].all \in Nat /\ kept'[d].heavy \in Nat
      BY <2>1, <3>2, OneType
    <3> QED BY <1>5, <2>1, <2>2, <3>5, <3>6, <3>7
  <2>4. CASE d # l.day
    <3>1. days'[d] = days[d] /\ kept'[d] = kept[d]
      BY <1>1, <1>7, <2>4 DEF TypeOK
    <3>2. /\ Cardinality(Analyses(OfDay(leases, d))) = Cardinality(Analyses(OfDay(L, d)))
          /\ Cardinality(Heavies(OfDay(leases, d))) = Cardinality(Heavies(OfDay(L, d)))
      BY <1>5, <2>4 DEF One
    <3> QED BY <2>2, <3>1, <3>2
  <2> QED BY <2>3, <2>4
<1>11. ASSUME NEW d \in Days, NEW p \in Prefix
       PROVE  /\ d >= purgedDay =>
                   prefixes'[d][p].count
                     = keptFor'[d][p] + Cardinality(Analyses(OfPrefix(L, d, p)))
              /\ keptFor'[d][p] + Cardinality(Analyses(OfPrefix(L, d, p)))
                   <= PrefixAnalyses
  <2>1. /\ prefixes[d][p].count \in Nat /\ keptFor[d][p] \in Nat
        /\ PrefixAnalyses \in Nat
    BY <1>1, GovernorConstants DEF TypeOK, PrefixRow
  <2>2. /\ d >= purgedDay =>
             prefixes[d][p].count
               = keptFor[d][p] + Cardinality(Analyses(OfPrefix(leases, d, p)))
        /\ keptFor[d][p] + Cardinality(Analyses(OfPrefix(leases, d, p)))
             <= PrefixAnalyses
    BY <1>9 DEF NetworkLedger, WithinCaps
  <2>3. CASE d = l.day /\ p = l.prefix
    <3>1. d >= purgedDay =>
            prefixes'[d][p].count = Less(prefixes[d][p].count, One(analysis /\ ~answered))
      <4>1. d >= purgedDay => <<l.day, l.prefix>> \in prefixRows
        BY <1>9, <2>3 DEF HaveRows
      <4>2. d >= purgedDay => prefixes'[d][p] = SettledPrefix(l, r, cu)
        BY <1>1, <1>7, <2>3, <4>1 DEF TypeOK
      <4> QED BY <1>8, <2>3, <4>2
    <3>2. keptFor'[d][p] = keptFor[d][p] + One(analysis /\ answered)
      BY <1>1, <1>7, <2>3 DEF TypeOK
    <3>3. Cardinality(Analyses(OfPrefix(leases, d, p)))
            = Cardinality(Analyses(OfPrefix(L, d, p))) + One(analysis)
      BY <1>6, <2>3 DEF analysis, One
    <3>4. /\ prefixes[d][p].count
                 = keptFor[d][p] + Cardinality(Analyses(OfPrefix(leases, d, p)))
               => Less(prefixes[d][p].count, One(analysis /\ ~answered))
                    = keptFor'[d][p] + Cardinality(Analyses(OfPrefix(L, d, p)))
          /\ keptFor'[d][p] + Cardinality(Analyses(OfPrefix(L, d, p)))
               <= keptFor[d][p] + Cardinality(Analyses(OfPrefix(leases, d, p)))
      <4> DEFINE back == One(analysis /\ ~answered)
                 stay == One(analysis /\ answered)
                 m == Cardinality(Analyses(OfPrefix(L, d, p)))
      <4>1. back \in Nat /\ stay \in Nat /\ m \in Nat
        BY <1>6, OneType
      <4>2. Cardinality(Analyses(OfPrefix(leases, d, p))) = m + (back + stay)
        <5>1. One(analysis) = back + stay
          BY DEF One
        <5> HIDE DEF back, stay
        <5> QED BY <3>3, <4>1, <5>1
      <4>3. keptFor'[d][p] = keptFor[d][p] + stay
        BY <3>2
      <4> HIDE DEF back, stay, m
      <4>4. /\ prefixes[d][p].count = keptFor[d][p] + (m + (back + stay))
                 => Less(prefixes[d][p].count, back) = (keptFor[d][p] + stay) + m
            /\ (keptFor[d][p] + stay) + m <= keptFor[d][p] + (m + (back + stay))
        <5> DEFINE n == prefixes[d][p].count
                   k == keptFor[d][p]
        <5>1. n \in Nat /\ k \in Nat
          BY <2>1
        <5> HIDE DEF n, k
        <5>2. /\ n = k + (m + (back + stay)) => Less(n, back) = (k + stay) + m
              /\ (k + stay) + m <= k + (m + (back + stay))
          BY <4>1, <5>1, LessBack
        <5> QED BY <5>2 DEF n, k
      <4> QED BY <4>2, <4>3, <4>4 DEF m, back
    <3>5. keptFor'[d][p] \in Nat
      BY <2>1, <3>2, OneType
    <3> QED BY <1>6, <2>1, <2>2, <3>1, <3>4, <3>5
  <2>4. CASE ~(d = l.day /\ p = l.prefix)
    <3>1. prefixes'[d][p] = prefixes[d][p] /\ keptFor'[d][p] = keptFor[d][p]
      BY <1>1, <1>7, <2>4 DEF TypeOK
    <3>2. Cardinality(Analyses(OfPrefix(leases, d, p)))
            = Cardinality(Analyses(OfPrefix(L, d, p)))
      BY <1>6, <2>4 DEF One
    <3> QED BY <2>2, <3>1, <3>2
  <2> QED BY <2>3, <2>4
<1>12. HaveRows(L, prefixRows, purgedDay)
  BY <1>9 DEF HaveRows, L
<1>13. /\ DayLedger(days, kept, leases, purgedDay - Retention)'
       /\ NetworkLedger(prefixes, keptFor, leases, purgedDay)'
       /\ WithinCaps(kept, keptFor, leases)'
       /\ HaveRows(leases, prefixRows, purgedDay)'
  BY <1>7, <1>10, <1>11, <1>12 DEF DayLedger, NetworkLedger, WithinCaps, HaveRows
<1> QED BY <1>13, CountsOfLedgers, PTL

\* A step that leaves the books, the purge day and the history alone: time
\* passes, or a poll ends.
LEMMA QuietCounts ==
    ASSUME ChargeInv, CountsInv, ChargeInv', UNCHANGED <<books, purgedDay, history>>
    PROVE  CountsInv'
<1>1. /\ DayLedger(days, kept, leases, purgedDay - Retention)
      /\ NetworkLedger(prefixes, keptFor, leases, purgedDay)
      /\ WithinCaps(kept, keptFor, leases)
      /\ HaveRows(leases, prefixRows, purgedDay)
  BY LedgersOfCounts
<1>2. /\ DayLedger(days, kept, leases, purgedDay - Retention)'
      /\ NetworkLedger(prefixes, keptFor, leases, purgedDay)'
      /\ WithinCaps(kept, keptFor, leases)'
      /\ HaveRows(leases, prefixRows, purgedDay)'
  BY <1>1 DEF books, history, DayLedger, NetworkLedger, WithinCaps, HaveRows
<1> QED BY <1>2, CountsOfLedgers, PTL

LEMMA InitCounts == Init => CountsInv
<1> SUFFICES ASSUME Init PROVE CountsInv
  OBVIOUS
<1>1. ChargeInv
  BY InitCharges
<1>2. leases = {}
  BY DEF Init
<1>3. ASSUME NEW d \in Days, NEW p \in Prefix
      PROVE  /\ days[d].admitted = 0 /\ days[d].heavy = 0
             /\ kept[d].all = 0 /\ kept[d].heavy = 0
             /\ prefixes[d][p].count = 0 /\ keptFor[d][p] = 0
  BY DEF Init, NoDay, NoPrefix
<1>4. ASSUME NEW d \in Days
      PROVE  /\ days[d].admitted = 0 /\ days[d].heavy = 0
             /\ kept[d].all = 0 /\ kept[d].heavy = 0
  BY DEF Init, NoDay
<1>5. ASSUME NEW d, NEW p
      PROVE  /\ Cardinality(Analyses(OfDay(leases, d))) = 0
             /\ Cardinality(Heavies(OfDay(leases, d))) = 0
             /\ Cardinality(Analyses(OfPrefix(leases, d, p))) = 0
  <2>1. /\ Analyses(OfDay(leases, d)) = {} /\ Heavies(OfDay(leases, d)) = {}
        /\ Analyses(OfPrefix(leases, d, p)) = {}
    BY <1>2 DEF Analyses, Heavies, OfDay, OfPrefix
  <2> QED BY <2>1, FS_EmptySet
<1>6. GlobalAnalyses >= 0 /\ HeavyAnalyses >= 0 /\ PrefixAnalyses >= 0
  BY GovernorConstants
<1>7. /\ DayLedger(days, kept, leases, purgedDay - Retention)
      /\ NetworkLedger(prefixes, keptFor, leases, purgedDay)
      /\ WithinCaps(kept, keptFor, leases)
  BY <1>3, <1>4, <1>5, <1>6 DEF DayLedger, NetworkLedger, WithinCaps
<1>8. HaveRows(leases, prefixRows, purgedDay)
  BY <1>2 DEF HaveRows
<1> QED BY <1>1, <1>7, <1>8, CountsOfLedgers

LEMMA AdmitCounts ==
    ASSUME ChargeInv, CountsInv, ChargeInv', NEW p \in Prefix, NEW heavy \in BOOLEAN,
           NEW i \in LeaseId, Admit(p, heavy, i)
    PROVE  CountsInv'
<1> DEFINE day == DaysExpired[Today]
           row == PrefixesExpired[Today][p]
           l == [id |-> i, day |-> Today, prefix |-> p, heavy |-> heavy,
                 lookup |-> FALSE, at |-> now]
           dayOne == [day EXCEPT !.admitted = @ + 1]
           dayRow == [day EXCEPT !.admitted = @ + 1, !.heavy = @ + One(heavy)]
           rowOne == [row EXCEPT !.count = @ + 1]
           prefixRow == [row EXCEPT !.count = @ + 1, !.attempts = @ + 1]
<1>1. TypeOK
  BY DEF ChargeInv
<1>2. day \in DayRow /\ row \in PrefixRow
  BY <1>1, ExpiryType, TodayIsADay
<1>3. /\ l \in Lease /\ l.day = Today /\ l.prefix = p /\ l.heavy = heavy /\ l.id = i
      /\ ~l.lookup
  BY <1>1, TodayIsADay DEF Lease, TypeOK
<1>4. l \notin leases
  BY DEF Admit, FreeId
<1>5. Grant(l, dayRow, prefixRow, now) /\ AnalysisCountsAllow(p, heavy)
  BY DEF Admit
<1>6. /\ dayOne \in DayRow /\ dayOne.admitted = day.admitted + 1
      /\ dayOne.heavy = day.heavy
  <2> HIDE DEF day
  <2> QED BY <1>2 DEF DayRow
<1>7. rowOne \in PrefixRow /\ rowOne.count = row.count + 1
  <2> HIDE DEF row
  <2> QED BY <1>2 DEF PrefixRow
<1>8. dayRow = [dayOne EXCEPT !.heavy = day.heavy + One(heavy)]
  OBVIOUS
<1>9. prefixRow = [rowOne EXCEPT !.attempts = row.attempts + 1]
  OBVIOUS
<1> HIDE DEF day, row, l, dayOne, rowOne
<1>10. /\ dayRow \in DayRow /\ dayRow.admitted = day.admitted + 1
       /\ dayRow.heavy = day.heavy + One(heavy)
  <2>1. day.heavy + One(heavy) \in Nat
    BY <1>2, OneType DEF DayRow
  <2> HIDE DEF dayRow
  <2> QED BY <1>6, <1>8, <2>1 DEF DayRow
<1>11. prefixRow \in PrefixRow /\ prefixRow.count = row.count + 1
  <2>1. row.attempts + 1 \in Nat
    BY <1>2 DEF PrefixRow
  <2> HIDE DEF prefixRow
  <2> QED BY <1>7, <1>9, <2>1 DEF PrefixRow
<1> HIDE DEF dayRow, prefixRow
<1>12. /\ One(~l.lookup) = 1 /\ One(~l.lookup /\ l.heavy) = One(heavy)
  BY <1>3 DEF One
<1>13. /\ dayRow.admitted = DaysExpired[Today].admitted + One(~l.lookup)
       /\ dayRow.heavy = DaysExpired[Today].heavy + One(~l.lookup /\ l.heavy)
       /\ prefixRow.count = PrefixesExpired[Today][l.prefix].count + One(~l.lookup)
  BY <1>3, <1>10, <1>11, <1>12 DEF day, row
<1>14. AnalysisCountsAllow(l.prefix, l.heavy)
  BY <1>3, <1>5
<1> QED BY <1>3, <1>4, <1>5, <1>10, <1>11, <1>13, <1>14, GrantCounts

LEMMA AdmitLookupCounts ==
    ASSUME ChargeInv, CountsInv, ChargeInv', NEW p \in Prefix, NEW i \in LeaseId,
           AdmitLookup(p, i)
    PROVE  CountsInv'
<1> DEFINE day == DaysExpired[Today]
           row == PrefixesExpired[Today][p]
           l == [id |-> i, day |-> Today, prefix |-> p, heavy |-> FALSE,
                 lookup |-> TRUE, at |-> now]
           dayRow == [day EXCEPT !.lookups = @ + 1]
           prefixRow == [row EXCEPT !.lookups = @ + 1]
<1>1. TypeOK
  BY DEF ChargeInv
<1>2. day \in DayRow /\ row \in PrefixRow
  BY <1>1, ExpiryType, TodayIsADay
<1>3. /\ l \in Lease /\ l.day = Today /\ l.prefix = p /\ l.id = i /\ l.lookup
  BY <1>1, TodayIsADay DEF Lease, TypeOK
<1>4. l \notin leases
  BY DEF AdmitLookup, FreeId
<1>5. Grant(l, dayRow, prefixRow, lastAdmitAt)
  BY DEF AdmitLookup
<1> HIDE DEF day, row, l
<1>6. /\ dayRow \in DayRow /\ dayRow.admitted = day.admitted /\ dayRow.heavy = day.heavy
      /\ day.admitted \in Nat /\ day.heavy \in Nat
  BY <1>2 DEF DayRow
<1>7. prefixRow \in PrefixRow /\ prefixRow.count = row.count /\ row.count \in Nat
  BY <1>2 DEF PrefixRow
<1> HIDE DEF dayRow, prefixRow
<1>8. One(~l.lookup) = 0 /\ One(~l.lookup /\ l.heavy) = 0
  BY <1>3 DEF One
<1>9. /\ dayRow.admitted = DaysExpired[Today].admitted + One(~l.lookup)
      /\ dayRow.heavy = DaysExpired[Today].heavy + One(~l.lookup /\ l.heavy)
      /\ prefixRow.count = PrefixesExpired[Today][l.prefix].count + One(~l.lookup)
  BY <1>3, <1>6, <1>7, <1>8 DEF day, row
<1> QED BY <1>3, <1>4, <1>5, <1>6, <1>7, <1>9, GrantCounts

LEMMA NextCounts ==
    ASSUME ChargeInv, CountsInv, [Next]_vars
    PROVE  CountsInv'
<1>0. ChargeInv'
  BY NextCharges
<1>1. ASSUME NEW p \in Prefix, NEW heavy \in BOOLEAN, NEW i \in LeaseId,
             Admit(p, heavy, i)
      PROVE  CountsInv'
  BY <1>0, <1>1, AdmitCounts
<1>2. ASSUME NEW p \in Prefix, NEW i \in LeaseId, AdmitLookup(p, i)
      PROVE  CountsInv'
  BY <1>0, <1>2, AdmitLookupCounts
<1>3. ASSUME NEW p \in Prefix, NEW heavy \in BOOLEAN, NEW lookup \in BOOLEAN,
             Refuse(p, heavy, lookup)
      PROVE  CountsInv'
  BY <1>0, <1>3, RefuseCounts
<1>4. ASSUME NEW l \in leases, NEW r \in Reports, Settle(l, r)
      PROVE  CountsInv'
  BY <1>0, <1>4, SettleCounts
<1>5. CASE Alarm
  BY <1>0, <1>5, AlarmCounts
<1>6. CASE PollSucceeds \/ PollFails
  <2>1. PICK result : PollEnds(result)
    BY <1>6 DEF PollSucceeds, PollFails
  <2> QED BY <1>0, <2>1, QuietCounts DEF PollEnds
<1>7. CASE PollInterrupted
  BY <1>0, <1>7, QuietCounts DEF PollInterrupted
<1>8. CASE Tick
  BY <1>0, <1>8, QuietCounts DEF Tick, timers
<1>9. CASE UNCHANGED vars
  BY <1>0, <1>9, QuietCounts DEF vars, timers
<1> QED BY <1>1, <1>2, <1>3, <1>4, <1>5, <1>6, <1>7, <1>8, <1>9 DEF Next

LEMMA CountsInvariant == Spec => []CountsInv
<1>1. Init => CountsInv
  BY InitCounts
<1>2. ChargeInv /\ CountsInv /\ [Next]_vars => CountsInv'
  BY NextCounts
<1> QED BY <1>1, <1>2, ChargesInvariant, PTL DEF Spec

\* Whatever the order of settles, expiries and purges, and whatever the Worker
\* reports (settle, expireLeases, purge): a day's admitted and heavy counts are
\* its analyses that ran or may have run and those in flight, a network's count
\* those the API answered and those in flight.  No refund is given twice, none
\* for an analysis that ran, and MAX(0, ..) never hides one.
THEOREM CountsConservedHolds == Spec => []CountsConserved
<1>1. CountsInv => CountsConserved
  BY DEF CountsInv
<1> QED BY <1>1, CountsInvariant, PTL

\* No interleaving of admissions, refunds and expiries lets more analyses of a
\* day run than the global and heavy caps, or more of a network be answered in
\* a day than its own (admit's count checks).
THEOREM DailyCapsHold == Spec => []DailyCaps
<1>1. CountsInv => DailyCaps
  BY DEF CountsInv
<1> QED BY <1>1, CountsInvariant, PTL

-----------------------------------------------------------------------------
(* The alarm. *)

\* Scheduling leaves both as they were or gives the platform what it stores.
LEMMA ScheduleBelieves ==
    ASSUME NEW times, NEW current, ScheduleAlarm(times, current)
    PROVE  alarm' = alarmAt' \/ (alarmAt' = current /\ alarm' = alarm)
BY DEF ScheduleAlarm

LEMMA NextBelieves ==
    ASSUME TypeOK, AlarmBelieved, [Next]_vars
    PROVE  AlarmBelieved'
<1>1. now \in Nat /\ NoTime \in Int /\ NoTime < now /\ alarmAt \in Int /\ alarm \in Int
  BY GovernorConstants DEF TypeOK, NoTime
<1>2. ASSUME UNCHANGED <<now, alarmAt, alarm>>
      PROVE  AlarmBelieved'
  BY <1>2 DEF AlarmBelieved
<1>3. ASSUME NEW times, ScheduleAlarm(times, alarmAt), now' = now
      PROVE  AlarmBelieved'
  BY <1>3, ScheduleBelieves DEF AlarmBelieved
<1>4. ASSUME NEW p \in Prefix, NEW heavy \in BOOLEAN, NEW i \in LeaseId,
             Admit(p, heavy, i)
      PROVE  AlarmBelieved'
  BY <1>3, <1>4 DEF Admit, Grant
<1>5. ASSUME NEW p \in Prefix, NEW i \in LeaseId, AdmitLookup(p, i)
      PROVE  AlarmBelieved'
  BY <1>3, <1>5 DEF AdmitLookup, Grant
<1>6. ASSUME NEW p \in Prefix, NEW heavy \in BOOLEAN, NEW lookup \in BOOLEAN,
             Refuse(p, heavy, lookup)
      PROVE  AlarmBelieved'
  BY <1>2, <1>6 DEF Refuse, timers
<1>7. ASSUME NEW l \in leases, NEW r \in Reports, Settle(l, r)
      PROVE  AlarmBelieved'
  BY <1>2, <1>7 DEF Settle, timers
<1>8. CASE Alarm
  <2>1. now' = now
    BY <1>8 DEF Alarm
  <2>2. CASE alarmAt' = NoTime
    BY <1>1, <2>1, <2>2 DEF AlarmBelieved
  <2>3. CASE alarmAt' # NoTime
    <3>1. PICK times : ScheduleAlarm(times, NoTime)
      BY <1>8, <2>3 DEF Alarm
    <3> QED BY <2>1, <2>3, <3>1, ScheduleBelieves DEF AlarmBelieved
  <2> QED BY <2>2, <2>3
<1>9. CASE PollSucceeds \/ PollFails
  <2>1. PICK result : PollEnds(result)
    BY <1>9 DEF PollSucceeds, PollFails
  <2> QED BY <1>3, <2>1 DEF PollEnds
<1>10. CASE PollInterrupted
  BY <1>1, <1>10 DEF PollInterrupted, AlarmBelieved
<1>11. CASE Tick
  <2>1. now' = now + 1 /\ alarmAt' = alarmAt /\ alarm' = alarm
    BY <1>11 DEF Tick, timers
  <2> QED BY <1>1, <2>1 DEF AlarmBelieved
<1>12. CASE UNCHANGED vars
  BY <1>2, <1>12 DEF vars, timers
<1> QED BY <1>4, <1>5, <1>6, <1>7, <1>8, <1>9, <1>10, <1>11, <1>12 DEF Next

\* An alarm the stored state still believes is ahead is the one the platform
\* holds (scheduleAlarm writes both, alarm() forgets it first), so a wanted
\* alarm that is skipped because one is pending is never lost, evictions during
\* a poll included.
THEOREM AlarmBelievedHolds == Spec => []AlarmBelieved
<1>1. Init => AlarmBelieved
  BY DEF Init, AlarmBelieved
<1>2. TypeOK /\ AlarmBelieved /\ [Next]_vars => AlarmBelieved'
  BY NextBelieves
<1> QED BY <1>1, <1>2, TypeCorrect, PTL DEF Spec

-----------------------------------------------------------------------------
(* Uptime: what a day pays for, with what its leases may add, fits its ceiling. *)

\* The uptime a day can still come to: paid for, or assumed of its leases.
Committed(d) == upOf[d] \cup (UpTime(OfDay(leases, d)) \ ever)

LEMMA UptimeOfCommitted ==
    ASSUME TypeOK,
           \A d \in Days : upOf[d] \subseteq ever /\ Cardinality(Committed(d)) <= Ceiling
    PROVE  UptimeInv
BY DEF UptimeInv, Committed

LEMMA CommittedOfUptime ==
    ASSUME UptimeInv
    PROVE  \A d \in Days : upOf[d] \subseteq ever /\ Cardinality(Committed(d)) <= Ceiling
BY DEF UptimeInv, Committed

\* A step after which no day is committed to more keeps the ceiling.
LEMMA CommittedShrinks ==
    ASSUME TypeOK, TypeOK', UptimeInv,
           \A d \in Days : /\ upOf'[d] \subseteq ever'
                           /\ Committed(d)' \subseteq Committed(d)
    PROVE  UptimeInv'
<1>1. ASSUME NEW d \in Days
      PROVE  Cardinality(Committed(d)') <= Ceiling
  <2>1. UpTime(OfDay(leases, d)) \in SUBSET Ticks
    BY UpTimeTicks DEF OfDay
  <2>2. Committed(d) \in SUBSET Ticks /\ Committed(d)' \in SUBSET Ticks
    BY <2>1 DEF TypeOK, Committed
  <2>3. Cardinality(Committed(d)') <= Cardinality(Committed(d))
    BY <2>2, TicksFinite, FS_Subset
  <2>4. Cardinality(Committed(d)) <= Ceiling
    BY CommittedOfUptime
  <2>5. /\ Cardinality(Committed(d)) \in Nat /\ Cardinality(Committed(d)') \in Nat
        /\ Ceiling \in Nat
    BY <2>2, TicksFinite, GovernorConstants DEF Ceiling, Larger
  <2> QED BY <2>3, <2>4, <2>5
<1> QED BY <1>1 DEF UptimeInv, Committed, Ceiling

\* An expiry pays for no more than its leases were assumed to add.
LEMMA ExpiryCommits ==
    ASSUME TypeOK, UptimeInv, BookExpiry, NEW d \in Days
    PROVE  /\ upOf'[d] \subseteq ever'
           /\ upOf'[d] \cup (UpTime(OfDay(Live, d)) \ ever') \subseteq Committed(d)
<1>1. ExpiryAddsAll(OfDay(Stale, d)) \subseteq UpTime(OfDay(Stale, d))
  BY DEF ExpiryAddsAll, ExpiryAdds, Uncovered, UpTime
<1>2. /\ UpTime(OfDay(Stale, d)) \subseteq UpTime(Stale)
      /\ UpTime(OfDay(Stale, d)) \subseteq UpTime(OfDay(leases, d))
      /\ UpTime(OfDay(Live, d)) \subseteq UpTime(OfDay(leases, d))
  BY DEF UpTime, OfDay, Stale, Live
<1>3. /\ upOf'[d] = upOf[d] \cup (ExpiryAddsAll(OfDay(Stale, d)) \ ever)
      /\ ever' = ever \cup UpTime(Stale)
  BY DEF BookExpiry, UpOfExpired
<1>4. upOf[d] \subseteq ever
  BY DEF UptimeInv
<1> QED BY <1>1, <1>2, <1>3, <1>4 DEF Committed

\* An admission was held against the ceiling with every lease of the day.
LEMMA GrantUptime ==
    ASSUME ChargeInv, ChargeInv', UptimeInv, NEW l \in Lease, l.day = Today, l.at = now,
           NEW dayRow, NEW prefixRow, NEW admitAt, Grant(l, dayRow, prefixRow, admitAt),
           DaysExpired[Today].cu + WithCandidate(OfDay(Live, Today)) <= DayCeiling
    PROVE  UptimeInv'
<1>1. /\ TypeOK /\ TypeOK' /\ Today \in Days
      /\ DaysExpired[Today].cu \in Nat
  BY TodayIsADay, ExpiryType DEF ChargeInv, DayRow
<1>2. BookExpiry /\ leases' = Live \cup {l} /\ now' = now
  BY DEF Grant
<1>3. ASSUME NEW d \in Days, d # Today
      PROVE  upOf'[d] \subseteq ever' /\ Cardinality(Committed(d)') <= Ceiling
  <2>1. OfDay(leases, d)' = OfDay(Live, d)
    BY <1>2, <1>3 DEF OfDay
  <2>2. /\ upOf'[d] \subseteq ever'
        /\ upOf'[d] \cup (UpTime(OfDay(Live, d)) \ ever') \subseteq Committed(d)
    BY <1>1, <1>2, ExpiryCommits
  <2>3. Committed(d)' = upOf'[d] \cup (UpTime(OfDay(Live, d)) \ ever')
    BY <2>1 DEF Committed, UpTime
  <2>4. UpTime(OfDay(leases, d)) \in SUBSET Ticks
    BY <1>1, UpTimeTicks DEF OfDay
  <2>5. Committed(d) \in SUBSET Ticks /\ Committed(d)' \in SUBSET Ticks
    BY <1>1, <2>2, <2>3, <2>4 DEF TypeOK, Committed
  <2>6. Cardinality(Committed(d)') <= Cardinality(Committed(d))
    BY <2>2, <2>3, <2>5, TicksFinite, FS_Subset
  <2>7. /\ Cardinality(Committed(d)) <= Ceiling
        /\ Cardinality(Committed(d)) \in Nat /\ Cardinality(Committed(d)') \in Nat
        /\ Ceiling \in Nat
    BY <2>5, TicksFinite, CommittedOfUptime, GovernorConstants DEF Ceiling, Larger
  <2> QED BY <2>2, <2>6, <2>7
<1>4. ASSUME NEW d \in Days, d = Today
      PROVE  upOf'[d] \subseteq ever' /\ Cardinality(Committed(d)') <= Ceiling
  <2> DEFINE C == UpTime(OfDay(Live, d)) \cup Provisional(now)
             U == upOf'[d]
  <2>1. upOf'[d] \subseteq ever'
    BY <1>1, <1>2, ExpiryCommits
  <2>2. OfDay(leases, d)' = OfDay(Live, d) \cup {l}
    BY <1>2, <1>4 DEF OfDay
  <2>3. (UpTime(OfDay(leases, d)))' = C
    BY <2>2 DEF UpTime
  <2>4. ChargedExpired \subseteq ever'
    BY <1>2 DEF ChargeInv, BookExpiry
  <2>5. Committed(d)' = U \cup ((C \ ever') \ U)
    <3> HIDE DEF C
    <3> QED BY <2>1, <2>3 DEF Committed
  <2>6. C \in SUBSET Ticks
    <3>1. OfDay(Live, d) \in SUBSET leases /\ now \in 0 .. MaxTime
      BY <1>1, LiveType DEF OfDay, TypeOK
    <3>2. UpTime(OfDay(Live, d)) \in SUBSET Ticks
      BY <1>1, <3>1, UpTimeTicks
    <3>3. Provisional(now) \in SUBSET Ticks
      BY <3>1, BudgetConstants, GovernorConstants DEF Provisional, Window, Ticks
    <3> QED BY <3>2, <3>3
  <2>7. WithCandidate(OfDay(Live, d)) = Cardinality(C \ ChargedExpired)
    BY DEF WithCandidate, Uncovered
  <2> HIDE DEF C
  <2>8. Cardinality(U) <= DaysExpired[d].cu
    <3>1. d >= purgedDay - Retention
      <4>1. purgedDay <= d /\ purgedDay \in Int /\ d \in Int /\ Retention \in Nat
        BY <1>1, <1>4, GovernorConstants DEF ChargeInv, TypeOK, Days
      <4> QED BY <4>1
    <3>2. Cardinality(UpOfExpired[d]) <= DaysExpired[d].cu
      BY <1>1, <3>1, ExpiryDays DEF DaysBound
    <3> QED BY <1>2, <3>2 DEF BookExpiry
  <2>9. U \in SUBSET Ticks
    BY <1>1 DEF TypeOK
  <2> HIDE DEF U
  <2>10. (C \ ever') \ U \in SUBSET (C \ ChargedExpired)
    BY <2>4
  <2>11. Cardinality(U \cup ((C \ ever') \ U))
           <= DaysExpired[d].cu + Cardinality(C \ ChargedExpired)
    BY <1>1, <1>4, <2>6, <2>8, <2>9, <2>10, DayGrows
  <2>12. DayCeiling <= Ceiling /\ DayCeiling \in Nat /\ Ceiling \in Nat
    BY GovernorConstants DEF DayCeiling, Ceiling, Larger
  <2>13. /\ U \cup ((C \ ever') \ U) \in SUBSET Ticks
         /\ C \ ChargedExpired \in SUBSET Ticks
    BY <2>6, <2>9
  <2>14. /\ Cardinality(U \cup ((C \ ever') \ U)) \in Nat
         /\ Cardinality(C \ ChargedExpired) \in Nat
    BY <2>13, TicksFinite
  <2>15. Cardinality(U \cup ((C \ ever') \ U)) <= Ceiling
    BY <1>1, <1>4, <2>7, <2>11, <2>12, <2>14
  <2>16. Cardinality(Committed(d)') <= Ceiling
    BY <2>5, <2>15
  <2> QED BY <2>1, <2>16
<1>5. ASSUME NEW d \in Days
      PROVE  upOf'[d] \subseteq ever' /\ Cardinality(Committed(d)') <= Ceiling
  BY <1>3, <1>4
<1> QED BY <1>5 DEF UptimeInv, Committed, Ceiling

LEMMA ExpiryUptime ==
    ASSUME TypeOK, TypeOK', UptimeInv, BookExpiry, leases' = Live
    PROVE  UptimeInv'
<1>1. ASSUME NEW d \in Days
      PROVE  upOf'[d] \subseteq ever' /\ Committed(d)' \subseteq Committed(d)
  <2>1. /\ upOf'[d] \subseteq ever'
        /\ upOf'[d] \cup (UpTime(OfDay(Live, d)) \ ever') \subseteq Committed(d)
    BY ExpiryCommits
  <2>2. Committed(d)' = upOf'[d] \cup (UpTime(OfDay(Live, d)) \ ever')
    BY DEF Committed, UpTime, OfDay
  <2> QED BY <2>1, <2>2
<1> QED BY <1>1, CommittedShrinks

\* A settle by the provisional window's end pays for nothing beyond it.
LEMMA SettleUptime ==
    ASSUME SettleBy <= Busy, TypeOK, TypeOK', UptimeInv, NEW l \in leases,
           NEW r \in Reports, Settle(l, r)
    PROVE  UptimeInv'
<1> DEFINE window == SettleWindow(l, r)
<1>1. window \subseteq Provisional(l.at)
  <2>1. /\ l.at \in Nat /\ now \in Nat /\ now - l.at <= SettleBy
        /\ SettleBy \in Nat /\ Busy \in Nat /\ Tail \in Nat
    BY BudgetConstants, GovernorConstants DEF TypeOK, Lease, Settle
  <2>2. /\ DbStart(l.at, now, r.db) >= l.at
        /\ DbStart(l.at, now, r.db) \in Int
    BY <2>1, ReportDb, BudgetConstants DEF DbStart, Larger, Unreported
  <2> QED BY <2>1, <2>2 DEF SettleWindow, Window, Provisional
<1>2. /\ l.day \in Days /\ leases' = leases \ {l} /\ ever' = ever \cup window
      /\ upOf' = [upOf EXCEPT ![l.day] = @ \cup (window \ ever)]
  BY DEF TypeOK, Lease, Settle
<1> HIDE DEF window
<1>3. ASSUME NEW d \in Days
      PROVE  upOf'[d] \subseteq ever' /\ Committed(d)' \subseteq Committed(d)
  <2>1. upOf[d] \subseteq ever
    BY DEF UptimeInv
  <2>2. Committed(d)' = upOf'[d] \cup (UpTime(OfDay(leases \ {l}, d)) \ ever')
    BY <1>2 DEF Committed, UpTime, OfDay
  <2>3. UpTime(OfDay(leases \ {l}, d)) \subseteq UpTime(OfDay(leases, d))
    BY DEF UpTime, OfDay
  <2>4. CASE d = l.day
    <3>1. upOf'[d] = upOf[d] \cup (window \ ever)
      BY <1>2, <2>4 DEF TypeOK
    <3>2. Provisional(l.at) \subseteq UpTime(OfDay(leases, d))
      BY <2>4 DEF UpTime, OfDay
    <3> QED BY <1>1, <1>2, <2>1, <2>2, <2>3, <3>1, <3>2 DEF Committed
  <2>5. CASE d # l.day
    <3>1. upOf'[d] = upOf[d]
      BY <1>2, <2>5 DEF TypeOK
    <3> QED BY <1>2, <2>1, <2>2, <2>3, <3>1 DEF Committed
  <2> QED BY <2>4, <2>5
<1> QED BY <1>3, CommittedShrinks

LEMMA NextUptime ==
    ASSUME SettleBy <= Busy, ChargeInv, UptimeInv, [Next]_vars
    PROVE  UptimeInv'
<1>0. TypeOK /\ ChargeInv' /\ TypeOK'
  BY NextCharges DEF ChargeInv
<1>1. ASSUME UNCHANGED <<leases, ever, upOf>>
      PROVE  UptimeInv'
  BY <1>1 DEF UptimeInv, Ceiling, UpTime, OfDay
<1>2. ASSUME NEW p \in Prefix, NEW heavy \in BOOLEAN, NEW i \in LeaseId,
             Admit(p, heavy, i)
      PROVE  UptimeInv'
  <2> DEFINE l == [id |-> i, day |-> Today, prefix |-> p, heavy |-> heavy,
                   lookup |-> FALSE, at |-> now]
  <2>1. l \in Lease /\ l.day = Today /\ l.at = now
    BY <1>0, TodayIsADay DEF Lease, TypeOK
  <2>2. \E dayRow, prefixRow : Grant(l, dayRow, prefixRow, now)
    BY <1>2 DEF Admit
  <2>3. DaysExpired[Today].cu + WithCandidate(OfDay(Live, Today)) <= DayCeiling
    BY <1>2 DEF Admit, ComputeAllows
  <2> HIDE DEF l
  <2> QED BY <1>0, <2>1, <2>2, <2>3, GrantUptime
<1>3. ASSUME NEW p \in Prefix, NEW i \in LeaseId, AdmitLookup(p, i)
      PROVE  UptimeInv'
  <2> DEFINE l == [id |-> i, day |-> Today, prefix |-> p, heavy |-> FALSE,
                   lookup |-> TRUE, at |-> now]
  <2>1. l \in Lease /\ l.day = Today /\ l.at = now
    BY <1>0, TodayIsADay DEF Lease, TypeOK
  <2>2. \E dayRow, prefixRow : Grant(l, dayRow, prefixRow, lastAdmitAt)
    BY <1>3 DEF AdmitLookup
  <2>3. DaysExpired[Today].cu + WithCandidate(OfDay(Live, Today)) <= DayCeiling
    BY <1>3 DEF AdmitLookup, ComputeAllows
  <2> HIDE DEF l
  <2> QED BY <1>0, <2>1, <2>2, <2>3, GrantUptime
<1>4. ASSUME NEW p \in Prefix, NEW heavy \in BOOLEAN, NEW lookup \in BOOLEAN,
             Refuse(p, heavy, lookup)
      PROVE  UptimeInv'
  BY <1>0, <1>4, ExpiryUptime DEF Refuse
<1>5. ASSUME NEW l \in leases, NEW r \in Reports, Settle(l, r)
      PROVE  UptimeInv'
  BY <1>0, <1>5, SettleUptime
<1>6. CASE Alarm
  BY <1>0, <1>6, ExpiryUptime DEF Alarm
<1>7. CASE PollSucceeds \/ PollFails
  <2>1. PICK result : PollEnds(result)
    BY <1>7 DEF PollSucceeds, PollFails
  <2> QED BY <1>1, <2>1 DEF PollEnds, books, history
<1>8. CASE PollInterrupted
  BY <1>1, <1>8 DEF PollInterrupted, books, history
<1>9. CASE Tick
  BY <1>1, <1>9 DEF Tick, books, history
<1>10. CASE UNCHANGED vars
  BY <1>1, <1>10 DEF vars, books, history
<1> QED BY <1>2, <1>3, <1>4, <1>5, <1>6, <1>7, <1>8, <1>9, <1>10 DEF Next

LEMMA InitUptime == Init => UptimeInv
<1> SUFFICES ASSUME Init, NEW d \in Days
             PROVE  /\ upOf[d] \subseteq ever
                    /\ Cardinality(upOf[d] \cup (UpTime(OfDay(leases, d)) \ ever)) <= Ceiling
  BY DEF UptimeInv
<1>1. upOf[d] = {} /\ UpTime(OfDay(leases, d)) = {}
  BY DEF Init, UpTime, OfDay
<1>2. Cardinality({}) = 0 /\ Ceiling \in Nat
  BY FS_EmptySet, GovernorConstants DEF Ceiling, Larger
<1>3. upOf[d] \cup (UpTime(OfDay(leases, d)) \ ever) = {}
  BY <1>1
<1> QED BY <1>1, <1>2, <1>3

\* When every settle comes within the provisional window (the API's analysis
\* deadline) or not at all, the day's compute ceiling bounds the time Neon was
\* up for the day's requests: computeDenial holds each candidate together with
\* every lease of the day against it, so however many are in flight, none of
\* them can take it past.
THEOREM UptimeWithinCeilingHolds ==
    ASSUME SettleBy <= Busy
    PROVE  Spec => []UptimeWithinCeiling
<1>1. ChargeInv /\ UptimeInv => UptimeWithinCeiling
  <2> SUFFICES ASSUME ChargeInv, UptimeInv, NEW d \in Days
               PROVE  Cardinality(upOf[d]) <= Ceiling
    BY DEF UptimeWithinCeiling
  <2>1. TypeOK /\ UpTime(OfDay(leases, d)) \in SUBSET Ticks
    BY UpTimeTicks DEF OfDay, ChargeInv
  <2>2. Committed(d) \in SUBSET Ticks /\ upOf[d] \in SUBSET Committed(d)
    BY <2>1 DEF TypeOK, Committed
  <2>3. /\ Cardinality(upOf[d]) <= Cardinality(Committed(d))
        /\ Cardinality(upOf[d]) \in Nat /\ Cardinality(Committed(d)) \in Nat
    BY <2>2, TicksFinite, FS_Subset
  <2> QED BY <2>3, CommittedOfUptime, GovernorConstants DEF Ceiling, Larger
<1>2. ChargeInv /\ UptimeInv /\ [Next]_vars => UptimeInv'
  BY NextUptime
<1> QED BY <1>1, <1>2, InitUptime, ChargesInvariant, PTL DEF Spec

-----------------------------------------------------------------------------
(* The bridge between two polls. *)

\* The ticks of S from k on.
From(S, k) == {t \in S : t >= k}

LEMMA BridgeRestated ==
    BridgeInv <=>
      /\ \A t \in ever : t < now + Tail
      /\ \A d \in Days : upOf[d] \subseteq ever
      /\ lastPollAt <= now
      /\ poll # NoTime => poll = lastPollAt /\ now - poll <= PollTimeout
      /\ neon.known =>
           /\ neon.polledAt <= lastPollAt
           /\ poll # NoTime => neon.polledAt + PollInterval <= poll
           /\ Cardinality(From(ever, neon.polledAt + PollTimeout + Tail))
                <= cuTotal - neon.cuAtPoll
           /\ Cardinality(From(upOf[Day(neon.polledAt)], neon.polledAt))
                <= cuTotal - neon.cuBase + BridgeSlack
BY DEF BridgeInv, BridgeCoversUptime, BridgeUptime, From

LEMMA BridgeSlackType == BridgeSlack \in Nat
BY BudgetConstants, GovernorConstants DEF BridgeSlack, Larger

\* The figures of the poll that the bridge is about.
LEMMA PolledTypes ==
    ASSUME TypeOK, BridgeInv, neon.known
    PROVE  /\ neon.polledAt \in 0 .. MaxTime /\ Day(neon.polledAt) \in Days
           /\ neon.cuBase \in Nat /\ neon.cuAtPoll \in Nat
<1>1. neon.polledAt \in Nat /\ neon.cuBase \in Nat /\ neon.cuAtPoll \in Nat
  BY DEF TypeOK, Neon
<1>2. neon.polledAt \in 0 .. MaxTime
  BY <1>1, GovernorConstants DEF TypeOK, BridgeInv
<1> QED BY <1>1, <1>2, DayMono

\* A set of uptime from k on, within what was booked since, stays within it
\* when a charge grows the one and is booked in the other.
LEMMA ChargeCovers ==
    ASSUME TypeOK, charged \subseteq ever, NEW W \in SUBSET Ticks, ChargeOf(W),
           NEW U \in SUBSET Ticks, NEW V \in SUBSET Ticks, V \subseteq U \cup (W \ ever),
           NEW k \in Int, NEW b \in Nat, NEW slack \in Nat,
           Cardinality(From(U, k)) <= cuTotal - b + slack
    PROVE  Cardinality(From(V, k)) <= cuTotal' - b + slack
<1> DEFINE X == Uncovered(W, charged)
           Y == From(W \ ever, k)
           n == cuTotal - b + slack
<1>1. /\ X \in SUBSET Ticks /\ Y \in SUBSET X /\ From(U, k) \in SUBSET Ticks
      /\ From(V, k) \in SUBSET (From(U, k) \cup Y) /\ From(U, k) \cup Y \in SUBSET Ticks
  BY DEF Uncovered, From
<1>2. cuTotal \in Nat /\ cuTotal' = cuTotal + Cardinality(X)
  BY DEF TypeOK, ChargeOf
<1>3. /\ IsFiniteSet(From(U, k) \cup Y)
      /\ Cardinality(From(U, k)) \in Nat /\ Cardinality(X) \in Nat
      /\ Cardinality(From(U, k) \cup Y) \in Nat
  BY <1>1, TicksFinite
<1>4. Cardinality(From(V, k)) <= Cardinality(From(U, k) \cup Y)
      /\ Cardinality(From(V, k)) \in Nat
  BY <1>1, <1>3, FS_Subset, TicksFinite
<1>5. n \in Nat /\ Cardinality(From(U, k)) <= n
  BY <1>2, <1>3
<1> HIDE DEF X, Y, n
<1>6. Cardinality(From(U, k) \cup Y) <= n + Cardinality(X)
  BY <1>1, <1>5, DayGrows
<1> QED BY <1>2, <1>3, <1>4, <1>6 DEF n

LEMMA ChargeBridges ==
    ASSUME ChargeInv, BridgeInv, NEW W \in SUBSET Ticks, ChargeOf(W), TypeOK',
           \A t \in W : t < now + Tail,
           \A d \in Days : upOf'[d] \subseteq upOf[d] \cup (W \ ever),
           neon' = neon,
           \/ poll' = poll /\ lastPollAt' = lastPollAt
           \/ /\ poll' = now /\ lastPollAt' = now
              /\ now - lastPollAt >= PollInterval
    PROVE  BridgeInv'
<1>1. /\ TypeOK /\ charged \subseteq ever
      /\ ever \in SUBSET Ticks /\ upOf \in [Days -> SUBSET Ticks]
      /\ upOf' \in [Days -> SUBSET Ticks] /\ now \in Int /\ lastPollAt \in Int
      /\ now' = now /\ ever' = ever \cup W /\ cuTotal \in Nat
  BY DEF ChargeInv, TypeOK, ChargeOf
<1>2. /\ PollInterval \in Nat /\ PollTimeout \in Nat /\ Tail \in Nat
      /\ BridgeSlack \in Nat
  BY BudgetConstants, GovernorConstants, BridgeSlackType
<1>3. \A t \in ever' : t < now' + Tail
  BY <1>1 DEF BridgeInv
<1>4. \A d \in Days : upOf'[d] \subseteq ever'
  BY <1>1 DEF BridgeInv
<1>5. /\ lastPollAt' <= now'
      /\ poll' # NoTime => poll' = lastPollAt' /\ now' - poll' <= PollTimeout
  BY <1>1, <1>2 DEF BridgeInv
<1>6. ASSUME neon.known
      PROVE  /\ neon.polledAt <= lastPollAt'
             /\ poll' # NoTime => neon.polledAt + PollInterval <= poll'
  <2>1. neon.polledAt <= lastPollAt /\ neon.polledAt \in Int
    BY <1>1, <1>6, PolledTypes DEF BridgeInv
  <2>2. poll # NoTime => neon.polledAt + PollInterval <= poll
    BY <1>6 DEF BridgeInv
  <2> QED BY <1>1, <1>2, <2>1, <2>2 DEF BridgeInv
<1>7. ASSUME neon.known
      PROVE  Cardinality(From(ever', neon.polledAt + PollTimeout + Tail))
               <= cuTotal' - neon.cuAtPoll
  <2> DEFINE k == neon.polledAt + PollTimeout + Tail
  <2>1. k \in Int /\ neon.cuAtPoll \in Nat
    BY <1>1, <1>2, <1>7, PolledTypes
  <2>2. Cardinality(From(ever, k)) <= cuTotal - neon.cuAtPoll + 0
    BY <1>1, <1>7, <2>1, BridgeRestated
  <2>3. ever' \in SUBSET Ticks /\ ever' \subseteq ever \cup (W \ ever)
    BY <1>1
  <2> HIDE DEF k
  <2>4. Cardinality(From(ever', k)) <= cuTotal' - neon.cuAtPoll + 0
    BY <1>1, <2>1, <2>2, <2>3, ChargeCovers
  <2> QED BY <2>1, <2>4 DEF k, TypeOK
<1>8. ASSUME neon.known
      PROVE  Cardinality(From(upOf'[Day(neon.polledAt)], neon.polledAt))
               <= cuTotal' - neon.cuBase + BridgeSlack
  <2> DEFINE d == Day(neon.polledAt)
             k == neon.polledAt
  <2>1. k \in Int /\ neon.cuBase \in Nat /\ d \in Days
    BY <1>1, <1>8, PolledTypes
  <2>2. Cardinality(From(upOf[d], k)) <= cuTotal - neon.cuBase + BridgeSlack
    BY <1>8, BridgeRestated
  <2> HIDE DEF k, d
  <2>3. /\ upOf[d] \in SUBSET Ticks /\ upOf'[d] \in SUBSET Ticks
        /\ upOf'[d] \subseteq upOf[d] \cup (W \ ever)
    BY <1>1, <2>1
  <2>4. Cardinality(From(upOf'[d], k)) <= cuTotal' - neon.cuBase + BridgeSlack
    BY <1>1, <1>2, <2>1, <2>2, <2>3, ChargeCovers
  <2> QED BY <2>4 DEF d, k
<1>9. BridgeSlack' = BridgeSlack /\ Day(neon.polledAt)' = Day(neon.polledAt)
  BY DEF BridgeSlack, Day
<1> QED BY <1>3, <1>4, <1>5, <1>6, <1>7, <1>8, <1>9
        DEF BridgeInv, BridgeCoversUptime, BridgeUptime, From

LEMMA ExpiryBridges ==
    ASSUME ChargeInv, BridgeInv, TypeOK', BookExpiry, now' = now, neon' = neon,
           \/ poll' = poll /\ lastPollAt' = lastPollAt
           \/ /\ poll' = now /\ lastPollAt' = now
              /\ now - lastPollAt >= PollInterval
    PROVE  BridgeInv'
<1> DEFINE W == UpTime(Stale)
<1>1. TypeOK /\ leases \subseteq Lease /\ now \in Int
  BY DEF ChargeInv, TypeOK
<1>2. W \in SUBSET Ticks /\ ChargeOf(W)
  BY <1>1, ExpiryIsCharge
<1>3. \A t \in W : t < now + Tail
  BY <1>1, BudgetConstants, GovernorConstants, GovernorPeriods
     DEF UpTime, Stale, Provisional, Window, Lease
<1>4. ASSUME NEW d \in Days
      PROVE  upOf'[d] \subseteq upOf[d] \cup (W \ ever)
  <2>1. OfDay(Stale, d) \in SUBSET Stale
    BY DEF OfDay
  <2>2. ExpiryAddsAll(OfDay(Stale, d)) \subseteq UpTime(Stale)
    BY <1>1, <2>1, ExpiryAddsTicks
  <2> QED BY <2>2 DEF BookExpiry, UpOfExpired
<1> HIDE DEF W
<1> QED BY <1>2, <1>3, <1>4, ChargeBridges

LEMMA SettleBridges ==
    ASSUME ChargeInv, BridgeInv, NEW l \in leases, NEW r \in Reports, Settle(l, r)
    PROVE  BridgeInv'
<1> DEFINE W == SettleWindow(l, r)
<1>1. TypeOK /\ TypeOK'
  BY SettleType DEF ChargeInv
<1>2. /\ l.day \in Days /\ l.at \in Nat /\ now \in Nat /\ upOf \in [Days -> SUBSET Ticks]
  BY <1>1, GovernorConstants DEF TypeOK, Lease
<1>3. W \in SUBSET Ticks
  BY <1>1, SettleWindowTicks, ReportDb DEF SettleWindow
<1>4. ChargeOf(W)
  BY DEF Settle, ChargeOf, SettleWindow
<1>5. \A t \in W : t < now + Tail
  <2>1. DbStart(l.at, now, r.db) \in Int
    BY <1>2, ReportDb, BudgetConstants DEF DbStart, Larger, Unreported
  <2> QED BY <1>2, <2>1, BudgetConstants DEF SettleWindow, Window
<1>6. /\ upOf' = [upOf EXCEPT ![l.day] = @ \cup (W \ ever)]
      /\ neon' = neon /\ poll' = poll /\ lastPollAt' = lastPollAt
  BY DEF Settle, timers
<1> HIDE DEF W
<1>7. \A d \in Days : upOf'[d] \subseteq upOf[d] \cup (W \ ever)
  BY <1>2, <1>6
<1> QED BY <1>1, <1>3, <1>4, <1>5, <1>6, <1>7, ChargeBridges

\* The counter of a day not purged holds all that day paid for, and the day a
\* poll in flight began on is not purged.
LEMMA PollDayKept ==
    ASSUME ChargeInv, BridgeInv, poll # NoTime
    PROVE  /\ poll \in 0 .. MaxTime /\ Day(poll) \in Days
           /\ Cardinality(upOf[Day(poll)]) <= days[Day(poll)].cu
<1>1. /\ poll \in 0 .. MaxTime /\ now \in 0 .. MaxTime /\ poll <= now
      /\ now <= poll + PollTimeout
  BY GovernorConstants DEF ChargeInv, TypeOK, BridgeInv, NoTime
<1>2. /\ Day(poll) \in Days /\ Day(now) \in Days /\ Day(poll) \in Int /\ Day(now) \in Int
  BY <1>1, DayMono DEF Days
<1>3. Day(now) <= Day(poll) + 1
  <2> DEFINE a == poll \div DayLen
             b == now \div DayLen
  <2>1. /\ a \in Nat /\ poll < DayLen * a + DayLen
        /\ b \in Nat /\ DayLen * b <= now
    BY <1>1, DivFact, BudgetConstants, GovernorConstants
  <2>2. PollTimeout <= DayLen /\ DayLen \in Nat \ {0} /\ PollTimeout \in Nat
    BY BudgetConstants, GovernorConstants, GovernorPeriods
  <2> HIDE DEF a, b
  <2>3. DayLen * b < DayLen * (a + 2)
    <3>1. DayLen * (a + 2) = DayLen * a + DayLen + DayLen
      BY <2>1, <2>2
    <3>2. DayLen * a \in Int /\ DayLen * b \in Int
      BY <2>1, <2>2
    <3> QED BY <1>1, <2>1, <2>2, <3>1, <3>2
  <2>4. b < a + 2
    <3> SUFFICES ASSUME a + 2 <= b PROVE FALSE
      BY <2>1
    <3>1. PICK j \in Nat : b = a + 2 + j
      BY <2>1
    <3>2. DayLen * b = DayLen * (a + 2) + DayLen * j
      BY <2>1, <2>2, <3>1
    <3>3. DayLen * j \in Nat /\ DayLen * (a + 2) \in Int
      BY <2>1, <2>2
    <3> QED BY <2>3, <3>2, <3>3
  <2> QED BY <2>1, <2>4 DEF a, b, Day
<1>4. Day(poll) >= purgedDay - Retention
  BY <1>2, <1>3, GovernorConstants, GovernorPeriods DEF ChargeInv, TypeOK, Today
<1> QED BY <1>1, <1>2, <1>4 DEF ChargeInv, NeverUndercharged

\* What the figures of a poll that succeeds leave to the bridge.
LEMMA PolledBridges ==
    ASSUME ChargeInv, BridgeInv, poll # NoTime, NEW f \in NeonFigures
    PROVE  /\ Cardinality(From(ever, poll + PollTimeout + Tail)) = 0
           /\ Cardinality(From(upOf[Day(poll)], poll))
                <= cuTotal - Polled(f).cuBase + BridgeSlack
<1> DEFINE d == Day(poll)
           U == From(upOf[d], poll)
<1>1. /\ TypeOK /\ ever \in SUBSET Ticks /\ upOf \in [Days -> SUBSET Ticks]
      /\ cuTotal \in Nat /\ now \in Int /\ now <= poll + PollTimeout
      /\ \A t \in ever : t < now + Tail
  BY GovernorConstants DEF ChargeInv, TypeOK, BridgeInv, NoTime
<1>2. poll \in Nat /\ d \in Days /\ Cardinality(upOf[d]) <= days[d].cu
  BY PollDayKept, GovernorConstants
<1>3. /\ PollInterval \in Nat /\ PollTimeout \in Nat /\ Tail \in Nat
      /\ BridgeSlack \in Nat
  BY BudgetConstants, GovernorConstants, BridgeSlackType
<1>4. Cardinality(From(ever, poll + PollTimeout + Tail)) = 0
  <2>1. ASSUME NEW t \in ever, t >= poll + PollTimeout + Tail
        PROVE  FALSE
    <3>1. t < now + Tail /\ t \in Int
      BY <1>1 DEF Ticks
    <3> QED BY <1>1, <1>2, <1>3, <2>1, <3>1
  <2>2. From(ever, poll + PollTimeout + Tail) = {}
    BY <2>1 DEF From
  <2> QED BY <2>2, FS_EmptySet
<1>5. upOf[d] \in SUBSET Ticks /\ upOf[d] \subseteq ever /\ days[d].cu \in Nat
  BY <1>1, <1>2 DEF BridgeInv, TypeOK, DayRow
<1>6. U \in SUBSET upOf[d]
  BY DEF From
<1>7. /\ IsFiniteSet(upOf[d]) /\ IsFiniteSet(ever) /\ IsFiniteSet(U)
      /\ Cardinality(upOf[d]) \in Nat /\ Cardinality(ever) \in Nat /\ Cardinality(U) \in Nat
  BY <1>1, <1>5, <1>6, TicksFinite
<1>8. Cardinality(U) <= cuTotal - Polled(f).cuBase + BridgeSlack
  <2>1. CASE ~neon.known
    <3>1. Polled(f).cuBase = Less(cuTotal, days[d].cu)
      BY <2>1 DEF Polled
    <3>2. Cardinality(U) <= Cardinality(upOf[d]) /\ Cardinality(upOf[d]) <= Cardinality(ever)
      BY <1>5, <1>6, <1>7, FS_Subset
    <3>3. Cardinality(ever) <= cuTotal
      BY DEF ChargeInv, NeverUndercharged
    <3> HIDE DEF U, d
    <3> QED BY <1>1, <1>2, <1>3, <1>5, <1>7, <3>1, <3>2, <3>3 DEF Less, Larger
  <2>2. CASE neon.known
    <3> DEFINE a == neon.polledAt + PollTimeout + Tail
               A == From(ever, a)
               B == poll .. a - 1
    <3>1. /\ neon.polledAt \in Nat /\ neon.cuAtPoll \in Nat
          /\ neon.polledAt + PollInterval <= poll
          /\ Cardinality(A) <= cuTotal - neon.cuAtPoll
      <4>1. neon.polledAt \in Nat /\ neon.cuAtPoll \in Nat
        BY <1>1, <2>2, PolledTypes, GovernorConstants
      <4> QED BY <2>2, <4>1, BridgeRestated
    <3>2. Polled(f).cuBase = neon.cuAtPoll
      BY <2>2 DEF Polled
    <3>3. a \in Int /\ a - poll <= PollTimeout + Tail - PollInterval
      BY <1>2, <1>3, <3>1
    <3>4. U \subseteq A \cup B /\ A \in SUBSET Ticks
      <4> HIDE DEF a
      <4>1. ASSUME NEW t \in U
            PROVE  t \in A \cup B
        <5>1. t \in ever /\ t >= poll /\ t \in Int
          BY <1>1, <1>5 DEF From, Ticks
        <5> QED BY <1>2, <3>3, <5>1 DEF From
      <4>2. A \subseteq ever
        BY DEF From
      <4> QED BY <1>1, <4>1, <4>2
    <3> HIDE DEF a
    <3>5. IsFiniteSet(B) /\ Cardinality(B) <= BridgeSlack /\ Cardinality(B) \in Nat
      <4>1. /\ IsFiniteSet(B)
            /\ Cardinality(B) = IF poll > a - 1 THEN 0 ELSE (a - 1) - poll + 1
        <5> DEFINE e == a - 1
        <5>1. poll \in Int /\ e \in Int
          BY <1>2, <3>3
        <5> HIDE DEF e
        <5>2. /\ IsFiniteSet(poll .. e)
              /\ Cardinality(poll .. e) = IF poll > e THEN 0 ELSE e - poll + 1
          BY <5>1, FS_Interval
        <5> QED BY <5>2 DEF e
      <4>2. Cardinality(B) \in Nat
        BY <4>1, FS_CardinalityType
      <4> QED BY <1>2, <1>3, <3>3, <4>1, <4>2 DEF BridgeSlack, Larger
    <3>6. IsFiniteSet(A) /\ Cardinality(A) \in Nat
      BY <3>4, TicksFinite
    <3> HIDE DEF A, B, U
    <3>7. Cardinality(A \cup B) <= Cardinality(A) + Cardinality(B)
      <4>1. Cardinality(A \cup B) = Cardinality(A) + Cardinality(B) - Cardinality(A \cap B)
        BY <3>5, <3>6, FS_Union
      <4>2. Cardinality(A \cap B) \in Nat
        BY <3>5, <3>6, FS_Intersection, FS_CardinalityType
      <4> QED BY <3>5, <3>6, <4>1, <4>2
    <3>8. /\ Cardinality(U) <= Cardinality(A \cup B)
          /\ Cardinality(A \cup B) \in Nat
      BY <3>4, <3>5, <3>6, FS_Union, FS_Subset, FS_CardinalityType
    <3> QED BY <1>1, <1>3, <1>7, <3>1, <3>2, <3>5, <3>6, <3>7, <3>8
  <2> QED BY <1>1, <2>1, <2>2 DEF TypeOK, Neon
<1> QED BY <1>4, <1>8 DEF U, d

LEMMA PollEndsBridges ==
    ASSUME ChargeInv, BridgeInv, TypeOK', PollSucceeds
    PROVE  BridgeInv'
<1>1. PICK f \in NeonFigures : PollEnds(Polled(f))
  BY DEF PollSucceeds
<1>2. /\ poll # NoTime /\ neon' = Polled(f) /\ poll' = NoTime
      /\ UNCHANGED <<now, books, lastPollAt, history>>
  BY <1>1 DEF PollEnds
<1>3. /\ Cardinality(From(ever, poll + PollTimeout + Tail)) = 0
      /\ Cardinality(From(upOf[Day(poll)], poll))
           <= cuTotal - Polled(f).cuBase + BridgeSlack
  BY <1>2, PolledBridges
<1>4. /\ Polled(f).polledAt = poll /\ Polled(f).cuAtPoll = cuTotal
      /\ poll = lastPollAt /\ poll \in Int /\ cuTotal \in Nat /\ lastPollAt <= now
  BY <1>2 DEF Polled, BridgeInv, ChargeInv, TypeOK, NoTime
<1>5. /\ \A t \in ever' : t < now' + Tail
      /\ \A d \in Days : upOf'[d] \subseteq ever'
      /\ lastPollAt' <= now'
  BY <1>2 DEF BridgeInv, history
<1>6. /\ neon'.polledAt <= lastPollAt'
      /\ Cardinality(From(ever', neon'.polledAt + PollTimeout + Tail))
           <= cuTotal' - neon'.cuAtPoll
  BY <1>2, <1>3, <1>4 DEF books, history
<1>7. Cardinality(From(upOf'[Day(neon'.polledAt)], neon'.polledAt))
        <= cuTotal' - neon'.cuBase + BridgeSlack
  BY <1>2, <1>3, <1>4 DEF books, history
<1>8. BridgeSlack' = BridgeSlack /\ Day(neon.polledAt)' = Day(neon'.polledAt)
  BY DEF BridgeSlack, Day
<1> QED BY <1>2, <1>5, <1>6, <1>7, <1>8
        DEF BridgeInv, BridgeCoversUptime, BridgeUptime, From

\* A step that books nothing and begins no poll, the clock's among them.
LEMMA QuietBridges ==
    ASSUME ChargeInv, BridgeInv, UNCHANGED <<books, lastPollAt, neon, history>>,
           now' = now \/ now' = now + 1, poll' = poll \/ poll' = NoTime,
           poll' # NoTime => now' - poll <= PollTimeout
    PROVE  BridgeInv'
<1>1. /\ ever' = ever /\ upOf' = upOf /\ cuTotal' = cuTotal /\ neon' = neon
      /\ lastPollAt' = lastPollAt
  BY DEF books, history
<1>2. /\ now \in Int /\ lastPollAt \in Int /\ ever \in SUBSET Int /\ Tail \in Nat
  BY BudgetConstants, GovernorConstants DEF ChargeInv, TypeOK, Ticks
<1>3. /\ \A t \in ever' : t < now' + Tail
      /\ \A d \in Days : upOf'[d] \subseteq ever'
      /\ lastPollAt' <= now'
  <2>1. /\ \A t \in ever : t < now + Tail
        /\ \A d \in Days : upOf[d] \subseteq ever
        /\ lastPollAt <= now
    BY DEF BridgeInv
  <2>2. ASSUME NEW t \in ever
        PROVE  t < now' + Tail
    <3>1. t \in Int
      BY <1>2
    <3>2. t < now + Tail
      BY <2>1
    <3>3. now \in Int /\ Tail \in Int
      BY <1>2
    <3>4. CASE now' = now
      BY <3>2, <3>4
    <3>5. CASE now' = now + 1
      BY <3>1, <3>2, <3>3, <3>5
    <3> QED BY <3>4, <3>5
  <2>3. lastPollAt' <= now'
    BY <1>1, <1>2, <2>1
  <2> QED BY <1>1, <2>1, <2>2, <2>3
<1>4. /\ poll' # NoTime => poll' = lastPollAt' /\ now' - poll' <= PollTimeout
      /\ neon'.known =>
           /\ neon'.polledAt <= lastPollAt'
           /\ poll' # NoTime => neon'.polledAt + PollInterval <= poll'
           /\ Cardinality(From(ever', neon'.polledAt + PollTimeout + Tail))
                <= cuTotal' - neon'.cuAtPoll
           /\ Cardinality(From(upOf'[Day(neon'.polledAt)], neon'.polledAt))
                <= cuTotal' - neon'.cuBase + BridgeSlack
  BY <1>1, BridgeRestated
<1>5. BridgeSlack' = BridgeSlack /\ Day(neon.polledAt)' = Day(neon'.polledAt)
  BY DEF BridgeSlack, Day
<1> QED BY <1>3, <1>4, <1>5 DEF BridgeInv, BridgeCoversUptime, BridgeUptime, From

LEMMA NextBridges ==
    ASSUME ChargeInv, BridgeInv, [Next]_vars
    PROVE  BridgeInv'
<1>0. TypeOK /\ TypeOK' /\ now \in Int /\ now' \in Int
  BY NextType DEF ChargeInv, TypeOK
<1>1. ASSUME NEW p \in Prefix, NEW heavy \in BOOLEAN, NEW i \in LeaseId,
             Admit(p, heavy, i)
      PROVE  BridgeInv'
  BY <1>0, <1>1, ExpiryBridges DEF Admit, Grant
<1>2. ASSUME NEW p \in Prefix, NEW i \in LeaseId, AdmitLookup(p, i)
      PROVE  BridgeInv'
  BY <1>0, <1>2, ExpiryBridges DEF AdmitLookup, Grant
<1>3. ASSUME NEW p \in Prefix, NEW heavy \in BOOLEAN, NEW lookup \in BOOLEAN,
             Refuse(p, heavy, lookup)
      PROVE  BridgeInv'
  BY <1>0, <1>3, ExpiryBridges DEF Refuse, timers
<1>4. ASSUME NEW l \in leases, NEW r \in Reports, Settle(l, r)
      PROVE  BridgeInv'
  BY <1>4, SettleBridges
<1>5. CASE Alarm
  BY <1>0, <1>5, ExpiryBridges DEF Alarm, PollDue
<1>6. CASE PollSucceeds
  BY <1>0, <1>6, PollEndsBridges
<1>7. CASE PollFails
  BY <1>0, <1>7, QuietBridges DEF PollFails, PollEnds
<1>8. CASE PollInterrupted
  BY <1>0, <1>8, QuietBridges DEF PollInterrupted
<1>9. CASE Tick
  <2>1. poll' = poll /\ now' = now + 1 /\ UNCHANGED <<books, lastPollAt, neon, history>>
    BY <1>9 DEF Tick, timers
  <2>2. poll' # NoTime => now' - poll <= PollTimeout
    <3>1. poll \in Int /\ PollTimeout \in Int
      BY <1>0, GovernorConstants DEF TypeOK, NoTime
    <3> QED BY <1>0, <1>9, <2>1, <3>1 DEF Tick
  <2> QED BY <1>0, <2>1, <2>2, QuietBridges
<1>10. CASE UNCHANGED vars
  BY <1>0, <1>10, QuietBridges DEF vars, timers, BridgeInv
<1> QED BY <1>1, <1>2, <1>3, <1>4, <1>5, <1>6, <1>7, <1>8, <1>9, <1>10 DEF Next

LEMMA InitBridges == Init => BridgeInv
BY GovernorConstants DEF Init, NoNeon, LongAgo, BridgeInv, BridgeCoversUptime

\* A figure read from Neon is bridged: what was booked since the poll before it
\* covers every tick of uptime from the moment it was read, whatever was booked
\* while its fetch was in flight, but for the idle tails those charges reach
\* past the next poll, BridgeSlack at most.
THEOREM BridgeCoversUptimeHolds == Spec => []BridgeCoversUptime
<1>1. BridgeInv => BridgeCoversUptime
  BY DEF BridgeInv
<1>2. ChargeInv /\ BridgeInv /\ [Next]_vars => BridgeInv'
  BY NextBridges
<1> QED BY <1>1, <1>2, InitBridges, ChargesInvariant, PTL DEF Spec

-----------------------------------------------------------------------------
(* The promise of LeasedQuota, action by action.                           *)

\* From today on a network's admissions stay what they were: an expiry, a purge
\* and a refund leave them.
AsksStay ==
    \A d \in Days, p \in Prefix : d >= Today => prefixes'[d][p].attempts = prefixes[d][p].attempts

LEMMA ExpiryAsks ==
    ASSUME TypeOK
    PROVE  \A d \in Days, p \in Prefix :
             PrefixesExpired[d][p].attempts = prefixes[d][p].attempts
BY DEF PrefixesExpired, TypeOK, PrefixRow

LEMMA PurgeAsks ==
    ASSUME TypeOK, NEW P, NEW d \in Days, d >= Today
    PROVE  PurgedPrefixes(P)[d] = P[d]
<1>1. Today \in Int /\ d \in Int
  BY TodayIsADay DEF Days
<1> QED BY <1>1 DEF PurgedPrefixes

\* An analysis is counted by the admission, a lookup is not.
LEMMA AdmitAsks ==
    ASSUME TypeOK, NEW p \in Prefix, NEW heavy \in BOOLEAN, NEW i \in LeaseId,
           Admit(p, heavy, i)
    PROVE  \A d \in Days, q \in Prefix : d >= Today =>
             prefixes'[d][q].attempts =
               prefixes[d][q].attempts + One(d = Today /\ q = p)
<1> DEFINE row == PrefixesExpired[Today][p]
           prefixRow == [row EXCEPT !.count = @ + 1, !.attempts = @ + 1]
           P == [PrefixesExpired EXCEPT ![Today][p] = prefixRow]
<1>1. prefixes' = PurgedPrefixes(P)
  BY DEF Admit, Grant
<1>2. prefixRow.attempts = row.attempts + 1
  <2>1. row \in PrefixRow
    BY ExpiryType, TodayIsADay
  <2> HIDE DEF row
  <2> QED BY <2>1 DEF PrefixRow
<1>3. PrefixesExpired \in [Days -> [Prefix -> PrefixRow]]
  BY ExpiryType
<1> HIDE DEF prefixRow
<1>4. ASSUME NEW d \in Days, NEW q \in Prefix, d >= Today
      PROVE  prefixes'[d][q].attempts =
               prefixes[d][q].attempts + One(d = Today /\ q = p)
  <2> HIDE DEF P
  <2>1. prefixes'[d] = P[d]
    BY <1>1, <1>4, PurgeAsks
  <2> USE DEF P
  <2>2. prefixes[d][q].attempts \in Nat
    BY DEF TypeOK, PrefixRow
  <2>3. CASE d = Today /\ q = p
    BY <1>2, <1>3, <2>1, <2>2, <2>3, ExpiryAsks DEF One
  <2>4. CASE ~(d = Today /\ q = p)
    BY <1>3, <2>1, <2>2, <2>4, ExpiryAsks DEF One
  <2> QED BY <2>3, <2>4
<1> QED BY <1>4

LEMMA AdmitLookupAsks ==
    ASSUME TypeOK, NEW p \in Prefix, NEW i \in LeaseId, AdmitLookup(p, i)
    PROVE  AsksStay
<1> DEFINE row == PrefixesExpired[Today][p]
           prefixRow == [row EXCEPT !.lookups = @ + 1]
           P == [PrefixesExpired EXCEPT ![Today][p] = prefixRow]
<1>1. prefixes' = PurgedPrefixes(P)
  BY DEF AdmitLookup, Grant
<1>2. prefixRow.attempts = row.attempts
  <2>1. row \in PrefixRow
    BY ExpiryType, TodayIsADay
  <2> HIDE DEF row
  <2> QED BY <2>1 DEF PrefixRow
<1>3. PrefixesExpired \in [Days -> [Prefix -> PrefixRow]]
  BY ExpiryType
<1> HIDE DEF prefixRow
<1>4. ASSUME NEW d \in Days, NEW q \in Prefix, d >= Today
      PROVE  prefixes'[d][q].attempts = prefixes[d][q].attempts
  <2> HIDE DEF P
  <2>1. prefixes'[d] = P[d]
    BY <1>1, <1>4, PurgeAsks
  <2> USE DEF P
  <2>2. CASE d = Today /\ q = p
    BY <1>2, <1>3, <2>1, <2>2, ExpiryAsks
  <2>3. CASE ~(d = Today /\ q = p)
    BY <1>3, <2>1, <2>3, ExpiryAsks
  <2> QED BY <2>2, <2>3
<1> QED BY <1>4 DEF AsksStay

LEMMA ExpiryAsksStay ==
    ASSUME TypeOK, prefixes' \in {PrefixesExpired, PurgedPrefixes(PrefixesExpired)}
    PROVE  AsksStay
BY ExpiryAsks, PurgeAsks DEF AsksStay

LEMMA SettleAsks ==
    ASSUME TypeOK, NEW l \in leases, NEW r \in Reports, Settle(l, r)
    PROVE  AsksStay
<1> DEFINE cu == Cardinality(Uncovered(SettleWindow(l, r), charged))
           row == SettledPrefix(l, r, cu)
<1>1. \/ prefixes' = [prefixes EXCEPT ![l.day][l.prefix] = row]
      \/ prefixes' = prefixes
  BY DEF Settle
<1>2. row.attempts = prefixes[l.day][l.prefix].attempts
  BY DEF SettledPrefix
<1> HIDE DEF row
<1> QED BY <1>1, <1>2 DEF AsksStay, TypeOK

LEMMA AsksKept ==
    ASSUME ChargeInv, AsksInv, [Next]_vars
    PROVE  AsksInv'
<1>1. TypeOK /\ TypeOK' /\ now \in 0 .. MaxTime /\ now' \in 0 .. MaxTime
  BY NextType DEF ChargeInv, TypeOK
<1>2. Today \in Days /\ Today' \in Days /\ Days' = Days
  BY <1>1, DayMono DEF Today, Day, Days
<1>3. ASSUME AsksStay, Today' = Today
      PROVE  AsksInv'
  BY <1>2, <1>3 DEF AsksInv, AsksStay, Days
<1>4. ASSUME now' = now
      PROVE  Today' = Today
  BY <1>4 DEF Today, Day
<1>5. ASSUME NEW p \in Prefix, NEW heavy \in BOOLEAN, NEW i \in LeaseId,
             Admit(p, heavy, i)
      PROVE  AsksInv'
  <2>1. Today' = Today
    BY <1>4, <1>5 DEF Admit, Grant
  <2>2. ASSUME NEW d \in Days, NEW q \in Prefix, d > Today
        PROVE  prefixes'[d][q].attempts = 0
    <3>1. d >= Today /\ d # Today
      BY <1>2, <2>2 DEF Days
    <3>2. prefixes[d][q].attempts = 0
      BY <2>2 DEF AsksInv
    <3>3. prefixes'[d][q].attempts
            = prefixes[d][q].attempts + One(d = Today /\ q = p)
      BY <1>1, <1>5, <3>1, AdmitAsks
    <3> QED BY <3>1, <3>2, <3>3 DEF One
  <2> QED BY <1>2, <2>1, <2>2 DEF AsksInv
<1>6. ASSUME NEW p \in Prefix, NEW i \in LeaseId, AdmitLookup(p, i)
      PROVE  AsksInv'
  <2>1. Today' = Today
    BY <1>4, <1>6 DEF AdmitLookup, Grant
  <2> QED BY <1>1, <1>3, <1>6, <2>1, AdmitLookupAsks
<1>7. ASSUME NEW p \in Prefix, NEW heavy \in BOOLEAN, NEW lookup \in BOOLEAN,
             Refuse(p, heavy, lookup)
      PROVE  AsksInv'
  BY <1>1, <1>3, <1>4, <1>7, ExpiryAsksStay DEF Refuse
<1>8. ASSUME NEW l \in leases, NEW r \in Reports, Settle(l, r)
      PROVE  AsksInv'
  <2>1. Today' = Today
    BY <1>4, <1>8 DEF Settle
  <2> QED BY <1>1, <1>3, <1>8, <2>1, SettleAsks
<1>9. CASE Alarm
  BY <1>1, <1>3, <1>4, <1>9, ExpiryAsksStay DEF Alarm
<1>10. CASE PollSucceeds \/ PollFails \/ PollInterrupted \/ UNCHANGED vars
  <2>1. now' = now /\ prefixes' = prefixes
    BY <1>10 DEF PollSucceeds, PollFails, PollEnds, PollInterrupted, vars, books
  <2> QED BY <1>3, <1>4, <2>1 DEF AsksStay
<1>11. CASE Tick
  <2>1. prefixes' = prefixes /\ now' = now + 1
    BY <1>11 DEF Tick, books
  <2>2. Today <= Today'
    BY <1>1, <2>1, DayMono DEF Today, Day
  <2> QED BY <1>2, <2>1, <2>2 DEF AsksInv, Days
<1> QED BY <1>5, <1>6, <1>7, <1>8, <1>9, <1>10, <1>11 DEF Next

LEMMA AsksInvariant == Spec => []AsksInv
<1>1. Init => AsksInv
  BY DEF Init, AsksInv, NoPrefix
<1>2. ChargeInv /\ AsksInv /\ [Next]_vars => AsksInv'
  BY AsksKept
<1> QED BY <1>1, <1>2, ChargesInvariant, PTL DEF Spec

LEMMA SameCardinality == \A S : Promise!Cardinality(S) = Cardinality(S)
BY DEF Promise!Cardinality, Cardinality

\* The promise counts the open analyses as the ledgers do.
LEMMA OpenCounts ==
    ASSUME NEW d, NEW n
    PROVE  /\ Promise!OfDay(d) = Analyses(OfDay(leases, d))
           /\ Promise!HeavyOf(d) = Heavies(OfDay(leases, d))
           /\ Promise!OfNetwork(d, n) = Analyses(OfPrefix(leases, d, n))
           /\ Promise!OfDay(d) \cap Analyses(Stale) = Analyses(OfDay(Stale, d))
           /\ Promise!HeavyOf(d) \cap Analyses(Stale) = Heavies(OfDay(Stale, d))
           /\ Promise!OfNetwork(d, n) \cap Analyses(Stale) = Analyses(OfPrefix(Stale, d, n))
BY DEF Promise!OfDay, Promise!HeavyOf, Promise!OfNetwork, Analyses, Heavies, OfDay,
       OfPrefix, Stale

\* The leases an expiry books lapse.
LEMMA ExpiryLapses ==
    ASSUME kept' = KeptExpired, keptFor' = KeptForExpired
    PROVE  Promise!Lapse(Analyses(Stale))
<1>1. Analyses(Stale) \subseteq Analyses(leases)
  BY DEF Analyses, Stale
<1>2. kept' = [d \in Days |->
          [all |-> kept[d].all + Cardinality(Promise!OfDay(d) \cap Analyses(Stale)),
           heavy |-> kept[d].heavy + Cardinality(Promise!HeavyOf(d) \cap Analyses(Stale))]]
  <2>1. \A d \in Days : /\ Promise!OfDay(d) \cap Analyses(Stale) = Analyses(OfDay(Stale, d))
                        /\ Promise!HeavyOf(d) \cap Analyses(Stale) = Heavies(OfDay(Stale, d))
    BY OpenCounts
  <2> QED BY <2>1 DEF KeptExpired
<1>3. keptFor' = [d \in Days |-> [n \in Prefix |->
          keptFor[d][n] + Cardinality(Promise!OfNetwork(d, n) \cap Analyses(Stale))]]
  <2>1. \A d \in Days, n \in Prefix :
          Promise!OfNetwork(d, n) \cap Analyses(Stale) = Analyses(OfPrefix(Stale, d, n))
    BY OpenCounts
  <2> QED BY <2>1 DEF KeptForExpired
<1> QED BY <1>1, <1>2, <1>3, SameCardinality DEF Promise!Lapse

Asks == [p \in Prefix |-> prefixes[Today][p].attempts]

LEMMA ExpiryExpires ==
    ASSUME ChargeInv, BookExpiry, AsksStay, now' = now,
           Analyses(leases') = Analyses(Live)
    PROVE  Promise!Next
<1>1. Today \in Days /\ Today \in Int
  BY TodayIsADay DEF ChargeInv, Days
<1>2. Today' = Today
  BY DEF Today, Day
<1>3. Asks' = Asks
  BY <1>1, <1>2 DEF Asks, AsksStay
<1>4. Promise!Lapse(Analyses(Stale))
  BY ExpiryLapses DEF BookExpiry
<1>5. /\ Analyses(leases)' = Analyses(leases) \ Analyses(Stale)
      /\ Analyses(leases) \ Analyses(leases)' = Analyses(Stale)
  BY DEF Analyses, Live, Stale
<1>6. Promise!Expire(Analyses(leases) \ Analyses(leases)')
  BY <1>2, <1>3, <1>4, <1>5 DEF Promise!Expire, Asks
<1> QED BY <1>6 DEF Promise!Next

\* The rows of today say what ran and is in flight, so admit's guards are the
\* caps of the promise.
LEMMA AdmitPromised ==
    ASSUME ChargeInv, CountsInv, NEW p \in Prefix, NEW heavy \in BOOLEAN,
           NEW i \in LeaseId, Admit(p, heavy, i)
    PROVE  Promise!Next
<1> DEFINE l == [id |-> i, day |-> Today, prefix |-> p, heavy |-> heavy,
                 lookup |-> FALSE, at |-> now]
           lost == Analyses(leases) \ Analyses(leases)'
<1>1. TypeOK /\ Today \in Days /\ Today \in Int
  BY TodayIsADay DEF ChargeInv, Days
<1>2. /\ l.day = Today /\ l.prefix = p /\ l.heavy = heavy /\ ~l.lookup /\ l.id = i
  OBVIOUS
<1>3. l \notin leases
  BY DEF Admit, FreeId
<1>4. /\ now' = now /\ leases' = Live \cup {l} /\ BookExpiry
      /\ AnalysisCountsAllow(p, heavy)
  BY DEF Admit, Grant
<1>5. Today' = Today
  BY <1>4 DEF Today, Day
<1> HIDE DEF l
<1>6. /\ lost = Analyses(Stale)
      /\ Analyses(leases)' = (Analyses(leases) \ lost) \cup {l}
      /\ l \notin Analyses(leases)
      /\ l \in Analyses(leases)' \ Analyses(leases)
  BY <1>2, <1>3, <1>4 DEF Analyses, Live, Stale
<1>7. Promise!Lapse(lost)
  BY <1>4, <1>6, ExpiryLapses DEF BookExpiry
<1>8. /\ days[Today].admitted = kept[Today].all + Cardinality(Analyses(OfDay(leases, Today)))
      /\ days[Today].heavy = kept[Today].heavy + Cardinality(Heavies(OfDay(leases, Today)))
      /\ prefixes[Today][p].count =
           keptFor[Today][p] + Cardinality(Analyses(OfPrefix(leases, Today, p)))
  <2>1. Today >= purgedDay /\ Today >= purgedDay - Retention
    BY <1>1, GovernorConstants DEF ChargeInv, TypeOK
  <2> QED BY <1>1, <2>1, LedgersOfCounts DEF DayLedger, NetworkLedger
<1>9. /\ kept[Today].all + Cardinality(Promise!OfDay(Today)) < GlobalAnalyses
      /\ l.heavy => kept[Today].heavy + Cardinality(Promise!HeavyOf(Today)) < HeavyAnalyses
      /\ keptFor[Today][l.prefix] + Cardinality(Promise!OfNetwork(Today, l.prefix))
           < PrefixAnalyses
      /\ Asks[l.prefix] < PrefixAdmissions
  BY <1>2, <1>4, <1>8, OpenCounts DEF AnalysisCountsAllow, Asks
<1>10. Asks' = [Asks EXCEPT ![l.prefix] = @ + 1]
  <2>1. ASSUME NEW q \in Prefix
        PROVE  prefixes'[Today][q].attempts = prefixes[Today][q].attempts + One(q = p)
    BY <1>1, AdmitAsks DEF One
  <2>2. \A q \in Prefix : prefixes[Today][q].attempts \in Int
    BY <1>1 DEF TypeOK, PrefixRow
  <2>3. ASSUME NEW q \in Prefix
        PROVE  prefixes'[Today][q].attempts
                 = IF q = p THEN prefixes[Today][q].attempts + 1
                   ELSE prefixes[Today][q].attempts
    BY <2>1, <2>2 DEF One
  <2>4. Asks' = [q \in Prefix |-> prefixes'[Today][q].attempts]
    BY <1>5 DEF Asks
  <2>5. Asks' = [q \in Prefix |-> IF q = p THEN Asks[q] + 1 ELSE Asks[q]]
    BY <2>3, <2>4 DEF Asks
  <2>6. Asks = [q \in Prefix |-> Asks[q]]
    BY DEF Asks
  <2> QED BY <1>2, <2>5, <2>6
<1>11. Promise!Admit(l, lost)
  BY <1>2, <1>5, <1>6, <1>7, <1>9, <1>10, SameCardinality DEF Promise!Admit, Asks
<1> QED BY <1>6, <1>11 DEF Promise!Next

\* A settle ends the lease as the report says, a lookup's not at all.
LEMMA SettlePromised ==
    ASSUME ChargeInv, NEW l \in leases, NEW r \in Reports, Settle(l, r)
    PROVE  Promise!Next \/ UNCHANGED <<Today, Analyses(leases), kept, keptFor, Asks>>
<1> DEFINE ran == ~l.lookup /\ Ran(r)
           answered == ~l.lookup /\ Answered(r)
           fate == IF Ran(r) THEN "ran" ELSE IF Answered(r) THEN "answered" ELSE "back"
<1>1. /\ TypeOK /\ Today \in Days /\ Today \in Int /\ l \in Lease
      /\ l.day \in Days /\ l.prefix \in Prefix /\ l.heavy \in BOOLEAN
  <2>1. TypeOK /\ Today \in Days
    BY TodayIsADay DEF ChargeInv
  <2>2. l \in Lease
    BY <2>1 DEF TypeOK
  <2>3. Today \in Int
    BY <2>1 DEF Days
  <2> QED BY <2>1, <2>2, <2>3 DEF Lease
<1>2. /\ now' = now /\ leases' = leases \ {l}
      /\ kept' = [kept EXCEPT ![l.day] = [all |-> kept[l.day].all + One(ran),
                                          heavy |-> kept[l.day].heavy + One(ran /\ l.heavy)]]
      /\ keptFor' = [keptFor EXCEPT ![l.day][l.prefix] = @ + One(answered)]
  BY DEF Settle
<1>3. Today' = Today
  BY <1>2 DEF Today, Day
<1>4. Asks' = Asks
  BY <1>1, <1>3, SettleAsks DEF Asks, AsksStay
<1>5. /\ kept \in [Days -> [all : Nat, heavy : Nat]]
      /\ keptFor \in [Days -> [Prefix -> Nat]]
  BY <1>1 DEF TypeOK
<1>6. CASE l.lookup
  <2>1. Analyses(leases)' = Analyses(leases)
    BY <1>2, <1>6 DEF Analyses
  <2>2. One(ran) = 0 /\ One(ran /\ l.heavy) = 0 /\ One(answered) = 0
    BY <1>6 DEF One
  <2> HIDE DEF ran, answered
  <2>3. kept' = kept /\ keptFor' = keptFor
    <3>1. kept[l.day] \in [all : Nat, heavy : Nat] /\ keptFor[l.day][l.prefix] \in Nat
      BY <1>1, <1>5
    <3>2. /\ [all |-> kept[l.day].all + 0, heavy |-> kept[l.day].heavy + 0] = kept[l.day]
          /\ keptFor[l.day][l.prefix] + 0 = keptFor[l.day][l.prefix]
      BY <3>1
    <3>3. kept' = [kept EXCEPT ![l.day] = kept[l.day]]
      BY <1>2, <2>2, <3>2
    <3>4. keptFor' = [keptFor EXCEPT ![l.day][l.prefix] = keptFor[l.day][l.prefix]]
      BY <1>1, <1>2, <1>5, <2>2, <3>2
    <3>5. kept' = kept
      BY <1>5, <3>3
    <3>6. keptFor' = keptFor
      BY <1>5, <3>4
    <3> QED BY <3>5, <3>6
  <2> QED BY <1>3, <1>4, <2>1, <2>3
<1>7. CASE ~l.lookup
  <2>1. /\ l \in Analyses(leases)
        /\ Analyses(leases)' = Analyses(leases) \ {l}
    BY <1>2, <1>7 DEF Analyses
  <2>2. Ran(r) => Answered(r)
    BY DEF Ran, Answered
  <2>3. /\ One(ran) = IF fate = "ran" THEN 1 ELSE 0
        /\ One(ran /\ l.heavy) = IF l.heavy THEN One(ran) ELSE 0
        /\ One(answered) = IF fate = "back" THEN 0 ELSE 1
        /\ fate \in {"ran", "answered", "back"}
    BY <1>7, <2>2 DEF One
  <2> HIDE DEF ran, answered, fate
  <2>4. Promise!End(l, fate)
    BY <1>2, <1>3, <1>4, <2>1, <2>3 DEF Promise!End, Asks
  <2> QED BY <2>1, <2>3, <2>4 DEF Promise!Next
<1> QED BY <1>6, <1>7

LEMMA TickPromised ==
    ASSUME ChargeInv, AsksInv, Tick, TypeOK'
    PROVE  Promise!Next \/ UNCHANGED <<Today, Analyses(leases), kept, keptFor, Asks>>
<1>1. now \in 0 .. MaxTime /\ now' \in 0 .. MaxTime /\ now' = now + 1
  BY DEF ChargeInv, TypeOK, Tick
<1>2. /\ Today <= Today' /\ Today \in Days /\ Today' \in Days
      /\ Today \in Int /\ Today' \in Int
  BY <1>1, DayMono DEF Today, Day, Days
<1>3. /\ Analyses(leases)' = Analyses(leases) /\ kept' = kept /\ keptFor' = keptFor
      /\ prefixes' = prefixes
  BY DEF Tick, books, history, Analyses
<1>4. CASE Today' = Today
  <2>1. Asks' = Asks
    BY <1>3, <1>4 DEF Asks
  <2> QED BY <1>3, <1>4, <2>1
<1>5. CASE Today' > Today
  <2>1. Asks' = [p \in Prefix |-> 0]
    BY <1>2, <1>3, <1>5 DEF Asks, AsksInv
  <2>2. Promise!Midnight
    BY <1>2, <1>3, <1>5, <2>1 DEF Promise!Midnight, Asks
  <2> QED BY <2>2 DEF Promise!Next
<1> QED BY <1>2, <1>4, <1>5

LEMMA EveryStepPromised ==
    ASSUME ChargeInv, CountsInv, AsksInv, [Next]_vars
    PROVE  Promise!Next \/ UNCHANGED <<Today, Analyses(leases), kept, keptFor, Asks>>
<1>0. TypeOK /\ TypeOK' /\ Today \in Days
  BY NextType, TodayIsADay DEF ChargeInv
<1>1. ASSUME NEW p \in Prefix, NEW heavy \in BOOLEAN, NEW i \in LeaseId,
             Admit(p, heavy, i)
      PROVE  Promise!Next
  BY <1>1, AdmitPromised
<1>2. ASSUME NEW p \in Prefix, NEW i \in LeaseId, AdmitLookup(p, i)
      PROVE  Promise!Next
  <2> DEFINE l == [id |-> i, day |-> Today, prefix |-> p, heavy |-> FALSE,
                   lookup |-> TRUE, at |-> now]
  <2>1. now' = now /\ BookExpiry /\ leases' = Live \cup {l}
    BY <1>2 DEF AdmitLookup, Grant
  <2>2. l.lookup
    OBVIOUS
  <2> HIDE DEF l
  <2>3. Analyses(leases') = Analyses(Live)
    BY <2>1, <2>2 DEF Analyses
  <2>4. AsksStay
    BY <1>0, <1>2, AdmitLookupAsks
  <2> QED BY <2>1, <2>3, <2>4, ExpiryExpires
<1>3. ASSUME NEW p \in Prefix, NEW heavy \in BOOLEAN, NEW lookup \in BOOLEAN,
             Refuse(p, heavy, lookup)
      PROVE  Promise!Next
  <2>1. now' = now /\ BookExpiry /\ leases' = Live /\ prefixes' = PrefixesExpired
    BY <1>3 DEF Refuse
  <2> QED BY <1>0, <2>1, ExpiryAsksStay, ExpiryExpires
<1>4. ASSUME NEW l \in leases, NEW r \in Reports, Settle(l, r)
      PROVE  Promise!Next \/ UNCHANGED <<Today, Analyses(leases), kept, keptFor, Asks>>
  BY <1>4, SettlePromised
<1>5. CASE Alarm
  <2>1. /\ now' = now /\ BookExpiry /\ leases' = Live
        /\ prefixes' = PurgedPrefixes(PrefixesExpired)
    BY <1>5 DEF Alarm
  <2> QED BY <1>0, <2>1, ExpiryAsksStay, ExpiryExpires
<1>6. CASE PollSucceeds \/ PollFails \/ PollInterrupted \/ UNCHANGED vars
  <2>1. UNCHANGED <<now, prefixes, leases, kept, keptFor>>
    BY <1>6 DEF PollSucceeds, PollFails, PollEnds, PollInterrupted, vars, books, history
  <2> QED BY <2>1 DEF Today, Day, Analyses, Asks
<1>7. CASE Tick
  BY <1>0, <1>7, TickPromised
<1> QED BY <1>1, <1>2, <1>3, <1>4, <1>5, <1>6, <1>7 DEF Next

\* The governor's counts are a quota kept by leases (LeasedQuota): whatever the
\* order of admissions, settles, expiries, purges, polls and midnights, and
\* whatever the Worker reports, every step is one of that promise or changes
\* none of it.  An analysis is admitted only where all that ran that day and all
\* that may still run leave room (admit reads nothing but its rows), a lease ends
\* once (settle, expireLeases), and no refund, purge or expiry takes an admission
\* off what a network may ask in a day.
THEOREM QuotaKeptHolds == Spec => QuotaKept
<1>1. Init => Promise!Init
  <2> SUFFICES ASSUME Init PROVE Promise!Init
    OBVIOUS
  <2>1. Today = 0 /\ Today \in Days
    BY TodayIsADay, InitType, DivFact, BudgetConstants DEF Init, Today, Day
  <2> QED BY <2>1 DEF Init, Promise!Init, Analyses, NoPrefix
<1>2. ChargeInv /\ CountsInv /\ AsksInv /\ [Next]_vars
        => [Promise!Next]_<<Today, Analyses(leases), kept, keptFor,
                            [p \in Prefix |-> prefixes[Today][p].attempts]>>
  BY EveryStepPromised DEF Asks
<1> QED BY <1>1, <1>2, ChargesInvariant, CountsInvariant, AsksInvariant, PTL
        DEF Spec, QuotaKept, Promise!Spec
=============================================================================

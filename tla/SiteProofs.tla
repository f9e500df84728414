----------------------------- MODULE SiteProofs -----------------------------
(***************************************************************************)
(* Theorems about the page's calls over the Worker's request flow, for any *)
(* number of requests in flight, releases, days and time-outs.             *)
(***************************************************************************)
EXTENDS Site, TLAPS, FiniteSetTheorems

LEMMA ConstantTypes ==
    /\ MaxRelease \in Nat /\ MaxTime \in Nat /\ DayLen \in Nat \ {0}
    /\ Threshold \in Nat \ {0} /\ OpenFor \in Nat \ {0}
    /\ WakeInterval \in Nat /\ WakeRetry \in 0 .. WakeInterval
    /\ PrefixCap \in Nat /\ Budget \in Nat /\ MaxDelay \in Nat \ {0}
    /\ IsFiniteSet(Slot) /\ None \notin Nat \cup Reply \cup Report
BY EdgeConstants, SiteConstants

-----------------------------------------------------------------------------
(* Days. *)

LEMMA DivFact ==
    ASSUME NEW a \in Nat, NEW n \in Nat \ {0}
    PROVE  /\ a \div n \in Nat
           /\ n * (a \div n) <= a
           /\ a < n * (a \div n) + n
BY Z3

\* Days never go back.
LEMMA DayMonotone ==
    ASSUME NEW t \in Nat, NEW u \in Nat, t <= u
    PROVE  Day(t) \in Nat /\ Day(u) \in Nat /\ Day(t) <= Day(u)
<1> DEFINE p == t \div DayLen
           q == u \div DayLen
<1>1. /\ p \in Nat /\ DayLen * p <= t /\ DayLen \in Nat \ {0}
      /\ q \in Nat /\ u < DayLen * q + DayLen
  BY DivFact, ConstantTypes
<1>2. Day(t) = p /\ Day(u) = q
  BY DEF Day
<1> HIDE DEF p, q
<1>3. SUFFICES ASSUME q < p PROVE FALSE
  BY <1>1, <1>2
<1>4. PICK k \in Nat : p = q + 1 + k
  BY <1>1, <1>3
<1>5. DayLen * p = DayLen * q + DayLen + DayLen * k
  BY <1>1, <1>4
<1>6. DayLen * k \in Nat /\ DayLen * q \in Nat
  BY <1>1
<1> QED BY <1>1, <1>5, <1>6

\* No moment before the clock's bound is on a later day than the bound.
LEMMA DayType ==
    ASSUME NEW t \in 0 .. MaxTime
    PROVE  Day(t) \in Days
<1>1. t \in Nat /\ MaxTime \in Nat /\ t <= MaxTime
  BY ConstantTypes
<1> QED BY <1>1, DayMonotone DEF Days

-----------------------------------------------------------------------------
(* The Worker's types. *)

\* What of EdgeTypeOK an answer changes.
OutcomeTypes ==
    /\ stage \in [Slot -> {"free", "reading", "admitting", "calling", "computing",
                           "joining", "deserted", "replied"}]
    /\ named \in [Slot -> Days] /\ tries \in [Slot -> 0 .. 2]
    /\ version \in [Slot -> Release]
    /\ reply \in [Slot -> Reply \cup {None}] /\ report \in [Slot -> Report \cup {None}]

BreakerTypes == breaker \in [failures : 0 .. Threshold, openFor : 0 .. OpenFor]

LEMMA Zeros == 0 \in Days /\ 0 \in Release
<1>1. 0 \in 0 .. MaxTime /\ 0 \in Release
  BY ConstantTypes DEF Release
<1>2. DayLen \in Nat \ {0} /\ MaxTime \in Nat
  BY ConstantTypes
<1>3. Day(MaxTime) \in Nat
  BY <1>2, DivFact DEF Day
<1> QED BY <1>1, <1>3 DEF Days

LEMMA AnswerTypes ==
    ASSUME EdgeTypeOK, NEW c \in Slot, NEW what \in Reply,
           NEW settle \in Report \cup {None}, Answer(c, what, settle)
    PROVE  OutcomeTypes'
BY Zeros DEF OutcomeTypes, Answer, EdgeTypeOK

LEMMA OriginAnswersTypes ==
    ASSUME EdgeTypeOK, NEW c \in Slot, NEW what \in Reply,
           NEW settle \in Report \cup {None}, OriginAnswers(c, what, settle)
    PROVE  OutcomeTypes' /\ BreakerTypes'
<1>1. BreakerTypes'
  BY ConstantTypes DEF OriginAnswers, Shut, BreakerTypes
<1> QED BY <1>1, AnswerTypes DEF OriginAnswers

LEMMA CallOriginTypes ==
    ASSUME EdgeTypeOK, NEW c \in Slot, CallOrigin(c)
    PROVE  OutcomeTypes'
<1>1. CASE Open
  BY <1>1, AnswerTypes DEF CallOrigin, Reply, Report, NotReached, As
<1>2. CASE ~Open
  BY <1>2, Zeros DEF CallOrigin, OutcomeTypes, EdgeTypeOK, outcome
<1> QED BY <1>1, <1>2

LEMMA AttemptTypes ==
    ASSUME EdgeTypeOK, NEW c \in Slot, AttemptFails(c)
    PROVE  OutcomeTypes' /\ BreakerTypes'
<1>1. BreakerTypes'
  BY ConstantTypes DEF AttemptFails, AfterFailure, BreakerTypes, EdgeTypeOK
<1>2. CASE tries[c] = 1
  BY <1>1, <1>2, Zeros DEF AttemptFails, OutcomeTypes, EdgeTypeOK, outcome
<1>3. CASE tries[c] # 1
  BY <1>1, <1>3, AnswerTypes DEF AttemptFails, Reply, Report, NotReached, As
<1> QED BY <1>2, <1>3

LEMMA CountTypes ==
    ASSUME EdgeTypeOK, NEW c \in Slot, Count(c)
    PROVE  rows' \in [Days -> Nat] /\ admitted' \in Nat
BY DEF Count, EdgeTypeOK

\* A step of a request keeps the Worker's types.
LEMMA RequestTypes ==
    ASSUME EdgeTypeOK, NEW c \in Slot, RequestStep(c)
    PROVE  EdgeTypeOK'
<1>1. CASE AnswerFromCache(c)
  <2>1. OutcomeTypes'
    BY <1>1, AnswerTypes DEF AnswerFromCache, Reply
  <2> QED BY <1>1, <2>1 DEF AnswerFromCache, EdgeTypeOK, OutcomeTypes, env, place, isolate, counts, trail
<1>2. CASE RefusePaused(c)
  <2>1. OutcomeTypes'
    BY <1>2, AnswerTypes DEF RefusePaused, Reply
  <2> QED BY <1>2, <2>1 DEF RefusePaused, EdgeTypeOK, OutcomeTypes, env, place, isolate, counts, trail
<1>3. CASE Wake(c)
  <2>1. OutcomeTypes'
    BY <1>3, AnswerTypes, CallOriginTypes DEF Wake, Reply
  <2>2. lastWake' \in 0 .. WakeInterval
    BY <1>3, ConstantTypes DEF Wake, EdgeTypeOK
  <2> QED BY <1>3, <2>1, <2>2 DEF Wake, EdgeTypeOK, OutcomeTypes, env, place, counts, trail
<1>4. CASE AskHealth(c)
  <2>1. OutcomeTypes'
    BY <1>4, CallOriginTypes DEF AskHealth
  <2> QED BY <1>4, <2>1 DEF AskHealth, EdgeTypeOK, OutcomeTypes, env, place, isolate, counts, trail
<1>5. CASE SkipGovernor(c)
  <2>1. OutcomeTypes'
    BY <1>5, AnswerTypes DEF SkipGovernor, Reply
  <2> QED BY <1>5, <2>1 DEF SkipGovernor, EdgeTypeOK, OutcomeTypes, env, place, isolate, counts, trail
<1>6. CASE NameClient(c)
  <2>1. Day(now) \in Days
    BY DayType DEF EdgeTypeOK
  <2> QED BY <1>6, <2>1 DEF NameClient, EdgeTypeOK, env, place, isolate, counts, outcome, trail
<1>7. CASE Admit(c)
  <2>1. OutcomeTypes'
    BY <1>7, CallOriginTypes DEF Admit
  <2>2. rows' \in [Days -> Nat] /\ admitted' \in Nat
    BY <1>7, CountTypes DEF Admit
  <2> QED BY <1>7, <2>1, <2>2 DEF Admit, EdgeTypeOK, OutcomeTypes, env, place, isolate, trail
<1>8. CASE Deny(c)
  <2>1. OutcomeTypes'
    BY <1>8, AnswerTypes DEF Deny, Reply
  <2> QED BY <1>8, <2>1 DEF Deny, EdgeTypeOK, OutcomeTypes, env, place, isolate, counts, trail
<1>9. CASE AdmitTooLate(c)
  <2>1. OutcomeTypes'
    BY <1>9, AnswerTypes DEF AdmitTooLate, Reply
  <2>2. rows' \in [Days -> Nat] /\ admitted' \in Nat
    BY <1>9, CountTypes DEF AdmitTooLate
  <2> QED BY <1>9, <2>1, <2>2 DEF AdmitTooLate, EdgeTypeOK, OutcomeTypes, env, place, isolate, trail
<1>10. CASE ApiTakes(c)
  BY <1>10 DEF ApiTakes, EdgeTypeOK, place, isolate, counts, outcome
<1>11. CASE ApiResult(c)
  <2>1. SettleAs(c) \in Report
    BY DEF SettleAs, Report, As, DbTime
  <2>2. OutcomeTypes' /\ BreakerTypes'
    BY <1>11, <2>1, OriginAnswersTypes DEF ApiResult, Reply
  <2>3. kv' \in Release \cup {None}
    BY <1>11 DEF ApiResult, EdgeTypeOK
  <2> QED BY <1>11, <2>2, <2>3 DEF ApiResult, EdgeTypeOK, OutcomeTypes, BreakerTypes, env, place, counts, trail
<1>12. CASE ApiFails(c)
  <2>0. SettleAs(c) \in Report /\ As("computed", "unreported") \in Report
    BY DEF SettleAs, Report, As, DbTime
  <2>1. OutcomeTypes' /\ BreakerTypes'
    BY <1>12, <2>0, OriginAnswersTypes DEF ApiFails, Reply
  <2> QED BY <1>12, <2>1 DEF ApiFails, EdgeTypeOK, OutcomeTypes, BreakerTypes, env, place, counts, trail
<1>13. CASE ApiReads(c)
  <2>1. OutcomeTypes' /\ BreakerTypes'
    BY <1>13, OriginAnswersTypes DEF ApiReads, Reply, Report, As, DbTime
  <2> QED BY <1>13, <2>1 DEF ApiReads, EdgeTypeOK, OutcomeTypes, BreakerTypes, env, place, counts, trail
<1>14. CASE ApiErrs(c)
  <2>1. OutcomeTypes' /\ BreakerTypes'
    <3>1. ASSUME NEW e \in ApiError
          PROVE  e[1] \in Reply /\ As(e[2], DbTime(c)) \in Report
      BY <3>1 DEF ApiError, Reply, Report, As, DbTime
    <3>2. As("shed", "zero") \in Report /\ NotReached \in Report
          /\ "final" \in Reply /\ "broken_response" \in Reply
      BY DEF Reply, Report, As, NotReached
    <3> QED BY <1>14, <3>1, <3>2, OriginAnswersTypes DEF ApiErrs
  <2>2. known' \in BOOLEAN
    BY <1>14 DEF ApiErrs, EdgeTypeOK
  <2> QED BY <1>14, <2>1, <2>2 DEF ApiErrs, EdgeTypeOK, OutcomeTypes, BreakerTypes, place, counts, trail
<1>15. CASE PlatformAnswers(c)
  <2>1. OutcomeTypes' /\ BreakerTypes'
    BY <1>15, OriginAnswersTypes DEF PlatformAnswers, Reply, Report, NotReached, As
  <2>2. severed' \in [Slot -> BOOLEAN]
    BY <1>15 DEF PlatformAnswers, EdgeTypeOK
  <2> QED BY <1>15, <2>1, <2>2 DEF PlatformAnswers, EdgeTypeOK, OutcomeTypes, BreakerTypes, env, place, counts
<1>16. CASE HealthAnswers(c)
  <2>1. OutcomeTypes' /\ BreakerTypes'
    BY <1>16, OriginAnswersTypes DEF HealthAnswers, Reply
  <2>2. lastWake' \in 0 .. WakeInterval
    BY <1>16, ConstantTypes DEF HealthAnswers, EdgeTypeOK
  <2> QED BY <1>16, <2>1, <2>2 DEF HealthAnswers, EdgeTypeOK, OutcomeTypes, BreakerTypes, env, place, counts, trail
<1>17. CASE ProbeCut(c)
  <2>1. OutcomeTypes'
    BY <1>17, AnswerTypes DEF ProbeCut, Reply
  <2> QED BY <1>17, <2>1 DEF ProbeCut, EdgeTypeOK, OutcomeTypes, env, place, isolate, counts, trail
<1>18. CASE AttemptFails(c)
  <2>1. OutcomeTypes' /\ BreakerTypes'
    BY <1>18, AttemptTypes
  <2>2. severed' \in [Slot -> BOOLEAN]
    BY <1>18 DEF AttemptFails, EdgeTypeOK
  <2> QED BY <1>18, <2>1, <2>2 DEF AttemptFails, EdgeTypeOK, OutcomeTypes, BreakerTypes, env, place, counts
<1> QED
  BY <1>1, <1>2, <1>3, <1>4, <1>5, <1>6, <1>7, <1>8, <1>9, <1>10, <1>11, <1>12, <1>13,
     <1>14, <1>15, <1>16, <1>17, <1>18 DEF RequestStep

\* What happens around the requests keeps the Worker's types.
LEMMA SurroundingTypes ==
    ASSUME EdgeTypeOK, Surroundings
    PROVE  EdgeTypeOK'
<1>1. CASE ApiForgets
  BY <1>1 DEF ApiForgets, EdgeTypeOK, place, isolate, counts, path, outcome, trail
<1>2. CASE ApiDies
  BY <1>2 DEF ApiDies, EdgeTypeOK, place, isolate, counts, outcome
<1>3. CASE Reload
  <2>1. served' \in Release
    BY <1>3, ConstantTypes DEF Reload, Release, EdgeTypeOK
  <2> QED BY <1>3, <2>1 DEF Reload, EdgeTypeOK, place, isolate, counts, path, outcome, trail
<1>4. CASE Tick
  <2>1. now' \in 0 .. MaxTime
    BY <1>4, ConstantTypes DEF Tick, EdgeTypeOK
  <2>2. BreakerTypes' /\ lastWake' \in 0 .. WakeInterval
    BY <1>4, ConstantTypes DEF Tick, Less, EdgeTypeOK, BreakerTypes
  <2>3. rows' \in [Days -> Nat] /\ admitted' \in Nat /\ straddled' \in Nat
    <3>1. Cardinality({c \in Slot : stage[c] = "admitting"}) \in Nat
      BY ConstantTypes, FS_Subset, FS_CardinalityType
    <3> QED BY <1>4, <3>1 DEF Tick, EdgeTypeOK, counts
  <2> QED BY <1>4, <2>1, <2>2, <2>3 DEF Tick, EdgeTypeOK, BreakerTypes, path, outcome, trail
<1> QED BY <1>1, <1>2, <1>3, <1>4 DEF Surroundings

\* A request arrives, and its slot is freed.
LEMMA ArriveTypes ==
    ASSUME EdgeTypeOK, NEW c \in Slot, NEW k \in Kind, Arrive(c, k)
    PROVE  EdgeTypeOK'
BY DEF Arrive, EdgeTypeOK, env, place, isolate, counts, outcome, trail

LEMMA FreeTypes ==
    ASSUME EdgeTypeOK, NEW c \in Slot, Free(c)
    PROVE  EdgeTypeOK'
BY Zeros DEF Free, EdgeTypeOK, env, place, isolate, counts

-----------------------------------------------------------------------------
(* The calls' types. *)

CallTypes ==
    /\ ask \in [Slot -> CallKind \cup {None}]
    /\ phase \in [Slot -> {"idle", "sent", "waiting"}]
    /\ since \in [Slot -> 0 .. MaxTime] /\ resumeAt \in [Slot -> 0 .. MaxTime]
    /\ resent \in [Slot -> 0 .. 1]
    /\ computed \in [Slot -> Nat \cup {None}]

LEMMA SettleTypes ==
    ASSUME CallTypes, NEW c \in Slot, Settle(c)
    PROVE  CallTypes'
BY ConstantTypes DEF Settle, CallTypes

\* The sleep ends within the call's budget, and so within the clock's bound.
LEMMA SleepTypes ==
    ASSUME EdgeTypeOK, CallTypes, CallsInv, NEW c \in Slot, phase[c] # "idle",
           NEW class, NEW lost \in BOOLEAN, SleepOrSettle(c, class, lost)
    PROVE  CallTypes'
<1>1. PICK delay \in 1 .. MaxDelay :
         IF InBudget(c, delay)
         THEN /\ phase' = [phase EXCEPT ![c] = "waiting"]
              /\ resumeAt' = [resumeAt EXCEPT ![c] = now + delay]
              /\ resent' = [resent EXCEPT ![c] = IF class = "transient" THEN 1 ELSE @]
              /\ computed' = [computed EXCEPT ![c] = IF lost THEN None ELSE @]
              /\ UNCHANGED <<ask, since>>
         ELSE Settle(c)
  BY DEF SleepOrSettle
<1>2. CASE InBudget(c, delay)
  <2>1. now + delay \in 0 .. MaxTime
    <3>1. now \in Nat /\ since[c] \in Nat /\ delay \in Nat /\ Budget \in Nat /\ MaxTime \in Nat
      BY ConstantTypes DEF EdgeTypeOK, CallTypes
    <3>2. now - since[c] + delay <= Budget /\ since[c] + Budget <= MaxTime
      BY <1>2 DEF InBudget, CallsInv
    <3> QED BY <3>1, <3>2
  <2> QED BY <1>1, <1>2, <2>1 DEF CallTypes
<1>3. CASE ~InBudget(c, delay)
  BY <1>1, <1>3, SettleTypes
<1> QED BY <1>2, <1>3

\* Every step is one of the following, of a call, of a request, or around them.
CallStep(c) ==
    \/ \E k \in Kind : NewCall(c, k) \/ Visit(c, k)
    \/ HandleReply(c) \/ LookupTimesOut(c) \/ Resend(c) \/ GiveUp(c) \/ DropReply(c)

LEMMA Steps == Next => Around \/ \E c \in Slot : Serve(c) \/ CallStep(c)
BY DEF Next, CallStep

LEMMA CallStepTypes ==
    ASSUME SiteInv, NEW c \in Slot, CallStep(c)
    PROVE  SiteTypeOK'
<1>0. EdgeTypeOK /\ CallTypes /\ CallsInv
  BY DEF SiteInv, SiteTypeOK, CallTypes
<1>1. ASSUME NEW k \in Kind, NewCall(c, k)
      PROVE  SiteTypeOK'
  <2>1. EdgeTypeOK'
    BY <1>0, <1>1, ArriveTypes DEF NewCall
  <2>2. now \in 0 .. MaxTime /\ k \in CallKind
    BY <1>0, <1>1 DEF EdgeTypeOK, NewCall
  <2> QED BY <1>0, <1>1, <2>1, <2>2 DEF NewCall, CallTypes, SiteTypeOK
<1>2. ASSUME NEW k \in Kind, Visit(c, k)
      PROVE  SiteTypeOK'
  <2>1. EdgeTypeOK'
    BY <1>0, <1>2, ArriveTypes DEF Visit
  <2> QED BY <1>0, <1>2, <2>1 DEF Visit, CallTypes, call, SiteTypeOK
<1>3. CASE HandleReply(c)
  <2>1. EdgeTypeOK' /\ phase[c] # "idle"
    BY <1>0, <1>3, FreeTypes DEF HandleReply
  <2>2. CallTypes'
    <3>1. (severed[c] \/ reply[c] = "cut") \in BOOLEAN
      OBVIOUS
    <3> QED BY <1>0, <1>3, <2>1, <3>1, SleepTypes, SettleTypes DEF HandleReply
  <2> QED BY <2>1, <2>2 DEF SiteTypeOK, CallTypes
<1>4. CASE LookupTimesOut(c)
  <2>1. EdgeTypeOK' /\ phase[c] # "idle"
    BY <1>0, <1>4, FreeTypes DEF LookupTimesOut
  <2>2. CallTypes'
    BY <1>0, <1>4, <2>1, SleepTypes DEF LookupTimesOut
  <2> QED BY <2>1, <2>2 DEF SiteTypeOK, CallTypes
<1>5. CASE Resend(c)
  <2>1. ask[c] \in Kind
    BY <1>0, <1>5 DEF CallsInv, Resend, CallTypes, CallKind, Kind
  <2>2. EdgeTypeOK'
    BY <1>0, <1>5, <2>1, ArriveTypes DEF Resend
  <2>3. 0 \in 0 .. MaxTime
    BY ConstantTypes
  <2> QED BY <1>0, <1>5, <2>2, <2>3 DEF Resend, CallTypes, SiteTypeOK
<1>6. CASE GiveUp(c)
  <2>1. EdgeTypeOK'
    BY <1>0, <1>6 DEF GiveUp, EdgeTypeOK, edgeVars, env, place, isolate, counts, path, outcome, trail
  <2> QED BY <1>0, <1>6, <2>1, SettleTypes DEF GiveUp, SiteTypeOK, CallTypes
<1>7. CASE DropReply(c)
  <2>1. EdgeTypeOK'
    BY <1>0, <1>7, FreeTypes DEF DropReply
  <2> QED BY <1>0, <1>7, <2>1 DEF DropReply, CallTypes, call, SiteTypeOK
<1> QED BY <1>1, <1>2, <1>3, <1>4, <1>5, <1>6, <1>7 DEF CallStep

LEMMA NextTypes ==
    ASSUME SiteInv, Next
    PROVE  SiteTypeOK'
<1>0. EdgeTypeOK /\ CallTypes
  BY DEF SiteInv, SiteTypeOK, CallTypes
<1>1. CASE Around
  BY <1>0, <1>1, SurroundingTypes DEF Around, call, CallTypes, SiteTypeOK
<1>2. ASSUME NEW c \in Slot, Serve(c)
      PROVE  SiteTypeOK'
  <2>1. EdgeTypeOK'
    BY <1>0, <1>2, RequestTypes DEF Serve
  <2>2. computed' \in [Slot -> Nat \cup {None}]
    <3>1. computed[c] # None => computed[c] + 1 \in Nat
      BY <1>0 DEF CallTypes
    <3> QED BY <1>0, <1>2, <3>1 DEF Serve, CallTypes
  <2> QED BY <1>0, <1>2, <2>1, <2>2 DEF Serve, CallTypes, SiteTypeOK
<1> QED BY <1>1, <1>2, CallStepTypes, Steps

LEMMA InitTypes == Init => SiteTypeOK
<1> SUFFICES ASSUME Init PROVE SiteTypeOK
  OBVIOUS
<1>1. EdgeTypeOK
  <2>1. /\ now \in 0 .. MaxTime /\ release \in Release /\ served \in Release
        /\ pausedUntil \in 0 .. MaxTime /\ kv \in Release \cup {None} /\ straddled \in Nat
        /\ admitted \in Nat
    <3>1. 0 \in 0 .. MaxTime
      BY ConstantTypes
    <3> QED BY <3>1, Zeros DEF Init, EdgeInit
  <2>4. known \in BOOLEAN
    BY DEF Init, EdgeInit
  <2>2. BreakerTypes /\ lastWake \in 0 .. WakeInterval
    BY ConstantTypes DEF Init, EdgeInit, Shut, BreakerTypes
  <2>3. /\ OutcomeTypes /\ rows \in [Days -> Nat] /\ kind \in [Slot -> Kind \cup {None}]
        /\ own \in [Slot -> BOOLEAN] /\ severed \in [Slot -> BOOLEAN]
    BY Zeros DEF Init, EdgeInit, OutcomeTypes
  <2> QED BY <2>1, <2>2, <2>3, <2>4 DEF EdgeTypeOK, BreakerTypes, OutcomeTypes
<1>2. CallTypes
  BY ConstantTypes DEF Init, CallTypes
<1> QED BY <1>1, <1>2 DEF SiteTypeOK, CallTypes

-----------------------------------------------------------------------------
(* Settles and computations. *)

\* What TrailInv says of the answer to a request with a computation of its own.
Earned(cutOff, what, settle) ==
    /\ cutOff \/ what \in {"result", "cut", "origin_timeout", "broken_response",
                           "overloaded", "final"}
    /\ \/ settle \in {As("computed", "some"), As("computed", "unreported")}
       \/ /\ what \notin {"result", "cut", "origin_timeout"}
          /\ \/ cutOff \/ what = "broken_response"
             \/ settle \in {As("shed", "some"), As("rejected", "some")}
             \/ what = "final" /\ settle = As("shed", "zero")

LEMMA AnswerTrail ==
    ASSUME EdgeTypeOK, TrailInv, NEW c \in Slot, NEW what, NEW settle,
           Answer(c, what, settle), kind' = kind, own' = own,
           severed' \in [Slot -> BOOLEAN], \A x \in Slot \ {c} : severed'[x] = severed[x],
           own[c] => Earned(severed'[c], what, settle)
    PROVE  TrailInv'
<1>1. /\ stage' = [stage EXCEPT ![c] = "replied"] /\ tries' = [tries EXCEPT ![c] = 0]
      /\ \A x \in Slot \ {c} : reply'[x] = reply[x] /\ report'[x] = report[x]
  BY DEF Answer, EdgeTypeOK
<1>2. kind[c] = "analysis" => reply'[c] = what /\ report'[c] = settle
  BY DEF Answer, EdgeTypeOK, Governed
<1>3. own[c] => /\ kind[c] = "analysis"
                /\ Earned(severed'[c], reply'[c], report'[c])
  BY <1>2 DEF TrailInv
<1> QED BY <1>1, <1>3 DEF TrailInv, EdgeTypeOK, Earned

\* A step of a request keeps what is known of its computation and its report.
LEMMA RequestTrail ==
    ASSUME EdgeTypeOK, TrailInv, NEW c \in Slot, RequestStep(c)
    PROVE  TrailInv'
<1>1. CASE AnswerFromCache(c)
  BY <1>1 DEF AnswerFromCache, Answer, TrailInv, EdgeTypeOK, Governed, outcome, trail
<1>2. CASE RefusePaused(c)
  BY <1>2 DEF RefusePaused, Answer, TrailInv, EdgeTypeOK, Governed, outcome, trail
<1>3. CASE Wake(c)
  BY <1>3 DEF Wake, CallOrigin, Answer, TrailInv, EdgeTypeOK, Governed, outcome, trail
<1>4. CASE AskHealth(c)
  BY <1>4 DEF AskHealth, CallOrigin, Answer, TrailInv, EdgeTypeOK, Governed, outcome, trail
<1>5. CASE SkipGovernor(c)
  BY <1>5 DEF SkipGovernor, Answer, TrailInv, EdgeTypeOK, Governed, outcome, trail
<1>6. CASE NameClient(c)
  BY <1>6 DEF NameClient, outcome, TrailInv, EdgeTypeOK, Governed, outcome, trail
<1>7. CASE Admit(c)
  BY <1>7 DEF Admit, Count, CallOrigin, Answer, TrailInv, EdgeTypeOK, Governed, outcome, trail
<1>8. CASE Deny(c)
  BY <1>8 DEF Deny, Answer, TrailInv, EdgeTypeOK, Governed, outcome, trail
<1>9. CASE AdmitTooLate(c)
  BY <1>9 DEF AdmitTooLate, Count, Answer, TrailInv, EdgeTypeOK, Governed, outcome, trail
<1>10. CASE ApiTakes(c)
  BY <1>10 DEF ApiTakes, outcome, TrailInv, EdgeTypeOK, Governed, outcome, trail
<1>11. CASE ApiResult(c)
  <2>1. own[c] => SettleAs(c) \in {As("computed", "some"), As("computed", "unreported")}
    BY <1>11 DEF ApiResult, Taken, SettleAs, DbTime, TrailInv
  <2>2. PICK what \in {"result", "cut"} : Answer(c, what, SettleAs(c))
    BY <1>11 DEF ApiResult, OriginAnswers
  <2>3. kind' = kind /\ own' = own /\ severed' = severed
    BY <1>11 DEF ApiResult, trail
  <2> QED BY <2>1, <2>2, <2>3, AnswerTrail DEF Earned, EdgeTypeOK
<1>12. CASE ApiFails(c)
  <2>1. own[c] => SettleAs(c) \in {As("computed", "some"), As("computed", "unreported")}
    BY <1>12 DEF ApiFails, Taken, SettleAs, DbTime, TrailInv
  <2>2. kind' = kind /\ own' = own /\ severed' = severed
    BY <1>12 DEF ApiFails, trail
  <2>3. \/ Answer(c, "origin_timeout", As("computed", "unreported"))
        \/ Answer(c, "broken_response", SettleAs(c))
    BY <1>12 DEF ApiFails, OriginAnswers
  <2> QED BY <2>1, <2>2, <2>3, AnswerTrail DEF Earned, EdgeTypeOK
<1>13. CASE ApiReads(c)
  <2>1. Answer(c, "result", As("computed", DbTime(c))) /\ kind[c] # "analysis"
    BY <1>13 DEF ApiReads, OriginAnswers
  <2>2. kind' = kind /\ own' = own /\ severed' = severed /\ ~own[c]
    BY <1>13, <2>1 DEF ApiReads, trail, TrailInv
  <2> QED BY <2>1, <2>2, AnswerTrail DEF EdgeTypeOK
<1>14. CASE ApiErrs(c)
  <2>1. kind' = kind /\ own' = own /\ severed' = severed
    BY <1>14 DEF ApiErrs, trail
  <2>2. own[c] => severed[c] \/ stage[c] = "computing"
    BY <1>14 DEF ApiErrs, Taken, TrailInv
  <2>3. ASSUME NEW e \in ApiError, Taken(c) => e[1] # "limited",
               Answer(c, e[1], As(e[2], DbTime(c)))
        PROVE  TrailInv'
    <3>1. own[c] => Earned(severed[c], e[1], As(e[2], DbTime(c)))
      BY <2>2, <2>3 DEF ApiError, Earned, DbTime, Taken
    <3> QED BY <2>1, <2>3, <3>1, AnswerTrail DEF EdgeTypeOK
  <2>4. CASE Answer(c, "final", As("shed", "zero"))
    BY <2>1, <2>4, AnswerTrail DEF Earned, EdgeTypeOK
  <2>5. CASE Answer(c, "broken_response", NotReached)
    BY <2>1, <2>5, AnswerTrail DEF Earned, EdgeTypeOK
  <2> QED BY <1>14, <2>3, <2>4, <2>5 DEF ApiErrs, OriginAnswers
<1>15. CASE PlatformAnswers(c)
  <2>1. /\ kind' = kind /\ own' = own /\ severed' = [severed EXCEPT ![c] = own[c]]
        /\ \E what \in {"waking", "overloaded"} : Answer(c, what, NotReached)
    BY <1>15 DEF PlatformAnswers, OriginAnswers
  <2> QED BY <2>1, AnswerTrail DEF Earned, EdgeTypeOK
<1>16. CASE HealthAnswers(c)
  BY <1>16 DEF HealthAnswers, OriginAnswers, Answer, TrailInv, EdgeTypeOK, Governed, outcome, trail
<1>17. CASE ProbeCut(c)
  BY <1>17 DEF ProbeCut, Answer, TrailInv, EdgeTypeOK, Governed, outcome, trail
<1>18. CASE AttemptFails(c)
  <2>1. kind' = kind /\ own' = own /\ severed' = [severed EXCEPT ![c] = own[c]]
    BY <1>18 DEF AttemptFails
  <2>2. CASE tries[c] = 1
    <3>1. /\ stage' = [stage EXCEPT ![c] = "calling"] /\ tries' = [tries EXCEPT ![c] = 2]
          /\ UNCHANGED outcome /\ stage[c] \notin {"free", "reading", "admitting", "replied"}
      BY <1>18, <2>2 DEF AttemptFails, Taken, EdgeTypeOK
    <3> QED BY <2>1, <3>1 DEF TrailInv, EdgeTypeOK, outcome
  <2>3. CASE tries[c] # 1
    BY <1>18, <2>1, <2>3, AnswerTrail DEF AttemptFails, Earned, EdgeTypeOK
  <2> QED BY <2>2, <2>3
<1> QED
  BY <1>1, <1>2, <1>3, <1>4, <1>5, <1>6, <1>7, <1>8, <1>9, <1>10, <1>11, <1>12, <1>13, <1>14, <1>15, <1>16, <1>17, <1>18 DEF RequestStep

\* What happens around the requests severs them or leaves them alone.
LEMMA SurroundingTrail ==
    ASSUME EdgeTypeOK, TrailInv, Surroundings
    PROVE  TrailInv'
<1>1. CASE ApiForgets
  BY <1>1 DEF ApiForgets, TrailInv, path, outcome, trail
<1>2. CASE ApiDies
  BY <1>2 DEF ApiDies, TrailInv, EdgeTypeOK, Taken, outcome
<1>3. CASE Reload
  BY <1>3 DEF Reload, TrailInv, path, outcome, trail
<1>4. CASE Tick
  BY <1>4 DEF Tick, TrailInv, path, outcome, trail
<1> QED BY <1>1, <1>2, <1>3, <1>4 DEF Surroundings

LEMMA ArriveTrail ==
    ASSUME EdgeTypeOK, TrailInv, NEW c \in Slot, NEW k \in Kind, Arrive(c, k)
    PROVE  TrailInv'
BY DEF Arrive, TrailInv, EdgeTypeOK, outcome, trail

LEMMA FreeTrail ==
    ASSUME EdgeTypeOK, TrailInv, NEW c \in Slot, Free(c)
    PROVE  TrailInv'
BY DEF Free, TrailInv, EdgeTypeOK

LEMMA CallStepTrail ==
    ASSUME SiteInv, NEW c \in Slot, CallStep(c)
    PROVE  TrailInv'
<1>0. EdgeTypeOK /\ TrailInv
  BY DEF SiteInv, SiteTypeOK
<1>1. ASSUME NEW k \in Kind, NewCall(c, k) \/ Visit(c, k)
      PROVE  TrailInv'
  BY <1>0, <1>1, ArriveTrail DEF NewCall, Visit
<1>2. CASE HandleReply(c) \/ LookupTimesOut(c) \/ DropReply(c)
  BY <1>0, <1>2, FreeTrail DEF HandleReply, LookupTimesOut, DropReply
<1>3. CASE Resend(c)
  <2>1. ask[c] \in Kind
    BY <1>3 DEF SiteInv, CallsInv, Resend, CallKind, Kind
  <2> QED BY <1>0, <1>3, <2>1, ArriveTrail DEF Resend
<1>4. CASE GiveUp(c)
  BY <1>0, <1>4 DEF GiveUp, TrailInv, edgeVars, path, outcome, trail
<1> QED BY <1>1, <1>2, <1>3, <1>4 DEF CallStep

LEMMA NextTrail ==
    ASSUME SiteInv, Next
    PROVE  TrailInv'
<1>1. CASE Around
  BY <1>1, SurroundingTrail DEF Around, SiteInv, SiteTypeOK
<1>2. ASSUME NEW c \in Slot, Serve(c)
      PROVE  TrailInv'
  BY <1>2, RequestTrail DEF Serve, SiteInv, SiteTypeOK
<1> QED BY <1>1, <1>2, CallStepTrail, Steps

-----------------------------------------------------------------------------
(* Calls and what they had computed. *)

\* A request's step leaves its slot in use and its kind alone, begins no computation
\* but an analysis', and forgets none.
LEMMA RequestFacts ==
    ASSUME EdgeTypeOK, TrailInv, NEW c \in Slot, RequestStep(c)
    PROVE  /\ stage[c] # "free" /\ stage'[c] # "free" /\ kind' = kind /\ now' = now
           /\ own[c] => own'[c]
           /\ own'[c] => kind[c] = "analysis"
           /\ \A x \in Slot \ {c} : stage'[x] = stage[x] /\ own'[x] = own[x]
<1>0. \A x \in Slot : own[x] => kind[x] = "analysis"
  BY DEF TrailInv
<1>1. CASE AnswerFromCache(c)
  BY <1>0, <1>1 DEF AnswerFromCache, Answer, EdgeTypeOK, env, place, trail
<1>2. CASE RefusePaused(c)
  BY <1>0, <1>2 DEF RefusePaused, Answer, EdgeTypeOK, env, place, trail
<1>3. CASE Wake(c)
  BY <1>0, <1>3 DEF Wake, CallOrigin, Answer, EdgeTypeOK, env, place, trail
<1>4. CASE AskHealth(c)
  BY <1>0, <1>4 DEF AskHealth, CallOrigin, Answer, EdgeTypeOK, env, place, trail
<1>5. CASE SkipGovernor(c)
  BY <1>0, <1>5 DEF SkipGovernor, Answer, EdgeTypeOK, env, place, trail
<1>6. CASE NameClient(c)
  BY <1>0, <1>6 DEF NameClient, EdgeTypeOK, env, place, trail
<1>7. CASE Admit(c)
  BY <1>0, <1>7 DEF Admit, Count, CallOrigin, Answer, EdgeTypeOK, env, place, trail
<1>8. CASE Deny(c)
  BY <1>0, <1>8 DEF Deny, Answer, EdgeTypeOK, env, place, trail
<1>9. CASE AdmitTooLate(c)
  BY <1>0, <1>9 DEF AdmitTooLate, Count, Answer, EdgeTypeOK, env, place, trail
<1>10. CASE ApiTakes(c)
  BY <1>0, <1>10 DEF ApiTakes, EdgeTypeOK, env, place, trail
<1>11. CASE ApiResult(c)
  BY <1>0, <1>11 DEF ApiResult, OriginAnswers, Answer, Taken, EdgeTypeOK, env, place, trail
<1>12. CASE ApiFails(c)
  BY <1>0, <1>12 DEF ApiFails, OriginAnswers, Answer, Taken, EdgeTypeOK, env, place, trail
<1>13. CASE ApiReads(c)
  BY <1>0, <1>13 DEF ApiReads, OriginAnswers, Answer, EdgeTypeOK, env, place, trail
<1>14. CASE ApiErrs(c)
  <2>1. /\ Taken(c) \/ stage[c] = "calling"
        /\ \E what, settle : Answer(c, what, settle)
        /\ UNCHANGED <<kind, now, own>>
    BY <1>14 DEF ApiErrs, OriginAnswers, place, trail
  <2> QED BY <1>0, <2>1 DEF Answer, Taken, EdgeTypeOK
<1>15. CASE PlatformAnswers(c)
  BY <1>0, <1>15 DEF PlatformAnswers, OriginAnswers, Answer, Taken, EdgeTypeOK, env, place, trail
<1>16. CASE HealthAnswers(c)
  BY <1>0, <1>16 DEF HealthAnswers, OriginAnswers, Answer, EdgeTypeOK, env, place, trail
<1>17. CASE ProbeCut(c)
  BY <1>0, <1>17 DEF ProbeCut, Answer, EdgeTypeOK, env, place, trail
<1>18. CASE AttemptFails(c)
  BY <1>0, <1>18 DEF AttemptFails, Answer, Taken, EdgeTypeOK, env, place, trail
<1> QED
  BY <1>1, <1>2, <1>3, <1>4, <1>5, <1>6, <1>7, <1>8, <1>9, <1>10, <1>11, <1>12, <1>13, <1>14, <1>15, <1>16, <1>17, <1>18 DEF RequestStep

LEMMA ServeCalls ==
    ASSUME SiteInv, NEW c \in Slot, Serve(c)
    PROVE  CallsInv'
<1>1. CallTypes /\ CallsInv /\ EdgeTypeOK /\ TrailInv
  BY DEF SiteInv, SiteTypeOK, CallTypes
<1>2. /\ stage[c] # "free" /\ stage'[c] # "free" /\ kind' = kind /\ now' = now
      /\ own[c] => own'[c]
      /\ own'[c] => kind[c] = "analysis"
      /\ \A x \in Slot \ {c} : stage'[x] = stage[x] /\ own'[x] = own[x]
  BY <1>1, RequestFacts DEF Serve
<1>3. UNCHANGED <<ask, phase, since, resent>>
  BY DEF Serve
<1>4. \A x \in Slot \ {c} : computed'[x] = computed[x]
  BY <1>1 DEF Serve, CallTypes
<1>5. computed'[c] = IF phase[c] = "sent" /\ computed[c] # None /\ own'[c] /\ ~own[c]
                     THEN computed[c] + 1 ELSE computed[c]
  BY <1>1 DEF Serve, CallTypes
<1>6. /\ own \in [Slot -> BOOLEAN] /\ own[c] \in BOOLEAN /\ own'[c] \in BOOLEAN
      /\ computed[c] \in Nat \cup {None} /\ resent[c] \in 0 .. 1
  <2>1. EdgeTypeOK'
    BY NextTypes DEF Next, SiteTypeOK
  <2> QED BY <1>1, <2>1 DEF EdgeTypeOK, CallTypes
<1>7. ASSUME NEW x \in Slot \ {c}
      PROVE  /\ phase'[x] = "idle" => computed'[x] = 0 /\ resent'[x] = 0
             /\ phase'[x] # "idle" =>
                   ask'[x] \in CallKind /\ since'[x] <= now' /\ since'[x] + Budget <= MaxTime
             /\ phase'[x] = "sent" => stage'[x] # "free" /\ kind'[x] = ask'[x]
             /\ ask'[x] # "analysis" => computed'[x] \in {0, None}
             /\ computed'[x] # None =>
                   computed'[x] <= resent'[x] + (IF phase'[x] = "sent" /\ own'[x] THEN 1 ELSE 0)
  BY <1>1, <1>2, <1>3, <1>4 DEF CallsInv
<1>8. /\ phase'[c] = "idle" => computed'[c] = 0 /\ resent'[c] = 0
      /\ phase'[c] # "idle" =>
            ask'[c] \in CallKind /\ since'[c] <= now' /\ since'[c] + Budget <= MaxTime
      /\ phase'[c] = "sent" => stage'[c] # "free" /\ kind'[c] = ask'[c]
      /\ ask'[c] # "analysis" => computed'[c] \in {0, None}
  BY <1>1, <1>2, <1>3, <1>5 DEF CallsInv
<1>9. computed'[c] # None =>
         computed'[c] <= resent'[c] + (IF phase'[c] = "sent" /\ own'[c] THEN 1 ELSE 0)
  <2>1. computed[c] # None =>
           computed[c] <= resent[c] + (IF phase[c] = "sent" /\ own[c] THEN 1 ELSE 0)
    BY <1>1 DEF CallsInv
  <2> QED BY <1>2, <1>3, <1>5, <1>6, <2>1, ConstantTypes
<1> QED BY <1>7, <1>8, <1>9 DEF CallsInv

LEMMA AroundCalls ==
    ASSUME SiteInv, Around
    PROVE  CallsInv'
<1>1. /\ now' \in Nat /\ now \in Nat /\ now' >= now
      /\ kind' = kind /\ own' = own
      /\ \A c \in Slot : stage[c] # "free" => stage'[c] # "free"
  <2>1. CASE ApiForgets
    BY <2>1 DEF ApiForgets, place, path, trail, SiteInv, SiteTypeOK, EdgeTypeOK
  <2>2. CASE ApiDies
    BY <2>2 DEF ApiDies, place, SiteInv, SiteTypeOK, EdgeTypeOK
  <2>3. CASE Reload
    BY <2>3 DEF Reload, place, path, trail, SiteInv, SiteTypeOK, EdgeTypeOK
  <2>4. CASE Tick
    BY <2>4 DEF Tick, path, trail, SiteInv, SiteTypeOK, EdgeTypeOK
  <2> QED BY <2>1, <2>2, <2>3, <2>4 DEF Around, Surroundings
<1>2. since \in [Slot -> Nat] /\ CallsInv
  BY DEF SiteInv, SiteTypeOK
<1> QED BY <1>1, <1>2 DEF Around, call, CallsInv

\* A call that is over has no history.
LEMMA SettleCalls ==
    ASSUME CallTypes, CallsInv, NEW c \in Slot, Settle(c), now' = now,
           \A x \in Slot \ {c} : stage'[x] = stage[x] /\ kind'[x] = kind[x] /\ own'[x] = own[x]
    PROVE  CallsInv'
<1>1. /\ \A x \in Slot \ {c} :
           /\ ask'[x] = ask[x] /\ phase'[x] = phase[x] /\ since'[x] = since[x]
           /\ resent'[x] = resent[x] /\ computed'[x] = computed[x]
      /\ ask'[c] = None /\ phase'[c] = "idle" /\ resent'[c] = 0 /\ computed'[c] = 0
  BY DEF Settle, CallTypes
<1> QED BY <1>1 DEF CallsInv

\* An attempt that computed and was neither cut nor severed is not "waking", so it is
\* the call's last or its one transient retry follows.
LEMMA SleepCalls ==
    ASSUME EdgeTypeOK, CallTypes, CallsInv, NEW c \in Slot, NEW class, NEW lost \in BOOLEAN,
           phase[c] = "sent", ask[c] = "lookup" \/ class = "waking" \/ resent[c] = 0,
           ask[c] = "lookup" \/ class \in {"waking", "transient"},
           ask[c] = "lookup" \/ ~own[c] \/ lost \/ class = "transient",
           own[c] => kind[c] = "analysis",
           SleepOrSettle(c, class, lost), Free(c)
    PROVE  CallsInv'
<1>0. /\ now' = now /\ stage'[c] = "free"
      /\ \A x \in Slot \ {c} : stage'[x] = stage[x] /\ kind'[x] = kind[x] /\ own'[x] = own[x]
  BY DEF Free, env, place, EdgeTypeOK
<1>1. PICK delay \in 1 .. MaxDelay :
         IF InBudget(c, delay)
         THEN /\ phase' = [phase EXCEPT ![c] = "waiting"]
              /\ resumeAt' = [resumeAt EXCEPT ![c] = now + delay]
              /\ resent' = [resent EXCEPT ![c] = IF class = "transient" THEN 1 ELSE @]
              /\ computed' = [computed EXCEPT ![c] = IF lost THEN None ELSE @]
              /\ UNCHANGED <<ask, since>>
         ELSE Settle(c)
  BY DEF SleepOrSettle
<1>2. CASE InBudget(c, delay)
  <2>1. /\ \A x \in Slot \ {c} :
             /\ ask'[x] = ask[x] /\ phase'[x] = phase[x] /\ since'[x] = since[x]
             /\ resent'[x] = resent[x] /\ computed'[x] = computed[x]
        /\ ask'[c] = ask[c] /\ since'[c] = since[c] /\ phase'[c] = "waiting"
        /\ resent'[c] = (IF class = "transient" THEN 1 ELSE resent[c])
        /\ computed'[c] = (IF lost THEN None ELSE computed[c])
    BY <1>1, <1>2 DEF CallTypes
  <2>2. /\ kind[c] = ask[c] /\ ask[c] \in CallKind
        /\ ask[c] # "analysis" => computed[c] \in {0, None}
        /\ computed[c] # None => computed[c] <= resent[c] + (IF own[c] THEN 1 ELSE 0)
        /\ computed[c] \in Nat \cup {None} /\ resent[c] \in 0 .. 1
    BY DEF CallsInv, CallTypes
  <2>3. computed'[c] # None => computed'[c] <= resent'[c] + 0
    BY <2>1, <2>2
  <2>4. /\ phase'[c] # "idle" =>
              ask'[c] \in CallKind /\ since'[c] <= now' /\ since'[c] + Budget <= MaxTime
        /\ ask'[c] # "analysis" => computed'[c] \in {0, None}
    BY <1>0, <2>1, <2>2 DEF CallsInv
  <2> QED BY <1>0, <2>1, <2>3, <2>4 DEF CallsInv
<1>3. CASE ~InBudget(c, delay)
  BY <1>0, <1>1, <1>3, SettleCalls
<1> QED BY <1>2, <1>3

LEMMA CallStepCalls ==
    ASSUME SiteInv, NEW c \in Slot, CallStep(c)
    PROVE  CallsInv'
<1>0. EdgeTypeOK /\ CallTypes /\ CallsInv /\ TrailInv
  BY DEF SiteInv, SiteTypeOK, CallTypes
<1>1. ASSUME NEW k \in Kind, NewCall(c, k)
      PROVE  CallsInv'
  <2>1. /\ stage[c] = "free" /\ stage' = [stage EXCEPT ![c] = "reading"]
        /\ kind' = [kind EXCEPT ![c] = k] /\ UNCHANGED <<now, own>>
    BY <1>1 DEF NewCall, Arrive, env, place, trail
  <2>2. ~own[c] /\ computed[c] = 0 /\ resent[c] = 0 /\ now \in Nat
    BY <1>0, <1>1, <2>1 DEF TrailInv, CallsInv, NewCall, EdgeTypeOK
  <2> QED BY <1>0, <1>1, <2>1, <2>2, ConstantTypes DEF NewCall, CallsInv, CallTypes, EdgeTypeOK
<1>2. ASSUME NEW k \in Kind, Visit(c, k)
      PROVE  CallsInv'
  BY <1>0, <1>2 DEF Visit, Arrive, env, place, trail, call, CallsInv, EdgeTypeOK
<1>3. CASE HandleReply(c)
  <2>1. /\ now' = now
        /\ \A x \in Slot \ {c} : stage'[x] = stage[x] /\ kind'[x] = kind[x] /\ own'[x] = own[x]
    BY <1>0, <1>3 DEF HandleReply, Free, env, place, EdgeTypeOK
  <2>2. CASE reply[c] # "result" /\ MayRetry(c, Class(reply[c]))
    <3> DEFINE lost == own[c] /\ (severed[c] \/ reply[c] = "cut")
    <3>1. SleepOrSettle(c, Class(reply[c]), lost) /\ Free(c) /\ phase[c] = "sent"
      BY <1>3, <2>2 DEF HandleReply
    <3>2. /\ ask[c] = "lookup" \/ Class(reply[c]) = "waking" \/ resent[c] = 0
          /\ ask[c] = "lookup" \/ Class(reply[c]) \in {"waking", "transient"}
      BY <2>2 DEF MayRetry
    <3>3. ~own[c] \/ lost \/ Class(reply[c]) = "transient"
      <4> SUFFICES ASSUME own[c], ~lost
                   PROVE  Class(reply[c]) = "transient"
        OBVIOUS
      <4>1. reply[c] \in {"origin_timeout", "broken_response", "overloaded", "final"}
        BY <1>0, <1>3, <2>2 DEF TrailInv, HandleReply
      <4>2. reply[c] # "final"
        BY <2>2 DEF MayRetry, Class
      <4> QED BY <4>1, <4>2 DEF Class
    <3>4. lost \in BOOLEAN /\ (own[c] => kind[c] = "analysis")
      BY <1>0 DEF TrailInv
    <3> HIDE DEF lost
    <3> QED BY <1>0, <3>1, <3>2, <3>3, <3>4, SleepCalls
  <2>3. CASE ~(reply[c] # "result" /\ MayRetry(c, Class(reply[c])))
    BY <1>0, <1>3, <2>1, <2>3, SettleCalls DEF HandleReply
  <2> QED BY <2>2, <2>3
<1>4. CASE LookupTimesOut(c)
  <2>1. /\ ask[c] = "lookup" /\ phase[c] = "sent" /\ (own[c] => kind[c] = "analysis")
        /\ SleepOrSettle(c, "waking", FALSE) /\ Free(c)
    BY <1>0, <1>4 DEF LookupTimesOut, TrailInv
  <2> QED BY <1>0, <2>1, SleepCalls
<1>5. CASE Resend(c)
  <2>1. /\ stage[c] = "free" /\ stage' = [stage EXCEPT ![c] = "reading"]
        /\ kind' = [kind EXCEPT ![c] = ask[c]] /\ UNCHANGED <<now, own>>
    BY <1>5 DEF Resend, Arrive, env, place, trail
  <2>2. ~own[c]
    BY <1>0, <2>1 DEF TrailInv
  <2> QED BY <1>0, <1>5, <2>1, <2>2 DEF Resend, CallsInv, CallTypes, EdgeTypeOK
<1>6. CASE GiveUp(c)
  BY <1>0, <1>6, SettleCalls DEF GiveUp, edgeVars, env, place, path, trail
<1>7. CASE DropReply(c)
  BY <1>0, <1>7 DEF DropReply, Free, env, place, call, CallsInv, EdgeTypeOK
<1> QED BY <1>1, <1>2, <1>3, <1>4, <1>5, <1>6, <1>7 DEF CallStep

-----------------------------------------------------------------------------
(* The cap at midnight. *)

LEMMA DayIsNat == ASSUME EdgeTypeOK PROVE Day(now) \in Days /\ Day(now) \in Nat
<1>1. now \in Nat /\ DayLen \in Nat \ {0}
  BY ConstantTypes DEF EdgeTypeOK
<1>2. Day(now) \in Nat
  BY <1>1, DivFact DEF Day
<1> QED BY <1>2, DayType DEF EdgeTypeOK

LEMMA StraddlingFinite == IsFiniteSet(Straddling) /\ Cardinality(Straddling) \in Nat
<1>1. Straddling \subseteq Slot
  BY DEF Straddling
<1> QED BY <1>1, ConstantTypes, FS_Subset, FS_CardinalityType

\* A step that admits no one, within a day, keeps the day's account if every request
\* then on its way was so before under the same name, or has today's.
LEMMA NoAdmission ==
    ASSUME EdgeTypeOK, DayInv, UNCHANGED <<now, counts>>,
           \A c \in Slot : stage'[c] = "admitting" =>
               named'[c] = Day(now) \/ (stage[c] = "admitting" /\ named'[c] = named[c])
    PROVE  DayInv'
<1>1. Day(now)' = Day(now)
  BY DEF Day
<1>2. Straddling' \subseteq Straddling
  BY <1>1 DEF Straddling
<1>3. /\ Cardinality(Straddling') <= Cardinality(Straddling)
      /\ Cardinality(Straddling') \in Nat /\ Cardinality(Straddling) \in Nat
  BY <1>2, StraddlingFinite, FS_Subset, FS_CardinalityType
<1>4. /\ rows' = rows /\ admitted' = admitted /\ straddled' = straddled
      /\ admitted \in Nat /\ straddled \in Nat /\ Day(now) \in Nat
      /\ rows[Day(now)] \in Nat
  BY DayIsNat DEF counts, EdgeTypeOK
<1>5. admitted' + Cardinality(Straddling') <= rows'[Day(now)'] + straddled'
  BY <1>1, <1>3, <1>4 DEF DayInv
<1>6. \A c \in Slot : stage'[c] = "admitting" => named'[c] <= Day(now)
  BY <1>4 DEF DayInv
<1>7. \A d \in Days : rows'[d] <= PrefixCap
  BY <1>4 DEF DayInv
<1> QED BY <1>1, <1>5, <1>6, <1>7 DEF DayInv

\* An admission is of today's name, or of one that was on its way at midnight.
LEMMA AdmissionDay ==
    ASSUME EdgeTypeOK, DayInv, NEW c \in Slot, Count(c), UNCHANGED <<now, straddled>>,
           stage'[c] # "admitting",
           \A x \in Slot \ {c} : stage'[x] = stage[x] /\ named'[x] = named[x]
    PROVE  DayInv'
<1> DEFINE d == named[c]
           today == Day(now)
<1>1. today' = today
  BY DEF Day
<1>2. /\ stage[c] = "admitting" /\ rows[d] < PrefixCap /\ admitted' = admitted + 1
      /\ rows' = [rows EXCEPT ![d] = @ + 1] /\ straddled' = straddled
  BY DEF Count
<1>3. /\ admitted \in Nat /\ straddled \in Nat /\ today \in Days /\ d \in Days
      /\ rows \in [Days -> Nat] /\ PrefixCap \in Nat
  BY DayIsNat, ConstantTypes DEF EdgeTypeOK
<1>4. Straddling' = Straddling \ {c}
  BY <1>1 DEF Straddling
<1>5. c \in Straddling <=> d # today
  BY <1>2 DEF Straddling
<1>6. Cardinality(Straddling) \in Nat /\ IsFiniteSet(Straddling)
  BY StraddlingFinite
<1>7. \A x \in Slot : stage'[x] = "admitting" => named'[x] <= today'
  <2>1. \A x \in Slot \ {c} : stage'[x] = "admitting" => named'[x] <= today'
    BY <1>1 DEF DayInv
  <2> QED BY <2>1
<1>8. \A n \in Days : rows'[n] <= PrefixCap
  <2>1. \A n \in Days : rows[n] <= PrefixCap /\ rows[n] \in Nat
    BY <1>3 DEF DayInv
  <2>2. ASSUME NEW n \in Days PROVE rows'[n] <= PrefixCap
    <3>1. CASE n = d
      BY <1>2, <1>3, <2>1, <3>1
    <3>2. CASE n # d
      BY <1>2, <1>3, <2>1, <3>2
    <3> QED BY <3>1, <3>2
  <2> QED BY <2>2
<1>9. admitted + Cardinality(Straddling) <= rows[today] + straddled
  BY DEF DayInv
<1>10. rows[today] \in Nat
  BY <1>3
<1> HIDE DEF d, today
<1>11. admitted' + Cardinality(Straddling') <= rows'[today'] + straddled'
  <2>1. CASE d = today
    <3>1. Straddling' = Straddling
      BY <1>4, <1>5, <2>1
    <3>2. rows'[today] = rows[today] + 1
      BY <1>2, <1>3, <2>1
    <3> QED BY <1>1, <1>2, <1>3, <1>6, <1>9, <1>10, <3>1, <3>2
  <2>2. CASE d # today
    <3>1. Cardinality(Straddling') = Cardinality(Straddling) - 1
      BY <1>4, <1>5, <1>6, <2>2, FS_RemoveElement
    <3>2. rows'[today] = rows[today]
      BY <1>2, <1>3, <2>2
    <3> QED BY <1>1, <1>2, <1>3, <1>6, <1>9, <1>10, <3>1, <3>2
  <2> QED BY <2>1, <2>2
<1> QED BY <1>7, <1>8, <1>11 DEF DayInv, today

\* At midnight the count starts again, and every request on its way has a name of
\* a day before.
LEMMA TickDay ==
    ASSUME EdgeTypeOK, DayInv, Tick
    PROVE  DayInv'
<1>1. now \in Nat /\ now' = now + 1 /\ stage' = stage /\ named' = named
  BY DEF Tick, path, EdgeTypeOK
<1>2. CASE Day(now') = Day(now)
  <2>1. UNCHANGED counts /\ Day(now)' = Day(now)
    BY <1>2 DEF Tick, Day
  <2>2. Straddling' = Straddling
    BY <1>1, <2>1 DEF Straddling
  <2> QED BY <1>1, <2>1, <2>2 DEF DayInv, counts
<1>3. CASE Day(now') # Day(now)
  <2>1. /\ Day(now) < Day(now') /\ Day(now)' = Day(now') /\ Day(now) \in Nat
        /\ Day(now') \in Nat /\ Day(now') \in Days
    <3>1. Day(now) < Day(now')
      BY <1>1, <1>3, DayMonotone
    <3>2. EdgeTypeOK'
      BY SurroundingTypes DEF Surroundings
    <3>3. now' \in 0 .. MaxTime /\ now' \in Nat /\ DayLen \in Nat \ {0}
      BY <3>2, <1>1, ConstantTypes DEF EdgeTypeOK
    <3>4. Day(now') \in Nat /\ Day(now') \in Days
      BY <3>3, DivFact, DayType DEF Day
    <3>5. Day(now)' = Day(now')
      BY DEF Day
    <3> QED BY <3>1, <3>4, <3>5, DayIsNat
  <2>2. /\ rows' = [d \in Days |-> 0] /\ admitted' = 0
        /\ straddled' = Cardinality({c \in Slot : stage[c] = "admitting"})
    BY <1>3 DEF Tick
  <2>3. \A c \in Slot : stage[c] = "admitting" => named[c] < Day(now')
    BY <2>1 DEF DayInv, EdgeTypeOK, Days
  <2>4. Straddling' = {c \in Slot : stage[c] = "admitting"}
    BY <1>1, <2>1, <2>3 DEF Straddling
  <2>5. rows'[Day(now)'] = 0
    BY <2>1, <2>2
  <2>6. IsFiniteSet(Straddling')
    BY <2>4, ConstantTypes, FS_Subset
  <2>7. Cardinality(Straddling') \in Nat /\ straddled' = Cardinality(Straddling')
    BY <2>2, <2>4, <2>6, FS_CardinalityType
  <2>8. admitted' + Cardinality(Straddling') <= rows'[Day(now)'] + straddled'
    BY <2>2, <2>5, <2>7
  <2>9. \A d \in Days : rows'[d] <= PrefixCap
    BY <2>2, ConstantTypes
  <2>10. \A c \in Slot : stage'[c] = "admitting" => named'[c] <= Day(now)'
    <3>1. \A c \in Slot : named[c] \in Nat
      BY DEF EdgeTypeOK, Days
    <3> QED BY <1>1, <2>1, <2>3, <3>1
  <2> QED BY <2>8, <2>9, <2>10 DEF DayInv
<1> QED BY <1>2, <1>3

\* A request's step admits it, or admits no one.
LEMMA RequestDay ==
    ASSUME EdgeTypeOK, DayInv, NEW c \in Slot, RequestStep(c)
    PROVE  DayInv'
<1>1. CASE Admit(c) \/ AdmitTooLate(c)
  <2>1. /\ Count(c) /\ UNCHANGED <<now, straddled>> /\ stage'[c] # "admitting"
        /\ \A x \in Slot \ {c} : stage'[x] = stage[x] /\ named'[x] = named[x]
    BY <1>1 DEF Admit, AdmitTooLate, CallOrigin, Answer, env, place, EdgeTypeOK
  <2> QED BY <2>1, AdmissionDay
<1>2. CASE ~(Admit(c) \/ AdmitTooLate(c))
  <2>1. UNCHANGED <<now, counts>>
    BY <1>2 DEF RequestStep, AnswerFromCache, RefusePaused, Wake, AskHealth, SkipGovernor,
                NameClient, Deny, ApiTakes, ApiResult, ApiFails, ApiReads, ApiErrs,
                PlatformAnswers, HealthAnswers, ProbeCut, AttemptFails, env, place
  <2>2. \/ stage'[c] # "admitting"
        \/ named'[c] = Day(now)
    BY <1>2 DEF RequestStep, AnswerFromCache, RefusePaused, Wake, AskHealth, SkipGovernor,
                NameClient, Deny, ApiTakes, ApiResult, ApiFails, ApiReads, ApiErrs,
                PlatformAnswers, HealthAnswers, ProbeCut, AttemptFails, OriginAnswers,
                Answer, CallOrigin, EdgeTypeOK
  <2>3. \A x \in Slot \ {c} : stage'[x] = stage[x] /\ named'[x] = named[x]
    BY <1>2 DEF RequestStep, AnswerFromCache, RefusePaused, Wake, AskHealth, SkipGovernor,
                NameClient, Deny, ApiTakes, ApiResult, ApiFails, ApiReads, ApiErrs,
                PlatformAnswers, HealthAnswers, ProbeCut, AttemptFails, OriginAnswers,
                Answer, CallOrigin, EdgeTypeOK
  <2>4. \A x \in Slot : stage'[x] = "admitting" =>
            named'[x] = Day(now) \/ (stage[x] = "admitting" /\ named'[x] = named[x])
    BY <2>2, <2>3
  <2> QED BY <2>1, <2>4, NoAdmission
<1> QED BY <1>1, <1>2

LEMMA NextDayInv ==
    ASSUME EdgeTypeOK, DayInv, [Next]_vars
    PROVE  DayInv'
<1>1. CASE Around
  <2>1. CASE Tick
    BY <2>1, TickDay
  <2>2. CASE ~Tick
    BY <1>1, <2>2, NoAdmission
    DEF Around, Surroundings, ApiForgets, ApiDies, Reload, Taken, place, path, EdgeTypeOK
  <2> QED BY <2>1, <2>2
<1>2. ASSUME NEW c \in Slot, Serve(c)
      PROVE  DayInv'
  BY <1>2, RequestDay DEF Serve
<1>3. ASSUME NEW c \in Slot, CallStep(c)
      PROVE  DayInv'
  <2>1. UNCHANGED <<now, counts>>
    BY <1>3 DEF CallStep, NewCall, Visit, HandleReply, LookupTimesOut, Resend, GiveUp,
                DropReply, Arrive, Free, edgeVars, env, place
  <2>2. \A x \in Slot : stage'[x] = "admitting" => stage[x] = "admitting" /\ named'[x] = named[x]
    BY <1>3 DEF CallStep, NewCall, Visit, HandleReply, LookupTimesOut, Resend, GiveUp,
                DropReply, Arrive, Free, edgeVars, path, EdgeTypeOK
  <2> QED BY <2>1, <2>2, NoAdmission
<1>4. CASE UNCHANGED vars
  BY <1>4, NoAdmission DEF vars, edgeVars, env, place, path
<1> QED BY <1>1, <1>2, <1>3, <1>4, Steps

-----------------------------------------------------------------------------
(* Theorems. *)

LEMMA InitInv == Init => SiteInv
<1>1. Init => TrailInv /\ CallsInv
  BY ConstantTypes DEF Init, EdgeInit, TrailInv, CallsInv
<1> QED BY <1>1, InitTypes DEF SiteInv

LEMMA NextInv == SiteInv /\ [Next]_vars => SiteInv'
<1> SUFFICES ASSUME SiteInv, [Next]_vars PROVE SiteInv'
  OBVIOUS
<1>1. CASE Next
  <2>1. CallsInv'
    BY <1>1, Steps, AroundCalls, ServeCalls, CallStepCalls
  <2> QED BY <1>1, <2>1, NextTypes, NextTrail DEF SiteInv
<1>2. CASE UNCHANGED vars
  BY <1>2 DEF vars, edgeVars, env, place, isolate, counts, path, outcome, trail, call,
              SiteInv, SiteTypeOK, EdgeTypeOK, TrailInv, CallsInv, MayRetry
<1> QED BY <1>1, <1>2

\* Spec => []SiteInv: the inductive invariant holds.
THEOREM SiteInvariant == Spec => []SiteInv
BY InitInv, NextInv, PTL DEF Spec

\* Spec => []SiteTypeOK: the Worker's and the calls' state keep their types.
THEOREM SiteTypes == Spec => []SiteTypeOK
<1>1. SiteInv => SiteTypeOK
  BY DEF SiteInv
<1> QED BY <1>1, SiteInvariant, PTL

\* Spec => []RefundsEarned: what the API computed for an analysis is counted and charged,
\* unless the API shed it or the answer was lost (admission.ts, settleReportFor;
\* governor.ts, settle).
THEOREM RefundsEarnedHolds == Spec => []RefundsEarned
<1>1. ASSUME SiteInv, NEW c \in Slot, own[c], report[c] # None
      PROVE  /\ reply[c] \in {"result", "cut", "origin_timeout"} =>
                   ~CountsBack(report[c]) /\ DbTouched(report[c])
             /\ CountsBack(report[c]) =>
                   severed[c] \/ report[c].kind = "shed" \/ reply[c] = "broken_response"
             /\ ~DbTouched(report[c]) =>
                   \/ severed[c] \/ reply[c] = "broken_response"
                   \/ report[c].kind = "shed" /\ reply[c] = "final"
  <2>1. Earned(severed[c], reply[c], report[c])
    BY <1>1 DEF SiteInv, TrailInv, Earned
  <2>2. CASE report[c] \in {As("computed", "some"), As("computed", "unreported")}
    BY <2>2 DEF As, CountsBack, DbTouched
  <2>3. CASE /\ report[c] \notin {As("computed", "some"), As("computed", "unreported")}
             /\ ~severed[c] /\ reply[c] # "broken_response"
    <3>1. reply[c] \notin {"result", "cut", "origin_timeout"}
      BY <2>1, <2>3 DEF Earned
    <3>2. CASE report[c] \in {As("shed", "some"), As("rejected", "some")}
      BY <3>1, <3>2 DEF As, CountsBack, DbTouched
    <3>3. CASE reply[c] = "final" /\ report[c] = As("shed", "zero")
      BY <3>1, <3>3 DEF As, CountsBack, DbTouched
    <3> QED BY <2>1, <2>3, <3>2, <3>3 DEF Earned
  <2> QED BY <2>1, <2>2, <2>3 DEF Earned
<1>2. SiteInv => RefundsEarned
  BY <1>1 DEF RefundsEarned
<1> QED BY <1>2, SiteInvariant, PTL

\* Spec => []ComputedAtMostTwice: retries make the API begin at most two computations
\* of a call's (resilience.ts, mayRetry).
THEOREM ComputedAtMostTwiceHolds == Spec => []ComputedAtMostTwice
<1>1. ASSUME SiteInv, NEW c \in Slot, computed[c] # None
      PROVE  computed[c] <= 2
  <2>1. /\ computed[c] \in Nat /\ resent[c] \in 0 .. 1
        /\ computed[c] <= resent[c] + (IF phase[c] = "sent" /\ own[c] THEN 1 ELSE 0)
    BY <1>1 DEF SiteInv, SiteTypeOK, CallsInv
  <2> QED BY <2>1
<1>2. SiteInv => ComputedAtMostTwice
  BY <1>1 DEF ComputedAtMostTwice
<1> QED BY <1>2, SiteInvariant, PTL

\* Spec => []StoredIsCurrent: the stored result under a release's key is of that
\* release's data (cache.ts, storeHeadersAllow).
THEOREM StoredIsCurrentHolds == Spec => []StoredIsCurrent
<1>1. Init => StoredIsCurrent
  BY DEF Init, EdgeInit, StoredIsCurrent
<1>2. ASSUME StoredIsCurrent, [Next]_vars
      PROVE  StoredIsCurrent'
  <2>1. ASSUME NEW c \in Slot, RequestStep(c)
        PROVE  kv' \in {kv, release} /\ release' = release
    BY <2>1 DEF RequestStep, AnswerFromCache, RefusePaused, Wake, AskHealth, SkipGovernor,
                NameClient, Admit, Deny, AdmitTooLate, ApiTakes, ApiResult, Storable, ApiFails,
                ApiReads, ApiErrs, PlatformAnswers, HealthAnswers, ProbeCut, AttemptFails,
                env, place
  <2>2. ASSUME NEW c \in Slot, CallStep(c)
        PROVE  kv' = kv /\ release' = release
    BY <2>2 DEF CallStep, NewCall, Visit, HandleReply, LookupTimesOut, Resend, GiveUp,
                DropReply, Arrive, Free, edgeVars, env, place
  <2>3. CASE Around
    BY <1>2, <2>3 DEF Around, Surroundings, ApiForgets, ApiDies, Reload, Tick, place,
                      StoredIsCurrent
  <2>4. CASE UNCHANGED vars
    BY <1>2, <2>4 DEF vars, edgeVars, env, place, StoredIsCurrent
  <2> QED BY <1>2, <2>1, <2>2, <2>3, <2>4, Steps DEF Serve, StoredIsCurrent
<1> QED BY <1>1, <1>2, PTL DEF Spec

\* Spec => OneCallIntoOpen: while the breaker is open no request sends a call but the
\* retry of its first (upstream.ts, fetchOrigin).
THEOREM OneCallIntoOpenHolds == Spec => OneCallIntoOpen
<1>1. ASSUME SiteInv, [Next]_vars
      PROVE  [\A c \in Slot : tries'[c] > tries[c] /\ breaker'.openFor > 0 => tries[c] = 1]_edgeVars
  <2> SUFFICES ASSUME NEW x \in Slot, tries'[x] > tries[x], breaker'.openFor > 0
               PROVE  tries[x] = 1
    BY DEF edgeVars
  <2>0. /\ tries \in [Slot -> 0 .. 2] /\ breaker.openFor \in Nat
        /\ \A c \in Slot : tries[c] \in 0 .. 2
    BY <1>1 DEF SiteInv, SiteTypeOK, EdgeTypeOK
  <2>1. ASSUME NEW c \in Slot, RequestStep(c)
        PROVE  \/ tries' = [tries EXCEPT ![c] = 0] \/ tries' = tries
               \/ tries' = [tries EXCEPT ![c] = 1] /\ ~Open /\ breaker' = breaker
               \/ tries[c] = 1 /\ tries' = [tries EXCEPT ![c] = 2]
    BY <2>0, <2>1 DEF RequestStep, AnswerFromCache, RefusePaused, Wake, AskHealth, SkipGovernor,
                NameClient, Admit, Deny, AdmitTooLate, ApiTakes, ApiResult, ApiFails,
                ApiReads, ApiErrs, PlatformAnswers, HealthAnswers, ProbeCut, AttemptFails,
                OriginAnswers, Answer, CallOrigin, isolate, Count
  <2>2. ASSUME NEW c \in Slot, CallStep(c)
        PROVE  tries' = tries \/ tries' = [tries EXCEPT ![c] = 0]
    BY <2>2 DEF CallStep, NewCall, Visit, HandleReply, LookupTimesOut, Resend, GiveUp,
                DropReply, Arrive, Free, edgeVars, path
  <2>3. CASE Around
    BY <2>0, <2>3 DEF Around, Surroundings, ApiForgets, ApiDies, Reload, Tick, path
  <2>4. CASE UNCHANGED vars
    BY <2>0, <2>4 DEF vars, edgeVars, path
  <2>5. ASSUME NEW c \in Slot, Serve(c)
        PROVE  tries[x] = 1
    BY <2>0, <2>1, <2>5 DEF Serve, Open
  <2>6. ASSUME NEW c \in Slot, CallStep(c)
        PROVE  tries[x] = 1
    BY <2>0, <2>2, <2>6
  <2> QED BY <1>1, <2>0, <2>3, <2>4, <2>5, <2>6, Steps
<1> QED BY <1>1, SiteInvariant, PTL DEF Spec, OneCallIntoOpen

\* Spec => []NetworkDayCap: a network's admissions of a day stay within the cap but for
\* its requests on their way at midnight (index.ts, dispatch; governor.ts, admit).
THEOREM NetworkDayCapHolds == Spec => []NetworkDayCap
<1>1. Init => DayInv
  <2> SUFFICES ASSUME Init PROVE DayInv
    OBVIOUS
  <2>1. SiteTypeOK
    BY InitTypes
  <2>2. Straddling = {}
    BY DEF Straddling, Init, EdgeInit
  <2>3. admitted + Cardinality(Straddling) <= rows[Day(now)] + straddled
    BY <2>1, <2>2, DayIsNat, FS_EmptySet DEF Init, EdgeInit, SiteTypeOK
  <2> QED BY <2>3, ConstantTypes DEF DayInv, Init, EdgeInit
<1>2. SiteInv /\ DayInv /\ [Next]_vars => DayInv'
  BY NextDayInv DEF SiteInv, SiteTypeOK
<1>3. SiteInv /\ DayInv => NetworkDayCap
  <2> SUFFICES ASSUME SiteInv, DayInv PROVE NetworkDayCap
    OBVIOUS
  <2>1. EdgeTypeOK /\ Day(now) \in Days
    BY DayIsNat DEF SiteInv, SiteTypeOK
  <2>2. rows[Day(now)] \in Nat /\ admitted \in Nat /\ straddled \in Nat /\ PrefixCap \in Nat
    BY <2>1, ConstantTypes DEF EdgeTypeOK
  <2>3. rows[Day(now)] <= PrefixCap /\ Cardinality(Straddling) \in Nat
    BY <2>1, StraddlingFinite DEF DayInv
  <2> QED BY <2>2, <2>3 DEF DayInv, NetworkDayCap
<1> QED BY <1>1, <1>2, <1>3, SiteInvariant, PTL DEF Spec
=============================================================================

--------------------------- MODULE AnalysesProofs ---------------------------
(***************************************************************************)
(* Theorems about what the engine answers, for any survey that the schema  *)
(* and validation accept, any request, and any number of clients.          *)
(***************************************************************************)
EXTENDS Analyses, RunnerProofs, SumProofs

-----------------------------------------------------------------------------
(* The sums that the engine and the definition of its answers are made of. *)

\* Of some episodes, the minutes.
LEMMA MinutesSum ==
    ASSUME NEW S, IsFiniteSet(S)
    PROVE  MapThenSumSet(LAMBDA e : e.minutes, S) = SumOf([e \in S |-> e.minutes], S)
<1> DEFINE g == [e \in S |-> e.minutes]
           value(e) == e.minutes
           Is(F) == F = [s \in SUBSET S |->
                           IF s = {} THEN 0 ELSE value(Pick(s)) + F[s \ {Pick(s)}]]
<1>1. MapThenSumSet(LAMBDA e : e.minutes, S) = (CHOOSE F : Is(F))[S]
  BY DEF MapThenSumSet, MapThenFoldSet, Pick
<1>2. \A s \in SUBSET S : s # {} => g[Pick(s)] = value(Pick(s))
  BY PickIn
<1>3. \A F : Is(F) <=> IsSum(g, F, SUBSET S)
  <2> HIDE DEF g
  <2> QED BY <1>2 DEF IsSum, Term
<1>4. \E F : Is(F)
  <2> HIDE DEF g, Is
  <2> QED BY <1>3, SumExists
<1>5. IsSum(g, CHOOSE F : Is(F), SUBSET S)
  <2> HIDE DEF g, Is
  <2> QED BY <1>3, <1>4
<1> HIDE DEF g, Is
<1> QED BY <1>1, <1>5, SumChosen DEF g

\* Of some rows, a weight.
LEMMA RowWeightSum ==
    ASSUME NEW S, IsFiniteSet(S), NEW k
    PROVE  MapThenSumSet(LAMBDA r : r.weight[k], S) = SumOf([r \in S |-> r.weight[k]], S)
<1> DEFINE g == [r \in S |-> r.weight[k]]
           value(r) == r.weight[k]
           Is(F) == F = [s \in SUBSET S |->
                           IF s = {} THEN 0 ELSE value(Pick(s)) + F[s \ {Pick(s)}]]
<1>1. MapThenSumSet(LAMBDA r : r.weight[k], S) = (CHOOSE F : Is(F))[S]
  BY DEF MapThenSumSet, MapThenFoldSet, Pick
<1>2. \A s \in SUBSET S : s # {} => g[Pick(s)] = value(Pick(s))
  BY PickIn
<1>3. \A F : Is(F) <=> IsSum(g, F, SUBSET S)
  <2> HIDE DEF g
  <2> QED BY <1>2 DEF IsSum, Term
<1>4. \E F : Is(F)
  <2> HIDE DEF g, Is
  <2> QED BY <1>3, SumExists
<1>5. IsSum(g, CHOOSE F : Is(F), SUBSET S)
  <2> HIDE DEF g, Is
  <2> QED BY <1>3, <1>4
<1> HIDE DEF g, Is
<1> QED BY <1>1, <1>5, SumChosen DEF g

\* Of some rows, a weight and the minutes.
LEMMA RowTimeSum ==
    ASSUME NEW S, IsFiniteSet(S), NEW k
    PROVE  MapThenSumSet(LAMBDA r : r.weight[k] * r.x, S) =
             SumOf([r \in S |-> r.weight[k] * r.x], S)
<1> DEFINE g == [r \in S |-> r.weight[k] * r.x]
           value(r) == r.weight[k] * r.x
           Is(F) == F = [s \in SUBSET S |->
                           IF s = {} THEN 0 ELSE value(Pick(s)) + F[s \ {Pick(s)}]]
<1>1. MapThenSumSet(LAMBDA r : r.weight[k] * r.x, S) = (CHOOSE F : Is(F))[S]
  BY DEF MapThenSumSet, MapThenFoldSet, Pick
<1>2. \A s \in SUBSET S : s # {} => g[Pick(s)] = value(Pick(s))
  BY PickIn
<1>3. \A F : Is(F) <=> IsSum(g, F, SUBSET S)
  <2> HIDE DEF g
  <2> QED BY <1>2 DEF IsSum, Term
<1>4. \E F : Is(F)
  <2> HIDE DEF g, Is
  <2> QED BY <1>3, SumExists
<1>5. IsSum(g, CHOOSE F : Is(F), SUBSET S)
  <2> HIDE DEF g, Is
  <2> QED BY <1>3, <1>4
<1> HIDE DEF g, Is
<1> QED BY <1>1, <1>5, SumChosen DEF g

\* Of some years, the days.
LEMMA DaysSum ==
    ASSUME NEW S, IsFiniteSet(S), NEW w, NEW f
    PROVE  MapThenSumSet(LAMBDA y : DaysRepresented(w, y, f), S) =
             SumOf([y \in S |-> DaysRepresented(w, y, f)], S)
<1> DEFINE g == [y \in S |-> DaysRepresented(w, y, f)]
           value(y) == DaysRepresented(w, y, f)
           Is(F) == F = [s \in SUBSET S |->
                           IF s = {} THEN 0 ELSE value(Pick(s)) + F[s \ {Pick(s)}]]
<1>1. MapThenSumSet(LAMBDA y : DaysRepresented(w, y, f), S) = (CHOOSE F : Is(F))[S]
  BY DEF MapThenSumSet, MapThenFoldSet, Pick
<1>2. \A s \in SUBSET S : s # {} => g[Pick(s)] = value(Pick(s))
  BY PickIn
<1>3. \A F : Is(F) <=> IsSum(g, F, SUBSET S)
  <2> HIDE DEF g
  <2> QED BY <1>2 DEF IsSum, Term
<1>4. \E F : Is(F)
  <2> HIDE DEF g, Is
  <2> QED BY <1>3, SumExists
<1>5. IsSum(g, CHOOSE F : Is(F), SUBSET S)
  <2> HIDE DEF g, Is
  <2> QED BY <1>3, <1>4
<1> HIDE DEF g, Is
<1> QED BY <1>1, <1>5, SumChosen DEF g

\* Of some people, a weight.
LEMMA HeadcountSum ==
    ASSUME NEW S, IsFiniteSet(S),
           NEW survey, NEW request, NEW k
    PROVE  Headcount(survey, request, S, k) =
             SumOf([x \in S |-> Weight(survey, request.weights, x, k)], S)
<1> DEFINE g == [x \in S |-> Weight(survey, request.weights, x, k)]
           value(x) == Weight(survey, request.weights, x, k)
           Is(F) == F = [s \in SUBSET S |->
                           IF s = {} THEN 0 ELSE value(Pick(s)) + F[s \ {Pick(s)}]]
<1>1. Headcount(survey, request, S, k) = (CHOOSE F : Is(F))[S]
  BY DEF MapThenSumSet, MapThenFoldSet, Pick, Headcount
<1>2. \A s \in SUBSET S : s # {} => g[Pick(s)] = value(Pick(s))
  BY PickIn
<1>3. \A F : Is(F) <=> IsSum(g, F, SUBSET S)
  <2> HIDE DEF g
  <2> QED BY <1>2 DEF IsSum, Term
<1>4. \E F : Is(F)
  <2> HIDE DEF g, Is
  <2> QED BY <1>3, SumExists
<1>5. IsSum(g, CHOOSE F : Is(F), SUBSET S)
  <2> HIDE DEF g, Is
  <2> QED BY <1>3, <1>4
<1> HIDE DEF g, Is
<1> QED BY <1>1, <1>5, SumChosen DEF g

\* Of some people, a weight and the time.
LEMMA HoursSum ==
    ASSUME NEW S, IsFiniteSet(S),
           NEW survey, NEW request, NEW k
    PROVE  Hours(survey, request, S, k) = SumOf([x \in S |-> Weight(survey, request.weights, x, k)
                      * TimeSpent(survey, x, ToSelector(request.activity))], S)
<1> DEFINE g == [x \in S |-> Weight(survey, request.weights, x, k)
                      * TimeSpent(survey, x, ToSelector(request.activity))]
           value(x) == Weight(survey, request.weights, x, k)
                      * TimeSpent(survey, x, ToSelector(request.activity))
           Is(F) == F = [s \in SUBSET S |->
                           IF s = {} THEN 0 ELSE value(Pick(s)) + F[s \ {Pick(s)}]]
<1>1. Hours(survey, request, S, k) = (CHOOSE F : Is(F))[S]
  BY DEF MapThenSumSet, MapThenFoldSet, Pick, Hours
<1>2. \A s \in SUBSET S : s # {} => g[Pick(s)] = value(Pick(s))
  BY PickIn
<1>3. \A F : Is(F) <=> IsSum(g, F, SUBSET S)
  <2> HIDE DEF g
  <2> QED BY <1>2 DEF IsSum, Term
<1>4. \E F : Is(F)
  <2> HIDE DEF g, Is
  <2> QED BY <1>3, SumExists
<1>5. IsSum(g, CHOOSE F : Is(F), SUBSET S)
  <2> HIDE DEF g, Is
  <2> QED BY <1>3, <1>4
<1> HIDE DEF g, Is
<1> QED BY <1>1, <1>5, SumChosen DEF g
-----------------------------------------------------------------------------
(* Sequences: in order, selected, and joined. *)

\* A sequence in order is of the same values.
LEMMA InOrderKeeps ==
    ASSUME NEW s \in Seq(Nat)
    PROVE  /\ InOrder(s) \in Seq(Nat) /\ Len(InOrder(s)) = Len(s)
           /\ DOMAIN InOrder(s) = DOMAIN s /\ Range(InOrder(s)) = Range(s)
<1> DEFINE D == DOMAIN s
           Below(v) == {j \in D : s[j] < v}
           NotAbove(v) == {j \in D : s[j] <= v}
           Ith(i, v) == Cardinality(Below(v)) < i /\ Cardinality(NotAbove(v)) >= i
           t == InOrder(s)
<1>1. D = 1 .. Len(s) /\ Len(s) \in Nat /\ s \in [D -> Nat]
  OBVIOUS
<1>2. IsFiniteSet(D) /\ Cardinality(D) = Len(s)
  <2> DEFINE n == Len(s)
  <2>1. n \in Nat /\ D = 1 .. n
    BY <1>1
  <2> HIDE DEF D, n
  <2>2. IsFiniteSet(1 .. n) /\ Cardinality(1 .. n) = n
    BY <2>1, FS_Interval
  <2> QED BY <2>1, <2>2 DEF n
<1>3. t = [i \in D |-> CHOOSE v \in Range(s) : Ith(i, v)]
  BY DEF InOrder
<1>4. Range(s) = {s[j] : j \in D} /\ Range(s) \subseteq Nat
  BY <1>1 DEF Range
<1>5. \A i \in D : \E v \in Range(s) : Ith(i, v)
  <2> SUFFICES ASSUME NEW i \in D PROVE \E j \in D : Ith(i, s[j])
    BY <1>4
  <2>1. i \in 1 .. Cardinality(D)
    BY <1>1, <1>2
  <2>2. \E j \in D : /\ Cardinality(Smaller(D, s, s[j])) < i
                     /\ Cardinality(NoLarger(D, s, s[j])) >= i
    <3> HIDE DEF D
    <3> QED BY <1>1, <1>2, <2>1, OrderStatistic
  <2> QED BY <2>2 DEF Smaller, NoLarger
<1>6. \A i \in D : t[i] \in Range(s) /\ Ith(i, t[i])
  <2> HIDE DEF D, Ith, t
  <2> QED BY <1>3, <1>5
<1>7. t \in [1 .. Len(s) -> Nat] /\ DOMAIN t = D
  <2> HIDE DEF D, Ith, t
  <2> QED BY <1>1, <1>3, <1>4, <1>6
<1>8. t \in Seq(Nat) /\ Len(t) = Len(s)
  <2> HIDE DEF t
  <2> QED BY <1>1, <1>7
<1>9. Range(t) \subseteq Range(s)
  <2> HIDE DEF t, D, Ith
  <2> QED BY <1>6, <1>7 DEF Range
<1>10. \A v : /\ IsFiniteSet(Below(v)) /\ Cardinality(Below(v)) \in Nat
              /\ IsFiniteSet(NotAbove(v)) /\ Cardinality(NotAbove(v)) \in Nat
              /\ Cardinality(NotAbove(v)) <= Len(s)
  <2> SUFFICES ASSUME NEW v
               PROVE  /\ IsFiniteSet(Below(v)) /\ IsFiniteSet(NotAbove(v))
                      /\ Cardinality(NotAbove(v)) <= Len(s)
    BY FS_CardinalityType
  <2>1. Below(v) \subseteq D /\ NotAbove(v) \subseteq D
    OBVIOUS
  <2> HIDE DEF Below, NotAbove, D
  <2> QED BY <1>2, <2>1, FS_Subset
<1>11. ASSUME NEW v \in Nat, NEW w \in Nat, v < w
       PROVE  Cardinality(NotAbove(v)) <= Cardinality(Below(w))
  <2>1. NotAbove(v) \subseteq Below(w)
    BY <1>1, <1>11
  <2> HIDE DEF NotAbove, Below
  <2> QED BY <1>10, <2>1, FS_Subset
<1>12. ASSUME NEW j \in D PROVE s[j] \in Range(t)
  <2> DEFINE v == s[j]
             i == Cardinality(Below(v)) + 1
  <2>1. v \in Nat /\ j \in NotAbove(v) /\ j \notin Below(v)
    BY <1>1
  <2>2. Below(v) \cup {j} \subseteq NotAbove(v)
    BY <1>1, <2>1
  <2>3. Cardinality(Below(v) \cup {j}) = i
    <3> HIDE DEF Below
    <3> QED BY <1>10, <2>1, FS_AddElement
  <2>4. i <= Cardinality(NotAbove(v))
    <3>1. Cardinality(Below(v) \cup {j}) <= Cardinality(NotAbove(v))
      <4> HIDE DEF Below, NotAbove, v
      <4> QED BY <1>10, <2>2, FS_Subset
    <3> HIDE DEF i, v
    <3> QED BY <2>3, <3>1
  <2>5. i \in Nat /\ i \in D
    <3> HIDE DEF Below, NotAbove, v, D
    <3> QED BY <1>1, <1>10, <2>4
  <2>6. t[i] \in Nat /\ Ith(i, t[i])
    <3> HIDE DEF D, t, i, Ith
    <3> QED BY <1>4, <1>6, <2>5
  <2>7. t[i] = v
    <3>1. CASE t[i] < v
      <4>1. Cardinality(NotAbove(t[i])) <= Cardinality(Below(v))
        <5> HIDE DEF NotAbove, Below, v, t, i, D
        <5> QED BY <1>11, <2>1, <2>6, <3>1
      <4>2. Cardinality(NotAbove(t[i])) >= Cardinality(Below(v)) + 1
        BY <2>6
      <4> HIDE DEF NotAbove, Below, v, t, i, D
      <4> QED BY <1>10, <4>1, <4>2
    <3>2. CASE v < t[i]
      <4>1. Cardinality(NotAbove(v)) <= Cardinality(Below(t[i]))
        <5> HIDE DEF NotAbove, Below, v, t, i, D
        <5> QED BY <1>11, <2>1, <2>6, <3>2
      <4>2. Cardinality(Below(t[i])) < i
        BY <2>6
      <4> HIDE DEF NotAbove, Below, v, t, i, D
      <4> QED BY <1>10, <2>4, <2>5, <4>1, <4>2
    <3> HIDE DEF v, t, i
    <3> QED BY <2>1, <2>6, <3>1, <3>2
  <2> HIDE DEF t, i, D
  <2> QED BY <1>7, <2>5, <2>7 DEF Range
<1>13. Range(s) \subseteq Range(t)
  <2> HIDE DEF t, D
  <2> QED BY <1>4, <1>12
<1> QED BY <1>7, <1>8, <1>9, <1>13

\* What the sequence of a set is of.
LEMMA SetToSeqOf ==
    ASSUME NEW S, IsFiniteSet(S)
    PROVE  /\ SetToSeq(S) \in Seq(S) /\ Range(SetToSeq(S)) = S
           /\ SetToSeq(S) = <<>> <=> S = {}
<1> DEFINE n == Cardinality(S)
           f == SetToSeq(S)
<1>1. n \in Nat /\ \E g \in [1 .. n -> S] : IsInjective(g)
  <2>1. n \in Nat /\ ExistsBijection(1 .. n, S)
    BY FS_CardinalityType
  <2> HIDE DEF n
  <2> QED BY <2>1 DEF ExistsBijection, Bijection, Injection, IsInjective
<1>2. f \in [1 .. n -> S] /\ IsInjective(f)
  BY <1>1 DEF SetToSeq
<1>3. Range(f) = S
  <2>1. IsFiniteSet(1 .. n) /\ Cardinality(1 .. n) = n
    <3> HIDE DEF n
    <3> QED BY <1>1, FS_Interval
  <2>2. f \in Injection(1 .. n, S)
    <3> HIDE DEF n, f
    <3> QED BY <1>2 DEF Injection, IsInjective
  <2>3. f \in Surjection(1 .. n, S)
    <3> HIDE DEF f
    <3> QED BY <2>1, <2>2, FS_Injection
  <2> HIDE DEF f, n
  <2> QED BY <1>2, <2>3 DEF Surjection, Range
<1>4. f \in Seq(S)
  <2> HIDE DEF f, n
  <2> QED BY <1>1, <1>2
<1>5. f = <<>> <=> S = {}
  <2> HIDE DEF f
  <2> QED BY <1>3, <1>4 DEF Range
<1> QED BY <1>3, <1>4, <1>5

LEMMA ConcatRange ==
    ASSUME NEW s \in Seq(Nat), NEW t \in Seq(Nat)
    PROVE  Range(s \o t) = Range(s) \cup Range(t)
<1>1. ASSUME NEW i \in DOMAIN s PROVE s[i] \in Range(s \o t)
  BY <1>1 DEF Range
<1>2. ASSUME NEW i \in DOMAIN t PROVE t[i] \in Range(s \o t)
  <2>1. i \in 1 .. Len(t) /\ Len(s) \in Nat /\ Len(t) \in Nat
    BY <1>2
  <2>2. Len(s) + i \in 1 .. Len(s) + Len(t)
    BY <2>1
  <2>3. Len(s) + i \in DOMAIN (s \o t) /\ (s \o t)[Len(s) + i] = t[i]
    BY <2>1, <2>2
  <2> QED BY <2>3 DEF Range
<1>3. ASSUME NEW i \in DOMAIN (s \o t) PROVE (s \o t)[i] \in Range(s) \cup Range(t)
  <2>1. CASE i <= Len(s)
    BY <1>3, <2>1 DEF Range
  <2>2. CASE i > Len(s)
    <3>1. i - Len(s) \in DOMAIN t /\ (s \o t)[i] = t[i - Len(s)]
      BY <1>3, <2>2
    <3> QED BY <3>1 DEF Range
  <2> QED BY <1>3, <2>1, <2>2
<1> QED BY <1>1, <1>2, <1>3 DEF Range
-----------------------------------------------------------------------------
(* Who is asked about: the engine's joins and conditions, and a respondent's traits. *)

LEMMA Nulls ==
    /\ Null \notin Nat /\ Null \notin Int /\ Null # TRUE /\ Null # FALSE
    /\ Null \notin {"weekday", "weekend", "invalid", "unsupported", "unknown", "insufficient",
                   "no respondents"}
<1>1. Null \notin Int
  BY AnalyticsConstants, Zenon
<1>2. Null \notin BOOLEAN
  BY AnalyticsConstants, Zenon
<1>3. Null \notin DayType \cup Reason
  BY AnalyticsConstants, Zenon
<1>4. Null \notin Nat
  BY <1>1
<1>5. Null # TRUE /\ Null # FALSE
  BY <1>2
<1>6. Null \notin {"weekday", "weekend", "invalid", "unsupported", "unknown", "insufficient",
                  "no respondents"}
  BY <1>3 DEF DayType, Reason
<1> QED BY <1>1, <1>4, <1>5, <1>6, Zenon

\* Belonging, part by part.
LEMMA BelongsParts ==
    ASSUME NEW t, NEW f
    PROVE  Belongs(t, f) <=>
             /\ f.sex \in {Null, t.sex} /\ f.region \in {Null, t.region}
             /\ f.children \in {Null, t.children} /\ f.day_type \in {Null, t.day_type}
             /\ AtLeast(t.age, f.age_min) /\ AtMost(t.age, f.age_max)
             /\ AtLeast(t.date, f.date_min) /\ AtMost(t.date, f.date_max)
<1>1. (\A d \in {"sex", "region", "children", "day_type"} : f[d] \in {Null, t[d]}) <=>
         /\ f.sex \in {Null, t.sex} /\ f.region \in {Null, t.region}
         /\ f.children \in {Null, t.children} /\ f.day_type \in {Null, t.day_type}
  OBVIOUS
<1>2. (\A d \in {"age_min", "age_max", "date_min", "date_max"} : f[d] # Null =>
         LET trait == IF d \in {"age_min", "age_max"} THEN t.age ELSE t.date
         IN  trait # Null /\ (IF d \in Lower THEN trait >= f[d] ELSE trait <= f[d])) <=>
         /\ AtLeast(t.age, f.age_min) /\ AtMost(t.age, f.age_max)
         /\ AtLeast(t.date, f.date_min) /\ AtMost(t.date, f.date_max)
  BY DEF Lower, AtLeast, AtMost
<1> QED BY <1>1, <1>2 DEF Belongs

\* The rows of line 1 give the traits.
LEMMA TraitsOf ==
    ASSUME NEW survey, WellKeyed(survey), NEW x \in DOMAIN survey.respondents
    PROVE  LET t == Traits(survey, x)
               r == survey.respondents[x]
           IN  /\ \A m \in survey.roster : m.who = x /\ m.line = 1 =>
                    t.age = m.age /\ t.sex = m.sex
               /\ (\A m \in survey.roster : ~(m.who = x /\ m.line = 1)) =>
                    t.age = Null /\ t.sex = Null
               /\ \A c \in survey.cps : c.who = x /\ c.line = 1 => t.region = c.region
               /\ (\A c \in survey.cps : ~(c.who = x /\ c.line = 1)) => t.region = Null
               /\ t.children = IF r.children = Null THEN Null ELSE r.children > 0
               /\ t.day_type = IF Weekend(r.date) THEN "weekend" ELSE "weekday"
               /\ t.date = r.date
<1> DEFINE t == Traits(survey, x)
           own(table) == {row \in table : row.who = x /\ row.line = 1}
<1>1. /\ t.age = IF own(survey.roster) = {} THEN Null
                 ELSE (CHOOSE row \in own(survey.roster) : TRUE).age
      /\ t.sex = IF own(survey.roster) = {} THEN Null
                 ELSE (CHOOSE row \in own(survey.roster) : TRUE).sex
      /\ t.region = IF own(survey.cps) = {} THEN Null
                    ELSE (CHOOSE row \in own(survey.cps) : TRUE).region
  BY DEF Traits
<1>2. ASSUME NEW table \in {survey.roster, survey.cps}, NEW m \in own(table)
      PROVE  own(table) # {} /\ (CHOOSE row \in own(table) : TRUE) = m
  <2>1. (CHOOSE row \in own(table) : TRUE) \in own(table)
    <3> HIDE DEF own
    <3> QED OBVIOUS
  <2> QED BY <2>1 DEF WellKeyed
<1>3. \A m \in survey.roster : m.who = x /\ m.line = 1 => t.age = m.age /\ t.sex = m.sex
  <2> SUFFICES ASSUME NEW m \in own(survey.roster) PROVE t.age = m.age /\ t.sex = m.sex
    OBVIOUS
  <2>1. own(survey.roster) # {} /\ (CHOOSE row \in own(survey.roster) : TRUE) = m
    BY <1>2
  <2> HIDE DEF own, t
  <2> QED BY <1>1, <2>1
<1>4. \A c \in survey.cps : c.who = x /\ c.line = 1 => t.region = c.region
  <2> SUFFICES ASSUME NEW c \in own(survey.cps) PROVE t.region = c.region
    OBVIOUS
  <2>1. own(survey.cps) # {} /\ (CHOOSE row \in own(survey.cps) : TRUE) = c
    BY <1>2
  <2> HIDE DEF own, t
  <2> QED BY <1>1, <2>1
<1>5. (\A m \in survey.roster : ~(m.who = x /\ m.line = 1)) => t.age = Null /\ t.sex = Null
  <2> HIDE DEF t
  <2> QED BY <1>1
<1>6. (\A c \in survey.cps : ~(c.who = x /\ c.line = 1)) => t.region = Null
  <2> HIDE DEF t
  <2> QED BY <1>1
<1>7. LET r == survey.respondents[x]
      IN  /\ t.children = IF r.children = Null THEN Null ELSE r.children > 0
          /\ t.day_type = IF Weekend(r.date) THEN "weekend" ELSE "weekday"
          /\ t.date = r.date
  BY DEF Traits
<1> HIDE DEF t
<1> QED BY <1>3, <1>4, <1>5, <1>6, <1>7 DEF t

\* Who the statement selects are those who belong.
LEMMA QualifiesIsBelongs ==
    ASSUME NEW survey, WellKeyed(survey), NEW x \in DOMAIN survey.respondents,
           NEW f \in Filter
    PROVE  Qualifies(survey, x, f) <=> Belongs(Traits(survey, x), f)
<1> DEFINE t == Traits(survey, x)
           r == survey.respondents[x]
           self(m) == m.who = x /\ m.line = 1
<1>1. /\ f.age_min \in Nat \cup {Null} /\ f.age_max \in Nat \cup {Null}
      /\ f.sex \in Nat \cup {Null} /\ f.region \in Nat \cup {Null}
      /\ f.children \in {TRUE, FALSE, Null} /\ f.day_type \in {"weekday", "weekend", Null}
  BY DEF Filter, Maybe, DayType
<1>2. /\ \A m \in survey.roster : self(m) => t.age = m.age /\ t.sex = m.sex
      /\ (\A m \in survey.roster : ~self(m)) => t.age = Null /\ t.sex = Null
      /\ \A c \in survey.cps : self(c) => t.region = c.region
      /\ (\A c \in survey.cps : ~self(c)) => t.region = Null
      /\ t.children = IF r.children = Null THEN Null ELSE r.children > 0
      /\ t.day_type = IF Weekend(r.date) THEN "weekend" ELSE "weekday"
      /\ t.date = r.date
  BY TraitsOf
<1> DEFINE byAge == AtLeast(t.age, f.age_min) /\ AtMost(t.age, f.age_max)
<1> HIDE DEF t
<1>3. ({f.age_min, f.age_max, f.sex} # {Null} =>
         \E m \in survey.roster :
           /\ m.who = x /\ m.line = 1
           /\ AtLeast(m.age, f.age_min) /\ AtMost(m.age, f.age_max)
           /\ (f.sex # Null => m.sex = f.sex))
      <=> byAge /\ f.sex \in {Null, t.sex}
  <2>1. CASE \E m \in survey.roster : self(m)
    <3>1. PICK m \in survey.roster : self(m)
      BY <2>1
    <3>2. t.age = m.age /\ t.sex = m.sex
      BY <1>2, <3>1
    <3>3. \A n \in survey.roster : self(n) => n.age = t.age /\ n.sex = t.sex
      BY <1>2
    <3> QED BY <3>1, <3>2, <3>3 DEF AtLeast, AtMost
  <2>2. CASE ~\E m \in survey.roster : self(m)
    <3>1. t.age = Null /\ t.sex = Null
      BY <1>2, <2>2
    <3>2. f.sex \in {Null, t.sex} <=> f.sex = Null
      BY <3>1
    <3>3. byAge <=> f.age_min = Null /\ f.age_max = Null
      BY <3>1 DEF AtLeast, AtMost
    <3> HIDE DEF byAge
    <3> QED BY <2>2, <3>2, <3>3
  <2> QED BY <2>1, <2>2
<1>4. (f.region # Null =>
         \E c \in survey.cps : c.who = x /\ c.line = 1 /\ c.region = f.region)
      <=> f.region \in {Null, t.region}
  <2>1. CASE \E c \in survey.cps : self(c)
    <3>1. PICK c \in survey.cps : self(c)
      BY <2>1
    <3> QED BY <1>2, <3>1
  <2>2. CASE ~\E c \in survey.cps : self(c)
    BY <1>2, <2>2
  <2> QED BY <2>1, <2>2
<1>5. HasChildren(r, f.children) <=> f.children \in {Null, t.children}
  <2>1. CASE r.children = Null
    BY <1>1, <1>2, <2>1, Nulls DEF HasChildren
  <2>2. CASE r.children # Null
    <3>1. t.children = (r.children > 0)
      BY <1>2, <2>2
    <3>2. CASE f.children = Null
      BY <3>2 DEF HasChildren
    <3>3. CASE f.children # Null
      BY <2>2, <3>1, <3>3 DEF HasChildren
    <3> QED BY <3>2, <3>3
  <2> QED BY <2>1, <2>2
<1>6. (f.day_type # Null => Weekend(r.date) = (f.day_type = "weekend"))
      <=> f.day_type \in {Null, t.day_type}
  <2>1. CASE f.day_type = Null
    BY <2>1
  <2>2. CASE f.day_type \in {"weekday", "weekend"}
    <3>1. Weekend(r.date) \in BOOLEAN
      BY DEF Weekend
    <3>2. f.day_type # Null
      BY <2>2, Nulls
    <3>3. CASE Weekend(r.date)
      BY <1>2, <2>2, <3>2, <3>3
    <3>4. CASE ~Weekend(r.date)
      BY <1>2, <2>2, <3>1, <3>2, <3>4
    <3> QED BY <3>3, <3>4
  <2> QED BY <1>1, <2>1, <2>2
<1>7. Qualifies(survey, x, f) <=>
        /\ byAge /\ f.sex \in {Null, t.sex} /\ f.region \in {Null, t.region}
        /\ f.children \in {Null, t.children} /\ f.day_type \in {Null, t.day_type}
        /\ AtLeast(t.date, f.date_min) /\ AtMost(t.date, f.date_max)
  <2> HIDE DEF byAge
  <2> QED BY <1>2, <1>3, <1>4, <1>5, <1>6 DEF Qualifies
<1> QED BY <1>7, BelongsParts DEF t
-----------------------------------------------------------------------------
(* A comparison's group: the shared filters and the group's, merged. *)

LEMMA MaxOfTwo ==
    ASSUME NEW a \in Nat, NEW b \in Nat
    PROVE  Max({a, b}) = IF a >= b THEN a ELSE b
<1> DEFINE m == IF a >= b THEN a ELSE b
<1>1. m \in {a, b} /\ \A y \in {a, b} : m >= y
  OBVIOUS
<1>2. \A n \in {a, b} : (\A y \in {a, b} : n >= y) => n = m
  OBVIOUS
<1> HIDE DEF m
<1> QED BY <1>1, <1>2 DEF Max

LEMMA MinOfTwo ==
    ASSUME NEW a \in Nat, NEW b \in Nat
    PROVE  Min({a, b}) = IF a <= b THEN a ELSE b
<1> DEFINE m == IF a <= b THEN a ELSE b
<1>1. m \in {a, b} /\ \A y \in {a, b} : m <= y
  OBVIOUS
<1>2. \A n \in {a, b} : (\A y \in {a, b} : n <= y) => n = m
  OBVIOUS
<1> HIDE DEF m
<1> QED BY <1>1, <1>2 DEF Min

\* The merged filter, dimension by dimension.
Stricter(a, b, strictest) == IF a = Null THEN b ELSE IF b = Null THEN a ELSE strictest

LEMMA MergedParts ==
    ASSUME NEW f \in Filter, NEW g \in Filter
    PROVE  LET h == Merge(f, g)
           IN  /\ h \in Filter
               /\ \A d \in {"sex", "region", "children", "day_type"} :
                    h[d] = Stricter(f[d], g[d], f[d])
               /\ \A d \in {"age_min", "date_min"} :
                    h[d] = Stricter(f[d], g[d], IF f[d] >= g[d] THEN f[d] ELSE g[d])
               /\ \A d \in {"age_max", "date_max"} :
                    h[d] = Stricter(f[d], g[d], IF f[d] <= g[d] THEN f[d] ELSE g[d])
<1> DEFINE h == Merge(f, g)
<1>1. /\ DOMAIN f = {"age_min", "age_max", "sex", "region", "children", "day_type", "date_min",
                     "date_max"}
      /\ \A d \in {"age_min", "age_max", "date_min", "date_max"} :
           f[d] \in Nat \cup {Null} /\ g[d] \in Nat \cup {Null}
  BY DEF Filter, Maybe
<1>2. \A d \in {"sex", "region", "children", "day_type"} : h[d] = Stricter(f[d], g[d], f[d])
  BY <1>1 DEF Merge, Stricter, Lower, Upper
<1>3. \A d \in {"age_min", "date_min"} :
        h[d] = Stricter(f[d], g[d], IF f[d] >= g[d] THEN f[d] ELSE g[d])
  <2> SUFFICES ASSUME NEW d \in {"age_min", "date_min"}
               PROVE  h[d] = Stricter(f[d], g[d], IF f[d] >= g[d] THEN f[d] ELSE g[d])
    OBVIOUS
  <2> DEFINE low == Max({f[d], g[d]})
             high == Min({f[d], g[d]})
  <2>1. h[d] = Stricter(f[d], g[d], Max({f[d], g[d]}))
    <3>1. h[d] = IF Null \in {f[d], g[d]} THEN IF f[d] = Null THEN g[d] ELSE f[d]
                 ELSE CASE d \in Lower -> low [] d \in Upper -> high [] OTHER -> f[d]
      BY <1>1 DEF Merge
    <3> HIDE DEF h, low, high
    <3>2. h[d] = Stricter(f[d], g[d], low)
      BY <3>1 DEF Stricter, Lower, Upper
    <3> QED BY <3>2 DEF low
  <2>2. f[d] # Null /\ g[d] # Null =>
          Max({f[d], g[d]}) = IF f[d] >= g[d] THEN f[d] ELSE g[d]
    BY <1>1, MaxOfTwo
  <2> QED BY <2>1, <2>2 DEF Stricter
<1>4. \A d \in {"age_max", "date_max"} :
        h[d] = Stricter(f[d], g[d], IF f[d] <= g[d] THEN f[d] ELSE g[d])
  <2> SUFFICES ASSUME NEW d \in {"age_max", "date_max"}
               PROVE  h[d] = Stricter(f[d], g[d], IF f[d] <= g[d] THEN f[d] ELSE g[d])
    OBVIOUS
  <2> DEFINE low == Max({f[d], g[d]})
             high == Min({f[d], g[d]})
  <2>1. h[d] = Stricter(f[d], g[d], Min({f[d], g[d]}))
    <3>1. h[d] = IF Null \in {f[d], g[d]} THEN IF f[d] = Null THEN g[d] ELSE f[d]
                 ELSE CASE d \in Lower -> low [] d \in Upper -> high [] OTHER -> f[d]
      BY <1>1 DEF Merge
    <3> HIDE DEF h, low, high
    <3>2. h[d] = Stricter(f[d], g[d], high)
      BY <3>1 DEF Stricter, Lower, Upper
    <3> QED BY <3>2 DEF high
  <2>2. f[d] # Null /\ g[d] # Null =>
          Min({f[d], g[d]}) = IF f[d] <= g[d] THEN f[d] ELSE g[d]
    BY <1>1, MinOfTwo
  <2> QED BY <2>1, <2>2 DEF Stricter
<1>5. h \in Filter
  <2>1. h = [age_min |-> h.age_min, age_max |-> h.age_max, sex |-> h.sex,
             region |-> h.region, children |-> h.children, day_type |-> h.day_type,
             date_min |-> h.date_min, date_max |-> h.date_max]
    BY <1>1 DEF Merge
  <2>2. /\ h.age_min \in Nat \cup {Null} /\ h.age_max \in Nat \cup {Null}
        /\ h.date_min \in Nat \cup {Null} /\ h.date_max \in Nat \cup {Null}
    <3> HIDE DEF h
    <3> QED BY <1>1, <1>3, <1>4 DEF Stricter
  <2>3. /\ f.sex \in Maybe(Nat) /\ f.region \in Maybe(Nat) /\ f.children \in Maybe(BOOLEAN)
        /\ f.day_type \in Maybe(DayType)
        /\ g.sex \in Maybe(Nat) /\ g.region \in Maybe(Nat) /\ g.children \in Maybe(BOOLEAN)
        /\ g.day_type \in Maybe(DayType)
    BY DEF Filter
  <2>4. /\ h.sex \in Maybe(Nat) /\ h.region \in Maybe(Nat) /\ h.children \in Maybe(BOOLEAN)
        /\ h.day_type \in Maybe(DayType)
    <3> HIDE DEF h
    <3> QED BY <1>2, <2>3 DEF Stricter
  <2> HIDE DEF h
  <2> QED BY <2>1, <2>2, <2>4 DEF Filter, Maybe
<1> HIDE DEF h
<1> QED BY <1>2, <1>3, <1>4, <1>5 DEF h

\* A day that a filter asks about.
OnDay(date, f) ==
    /\ AtLeast(date, f.date_min) /\ AtMost(date, f.date_max)
    /\ f.day_type \in {Null, IF Weekend(date) THEN "weekend" ELSE "weekday"}

\* A filter that asks for what all of some do.
Means(survey, f, filters) ==
    /\ \A x \in DOMAIN survey.respondents :
         Belongs(Traits(survey, x), f) <=> \A g \in filters : Belongs(Traits(survey, x), g)
    /\ \A date \in Nat : OnDay(date, f) <=> \A g \in filters : OnDay(date, g)

LEMMA MeansItself == ASSUME NEW survey, NEW f PROVE Means(survey, f, {f})
BY DEF Means
LEMMA BothLowerBounds ==
    ASSUME NEW v \in Nat \cup {Null}, NEW a \in Nat \cup {Null}, NEW b \in Nat \cup {Null}
    PROVE  AtLeast(v, Stricter(a, b, IF a >= b THEN a ELSE b))
             <=> AtLeast(v, a) /\ AtLeast(v, b)
<1>1. CASE a = Null \/ b = Null
  BY <1>1 DEF AtLeast, Stricter
<1>2. CASE a # Null /\ b # Null
  <2>1. CASE v = Null
    BY <1>2, <2>1 DEF AtLeast, Stricter
  <2>2. CASE v # Null
    BY <1>2, <2>2 DEF AtLeast, Stricter
  <2> QED BY <2>1, <2>2
<1> QED BY <1>1, <1>2

LEMMA BothUpperBounds ==
    ASSUME NEW v \in Nat \cup {Null}, NEW a \in Nat \cup {Null}, NEW b \in Nat \cup {Null}
    PROVE  AtMost(v, Stricter(a, b, IF a <= b THEN a ELSE b))
             <=> AtMost(v, a) /\ AtMost(v, b)
<1>1. CASE a = Null \/ b = Null
  BY <1>1 DEF AtMost, Stricter
<1>2. CASE a # Null /\ b # Null
  <2>1. CASE v = Null
    BY <1>2, <2>1 DEF AtMost, Stricter
  <2>2. CASE v # Null
    BY <1>2, <2>2 DEF AtMost, Stricter
  <2> QED BY <2>1, <2>2
<1> QED BY <1>1, <1>2

LEMMA BothAnswers ==
    ASSUME NEW v, NEW a, NEW b, ~(a # Null /\ b # Null /\ a # b)
    PROVE  Stricter(a, b, a) \in {Null, v} <=> a \in {Null, v} /\ b \in {Null, v}
BY DEF Stricter

LEMMA TraitTypes ==
    ASSUME NEW survey, WellKeyed(survey), NEW x \in DOMAIN survey.respondents
    PROVE  /\ Traits(survey, x).age \in Nat \cup {Null}
           /\ Traits(survey, x).date \in Nat
<1> DEFINE t == Traits(survey, x)
<1>1. /\ \A m \in survey.roster : m.who = x /\ m.line = 1 => t.age = m.age
      /\ (\A m \in survey.roster : ~(m.who = x /\ m.line = 1)) => t.age = Null
      /\ t.date = survey.respondents[x].date
  BY TraitsOf
<1>2. /\ \A m \in survey.roster : m.age \in Nat \cup {Null}
      /\ survey.respondents[x].date \in Nat
  BY DEF WellKeyed, Maybe
<1> HIDE DEF t
<1> QED BY <1>1, <1>2 DEF t

LEMMA FilterDomain ==
    ASSUME NEW f \in Filter
    PROVE  /\ DOMAIN f = {"age_min", "age_max", "sex", "region", "children", "day_type",
                         "date_min", "date_max"}
           /\ f.age_min \in Nat \cup {Null} /\ f.age_max \in Nat \cup {Null}
           /\ f.date_min \in Nat \cup {Null} /\ f.date_max \in Nat \cup {Null}
BY DEF Filter, Maybe

LEMMA NotConflicting ==
    ASSUME NEW f \in Filter, NEW g
    PROVE  Conflicting(f, g) <=>
             \E d \in {"sex", "region", "children", "day_type"} :
               f[d] # Null /\ g[d] # Null /\ f[d] # g[d]
<1>1. DOMAIN f \ (Lower \cup Upper) = {"sex", "region", "children", "day_type"}
  BY FilterDomain DEF Lower, Upper
<1> QED BY <1>1 DEF Conflicting

\* If nothing contradicts, the merged filter asks for what both do.
LEMMA MergeMeans ==
    ASSUME NEW survey, WellKeyed(survey), NEW f \in Filter, NEW g \in Filter,
           ~Conflicting(f, g)
    PROVE  Means(survey, Merge(f, g), {f, g})
<1> DEFINE h == Merge(f, g)
<1>1. /\ \A d \in {"sex", "region", "children", "day_type"} : h[d] = Stricter(f[d], g[d], f[d])
      /\ \A d \in {"age_min", "date_min"} :
           h[d] = Stricter(f[d], g[d], IF f[d] >= g[d] THEN f[d] ELSE g[d])
      /\ \A d \in {"age_max", "date_max"} :
           h[d] = Stricter(f[d], g[d], IF f[d] <= g[d] THEN f[d] ELSE g[d])
  BY MergedParts
<1>2. \A d \in {"sex", "region", "children", "day_type"} :
        ~(f[d] # Null /\ g[d] # Null /\ f[d] # g[d])
  BY NotConflicting
<1> HIDE DEF h
<1>3. \A v : \A d \in {"sex", "region", "children", "day_type"} :
        h[d] \in {Null, v} <=> f[d] \in {Null, v} /\ g[d] \in {Null, v}
  <2> SUFFICES ASSUME NEW v, NEW d \in {"sex", "region", "children", "day_type"}
               PROVE  h[d] \in {Null, v} <=> f[d] \in {Null, v} /\ g[d] \in {Null, v}
    OBVIOUS
  <2> DEFINE a == f[d]
             b == g[d]
  <2>1. ~(a # Null /\ b # Null /\ a # b) /\ h[d] = Stricter(a, b, a)
    BY <1>1, <1>2
  <2> HIDE DEF a, b
  <2>2. h[d] \in {Null, v} <=> a \in {Null, v} /\ b \in {Null, v}
    BY <2>1, BothAnswers
  <2> QED BY <2>2 DEF a, b
<1>4. \A v \in Nat \cup {Null} :
        /\ AtLeast(v, h.age_min) <=> AtLeast(v, f.age_min) /\ AtLeast(v, g.age_min)
        /\ AtLeast(v, h.date_min) <=> AtLeast(v, f.date_min) /\ AtLeast(v, g.date_min)
        /\ AtMost(v, h.age_max) <=> AtMost(v, f.age_max) /\ AtMost(v, g.age_max)
        /\ AtMost(v, h.date_max) <=> AtMost(v, f.date_max) /\ AtMost(v, g.date_max)
  <2> SUFFICES ASSUME NEW v \in Nat \cup {Null}
               PROVE  /\ \A d \in {"age_min", "date_min"} :
                           AtLeast(v, h[d]) <=> AtLeast(v, f[d]) /\ AtLeast(v, g[d])
                      /\ \A d \in {"age_max", "date_max"} :
                           AtMost(v, h[d]) <=> AtMost(v, f[d]) /\ AtMost(v, g[d])
    OBVIOUS
  <2>1. \A d \in {"age_min", "age_max", "date_min", "date_max"} :
          f[d] \in Nat \cup {Null} /\ g[d] \in Nat \cup {Null}
    BY FilterDomain
  <2>2. ASSUME NEW d \in {"age_min", "date_min"}
        PROVE  AtLeast(v, h[d]) <=> AtLeast(v, f[d]) /\ AtLeast(v, g[d])
    <3> DEFINE a == f[d]
               b == g[d]
    <3>1. /\ a \in Nat \cup {Null} /\ b \in Nat \cup {Null}
          /\ h[d] = Stricter(a, b, IF a >= b THEN a ELSE b)
      BY <1>1, <2>1
    <3> HIDE DEF a, b
    <3>2. AtLeast(v, h[d]) <=> AtLeast(v, a) /\ AtLeast(v, b)
      BY <3>1, BothLowerBounds
    <3> QED BY <3>2 DEF a, b
  <2>3. ASSUME NEW d \in {"age_max", "date_max"}
        PROVE  AtMost(v, h[d]) <=> AtMost(v, f[d]) /\ AtMost(v, g[d])
    <3> DEFINE a == f[d]
               b == g[d]
    <3>1. /\ a \in Nat \cup {Null} /\ b \in Nat \cup {Null}
          /\ h[d] = Stricter(a, b, IF a <= b THEN a ELSE b)
      BY <1>1, <2>1
    <3> HIDE DEF a, b
    <3>2. AtMost(v, h[d]) <=> AtMost(v, a) /\ AtMost(v, b)
      BY <3>1, BothUpperBounds
    <3> QED BY <3>2 DEF a, b
  <2> QED BY <2>2, <2>3
<1>5. ASSUME NEW x \in DOMAIN survey.respondents
      PROVE  LET t == Traits(survey, x)
             IN  Belongs(t, h) <=> Belongs(t, f) /\ Belongs(t, g)
  <2> DEFINE t == Traits(survey, x)
  <2>1. t.age \in Nat \cup {Null} /\ t.date \in Nat \cup {Null}
    BY TraitTypes
  <2> HIDE DEF t
  <2>2. /\ AtLeast(t.age, h.age_min) <=> AtLeast(t.age, f.age_min) /\ AtLeast(t.age, g.age_min)
        /\ AtMost(t.age, h.age_max) <=> AtMost(t.age, f.age_max) /\ AtMost(t.age, g.age_max)
        /\ AtLeast(t.date, h.date_min)
             <=> AtLeast(t.date, f.date_min) /\ AtLeast(t.date, g.date_min)
        /\ AtMost(t.date, h.date_max)
             <=> AtMost(t.date, f.date_max) /\ AtMost(t.date, g.date_max)
    BY <1>4, <2>1
  <2>3. /\ h.sex \in {Null, t.sex} <=> f.sex \in {Null, t.sex} /\ g.sex \in {Null, t.sex}
        /\ h.region \in {Null, t.region}
             <=> f.region \in {Null, t.region} /\ g.region \in {Null, t.region}
        /\ h.children \in {Null, t.children}
             <=> f.children \in {Null, t.children} /\ g.children \in {Null, t.children}
        /\ h.day_type \in {Null, t.day_type}
             <=> f.day_type \in {Null, t.day_type} /\ g.day_type \in {Null, t.day_type}
    BY <1>3
  <2>4. Belongs(t, h) <=> Belongs(t, f) /\ Belongs(t, g)
    BY <2>2, <2>3, BelongsParts, Zenon
  <2> QED BY <2>4 DEF t
<1>6. ASSUME NEW date \in Nat
      PROVE  OnDay(date, h) <=> OnDay(date, f) /\ OnDay(date, g)
  <2> DEFINE v == IF Weekend(date) THEN "weekend" ELSE "weekday"
  <2>1. h.day_type \in {Null, v} <=> f.day_type \in {Null, v} /\ g.day_type \in {Null, v}
    BY <1>3
  <2>2. /\ AtLeast(date, h.date_min) <=> AtLeast(date, f.date_min) /\ AtLeast(date, g.date_min)
        /\ AtMost(date, h.date_max) <=> AtMost(date, f.date_max) /\ AtMost(date, g.date_max)
    BY <1>4
  <2> HIDE DEF v
  <2> QED BY <2>1, <2>2, Zenon DEF OnDay, v
<1> QED BY <1>5, <1>6 DEF Means, h

\* If something does, nobody is of both.
LEMMA NobodyInBoth ==
    ASSUME NEW survey, WellKeyed(survey), NEW f \in Filter, NEW g \in Filter,
           Conflicting(f, g) \/ ~ValidFilter(Merge(f, g)),
           NEW x \in DOMAIN survey.respondents
    PROVE  ~(Belongs(Traits(survey, x), f) /\ Belongs(Traits(survey, x), g))
<1> DEFINE t == Traits(survey, x)
           h == Merge(f, g)
<1>1. t.age \in Nat \cup {Null} /\ t.date \in Nat
  BY TraitTypes
<1>2. CASE Conflicting(f, g)
  <2>1. PICK d \in {"sex", "region", "children", "day_type"} :
          f[d] # Null /\ g[d] # Null /\ f[d] # g[d]
    BY <1>2, NotConflicting
  <2>2. ASSUME Belongs(t, f), Belongs(t, g) PROVE FALSE
    <3>1. f[d] \in {Null, t[d]} /\ g[d] \in {Null, t[d]}
      BY <2>1, <2>2 DEF Belongs
    <3> QED BY <2>1, <3>1
  <2> QED BY <2>2
<1>3. CASE ~Conflicting(f, g) /\ ~ValidFilter(h)
  <2>1. ASSUME Belongs(t, f), Belongs(t, g) PROVE FALSE
    <3>1. Belongs(t, h)
      BY <1>3, <2>1, MergeMeans DEF Means
    <3>2. /\ h.age_min \in Nat \cup {Null} /\ h.age_max \in Nat \cup {Null}
          /\ h.date_min \in Nat \cup {Null} /\ h.date_max \in Nat \cup {Null}
      <4>1. h \in Filter
        BY MergedParts
      <4> HIDE DEF h
      <4> QED BY <4>1, FilterDomain
    <3> HIDE DEF t, h
    <3>3. /\ AtLeast(t.age, h.age_min) /\ AtMost(t.age, h.age_max)
          /\ AtLeast(t.date, h.date_min) /\ AtMost(t.date, h.date_max)
      BY <3>1, BelongsParts
    <3>4. ~(h.age_min # Null /\ h.age_max # Null /\ ~(h.age_min <= h.age_max))
      BY <1>1, <3>2, <3>3 DEF AtLeast, AtMost
    <3>5. ~(h.date_min # Null /\ h.date_max # Null /\ ~(h.date_min <= h.date_max))
      BY <1>1, <3>2, <3>3 DEF AtLeast, AtMost
    <3> QED BY <1>3, <3>4, <3>5 DEF ValidFilter
  <2> QED BY <2>1
<1> QED BY <1>2, <1>3-----------------------------------------------------------------------------
(* The statistics: of each year, the sums over its people. *)

\* What the engine may count of a survey: some respondents, under some weights.
LEMMA SurveyTypes ==
    ASSUME NEW survey, WellKeyed(survey)
    PROVE  /\ IsFiniteSet(DOMAIN survey.respondents) /\ IsFiniteSet(survey.activities)
           /\ \A x \in DOMAIN survey.respondents :
                /\ survey.respondents[x].year \in Nat /\ survey.respondents[x].date \in Nat
                /\ \A s \in Scheme : survey.respondents[x].weight[s] \in Nat \cup {Null}
           /\ \A e \in survey.activities : e.code \in survey.lexicon /\ e.minutes \in Nat
BY DEF WellKeyed, Maybe

LEMMA TimeSpentSum ==
    ASSUME NEW survey, WellKeyed(survey), NEW x, NEW selector
    PROVE  /\ TimeSpent(survey, x, selector) \in Nat
           /\ LET S == {e \in survey.activities : /\ e.who = x
                                                  /\ Under(e.code, selector.include)
                                                  /\ ~Under(e.code, selector.exclude)}
              IN  TimeSpent(survey, x, selector) = MapThenSumSet(LAMBDA e : e.minutes, S)
<1> DEFINE S == {e \in survey.activities : /\ e.who = x
                                           /\ Under(e.code, selector.include)
                                           /\ ~Under(e.code, selector.exclude)}
           g == [e \in S |-> e.minutes]
<1>1. TimeSpent(survey, x, selector) = MapThenSumSet(LAMBDA e : e.minutes, S)
  BY DEF TimeSpent
<1>2. IsFiniteSet(S)
  <2>1. S \subseteq survey.activities /\ IsFiniteSet(survey.activities)
    BY SurveyTypes
  <2> HIDE DEF S
  <2> QED BY <2>1, FS_Subset
<1>3. MapThenSumSet(LAMBDA e : e.minutes, S) = SumOf(g, S)
  <2> HIDE DEF S
  <2> QED BY <1>2, MinutesSum
<1>4. \A e \in S : g[e] \in Nat
  BY SurveyTypes
<1>5. SumOf(g, S) \in Nat
  <2> HIDE DEF S, g
  <2> QED BY <1>2, <1>4, SumNat
<1> HIDE DEF S, g
<1>6. TimeSpent(survey, x, selector) \in Nat
  BY <1>1, <1>3, <1>5
<1> QED BY <1>1, <1>6 DEF S

\* The minutes pushed down, of those who are asked about, are the time they spent.
LEMMA MinutesAreTime ==
    ASSUME NEW survey, WellKeyed(survey), NEW selector, NEW years,
           NEW x \in DOMAIN survey.respondents, survey.respondents[x].year \in Range(years)
    PROVE  LET minutes == ActivityMinutes(survey, Leaves(survey.lexicon, selector), years)
           IN  (IF x \in DOMAIN minutes THEN minutes[x] ELSE 0) = TimeSpent(survey, x, selector)
<1> DEFINE leaves == Leaves(survey.lexicon, selector)
           hits == {e \in survey.activities :
                      e.code \in leaves /\ survey.respondents[e.who].year \in Range(years)}
           S == {e \in survey.activities : /\ e.who = x
                                           /\ Under(e.code, selector.include)
                                           /\ ~Under(e.code, selector.exclude)}
           H == {e \in hits : e.who = x}
           minutes == ActivityMinutes(survey, leaves, years)
<1>1. H = S
  <2>1. \A e \in survey.activities : e.code \in survey.lexicon
    BY SurveyTypes
  <2> QED BY <2>1 DEF Leaves
<1>2. /\ DOMAIN minutes = {e.who : e \in hits}
      /\ x \in DOMAIN minutes => minutes[x] = MapThenSumSet(LAMBDA e : e.minutes, H)
  BY DEF ActivityMinutes
<1>3. TimeSpent(survey, x, selector) = MapThenSumSet(LAMBDA e : e.minutes, S)
  BY TimeSpentSum
<1>4. CASE x \in DOMAIN minutes
  <2> HIDE DEF minutes, H, S, hits
  <2> QED BY <1>1, <1>2, <1>3, <1>4 DEF minutes, leaves
<1>5. CASE x \notin DOMAIN minutes
  <2>1. S = {}
    BY <1>1, <1>2, <1>5
  <2>2. MapThenSumSet(LAMBDA e : e.minutes, S) = SumOf([e \in S |-> e.minutes], S)
    <3>1. IsFiniteSet(S)
      BY <2>1, FS_EmptySet
    <3> HIDE DEF S
    <3> QED BY <3>1, MinutesSum
  <2>3. SumOf([e \in S |-> e.minutes], S) = 0
    <3> HIDE DEF S
    <3> QED BY <2>1, SumEmpty
  <2> HIDE DEF S, minutes
  <2> QED BY <1>3, <1>5, <2>2, <2>3 DEF minutes, leaves
<1> QED BY <1>4, <1>5

\* Each respondent's time, weight, and the two together; and the active of some people.
TimeOf(survey, spec) ==
    [x \in DOMAIN survey.respondents |-> TimeSpent(survey, x, spec.activity)]
WeightOf(survey, spec, k) ==
    [x \in DOMAIN survey.respondents |-> Weight(survey, spec.weights, x, k)]
HoursOf(survey, spec, k) ==
    [x \in DOMAIN survey.respondents |->
       Weight(survey, spec.weights, x, k) * TimeSpent(survey, x, spec.activity)]
Active(survey, spec, people) == {x \in people : TimeSpent(survey, x, spec.activity) > 0}

\* Over some people, the sums that the engine takes of their rows.
PeopleSums(survey, spec, people) ==
    LET active == Active(survey, spec, people)
    IN  [n |-> Cardinality(people), participants |-> Cardinality(active),
         w |-> [k \in Weights(spec) |-> SumOf(WeightOf(survey, spec, k), people)],
         wx |-> [k \in Weights(spec) |-> SumOf(HoursOf(survey, spec, k), people)],
         wp |-> [k \in Weights(spec) |-> SumOf(WeightOf(survey, spec, k), active)]]

\* A specification the engine takes, of a survey that was loaded.
Proper(survey, spec) ==
    /\ WellKeyed(survey) /\ Validated(survey)
    /\ spec.years \in Seq(Nat) /\ spec.population \in Filter /\ spec.weights \in Scheme
    /\ spec.variance \in {"replicate", "none"}

LEMMA BaseTypes ==
    ASSUME NEW survey, NEW spec, Proper(survey, spec)
    PROVE  /\ IsFiniteSet(Base(survey, spec))
           /\ Base(survey, spec) \subseteq DOMAIN survey.respondents
           /\ \A x \in Base(survey, spec) :
                /\ survey.respondents[x].year \in Range(spec.years)
                /\ \A k \in Weights(spec) : Weight(survey, spec.weights, x, k) \in Int
<1> DEFINE B == Base(survey, spec)
<1>1. B \subseteq DOMAIN survey.respondents /\ IsFiniteSet(DOMAIN survey.respondents)
  BY SurveyTypes DEF Base, Proper
<1>2. IsFiniteSet(B)
  <2> HIDE DEF B
  <2> QED BY <1>1, FS_Subset
<1>3. ASSUME NEW x \in B
      PROVE  /\ survey.respondents[x].year \in Range(spec.years)
             /\ \A k \in Weights(spec) : Weight(survey, spec.weights, x, k) \in Int
  <2> DEFINE r == survey.respondents[x]
             s == spec.weights
  <2>1. /\ r.year \in Range(spec.years) /\ r.weight[s] # Null /\ r.weight[s] > 0
        /\ spec.variance = "replicate" => x \in DOMAIN survey.replicates[s]
    BY <1>3 DEF Base
  <2>2. s \in Scheme /\ x \in DOMAIN survey.respondents
    BY <1>1, <1>3 DEF Proper
  <2>3. r.weight[s] \in Nat \cup {Null}
    BY <2>2, SurveyTypes DEF Proper
  <2>4. r.weight[s] \notin {Null, 0}
    <3> HIDE DEF r, s
    <3> QED BY <2>1, <2>3
  <2>5. survey.replicates[s][x] \in [Replicate -> Int]
    BY <2>2, <2>4 DEF Proper, Validated
  <2>6. ASSUME NEW k \in Weights(spec) PROVE Weight(survey, s, x, k) \in Int
    <3>1. k = 0 \/ k \in Replicate
      BY <2>6 DEF Weights
    <3>2. CASE k = 0
      <4>1. Weight(survey, s, x, k) = r.weight[s]
        BY <3>2 DEF Weight
      <4> HIDE DEF r, s
      <4> QED BY <2>3, <2>4, <4>1
    <3>3. CASE k # 0
      <4>1. Weight(survey, s, x, k) = survey.replicates[s][x][k]
        BY <3>3 DEF Weight
      <4> HIDE DEF s
      <4> QED BY <2>5, <3>1, <3>3, <4>1
    <3> QED BY <3>2, <3>3
  <2> QED BY <2>1, <2>6
<1> QED BY <1>1, <1>2, <1>3

\* Of some rows, the sums of w and of w * x under a weight.
Weighed(rows, k) == MapThenSumSet(LAMBDA r : r.weight[k], rows)
Timed(rows, k) == MapThenSumSet(LAMBDA r : r.weight[k] * r.x, rows)

\* The rows f of some people have weights w, times t and products wt.
RowsOf(P, f, k, w, t, wt) ==
    \A x \in P : /\ f[x].who = x /\ f[x].weight[k] = w[x] /\ f[x].x = t[x]
                 /\ w[x] \in Int /\ t[x] \in Nat /\ wt[x] = w[x] * t[x]

\* The rows of some people add up to the sums over them.
LEMMA ImageSums ==
    ASSUME NEW P, IsFiniteSet(P), NEW A \in SUBSET P, NEW f,
           NEW k, NEW w, NEW t, NEW wt,
           RowsOf(P, f, k, w, t, wt)
    PROVE  LET R == ImageOf(f, A)
           IN  /\ Cardinality(R) = Cardinality(A)
               /\ Weighed(R, k) = SumOf(w, A) /\ Timed(R, k) = SumOf(wt, A)
<1> DEFINE R == ImageOf(f, A)
           gw == [r \in R |-> r.weight[k]]
           gt == [r \in R |-> r.weight[k] * r.x]
<1> USE DEF RowsOf
<1>1. IsFiniteSet(A) /\ IsFiniteSet(R)
  <2>1. IsFiniteSet(A)
    BY FS_Subset
  <2> QED BY <2>1, FiniteImage DEF ImageOf
<1>2. \A a, b \in A : f[a] = f[b] => a = b
  OBVIOUS
<1>3. \A a \in A : /\ gw[f[a]] = w[a] /\ gt[f[a]] = wt[a]
                   /\ gw[f[a]] \in Int /\ gt[f[a]] \in Int
  BY DEF ImageOf
<1>4. Cardinality(R) = Cardinality(A)
  BY <1>1, <1>2, CountImage
<1>5. SumOf(gw, R) = SumOf(w, A)
  <2>1. \A a \in A : gw[f[a]] = w[a] /\ w[a] \in Int
    BY <1>3
  <2> HIDE DEF gw
  <2> QED BY <1>1, <1>2, <2>1, SumImage
<1>6. SumOf(gt, R) = SumOf(wt, A)
  <2>1. \A a \in A : gt[f[a]] = wt[a] /\ wt[a] \in Int
    BY <1>3
  <2> HIDE DEF gt
  <2> QED BY <1>1, <1>2, <2>1, SumImage
<1> HIDE DEF R
<1>7. Weighed(R, k) = SumOf(gw, R)
  BY <1>1, RowWeightSum DEF Weighed
<1>8. Timed(R, k) = SumOf(gt, R)
  BY <1>1, RowTimeSum DEF Timed
<1> HIDE DEF gw, gt
<1> QED BY <1>4, <1>5, <1>6, <1>7, <1>8 DEF R

\* A respondent's row.
Row(survey, spec, minutes, x) ==
    [who |-> x, year |-> survey.respondents[x].year,
     x |-> IF x \in DOMAIN minutes THEN minutes[x] ELSE 0,
     weight |-> [k \in Weights(spec) |-> Weight(survey, spec.weights, x, k)]]

LEMMA RowsSums ==
    ASSUME NEW survey, NEW spec, Proper(survey, spec), NEW P \in SUBSET Base(survey, spec)
    PROVE  LET minutes == ActivityMinutes(survey, Leaves(survey.lexicon, spec.activity),
                                          spec.years)
           IN  Sums({Row(survey, spec, minutes, x) : x \in P}, Weights(spec))
                 = PeopleSums(survey, spec, P)
<1> DEFINE minutes == ActivityMinutes(survey, Leaves(survey.lexicon, spec.activity), spec.years)
           f == [x \in P |-> Row(survey, spec, minutes, x)]
           R == {Row(survey, spec, minutes, x) : x \in P}
           time == TimeOf(survey, spec)
           active == Active(survey, spec, P)
           doing == {r \in R : r.x > 0}
           under(k) == WeightOf(survey, spec, k)
           timed(k) == HoursOf(survey, spec, k)
           W == Weights(spec)
<1> USE DEF TimeOf, WeightOf, HoursOf, Active
<1>1. /\ IsFiniteSet(P)
      /\ \A x \in P : /\ x \in DOMAIN survey.respondents
                      /\ survey.respondents[x].year \in Range(spec.years)
                      /\ \A k \in W : Weight(survey, spec.weights, x, k) \in Int
  <2>1. IsFiniteSet(P)
    BY BaseTypes, FS_Subset
  <2> QED BY <2>1, BaseTypes
<1>2. \A x \in P : /\ (IF x \in DOMAIN minutes THEN minutes[x] ELSE 0) = time[x]
                   /\ time[x] \in Nat
  BY <1>1, MinutesAreTime, TimeSpentSum DEF Proper
<1>3. \A x \in P : /\ f[x].who = x /\ f[x].x = time[x]
                   /\ \A k \in W : f[x].weight[k] = under(k)[x] /\ under(k)[x] \in Int
  <2> HIDE DEF minutes
  <2> QED BY <1>1, <1>2 DEF Row
<1>4. R = ImageOf(f, P) /\ doing = ImageOf(f, active)
  <2>1. R = ImageOf(f, P)
    <3> HIDE DEF minutes
    <3> QED BY DEF ImageOf
  <2>2. \A x \in P : f[x].x > 0 <=> x \in active
    <3>1. \A x \in P : time[x] > 0 <=> x \in active
      BY <1>1
    <3> HIDE DEF f, time, active
    <3> QED BY <1>3, <3>1
  <2> HIDE DEF f, active, R
  <2>3. doing = ImageOf(f, active)
    <3>1. active \subseteq P
      BY DEF active
    <3> QED BY <2>1, <2>2, <3>1 DEF ImageOf
  <2> QED BY <2>1, <2>3
<1>5. \A k \in W : \A x \in P : timed(k)[x] = under(k)[x] * time[x]
  BY <1>1
<1> HIDE DEF TimeOf, WeightOf, HoursOf
<1>6. ASSUME NEW k \in W, NEW A \in SUBSET P, NEW S, S = ImageOf(f, A)
      PROVE  /\ Cardinality(S) = Cardinality(A)
             /\ Weighed(S, k) = SumOf(under(k), A) /\ Timed(S, k) = SumOf(timed(k), A)
  <2> DEFINE u == under(k)
             ut == timed(k)
  <2>1. RowsOf(P, f, k, u, time, ut)
    <3>1. \A x \in P : /\ f[x].who = x /\ f[x].weight[k] = u[x] /\ f[x].x = time[x]
                       /\ u[x] \in Int /\ time[x] \in Nat /\ ut[x] = u[x] * time[x]
      BY <1>2, <1>3, <1>5
    <3> QED BY <3>1 DEF RowsOf
  <2> HIDE DEF f, u, ut, time, active
  <2>2. /\ Cardinality(S) = Cardinality(A)
        /\ Weighed(S, k) = SumOf(u, A) /\ Timed(S, k) = SumOf(ut, A)
    BY <1>1, <1>6, <2>1, ImageSums
  <2> QED BY <2>2 DEF u, ut
<1> HIDE DEF Active
<1>7. 0 \in W /\ P \in SUBSET P /\ active \in SUBSET P
  BY DEF Weights, Active
<1>8. /\ Cardinality(R) = Cardinality(P) /\ Cardinality(doing) = Cardinality(active)
      /\ \A k \in W : /\ Weighed(R, k) = SumOf(under(k), P)
                      /\ Timed(R, k) = SumOf(timed(k), P)
                      /\ Weighed(doing, k) = SumOf(under(k), active)
  <2> HIDE DEF R, doing, f, active, under, timed, W
  <2> QED BY <1>4, <1>6, <1>7
<1>9. Sums(R, W) =
        [n |-> Cardinality(R), participants |-> Cardinality(doing),
         w |-> [k \in W |-> Weighed(R, k)], wx |-> [k \in W |-> Timed(R, k)],
         wp |-> [k \in W |-> Weighed(doing, k)]]
  <2> HIDE DEF R, W
  <2> QED BY DEF Sums, Weighed, Timed
<1>10. PeopleSums(survey, spec, P) =
         [n |-> Cardinality(P), participants |-> Cardinality(active),
          w |-> [k \in W |-> SumOf(under(k), P)], wx |-> [k \in W |-> SumOf(timed(k), P)],
          wp |-> [k \in W |-> SumOf(under(k), active)]]
  BY DEF PeopleSums
<1>11. Sums(R, W) = PeopleSums(survey, spec, P)
  <2> HIDE DEF R, W, doing, active, under, timed
  <2>1. /\ [k \in W |-> Weighed(R, k)] = [k \in W |-> SumOf(under(k), P)]
        /\ [k \in W |-> Timed(R, k)] = [k \in W |-> SumOf(timed(k), P)]
        /\ [k \in W |-> Weighed(doing, k)] = [k \in W |-> SumOf(under(k), active)]
    BY <1>8
  <2> QED BY <1>8, <1>9, <1>10, <2>1
<1> QED BY <1>11 DEF R, W, minutes

\* Each respondent's year.
YearsOf(survey) == [x \in DOMAIN survey.respondents |-> survey.respondents[x].year]

\* The statistics of a year are the sums over those of its people who are asked about.
LEMMA StatisticsOf ==
    ASSUME NEW survey, NEW spec, Proper(survey, spec)
    PROVE  LET stats == Statistics(survey, spec, Leaves(survey.lexicon, spec.activity))
               B == Base(survey, spec)
           IN  /\ DOMAIN stats = {survey.respondents[x].year : x \in B}
               /\ \A y \in DOMAIN stats :
                    stats[y] = PeopleSums(survey, spec, ClassOf(B, YearsOf(survey), y))
<1> DEFINE leaves == Leaves(survey.lexicon, spec.activity)
           stats == Statistics(survey, spec, leaves)
           B == Base(survey, spec)
           minutes == ActivityMinutes(survey, leaves, spec.years)
           year == YearsOf(survey)
           rows == Rows(survey, spec, minutes)
           Of(P) == {Row(survey, spec, minutes, x) : x \in P}
<1>1. rows = Of(B)
  BY DEF Rows, Row
<1>2. \A x \in B : /\ x \in DOMAIN survey.respondents
                   /\ Row(survey, spec, minutes, x).year = survey.respondents[x].year
  BY BaseTypes DEF Row
<1>3. {r.year : r \in rows} = {survey.respondents[x].year : x \in B}
  <2> HIDE DEF minutes, B
  <2> QED BY <1>1, <1>2
<1>4. ASSUME NEW y PROVE {r \in rows : r.year = y} = Of(ClassOf(B, year, y))
  <2>1. ClassOf(B, year, y) = {x \in B : survey.respondents[x].year = y}
    <3> HIDE DEF B
    <3> QED BY <1>2 DEF ClassOf, YearsOf
  <2> HIDE DEF minutes, B, year
  <2> QED BY <1>1, <1>2, <2>1
<1>5. \A y : ClassOf(B, year, y) \in SUBSET B
  BY DEF ClassOf
<1>6. ASSUME NEW y
      PROVE  Sums(Of(ClassOf(B, year, y)), Weights(spec))
               = PeopleSums(survey, spec, ClassOf(B, year, y))
  BY <1>5, RowsSums
<1>7. stats = [y \in {r.year : r \in rows} |->
                 Sums({r \in rows : r.year = y}, Weights(spec))]
  BY DEF Statistics
<1>8. \A y \in {r.year : r \in rows} :
        stats[y] = PeopleSums(survey, spec, ClassOf(B, year, y))
  <2> HIDE DEF rows, B, stats, minutes, year
  <2> QED BY <1>4, <1>6, <1>7
<1>9. DOMAIN stats = {r.year : r \in rows}
  <2> HIDE DEF rows
  <2> QED BY <1>7
<1> HIDE DEF stats, rows, B, year
<1>10. /\ DOMAIN stats = {survey.respondents[x].year : x \in B}
       /\ \A y \in DOMAIN stats : stats[y] = PeopleSums(survey, spec, ClassOf(B, year, y))
  BY <1>3, <1>8, <1>9
<1> QED BY <1>10 DEF stats, B, year, leaves

\* The combination of years' statistics is the sums over all their people.
LEMMA CombineOf ==
    ASSUME NEW survey, NEW spec, Proper(survey, spec),
           NEW B \in SUBSET Base(survey, spec), B # {}, NEW stats,
           DOMAIN stats = {survey.respondents[x].year : x \in B},
           \A y \in DOMAIN stats :
             stats[y] = PeopleSums(survey, spec, ClassOf(B, YearsOf(survey), y))
    PROVE  Combine(stats) = PeopleSums(survey, spec, B)
<1> DEFINE year == YearsOf(survey)
           Y == DOMAIN stats
           W == Weights(spec)
           active == Active(survey, spec, B)
           weights == UNION {DOMAIN stats[y].w : y \in Y}
           ns == [y \in Y |-> stats[y].n]
           ps == [y \in Y |-> stats[y].participants]
           ws(k) == [y \in Y |-> stats[y].w[k]]
           wxs(k) == [y \in Y |-> stats[y].wx[k]]
           wps(k) == [y \in Y |-> stats[y].wp[k]]
           w(k) == WeightOf(survey, spec, k)
           wx(k) == HoursOf(survey, spec, k)
<1>1. /\ IsFiniteSet(B) /\ IsFiniteSet(active) /\ active \subseteq B
      /\ B \subseteq DOMAIN survey.respondents
  <2>1. active \subseteq B
    BY DEF Active
  <2> HIDE DEF active
  <2> QED BY <2>1, BaseTypes, FS_Subset
<1>2. /\ \A x \in B : year[x] = survey.respondents[x].year /\ year[x] \in Y
      /\ IsFiniteSet(Y) /\ Y # {}
  <2>1. \A x \in B : year[x] = survey.respondents[x].year /\ year[x] \in Y
    BY <1>1 DEF YearsOf
  <2>2. Y = {year[x] : x \in B}
    <3> HIDE DEF year, Y
    <3> QED BY <2>1 DEF Y
  <2> HIDE DEF year, Y
  <2> QED BY <1>1, <2>1, <2>2, FiniteImage
<1>3. \A k \in W : \A x \in B : w(k)[x] \in Int /\ wx(k)[x] \in Int
  <2> SUFFICES ASSUME NEW k \in W, NEW x \in B PROVE w(k)[x] \in Int /\ wx(k)[x] \in Int
    OBVIOUS
  <2>1. Weight(survey, spec.weights, x, k) \in Int
    BY BaseTypes
  <2>2. TimeSpent(survey, x, spec.activity) \in Int
    <3>1. TimeSpent(survey, x, spec.activity) \in Nat
      BY TimeSpentSum DEF Proper
    <3> QED BY <3>1
  <2>3. x \in DOMAIN survey.respondents
    BY <1>1
  <2> QED BY <2>1, <2>2, <2>3 DEF WeightOf, HoursOf
<1>4. ASSUME NEW y \in Y
      PROVE  /\ stats[y].n = Cardinality(ClassOf(B, year, y))
             /\ stats[y].participants = Cardinality(ClassOf(active, year, y))
             /\ DOMAIN stats[y].w = W
             /\ \A k \in W : /\ stats[y].w[k] = SumOf(w(k), ClassOf(B, year, y))
                             /\ stats[y].wx[k] = SumOf(wx(k), ClassOf(B, year, y))
                             /\ stats[y].wp[k] = SumOf(w(k), ClassOf(active, year, y))
  <2>1. Active(survey, spec, ClassOf(B, year, y)) = ClassOf(active, year, y)
    BY DEF Active, ClassOf
  <2>2. stats[y] = PeopleSums(survey, spec, ClassOf(B, year, y))
    OBVIOUS
  <2> HIDE DEF year, active
  <2> QED BY <2>1, <2>2 DEF PeopleSums
<1>5. weights = W
  <2>1. \A y \in Y : DOMAIN stats[y].w = W
    <3> HIDE DEF W, w, wx, year, active
    <3> QED BY <1>4
  <2> HIDE DEF W, Y
  <2> QED BY <1>2, <2>1
<1>6. /\ \A y \in Y : /\ ns[y] = Cardinality(ClassOf(B, year, y))
                      /\ ps[y] = Cardinality(ClassOf(active, year, y))
      /\ \A k \in W : \A y \in Y : /\ ws(k)[y] = SumOf(w(k), ClassOf(B, year, y))
                                   /\ wxs(k)[y] = SumOf(wx(k), ClassOf(B, year, y))
                                   /\ wps(k)[y] = SumOf(w(k), ClassOf(active, year, y))
  <2> HIDE DEF w, wx, year, active
  <2>1. ASSUME NEW y \in Y
        PROVE  /\ ns[y] = stats[y].n /\ ps[y] = stats[y].participants
               /\ \A k \in W : /\ ws(k)[y] = stats[y].w[k] /\ wxs(k)[y] = stats[y].wx[k]
                               /\ wps(k)[y] = stats[y].wp[k]
    OBVIOUS
  <2> HIDE DEF W, Y, ns, ps, ws, wxs, wps
  <2> QED BY <1>4, <2>1
<1> HIDE DEF Y, W, w, wx, year, active, ns, ps, ws, wxs, wps, weights
<1>7. Cardinality(B) = SumOf(ns, Y) /\ Cardinality(active) = SumOf(ps, Y)
  BY <1>1, <1>2, <1>6, CountByClass
<1>8. ASSUME NEW k \in W
      PROVE  /\ SumOf(w(k), B) = SumOf(ws(k), Y) /\ SumOf(wx(k), B) = SumOf(wxs(k), Y)
             /\ SumOf(w(k), active) = SumOf(wps(k), Y)
  <2> DEFINE g == w(k)
             h == wx(k)
             G == ws(k)
             H == wxs(k)
             A == wps(k)
  <2>1. /\ \A x \in B : g[x] \in Int /\ h[x] \in Int /\ year[x] \in Y
        /\ \A x \in active : g[x] \in Int /\ year[x] \in Y
        /\ \A y \in Y : G[y] = SumOf(g, ClassOf(B, year, y))
        /\ \A y \in Y : H[y] = SumOf(h, ClassOf(B, year, y))
        /\ \A y \in Y : A[y] = SumOf(g, ClassOf(active, year, y))
    BY <1>1, <1>2, <1>3, <1>6
  <2> HIDE DEF g, h, G, H, A
  <2>2. SumOf(g, B) = SumOf(G, Y)
    BY <1>1, <1>2, <2>1, SumByClass
  <2>3. SumOf(h, B) = SumOf(H, Y)
    BY <1>1, <1>2, <2>1, SumByClass
  <2>4. SumOf(g, active) = SumOf(A, Y)
    BY <1>1, <1>2, <2>1, SumByClass
  <2> QED BY <2>2, <2>3, <2>4 DEF g, h, G, H, A
<1>9. Combine(stats) =
        [n |-> SumOf(ns, Y), participants |-> SumOf(ps, Y),
         w |-> [k \in weights |-> SumOf(ws(k), Y)], wx |-> [k \in weights |-> SumOf(wxs(k), Y)],
         wp |-> [k \in weights |-> SumOf(wps(k), Y)]]
  BY DEF Combine, SumOf, ns, ps, ws, wxs, wps, weights, Y
<1>10. PeopleSums(survey, spec, B) =
         [n |-> Cardinality(B), participants |-> Cardinality(active),
          w |-> [k \in W |-> SumOf(w(k), B)], wx |-> [k \in W |-> SumOf(wx(k), B)],
          wp |-> [k \in W |-> SumOf(w(k), active)]]
  BY DEF PeopleSums, W, w, wx, active
<1>11. /\ [k \in weights |-> SumOf(ws(k), Y)] = [k \in W |-> SumOf(w(k), B)]
       /\ [k \in weights |-> SumOf(wxs(k), Y)] = [k \in W |-> SumOf(wx(k), B)]
       /\ [k \in weights |-> SumOf(wps(k), Y)] = [k \in W |-> SumOf(w(k), active)]
  BY <1>5, <1>8
<1> QED BY <1>7, <1>9, <1>10, <1>11
-----------------------------------------------------------------------------
(* The denominator in days: year by year, and by date. *)

LEMMA DayOfYear ==
    ASSUME NEW y \in Nat, NEW d \in 0 .. YearLen - 1
    PROVE  /\ y * YearLen + d \in Nat /\ y * YearLen + d \in y * YearLen .. (y + 1) * YearLen - 1
           /\ YearOf(y * YearLen + d) = y /\ (y * YearLen + d) % YearLen = d
<1> DEFINE n == YearLen
<1>1. n \in Nat \ {0}
  BY AnalyticsConstants, Zenon
<1> HIDE DEF n
<1>2. y * n \in Nat /\ d \in 0 .. n - 1 /\ (y + 1) * n = y * n + n
  BY <1>1 DEF n
<1>3. y * n + d \in Nat /\ y * n + d \in y * n .. (y + 1) * n - 1
  BY <1>1, <1>2
<1>4. (y * n + d) \div n = y /\ (y * n + d) % n = d
  BY <1>1, <1>2
<1> QED BY <1>3, <1>4 DEF n, YearOf

LEMMA YearOfDay ==
    ASSUME NEW y \in Nat, NEW date \in y * YearLen .. (y + 1) * YearLen - 1
    PROVE  /\ date \in Nat /\ YearOf(date) = y
           /\ date % YearLen \in 0 .. YearLen - 1 /\ date = y * YearLen + (date % YearLen)
<1> DEFINE n == YearLen
           d == date - y * n
<1>1. n \in Nat \ {0}
  BY AnalyticsConstants, Zenon
<1> HIDE DEF n
<1>2. y * n \in Nat /\ date \in Int /\ (y + 1) * n = y * n + n
  BY <1>1 DEF n
<1>3. d \in 0 .. n - 1 /\ date = y * n + d /\ date \in Nat
  <2>1. date >= y * n /\ date <= (y + 1) * n - 1
    BY <1>1, <1>2 DEF n
  <2> QED BY <1>1, <1>2, <2>1
<1> HIDE DEF d
<1>4. YearOf(date) = y /\ date % n = d
  BY <1>3, DayOfYear DEF n
<1> QED BY <1>3, <1>4 DEF n

LEMMA DayTypes ==
    ASSUME NEW date \in Nat, NEW kind \in {"weekday", "weekend", Null}
    PROVE  (kind # Null => Weekend(date) = (kind = "weekend"))
             <=> kind \in {Null, IF Weekend(date) THEN "weekend" ELSE "weekday"}
<1>1. CASE kind = Null
  BY <1>1
<1>2. CASE kind \in {"weekday", "weekend"}
  <2>1. Weekend(date) \in BOOLEAN
    BY DEF Weekend
  <2>2. kind # Null
    BY <1>2, Nulls
  <2>3. CASE Weekend(date)
    BY <1>2, <2>2, <2>3
  <2>4. CASE ~Weekend(date)
    BY <1>2, <2>1, <2>2, <2>4
  <2> QED BY <2>3, <2>4
<1> QED BY <1>1, <1>2

\* The days that weights represent, year by year, are the days that filters ask about.
LEMMA TotalDaysAre ==
    ASSUME NEW spec, spec.years \in Seq(Nat), spec.population \in Filter,
           NEW request, request.weights = spec.weights, NEW filters,
           \A date \in Nat : OnDay(date, spec.population) <=> \A g \in filters : OnDay(date, g)
    PROVE  LET days == Days(request, filters, Range(spec.years))
           IN  /\ IsFiniteSet(days) /\ Cardinality(days) = TotalDays(spec)
               /\ TotalDays(spec) \in Nat
<1> DEFINE Y == Range(spec.years)
           f == spec.population
           kind == f.day_type
           Of(y) == y * YearLen .. (y + 1) * YearLen - 1
           Counted(date) == spec.weights = "pandemic" => date % YearLen \notin GapDays
           days == {date \in UNION {Of(y) : y \in Y} : Counted(date) /\ OnDay(date, f)}
           year == [date \in days |-> YearOf(date)]
           G == [y \in Y |-> DaysRepresented(spec.weights, y, f)]
<1>1. IsFiniteSet(Y) /\ Y \subseteq Nat
  <2> DEFINE s == spec.years
  <2>1. s \in Seq(Nat) /\ DOMAIN s = 1 .. Len(s) /\ Len(s) \in Nat
    OBVIOUS
  <2>2. IsFiniteSet(DOMAIN s)
    <3> DEFINE n == Len(s)
    <3> HIDE DEF n
    <3> QED BY <2>1, FS_Interval DEF n
  <2>3. Y = {s[i] : i \in DOMAIN s}
    BY DEF Range
  <2>4. \A i \in DOMAIN s : s[i] \in Nat
    BY <2>1
  <2> HIDE DEF s, Y
  <2>5. IsFiniteSet(Y)
    BY <2>2, <2>3, FiniteImage
  <2> QED BY <2>3, <2>4, <2>5
<1>2. \A y \in Y : \A date \in Of(y) : /\ date \in Nat /\ YearOf(date) = y
  BY <1>1, YearOfDay
<1>3. days = Days(request, filters, Y)
  <2>1. \A date \in UNION {Of(y) : y \in Y} : date \in Nat
    BY <1>2
  <2>2. Days(request, filters, Y) =
          {date \in UNION {Of(y) : y \in Y} : Counted(date) /\ \A g \in filters : OnDay(date, g)}
    BY DEF Days, OnDay
  <2> HIDE DEF Counted
  <2> QED BY <2>1, <2>2
<1>4. IsFiniteSet(days)
  <2> DEFINE of == [y \in Y |-> Of(y)]
             U == UNION {of[y] : y \in Y}
  <2>1. ASSUME NEW y \in Y PROVE IsFiniteSet(of[y])
    <3> DEFINE a == y * YearLen
               b == (y + 1) * YearLen - 1
    <3>1. a \in Int /\ b \in Int
      <4>1. YearLen \in Int /\ y \in Int
        <5>1. YearLen \in Nat \ {0}
          BY AnalyticsConstants, Zenon
        <5> QED BY <1>1, <5>1
      <4> QED BY <4>1
    <3>2. of[y] = a .. b
      OBVIOUS
    <3> HIDE DEF a, b, of
    <3> QED BY <3>1, <3>2, FS_Interval
  <2>2. days \subseteq U
    <3> HIDE DEF Counted
    <3> QED OBVIOUS
  <2>3. IsFiniteSet(U)
    <3> HIDE DEF of
    <3>1. IsFiniteSet({of[y] : y \in Y})
      BY <1>1, FiniteImage
    <3> QED BY <2>1, <3>1, FS_UNION
  <2> HIDE DEF U, days
  <2> QED BY <2>2, <2>3, FS_Subset
<1>5. \A date \in days : year[date] \in Y
  <2> HIDE DEF Counted
  <2> QED BY <1>2
<1>6. ASSUME NEW y \in Y PROVE G[y] = Cardinality(ClassOf(days, year, y))
  <2> DEFINE date(d) == y * YearLen + d
             A == {d \in 0 .. YearLen - 1 : Counted(date(d)) /\ OnDay(date(d), f)}
             shift == [d \in A |-> date(d)]
  <2>1. \A d \in 0 .. YearLen - 1 : /\ date(d) \in Nat /\ date(d) \in Of(y)
                                    /\ YearOf(date(d)) = y /\ date(d) % YearLen = d
    BY <1>1, DayOfYear
  <2>2. A = {d \in 0 .. YearLen - 1 :
               /\ AtLeast(date(d), f.date_min) /\ AtMost(date(d), f.date_max)
               /\ spec.weights = "pandemic" => d \notin GapDays
               /\ kind # Null => Weekend(date(d)) = (kind = "weekend")}
    <3>1. kind \in {"weekday", "weekend", Null}
      BY DEF Filter, Maybe, DayType
    <3> HIDE DEF date, kind
    <3>2. \A d \in 0 .. YearLen - 1 :
            /\ Counted(date(d)) <=> (spec.weights = "pandemic" => d \notin GapDays)
            /\ OnDay(date(d), f) <=>
                 /\ AtLeast(date(d), f.date_min) /\ AtMost(date(d), f.date_max)
                 /\ (kind # Null => Weekend(date(d)) = (kind = "weekend"))
      BY <2>1, <3>1, DayTypes DEF OnDay, kind
    <3> HIDE DEF Counted
    <3> QED BY <3>2
  <2>3. G[y] = Cardinality(A)
    <3> HIDE DEF A
    <3> QED BY <2>2 DEF DaysRepresented
  <2>4. ClassOf(days, year, y) = ImageOf(shift, A)
    <3>1. ASSUME NEW t \in ClassOf(days, year, y) PROVE t \in ImageOf(shift, A)
      <4>1. t \in days /\ YearOf(t) = y
        <5> HIDE DEF days
        <5> QED BY DEF ClassOf
      <4>2. PICK z \in Y : t \in Of(z)
        BY <4>1
      <4>3. t \in Of(y)
        BY <1>2, <4>1, <4>2
      <4>4. t % YearLen \in 0 .. YearLen - 1 /\ t = date(t % YearLen)
        BY <1>1, <4>3, YearOfDay
      <4>5. Counted(t) /\ OnDay(t, f)
        BY <4>1
      <4> HIDE DEF date, Counted
      <4>6. t % YearLen \in A
        BY <4>4, <4>5
      <4> QED BY <4>4, <4>6 DEF ImageOf
    <3>2. ASSUME NEW d \in A PROVE shift[d] \in ClassOf(days, year, y)
      <4> HIDE DEF Counted
      <4> QED BY <2>1 DEF ClassOf
    <3> HIDE DEF A, days, year, shift
    <3> QED BY <3>1, <3>2 DEF ImageOf
  <2>5. IsFiniteSet(A)
    <3> DEFINE top == YearLen - 1
    <3>1. top \in Int /\ A \subseteq 0 .. top
      <4>1. YearLen \in Nat \ {0}
        BY AnalyticsConstants, Zenon
      <4> QED BY <4>1
    <3> HIDE DEF A, top
    <3>2. IsFiniteSet(0 .. top)
      <4>1. 0 \in Int /\ top \in Int
        BY <3>1, SMT
      <4> QED BY <4>1, FS_Interval, Zenon
    <3> QED BY <3>1, <3>2, FS_Subset
  <2>6. \A a, b \in A : shift[a] = shift[b] => a = b
    <3> HIDE DEF date, Counted
    <3> QED BY <2>1
  <2>7. Cardinality(ImageOf(shift, A)) = Cardinality(A)
    <3> HIDE DEF shift, A
    <3> QED BY <2>5, <2>6, CountImage
  <2> QED BY <2>3, <2>4, <2>7
<1>7. TotalDays(spec) = SumOf(G, Y)
  <2> HIDE DEF Y
  <2> QED BY <1>1, DaysSum DEF TotalDays, Y
<1>8. Cardinality(days) = SumOf(G, Y)
  <2>1. IsFiniteSet(Y) /\ IsFiniteSet(days) /\ \A date \in days : year[date] \in Y
    BY <1>1, <1>4, <1>5
  <2>2. \A y \in Y : G[y] = Cardinality(ClassOf(days, year, y))
    BY <1>6
  <2> HIDE DEF days, year, G, Y
  <2> QED BY <2>1, <2>2, CountByClass
<1> HIDE DEF days
<1>9. IsFiniteSet(days) /\ Cardinality(days) = TotalDays(spec) /\ TotalDays(spec) \in Nat
  BY <1>4, <1>7, <1>8, FS_CardinalityType
<1> QED BY <1>3, <1>9-----------------------------------------------------------------------------
(* An estimate is what its question asks for. *)

\* A specification of a question: of its years, and of who passes all of some filters.
Asks(survey, spec, q, filters, years) ==
    /\ Proper(survey, spec) /\ Range(spec.years) = years /\ years # {}
    /\ spec.measure = q.measure /\ spec.activity = ToSelector(q.activity)
    /\ spec.weights = q.weights /\ spec.variance = q.variance
    /\ q.measure \in {"average_minutes_per_day", "participation_rate",
                     "average_minutes_per_participant", "participants_per_day"}
    /\ Means(survey, spec.population, filters)

LEMMA WeighedWhoCount ==
    ASSUME NEW survey, NEW spec, Proper(survey, spec), NEW x \in DOMAIN survey.respondents
    PROVE  LET r == survey.respondents[x]
           IN  (r.weight[spec.weights] # Null /\ r.weight[spec.weights] > 0)
                 <=> r.weight[spec.weights] \notin {Null, 0}
<1> DEFINE v == survey.respondents[x].weight[spec.weights]
<1>1. v \in Nat \cup {Null}
  BY SurveyTypes DEF Proper
<1> HIDE DEF v
<1>2. (v # Null /\ v > 0) <=> v \notin {Null, 0}
  BY <1>1
<1> QED BY <1>2 DEF v

\* The statement's base is who is asked about.
LEMMA BaseIsPeople ==
    ASSUME NEW survey, NEW spec, NEW q, NEW filters, NEW years,
           Asks(survey, spec, q, filters, years)
    PROVE  /\ Base(survey, spec) = People(survey, q, filters, years)
           /\ \A y \in years : ClassOf(Base(survey, spec), YearsOf(survey), y)
                                = People(survey, q, filters, {y})
<1> DEFINE D == DOMAIN survey.respondents
           B == Base(survey, spec)
           s == spec.weights
           Counts(x) == /\ survey.respondents[x].weight[s] \notin {Null, 0}
                        /\ \A f \in filters : Belongs(Traits(survey, x), f)
<1>1. ASSUME NEW x \in D
      PROVE  x \in B <=> survey.respondents[x].year \in years /\ Counts(x)
  <2> DEFINE r == survey.respondents[x]
  <2>1. Qualifies(survey, x, spec.population) <=>
          \A f \in filters : Belongs(Traits(survey, x), f)
    <3>1. Qualifies(survey, x, spec.population) <=> Belongs(Traits(survey, x), spec.population)
      BY QualifiesIsBelongs DEF Asks, Proper
    <3> QED BY <3>1 DEF Asks, Means
  <2>2. (r.weight[s] # Null /\ r.weight[s] > 0) <=> r.weight[s] \notin {Null, 0}
    BY WeighedWhoCount DEF Asks
  <2>3. r.weight[s] \notin {Null, 0} => x \in DOMAIN survey.replicates[s]
    BY DEF Asks, Proper, Validated
  <2>4. x \in B <=> /\ r.year \in Range(spec.years)
                    /\ r.weight[s] # Null /\ r.weight[s] > 0
                    /\ Qualifies(survey, x, spec.population)
                    /\ spec.variance = "replicate" => x \in DOMAIN survey.replicates[s]
    BY DEF Base
  <2>5. Range(spec.years) = years
    BY DEF Asks
  <2> HIDE DEF B, r, s
  <2> QED BY <2>1, <2>2, <2>3, <2>4, <2>5 DEF r
<1>2. ASSUME NEW Y
      PROVE  People(survey, q, filters, Y) =
               {x \in D : survey.respondents[x].year \in Y /\ Counts(x)}
  BY DEF People, Asks
<1>3. B \subseteq D
  BY DEF Base
<1> HIDE DEF B, Counts, D
<1>4. B = People(survey, q, filters, years)
  BY <1>1, <1>2, <1>3
<1>5. ASSUME NEW y \in years
      PROVE  ClassOf(B, YearsOf(survey), y) = People(survey, q, filters, {y})
  <2>1. \A x \in B : YearsOf(survey)[x] = survey.respondents[x].year
    BY <1>3 DEF YearsOf, D
  <2> QED BY <1>1, <1>2, <1>3, <2>1 DEF ClassOf
<1> QED BY <1>4, <1>5 DEF B

LEMMA YearIsPeople ==
    ASSUME NEW survey, NEW spec, NEW q, NEW filters, NEW years,
           Asks(survey, spec, q, filters, years), NEW y \in years
    PROVE  ClassOf(Base(survey, spec), YearsOf(survey), y) = People(survey, q, filters, {y})
BY BaseIsPeople

\* A measure's ratio of the sums over the people is the fraction that was asked for.
LEMMA FractionOf ==
    ASSUME NEW survey, NEW spec, NEW q, NEW filters, NEW years,
           Asks(survey, spec, q, filters, years), NEW k \in Weights(spec)
    PROVE  LET sums == PeopleSums(survey, spec, Base(survey, spec))
           IN  /\ PointEstimate(spec.measure, sums, TotalDays(spec), k)
                    = Fraction(survey, q, filters, years, k)
               /\ Fraction(survey, q, filters, years, k) \in Int \X Int
<1> DEFINE B == Base(survey, spec)
           active == Active(survey, spec, B)
           doing == {x \in B : TimeSpent(survey, x, ToSelector(q.activity)) > 0}
           w == WeightOf(survey, spec, k)
           wx == HoursOf(survey, spec, k)
           gw(P) == [x \in P |-> Weight(survey, q.weights, x, k)]
           gx(P) == [x \in P |-> Weight(survey, q.weights, x, k)
                                   * TimeSpent(survey, x, ToSelector(q.activity))]
           sums == PeopleSums(survey, spec, B)
           days == Days(q, filters, years)
           hours == Hours(survey, q, B, k)
<1>1. /\ Proper(survey, spec) /\ spec.weights = q.weights
      /\ spec.activity = ToSelector(q.activity)
  BY DEF Asks
<1>2. IsFiniteSet(B) /\ B \subseteq DOMAIN survey.respondents
  BY <1>1, BaseTypes
<1>3. active = doing /\ active \subseteq B
  BY <1>1 DEF Active
<1>4. IsFiniteSet(active)
  <2> HIDE DEF B, active, doing
  <2> QED BY <1>2, <1>3, FS_Subset
<1>5. \A x \in B : w[x] \in Int
  <2>1. \A x \in B : Weight(survey, spec.weights, x, k) \in Int
    BY <1>1, BaseTypes
  <2> HIDE DEF B
  <2> QED BY <1>2, <2>1 DEF WeightOf
<1>6. ASSUME NEW P \in SUBSET B
      PROVE  /\ Headcount(survey, q, P, k) = SumOf(w, P)
             /\ Hours(survey, q, P, k) = SumOf(wx, P)
  <2>1. IsFiniteSet(P)
    <3> HIDE DEF B
    <3> QED BY <1>2, FS_Subset
  <2>2. /\ \A x \in P : gw(P)[x] = w[x]
        /\ \A x \in P : gx(P)[x] = wx[x]
    <3> HIDE DEF B
    <3> QED BY <1>1, <1>2 DEF WeightOf, HoursOf
  <2>3. Headcount(survey, q, P, k) = SumOf(gw(P), P)
    <3> HIDE DEF B
    <3> QED BY <2>1, HeadcountSum
  <2>4. Hours(survey, q, P, k) = SumOf(gx(P), P)
    <3> HIDE DEF B
    <3> QED BY <2>1, HoursSum
  <2> DEFINE gwP == gw(P)
             gxP == gx(P)
  <2>5. SumOf(gwP, P) = SumOf(w, P)
    <3> HIDE DEF gwP, w, B
    <3> QED BY <2>1, <2>2, SumCongruence DEF gwP
  <2>6. SumOf(gxP, P) = SumOf(wx, P)
    <3> HIDE DEF gxP, wx, B
    <3> QED BY <2>1, <2>2, SumCongruence DEF gxP
  <2> QED BY <2>3, <2>4, <2>5, <2>6
<1>7. SumOf(w, B) \in Int /\ SumOf(w, active) \in Int /\ SumOf(wx, B) \in Int
  <2>1. \A x \in B : wx[x] \in Int
    <3>1. \A x \in B : TimeSpent(survey, x, spec.activity) \in Nat
      BY <1>1, TimeSpentSum DEF Proper
    <3>2. \A x \in B : wx[x] = w[x] * TimeSpent(survey, x, spec.activity)
      BY <1>2 DEF HoursOf, WeightOf
    <3> HIDE DEF w, wx, B
    <3> QED BY <1>5, <3>1, <3>2
  <2> HIDE DEF w, wx, B, active
  <2> QED BY <1>2, <1>3, <1>4, <1>5, <2>1, SumType
<1>8. Cardinality(days) = TotalDays(spec) /\ TotalDays(spec) \in Int
  <2>1. /\ spec.years \in Seq(Nat) /\ spec.population \in Filter /\ q.weights = spec.weights
        /\ years = Range(spec.years)
        /\ \A date \in Nat : OnDay(date, spec.population) <=> \A g \in filters : OnDay(date, g)
    BY DEF Asks, Proper, Means
  <2>2. Cardinality(days) = TotalDays(spec) /\ TotalDays(spec) \in Nat
    BY <2>1, TotalDaysAre
  <2> QED BY <2>2
<1>9. sums.w[k] = SumOf(w, B) /\ sums.wx[k] = SumOf(wx, B) /\ sums.wp[k] = SumOf(w, active)
  <2> HIDE DEF B
  <2> QED BY DEF PeopleSums
<1>10. /\ Headcount(survey, q, B, k) = SumOf(w, B) /\ hours = SumOf(wx, B)
       /\ Headcount(survey, q, doing, k) = SumOf(w, active)
  <2> HIDE DEF B, w, wx, active, doing
  <2> QED BY <1>3, <1>6
<1>11. Fraction(survey, q, filters, years, k) =
         CASE q.measure = "average_minutes_per_day" ->
                <<hours, Headcount(survey, q, B, k)>>
           [] q.measure = "participation_rate" ->
                <<Headcount(survey, q, doing, k), Headcount(survey, q, B, k)>>
           [] q.measure = "average_minutes_per_participant" ->
                <<hours, Headcount(survey, q, doing, k)>>
           [] q.measure = "participants_per_day" ->
                <<Headcount(survey, q, doing, k), Cardinality(days)>>
  <2>1. B = People(survey, q, filters, years)
    BY BaseIsPeople
  <2> HIDE DEF B
  <2> QED BY <2>1 DEF Fraction
<1>12. spec.measure = q.measure
       /\ q.measure \in {"average_minutes_per_day", "participation_rate",
                        "average_minutes_per_participant", "participants_per_day"}
  BY DEF Asks
<1> DEFINE F == Fraction(survey, q, filters, years, k)
           T == TotalDays(spec)
<1> HIDE DEF B, active, doing, w, wx, sums, days, hours, F, T
<1>13. PointEstimate(spec.measure, sums, T, k) = F /\ F \in Int \X Int
  <2>1. CASE q.measure = "average_minutes_per_day"
    BY <1>7, <1>9, <1>10, <1>11, <1>12, <2>1 DEF PointEstimate, F
  <2>2. CASE q.measure = "participation_rate"
    BY <1>7, <1>9, <1>10, <1>11, <1>12, <2>2 DEF PointEstimate, F
  <2>3. CASE q.measure = "average_minutes_per_participant"
    BY <1>7, <1>9, <1>10, <1>11, <1>12, <2>3 DEF PointEstimate, F
  <2>4. CASE q.measure = "participants_per_day"
    BY <1>7, <1>8, <1>9, <1>10, <1>11, <1>12, <2>4 DEF PointEstimate, F, T
  <2> QED BY <1>12, <2>1, <2>2, <2>3, <2>4
<1> QED BY <1>13 DEF F, T, sums, B

\* Someone who is counted was asked on a day that counts.
LEMMA DaysCount ==
    ASSUME NEW survey, NEW spec, NEW q, NEW filters, NEW years,
           Asks(survey, spec, q, filters, years), Base(survey, spec) # {}
    PROVE  TotalDays(spec) > 0
<1> DEFINE f == spec.population
           s == spec.weights
           days == Days(q, filters, years)
<1>1. PICK x \in Base(survey, spec) : TRUE
  OBVIOUS
<1> DEFINE r == survey.respondents[x]
           date == r.date
           t == Traits(survey, x)
<1>2. /\ Proper(survey, spec) /\ years = Range(spec.years) /\ q.weights = s
      /\ x \in DOMAIN survey.respondents /\ r.year \in years
      /\ Belongs(t, f) /\ r.weight[s] \notin {Null, 0}
  <2>1. Proper(survey, spec) /\ years = Range(spec.years) /\ q.weights = s
    BY DEF Asks
  <2>2. x \in DOMAIN survey.respondents /\ r.year \in years
    BY <2>1, BaseTypes
  <2>3. Qualifies(survey, x, f) /\ r.weight[s] # Null /\ r.weight[s] > 0
    BY <1>1 DEF Base
  <2>4. Belongs(t, f)
    BY <2>1, <2>2, <2>3, QualifiesIsBelongs DEF Proper
  <2>5. r.weight[s] \notin {Null, 0}
    BY <2>1, <2>2, <2>3, WeighedWhoCount
  <2> QED BY <2>1, <2>2, <2>4, <2>5
<1>3. date \in Nat /\ r.year = YearOf(date) /\ r.year \in Nat
  BY <1>2, SurveyTypes DEF Proper, Validated
<1>4. s = "pandemic" => date % YearLen \notin GapDays
  BY <1>2 DEF Proper, Validated
<1>5. OnDay(date, f)
  <2>1. t.date = date /\ t.day_type = IF Weekend(date) THEN "weekend" ELSE "weekday"
    BY <1>2, TraitsOf DEF Proper
  <2> HIDE DEF t, date, f
  <2>2. /\ f.day_type \in {Null, t.day_type}
        /\ AtLeast(t.date, f.date_min) /\ AtMost(t.date, f.date_max)
    BY <1>2, BelongsParts
  <2> QED BY <2>1, <2>2 DEF OnDay
<1>6. \A g \in filters : OnDay(date, g)
  BY <1>3, <1>5 DEF Asks, Means
<1>7. date \in r.year * YearLen .. (r.year + 1) * YearLen - 1
  <2> DEFINE n == YearLen
             y == r.year
  <2>1. n \in Nat \ {0}
    BY AnalyticsConstants, Zenon
  <2>2. date \in Nat /\ y = date \div n
    BY <1>3 DEF YearOf
  <2> HIDE DEF n, y, date
  <2>3. y * n <= date /\ date <= (y + 1) * n - 1 /\ y * n \in Int /\ (y + 1) * n - 1 \in Int
    BY <2>1, <2>2
  <2> QED BY <2>2, <2>3 DEF n, y
<1>8. date \in days
  <2> DEFINE Of(y) == y * YearLen .. (y + 1) * YearLen - 1
  <2>1. date \in UNION {Of(y) : y \in years}
    <3>1. date \in Of(r.year)
      BY <1>7
    <3> HIDE DEF Of, date
    <3> QED BY <1>2, <3>1
  <2>2. \A g \in filters :
          /\ AtLeast(date, g.date_min) /\ AtMost(date, g.date_max)
          /\ g.day_type \in {Null, IF Weekend(date) THEN "weekend" ELSE "weekday"}
    BY <1>6 DEF OnDay
  <2> HIDE DEF date
  <2> QED BY <1>2, <1>4, <2>1, <2>2 DEF Days
<1>9. IsFiniteSet(days) /\ Cardinality(days) = TotalDays(spec) /\ TotalDays(spec) \in Nat
  <2>1. /\ spec.years \in Seq(Nat) /\ spec.population \in Filter /\ q.weights = spec.weights
        /\ \A d \in Nat : OnDay(d, spec.population) <=> \A g \in filters : OnDay(d, g)
    BY DEF Asks, Proper, Means
  <2> QED BY <1>2, <2>1, TotalDaysAre
<1> HIDE DEF days
<1>10. Cardinality(days) # 0
  BY <1>8, <1>9, FS_EmptySet
<1> QED BY <1>9, <1>10

\* The questions of a question that have to do with its years and its codes.
Covered(survey, q, years) ==
    LET selector == ToSelector(q.activity)
    IN  /\ \A y \in years : Covers(q.weights, y)
        /\ \A c \in Range(selector.include \o selector.exclude) : KnownCode(survey.lexicon, c)
        /\ Leaves(survey.lexicon, selector) # {}

\* What the engine refuses to prepare.
LEMMA RefusalIs ==
    ASSUME NEW survey, NEW spec, NEW q, spec.activity = ToSelector(q.activity),
           spec.weights = q.weights
    PROVE  /\ Refusal(Known(survey), spec) \in Reason \cup {Null}
           /\ Refusal(Known(survey), spec) = Null <=>
                /\ Range(spec.years) \subseteq Known(survey).years
                /\ Covered(survey, q, Range(spec.years))
BY Nulls DEF Refusal, Covered, Known, Reason

\* A question is answerable if it is covered, people are asked about in each year, and every
\* denominator is positive.
LEMMA AnswerableIs ==
    ASSUME NEW survey, NEW q, NEW filters, NEW years
    PROVE  Answerable(survey, q, filters, years) <=>
             /\ Covered(survey, q, years)
             /\ \A y \in years : People(survey, q, filters, {y}) # {}
             /\ \A k \in Weights(q) : Fraction(survey, q, filters, years, k)[2] > 0
BY DEF Answerable, Covered

\* From the sums over the people: an answer if every denominator is positive.
LEMMA FromSums ==
    ASSUME NEW survey, NEW spec, NEW q, NEW filters, NEW years,
           Asks(survey, spec, q, filters, years), Base(survey, spec) # {}, NEW leaves
    PROVE  LET sums == PeopleSums(survey, spec, Base(survey, spec))
               answer == FromStatistics(spec, leaves, sums)
           IN  IF \A k \in Weights(q) : Fraction(survey, q, filters, years, k)[2] > 0
               THEN /\ answer.refused = Null /\ "values" \in DOMAIN answer
                    /\ answer.n = Cardinality(People(survey, q, filters, years))
                    /\ answer.label = ToSelector(q.activity).label
                    /\ answer.values =
                         [k \in Weights(q) |-> Fraction(survey, q, filters, years, k)]
               ELSE answer = Refuse("insufficient")
<1> DEFINE sums == PeopleSums(survey, spec, Base(survey, spec))
           answer == FromStatistics(spec, leaves, sums)
           T == TotalDays(spec)
           W == Weights(spec)
           F(k) == Fraction(survey, q, filters, years, k)
           fractions == [k \in W |-> F(k)]
           full == [refused |-> Null, years |-> spec.years, label |-> spec.activity.label,
                    leaves |-> leaves, n |-> sums.n, participants |-> sums.participants,
                    days |-> T, people |-> <<sums.w[0], T>>, values |-> fractions]
<1>1. W = Weights(q) /\ spec.activity = ToSelector(q.activity)
  BY DEF Asks, Weights
<1>2. T > 0 /\ T \in Int
  <2>1. T > 0
    BY DaysCount
  <2>2. /\ spec.years \in Seq(Nat) /\ spec.population \in Filter /\ q.weights = spec.weights
        /\ \A d \in Nat : OnDay(d, spec.population) <=> \A g \in filters : OnDay(d, g)
    BY DEF Asks, Proper, Means
  <2>3. T \in Nat
    BY <2>2, TotalDaysAre
  <2> QED BY <2>1, <2>3
<1>3. [k \in W |-> PointEstimate(spec.measure, sums, T, k)] = fractions
      /\ \A k \in W : F(k)[2] \in Int
  <2>1. \A k \in W : PointEstimate(spec.measure, sums, T, k) = F(k) /\ F(k)[2] \in Int
    BY FractionOf
  <2> HIDE DEF W, sums, T, F
  <2> QED BY <2>1
<1>4. sums.n = Cardinality(People(survey, q, filters, years))
  <2>1. Base(survey, spec) = People(survey, q, filters, years)
    BY BaseIsPeople
  <2> QED BY <2>1 DEF PeopleSums
<1> HIDE DEF F
<1>5. answer = CASE T <= 0 -> Refuse("invalid")
                 [] T > 0 /\ \E k \in W : fractions[k][2] <= 0 -> Refuse("insufficient")
                 [] OTHER -> full
  <2> HIDE DEF sums, T, W
  <2> QED BY <1>3 DEF FromStatistics, T, W
<1>6. CASE \A k \in W : F(k)[2] > 0
  <2>1. ~\E k \in W : fractions[k][2] <= 0
    <3> HIDE DEF W
    <3> QED BY <1>3, <1>6
  <2>2. answer = full
    <3> HIDE DEF T, W, full, fractions, answer, sums
    <3> QED BY <1>2, <1>5, <2>1
  <2> HIDE DEF answer, sums, T, W, fractions
  <2> QED BY <1>1, <1>4, <1>6, <2>2 DEF F, fractions, answer, sums
<1>7. CASE ~\A k \in W : F(k)[2] > 0
  <2>1. \E k \in W : fractions[k][2] <= 0
    <3> HIDE DEF W
    <3> QED BY <1>3, <1>7
  <2>2. answer = Refuse("insufficient")
    <3> HIDE DEF T, W, full, fractions, answer, sums
    <3> QED BY <1>2, <1>5, <2>1
  <2> HIDE DEF answer, sums, T, W
  <2> QED BY <1>1, <1>7, <2>2 DEF F, answer, sums
<1> QED BY <1>6, <1>7

\* An estimate is answered exactly if the survey can answer the question, and then with
\* what was asked.
LEMMA EstimateIsTrue ==
    ASSUME NEW survey, NEW spec, NEW q, NEW filters, NEW years,
           Asks(survey, spec, q, filters, years)
    PROVE  LET answer == Estimate(survey, Known(survey), spec)
           IN  /\ TrueEstimate(answer, survey, q, filters, years)
               /\ Answered(answer) =>
                    answer.values = [k \in Weights(q) |-> Fraction(survey, q, filters, years, k)]
<1> DEFINE known == Known(survey)
           leaves == Leaves(known.lexicon, spec.activity)
           stats == Statistics(survey, spec, leaves)
           B == Base(survey, spec)
           answer == Estimate(survey, known, spec)
           refusal == Refusal(known, spec)
           F(k) == Fraction(survey, q, filters, years, k)
<1>1. /\ Proper(survey, spec) /\ Range(spec.years) = years /\ years # {}
      /\ spec.activity = ToSelector(q.activity) /\ spec.weights = q.weights
      /\ Weights(spec) = Weights(q)
  BY DEF Asks, Weights
<1>2. leaves = Leaves(survey.lexicon, spec.activity)
  BY DEF Known
<1>3. /\ refusal \in Reason \cup {Null}
      /\ refusal = Null <=> years \subseteq known.years /\ Covered(survey, q, years)
  BY <1>1, RefusalIs
<1>4. /\ B \subseteq DOMAIN survey.respondents
      /\ \A x \in B : survey.respondents[x].year \in years
  BY <1>1, BaseTypes
<1>5. ASSUME NEW y \in years
      PROVE  ClassOf(B, YearsOf(survey), y) = People(survey, q, filters, {y})
  BY YearIsPeople
<1>6. /\ DOMAIN stats = {survey.respondents[x].year : x \in B}
      /\ \A y \in DOMAIN stats :
           stats[y] = PeopleSums(survey, spec, ClassOf(B, YearsOf(survey), y))
  BY <1>1, <1>2, StatisticsOf
<1>7. \A y \in years : y \in DOMAIN stats <=> People(survey, q, filters, {y}) # {}
  <2>1. \A y \in years : y \in DOMAIN stats <=> ClassOf(B, YearsOf(survey), y) # {}
    <3> HIDE DEF B, stats
    <3> QED BY <1>4, <1>6 DEF ClassOf, YearsOf
  <2> HIDE DEF B, stats
  <2> QED BY <1>5, <2>1
<1>8. DOMAIN stats \subseteq years /\ DOMAIN stats \subseteq known.years
  <2>1. known.years = {survey.respondents[x].year : x \in DOMAIN survey.respondents}
    BY DEF Known
  <2> HIDE DEF B, stats, known
  <2> QED BY <1>4, <1>6, <2>1
<1>9. answer = IF refusal # Null THEN Refuse(refusal)
               ELSE IF DOMAIN stats # years THEN Refuse("insufficient")
               ELSE FromStatistics(spec, leaves, Combine(stats))
  BY <1>1 DEF Estimate
<1>10. Answerable(survey, q, filters, years) <=>
         /\ Covered(survey, q, years) /\ years \subseteq DOMAIN stats
         /\ \A k \in Weights(q) : F(k)[2] > 0
  <2> HIDE DEF stats
  <2> QED BY <1>7, AnswerableIs
<1> HIDE DEF answer, refusal, stats, B, F, known
<1>11. CASE refusal # Null \/ DOMAIN stats # years
  <2>1. answer.refused # Null
    BY <1>3, <1>9, <1>11, Nulls DEF Refuse, Reason
  <2>2. ~Answerable(survey, q, filters, years)
    BY <1>3, <1>8, <1>10, <1>11
  <2> QED BY <2>1, <2>2 DEF TrueEstimate, Answered, answer, known
<1>12. CASE refusal = Null /\ DOMAIN stats = years
  <2>1. B # {}
    BY <1>1, <1>6, <1>12
  <2>2. Combine(stats) = PeopleSums(survey, spec, B)
    BY <1>1, <1>6, <2>1, CombineOf DEF B
  <2> DEFINE computed == FromStatistics(spec, leaves, Combine(stats))
  <2>3. answer = computed
    <3> HIDE DEF computed
    <3> QED BY <1>9, <1>12 DEF computed
  <2>4. IF \A k \in Weights(q) : F(k)[2] > 0
        THEN /\ answer.refused = Null /\ "values" \in DOMAIN answer
             /\ answer.n = Cardinality(People(survey, q, filters, years))
             /\ answer.label = ToSelector(q.activity).label
             /\ answer.values = [k \in Weights(q) |-> F(k)]
        ELSE answer = Refuse("insufficient")
    <3> HIDE DEF leaves
    <3> QED BY <2>1, <2>2, <2>3, FromSums DEF B, F
  <2>5. CASE \A k \in Weights(q) : F(k)[2] > 0
    <3>1. Answerable(survey, q, filters, years)
      BY <1>3, <1>10, <1>12, <2>5
    <3>2. /\ DOMAIN answer.values = Weights(q)
          /\ \A k \in Weights(q) : SameRatio(answer.values[k], F(k))
      BY <2>4, <2>5 DEF SameRatio
    <3> QED BY <2>4, <2>5, <3>1, <3>2 DEF TrueEstimate, Answered, answer, known, F
  <2>6. CASE ~\A k \in Weights(q) : F(k)[2] > 0
    <3>1. ~Answerable(survey, q, filters, years)
      BY <1>10, <2>6
    <3>2. answer.refused # Null
      <4>1. answer = Refuse("insufficient")
        BY <2>4, <2>6
      <4>2. "insufficient" # Null
        BY Nulls
      <4> QED BY <4>1, <4>2 DEF Refuse
    <3> QED BY <3>1, <3>2 DEF TrueEstimate, Answered, answer, known
  <2> QED BY <2>5, <2>6
<1> QED BY <1>11, <1>12

\* What a request's specification is.
LEMMA SpecOf ==
    ASSUME NEW q, WellFormed(q)
    PROVE  /\ ToSpec(q).measure = q.measure /\ ToSpec(q).activity = ToSelector(q.activity)
           /\ ToSpec(q).population = q.population
           /\ ToSpec(q).weights = q.weights /\ ToSpec(q).variance = q.variance
           /\ ToSpec(q).years \in Seq(Nat) /\ Len(ToSpec(q).years) = Len(q.years)
           /\ Range(ToSpec(q).years) = Range(q.years) /\ Range(q.years) # {}
           /\ q.population \in Filter /\ q.weights \in Scheme
           /\ q.variance \in {"replicate", "none"}
           /\ q.measure \in {"average_minutes_per_day", "participation_rate",
                            "average_minutes_per_participant", "participants_per_day"}
<1>1. q \in Requests /\ q.years # <<>>
  BY DEF WellFormed
<1>2. /\ q.population \in Filter /\ q.weights \in Scheme
      /\ q.variance \in {"replicate", "none"} /\ q.years \in Seq(Nat)
      /\ q.measure \in {"average_minutes_per_day", "participation_rate",
                       "average_minutes_per_participant", "participants_per_day"}
  BY <1>1 DEF Requests, Scheme
<1>3. Range(q.years) # {}
  <2>1. 1 \in DOMAIN q.years
    BY <1>1, <1>2
  <2> QED BY <2>1 DEF Range
<1>4. /\ InOrder(q.years) \in Seq(Nat) /\ Len(InOrder(q.years)) = Len(q.years)
      /\ Range(InOrder(q.years)) = Range(q.years)
  BY <1>2, InOrderKeeps
<1> QED BY <1>2, <1>3, <1>4 DEF ToSpec
\* Nobody is asked about by filters that nobody passes.
LEMMA NobodyAsked ==
    ASSUME NEW survey, WellKeyed(survey), NEW q, NEW f \in Filter, NEW g \in Filter,
           Conflicting(f, g) \/ ~ValidFilter(Merge(f, g)), NEW years, years # {}
    PROVE  ~Answerable(survey, q, {f, g}, years)
<1>1. PICK y \in years : TRUE
  OBVIOUS
<1>2. People(survey, q, {f, g}, {y}) = {}
  <2>1. \A x \in DOMAIN survey.respondents :
          ~(Belongs(Traits(survey, x), f) /\ Belongs(Traits(survey, x), g))
    BY NobodyInBoth
  <2> QED BY <2>1 DEF People
<1> QED BY <1>1, <1>2 DEF Answerable

-----------------------------------------------------------------------------
(* Comparisons. *)

LEMMA Opposite ==
    ASSUME NEW a \in Int \X Int, NEW b \in Int \X Int
    PROVE  SameRatio(Minus(<<0, 1>>, Minus(a, b)), Minus(b, a))
<1> DEFINE p == a[1] * b[2]
           r == b[1] * a[2]
           m == a[2] * b[2]
<1>1. p \in Int /\ r \in Int /\ m \in Int /\ b[2] * a[2] = m
  OBVIOUS
<1>2. Minus(a, b) = <<p - r, m>> /\ Minus(b, a) = <<r - p, m>>
  BY <1>1 DEF Minus
<1> HIDE DEF p, r, m
<1>3. Minus(<<0, 1>>, <<p - r, m>>) = <<r - p, m>>
  BY <1>1 DEF Minus
<1> QED BY <1>2, <1>3 DEF SameRatio

\* The first that failed is one that failed.
LEMMA MinIn ==
    ASSUME NEW S, S \subseteq Nat, S # {}
    PROVE  Min(S) \in S
<1>1. \E x \in S : \A y \in S : x <= y
  BY Least
<1> QED BY <1>1 DEF Min

\* The estimate of a group, under the shared filters.
Group(survey, q, g) == Estimate(survey, Known(survey), Refined(ToSpec(q), g))

LEMMA GroupIsTrue ==
    ASSUME NEW survey, WellKeyed(survey), Validated(survey), NEW q, WellFormed(q),
           NEW g \in Filter
    PROVE  IF Contradicts(ToSpec(q), g)
           THEN ~Answerable(survey, q, {q.population, g}, Range(q.years))
           ELSE /\ TrueEstimate(Group(survey, q, g), survey, q, {q.population, g}, Range(q.years))
                /\ Answered(Group(survey, q, g)) =>
                     Group(survey, q, g).values \in [Weights(q) -> Int \X Int]
<1> DEFINE f == q.population
           spec == Refined(ToSpec(q), g)
           years == Range(q.years)
<1>1. /\ f \in Filter /\ years # {} /\ ToSpec(q).population = f
  BY SpecOf
<1>2. CASE Contradicts(ToSpec(q), g)
  <2>1. Conflicting(f, g) \/ ~ValidFilter(Merge(f, g))
    BY <1>1, <1>2 DEF Contradicts, Refined, ToSpec
  <2> QED BY <1>1, <1>2, <2>1, NobodyAsked
<1>3. CASE ~Contradicts(ToSpec(q), g)
  <2>1. ~Conflicting(f, g)
    BY <1>1, <1>3 DEF Contradicts
  <2>2. Means(survey, Merge(f, g), {f, g}) /\ Merge(f, g) \in Filter
    BY <1>1, <2>1, MergeMeans, MergedParts
  <2>3. /\ spec.population = Merge(f, g) /\ spec.years = ToSpec(q).years
        /\ spec.measure = ToSpec(q).measure /\ spec.activity = ToSpec(q).activity
        /\ spec.weights = ToSpec(q).weights /\ spec.variance = ToSpec(q).variance
    <3> HIDE DEF f
    <3> QED BY DEF Refined, ToSpec, f
  <2>4. Asks(survey, spec, q, {f, g}, years)
    <3> HIDE DEF spec
    <3> QED BY <2>2, <2>3, SpecOf DEF Asks, Proper
  <2> HIDE DEF spec, f, years
  <2>5. LET answer == Estimate(survey, Known(survey), spec)
        IN  /\ TrueEstimate(answer, survey, q, {f, g}, years)
            /\ Answered(answer) =>
                 answer.values = [k \in Weights(q) |-> Fraction(survey, q, {f, g}, years, k)]
    BY <2>4, EstimateIsTrue
  <2>6. \A k \in Weights(q) : Fraction(survey, q, {f, g}, years, k) \in Int \X Int
    <3>1. Weights(spec) = Weights(q)
      BY <2>4 DEF Asks, Weights
    <3> QED BY <2>4, <3>1, FractionOf
  <2> QED BY <1>3, <2>5, <2>6 DEF Group, spec, f, years
<1> QED BY <1>2, <1>3

\* What a comparison returns.
LEMMA CompareIs ==
    ASSUME NEW survey, NEW spec, NEW a, NEW b
    PROVE  LET answer == Compare(survey, Known(survey), spec, <<a, b>>)
               first == Estimate(survey, Known(survey), Refined(spec, a))
               second == Estimate(survey, Known(survey), Refined(spec, b))
           IN  IF \/ Contradicts(spec, a) \/ Contradicts(spec, b)
                  \/ ~Answered(first) \/ ~Answered(second)
               THEN ~Answered(answer)
               ELSE answer = [refused |-> Null, a |-> first, b |-> second,
                              difference |-> Difference(first, second)]
<1> DEFINE groups == <<a, b>>
           first == Estimate(survey, Known(survey), Refined(spec, a))
           second == Estimate(survey, Known(survey), Refined(spec, b))
           estimates == [g \in {1, 2} |-> Estimate(survey, Known(survey), Refined(spec, groups[g]))]
           errors == {g \in {1, 2} : ~Answered(estimates[g])}
           answer == Compare(survey, Known(survey), spec, groups)
           whole == [refused |-> Null, a |-> estimates[1], b |-> estimates[2],
                     difference |-> Difference(estimates[1], estimates[2])]
<1>1. estimates[1] = first /\ estimates[2] = second
  OBVIOUS
<1>2. answer = IF \E g \in {1, 2} : Contradicts(spec, groups[g]) THEN Refuse("invalid")
               ELSE IF errors # {} THEN estimates[Min(errors)] ELSE whole
  BY DEF Compare
<1>3. (\E g \in {1, 2} : Contradicts(spec, groups[g])) <=>
        Contradicts(spec, a) \/ Contradicts(spec, b)
  OBVIOUS
<1> HIDE DEF estimates, groups, answer, first, second
<1>4. errors # {} <=> ~Answered(first) \/ ~Answered(second)
  BY <1>1
<1>5. errors # {} => ~Answered(estimates[Min(errors)])
  <2>1. errors \subseteq Nat
    OBVIOUS
  <2> HIDE DEF errors
  <2>2. errors # {} => Min(errors) \in errors
    BY <2>1, MinIn
  <2> QED BY <2>2 DEF errors
<1>6. ~Answered(Refuse("invalid"))
  <2>1. "invalid" # Null
    BY Nulls
  <2> QED BY <2>1 DEF Answered, Refuse
<1>7. CASE \/ Contradicts(spec, a) \/ Contradicts(spec, b)
           \/ ~Answered(first) \/ ~Answered(second)
  <2>1. ~Answered(answer)
    <3> HIDE DEF errors, whole
    <3> QED BY <1>2, <1>3, <1>4, <1>5, <1>6, <1>7
  <2> QED BY <1>7, <2>1 DEF answer, first, second, groups
<1>8. CASE ~(\/ Contradicts(spec, a) \/ Contradicts(spec, b)
             \/ ~Answered(first) \/ ~Answered(second))
  <2>1. answer = whole
    <3> HIDE DEF errors, whole
    <3> QED BY <1>2, <1>3, <1>4, <1>8
  <2>2. whole = [refused |-> Null, a |-> first, b |-> second,
                 difference |-> Difference(first, second)]
    BY <1>1
  <2> HIDE DEF whole
  <2>3. answer = [refused |-> Null, a |-> first, b |-> second,
                  difference |-> Difference(first, second)]
    BY <2>1, <2>2
  <2> QED BY <1>8, <2>3 DEF answer, first, second, groups
<1> QED BY <1>7, <1>8

\* No comparison is wrong.
LEMMA ComparisonIsRight ==
    ASSUME NEW survey, WellKeyed(survey), Validated(survey), NEW q, WellFormed(q),
           q.operation = "compare"
    PROVE  ~WrongComparison(survey, q)
<1> DEFINE a == q.groups[1]
           b == q.groups[2]
           spec == ToSpec(q)
           known == Known(survey)
           forth == Compare(survey, known, spec, q.groups)
           back == Compare(survey, known, spec, <<b, a>>)
           first == Group(survey, q, a)
           second == Group(survey, q, b)
           years == Range(q.years)
           filters(g) == {q.population, q.groups[g]}
           Refusing == \/ Contradicts(spec, a) \/ Contradicts(spec, b)
                       \/ ~Answered(first) \/ ~Answered(second)
<1>1. a \in Filter /\ b \in Filter /\ q.groups = <<a, b>>
  <2>1. q.groups \in {<<>>} \cup (Filter \X Filter) /\ q.groups # <<>>
    BY DEF WellFormed, Requests
  <2> QED BY <2>1
<1>2. IF Refusing THEN ~Answered(forth)
      ELSE forth = [refused |-> Null, a |-> first, b |-> second,
                    difference |-> Difference(first, second)]
  <2> HIDE DEF a, b
  <2> QED BY <1>1, CompareIs DEF Group
<1>3. IF Refusing THEN ~Answered(back)
      ELSE back = [refused |-> Null, a |-> second, b |-> first,
                   difference |-> Difference(second, first)]
  <2> HIDE DEF a, b
  <2> QED BY <1>1, CompareIs DEF Group
<1>4. ASSUME NEW g \in Filter
      PROVE  IF Contradicts(spec, g) THEN ~Answerable(survey, q, {q.population, g}, years)
             ELSE /\ TrueEstimate(Group(survey, q, g), survey, q, {q.population, g}, years)
                  /\ Answered(Group(survey, q, g)) =>
                       Group(survey, q, g).values \in [Weights(q) -> Int \X Int]
  BY GroupIsTrue
<1>5. CASE Refusing
  <2>1. \E g \in {1, 2} : ~Answerable(survey, q, filters(g), years)
    <3>1. ASSUME NEW g \in {1, 2}, Contradicts(spec, q.groups[g])
                                   \/ ~Answered(Group(survey, q, q.groups[g]))
          PROVE  ~Answerable(survey, q, filters(g), years)
      <4> DEFINE h == q.groups[g]
      <4>1. h \in Filter
        BY <1>1
      <4> HIDE DEF h, spec, years
      <4>2. ~Answerable(survey, q, {q.population, h}, years)
        BY <1>4, <3>1, <4>1 DEF TrueEstimate, h
      <4> QED BY <4>2 DEF h
    <3> QED BY <1>5, <3>1
  <2>2. ~Answered(forth) /\ ~Answered(back)
    BY <1>2, <1>3, <1>5
  <2> QED BY <2>1, <2>2 DEF WrongComparison, RightComparison
<1>6. CASE ~Refusing
  <2>1. /\ TrueEstimate(first, survey, q, {q.population, a}, years)
        /\ TrueEstimate(second, survey, q, {q.population, b}, years)
        /\ first.values \in [Weights(q) -> Int \X Int]
        /\ second.values \in [Weights(q) -> Int \X Int]
    <3> HIDE DEF a, b, spec, years
    <3> QED BY <1>1, <1>4, <1>6
  <2>2. /\ forth = [refused |-> Null, a |-> first, b |-> second,
                    difference |-> Difference(first, second)]
        /\ back = [refused |-> Null, a |-> second, b |-> first,
                   difference |-> Difference(second, first)]
    <3> HIDE DEF first, second, forth, back
    <3> QED BY <1>2, <1>3, <1>6
  <2> HIDE DEF first, second, forth, back, a, b, years
  <2>3. /\ Answered(forth) /\ forth.a = first /\ forth.b = second
        /\ forth.difference = Difference(first, second)
        /\ back.difference = Difference(second, first)
    BY <2>2 DEF Answered
  <2>4. /\ DOMAIN Difference(first, second) = Weights(q)
        /\ \A k \in Weights(q) :
             /\ Difference(first, second)[k] = Minus(first.values[k], second.values[k])
             /\ Difference(second, first)[k] = Minus(second.values[k], first.values[k])
    BY <2>1 DEF Difference
  <2>5. \A k \in DOMAIN forth.difference :
          SameRatio(Minus(<<0, 1>>, forth.difference[k]), back.difference[k])
    <3> SUFFICES ASSUME NEW k \in Weights(q)
                 PROVE  SameRatio(Minus(<<0, 1>>, Minus(first.values[k], second.values[k])),
                                  Minus(second.values[k], first.values[k]))
      BY <2>3, <2>4
    <3>1. first.values[k] \in Int \X Int /\ second.values[k] \in Int \X Int
      BY <2>1
    <3> QED BY <3>1, Opposite
  <2>6. RightComparison(forth, back, survey, q)
    BY <2>1, <2>3, <2>5 DEF RightComparison, a, b, years
  <2> QED BY <2>6 DEF WrongComparison, forth, back, a, b
<1> QED BY <1>5, <1>6-----------------------------------------------------------------------------
(* Trends. *)

LEMMA RangeFinite ==
    ASSUME NEW s \in Seq(Nat)
    PROVE  IsFiniteSet(Range(s)) /\ Range(s) \subseteq Nat
<1>1. DOMAIN s = 1 .. Len(s) /\ Len(s) \in Nat
  OBVIOUS
<1>2. IsFiniteSet(DOMAIN s)
  <2> DEFINE n == Len(s)
  <2> HIDE DEF n
  <2> QED BY <1>1, FS_Interval DEF n
<1>3. Range(s) = {s[i] : i \in DOMAIN s}
  BY DEF Range
<1>4. \A i \in DOMAIN s : s[i] \in Nat
  OBVIOUS
<1>5. IsFiniteSet(Range(s))
  BY <1>2, <1>3, FiniteImage
<1> QED BY <1>3, <1>4, <1>5

\* The specification of one year, and its estimate.
OneYear(q, y) == [ToSpec(q) EXCEPT !.years = <<y>>]
ByItself(survey, q, y) == Estimate(survey, Known(survey), OneYear(q, y))

\* The same, of the years that a trend computes.
SupportedYears(q) == [ToSpec(q) EXCEPT !.years = Supported(ToSpec(q))]

LEMMA SupportedAre ==
    ASSUME NEW q, WellFormed(q)
    PROVE  LET s == Supported(ToSpec(q))
           IN  /\ s \in Seq(Nat) /\ (s = <<>> <=> Range(s) = {})
               /\ Range(s) = {y \in Range(q.years) : q.weights = "multiyear" => y # 2020}
<1> DEFINE S == {y \in Range(q.years) : q.weights = "multiyear" => y # 2020}
           s == SetToSeq(S)
<1>1. Supported(ToSpec(q)) = s
  <2>1. S = {y \in Range(ToSpec(q).years) : ToSpec(q).weights = "multiyear" => y # 2020}
    BY SpecOf
  <2> HIDE DEF S
  <2> QED BY <2>1 DEF Supported
<1>2. IsFiniteSet(S) /\ S \subseteq Nat
  <2>1. IsFiniteSet(Range(q.years)) /\ Range(q.years) \subseteq Nat
    BY SpecOf, RangeFinite
  <2>2. S \subseteq Range(q.years)
    OBVIOUS
  <2> HIDE DEF S
  <2> QED BY <2>1, <2>2, FS_Subset
<1> HIDE DEF S
<1>3. s \in Seq(S) /\ Range(s) = S /\ (s = <<>> <=> S = {})
  BY <1>2, SetToSeqOf
<1> HIDE DEF s
<1>4. s \in Seq(Nat)
  <2>1. Len(s) \in Nat /\ s \in [1 .. Len(s) -> S]
    BY <1>3
  <2>2. s \in [1 .. Len(s) -> Nat]
    BY <1>2, <2>1
  <2> QED BY <2>1, <2>2
<1> QED BY <1>1, <1>3, <1>4 DEF S

LEMMA OneYearOf ==
    ASSUME NEW q, WellFormed(q), NEW y
    PROVE  /\ OneYear(q, y).measure = q.measure
           /\ OneYear(q, y).activity = ToSelector(q.activity)
           /\ OneYear(q, y).population = q.population /\ OneYear(q, y).weights = q.weights
           /\ OneYear(q, y).variance = q.variance
           /\ OneYear(q, y).years = <<y>> /\ Range(OneYear(q, y).years) = {y}
<1>1. /\ OneYear(q, y).measure = ToSpec(q).measure
      /\ OneYear(q, y).activity = ToSpec(q).activity
      /\ OneYear(q, y).population = ToSpec(q).population
      /\ OneYear(q, y).weights = ToSpec(q).weights
      /\ OneYear(q, y).variance = ToSpec(q).variance /\ OneYear(q, y).years = <<y>>
  BY DEF OneYear, ToSpec
<1>2. Range(<<y>>) = {y}
  BY DEF Range
<1> QED BY <1>1, <1>2, SpecOf

LEMMA SupportedYearsOf ==
    ASSUME NEW q, WellFormed(q)
    PROVE  /\ SupportedYears(q).measure = q.measure
           /\ SupportedYears(q).activity = ToSelector(q.activity)
           /\ SupportedYears(q).population = q.population
           /\ SupportedYears(q).weights = q.weights /\ SupportedYears(q).variance = q.variance
           /\ SupportedYears(q).years = Supported(ToSpec(q))
<1>1. /\ SupportedYears(q).measure = ToSpec(q).measure
      /\ SupportedYears(q).activity = ToSpec(q).activity
      /\ SupportedYears(q).population = ToSpec(q).population
      /\ SupportedYears(q).weights = ToSpec(q).weights
      /\ SupportedYears(q).variance = ToSpec(q).variance
      /\ SupportedYears(q).years = Supported(ToSpec(q))
  BY DEF SupportedYears, ToSpec
<1> QED BY <1>1, SpecOf

\* One year of a question is asked like the question.
LEMMA AsksOneYear ==
    ASSUME NEW survey, WellKeyed(survey), Validated(survey), NEW q, WellFormed(q),
           NEW y \in Range(q.years)
    PROVE  Asks(survey, OneYear(q, y), q, {q.population}, {y})
<1> DEFINE spec == OneYear(q, y)
<1>1. y \in Nat
  BY SpecOf, RangeFinite
<1>2. /\ spec.measure = q.measure /\ spec.activity = ToSelector(q.activity)
      /\ spec.population = q.population /\ spec.weights = q.weights
      /\ spec.variance = q.variance /\ Range(spec.years) = {y} /\ spec.years = <<y>>
  BY OneYearOf
<1> HIDE DEF spec
<1>3. Means(survey, q.population, {q.population})
  BY MeansItself
<1>4. spec.years \in Seq(Nat)
  BY <1>1, <1>2
<1>5. Proper(survey, spec)
  BY <1>2, <1>4, SpecOf DEF Proper
<1>6. Asks(survey, spec, q, {q.population}, {y})
  BY <1>2, <1>3, <1>5, SpecOf DEF Asks
<1> QED BY <1>6 DEF spec

\* Statistics that are the sums over the people of each year.
YearlySums(survey, spec, stats) ==
    LET B == Base(survey, spec)
    IN  /\ DOMAIN stats = {survey.respondents[x].year : x \in B}
        /\ \A y \in DOMAIN stats :
             stats[y] = PeopleSums(survey, spec, ClassOf(B, YearsOf(survey), y))

LEMMA StatisticsAre ==
    ASSUME NEW survey, NEW spec, Proper(survey, spec),
           NEW leaves, leaves = Leaves(survey.lexicon, spec.activity)
    PROVE  YearlySums(survey, spec, Statistics(survey, spec, leaves))
BY StatisticsOf DEF YearlySums

\* The statistics of a year are those that it would have alone.
LEMMA YearAlone ==
    ASSUME NEW survey, WellKeyed(survey), Validated(survey), NEW q, WellFormed(q),
           NEW leaves, leaves = Leaves(survey.lexicon, ToSelector(q.activity)),
           NEW y \in Range(Supported(ToSpec(q)))
    PROVE  LET stats == Statistics(survey, SupportedYears(q), leaves)
               own == Statistics(survey, OneYear(q, y), leaves)
           IN  /\ DOMAIN own = IF y \in DOMAIN stats THEN {y} ELSE {}
               /\ y \in DOMAIN stats => Combine(own) = stats[y]
<1> DEFINE all == SupportedYears(q)
           one == OneYear(q, y)
           stats == Statistics(survey, all, leaves)
           own == Statistics(survey, one, leaves)
           BA == Base(survey, all)
           BO == Base(survey, one)
<1>1. Proper(survey, all) /\ Proper(survey, one)
  <2>1. y \in Nat
    BY SupportedAre, SpecOf, RangeFinite
  <2>2. Proper(survey, all)
    BY SupportedAre, SupportedYearsOf, SpecOf DEF Proper
  <2>3. one.years \in Seq(Nat)
    <3>1. one.years = <<y>>
      BY OneYearOf
    <3> HIDE DEF one
    <3> QED BY <2>1, <3>1
  <2>4. Proper(survey, one)
    BY <2>3, OneYearOf, SpecOf DEF Proper
  <2> QED BY <2>2, <2>4
<1>2. /\ all.activity = one.activity /\ all.population = one.population
      /\ all.weights = one.weights /\ all.variance = one.variance
      /\ Range(one.years) = {y} /\ y \in Range(all.years)
      /\ leaves = Leaves(survey.lexicon, all.activity)
      /\ leaves = Leaves(survey.lexicon, one.activity)
  BY SupportedYearsOf, OneYearOf
<1> HIDE DEF all, one
<1>3. /\ BA \subseteq DOMAIN survey.respondents /\ BO \subseteq DOMAIN survey.respondents
      /\ \A x \in BO : survey.respondents[x].year = y
  BY <1>1, <1>2, BaseTypes
<1>4. BO = ClassOf(BA, YearsOf(survey), y)
  <2>1. \A x \in BA : YearsOf(survey)[x] = survey.respondents[x].year
    BY <1>3 DEF YearsOf
  <2>2. \A x \in DOMAIN survey.respondents :
          x \in BO <=> x \in BA /\ survey.respondents[x].year = y
    BY <1>2 DEF Base
  <2> HIDE DEF BA, BO
  <2> QED BY <1>3, <2>1, <2>2 DEF ClassOf
<1>5. /\ DOMAIN stats = {survey.respondents[x].year : x \in BA}
      /\ \A z \in DOMAIN stats :
           stats[z] = PeopleSums(survey, all, ClassOf(BA, YearsOf(survey), z))
      /\ DOMAIN own = {survey.respondents[x].year : x \in BO}
      /\ \A z \in DOMAIN own :
           own[z] = PeopleSums(survey, one, ClassOf(BO, YearsOf(survey), z))
  <2>1. YearlySums(survey, all, stats) /\ YearlySums(survey, one, own)
    BY <1>1, <1>2, StatisticsAre
  <2> HIDE DEF stats, own
  <2> QED BY <2>1 DEF YearlySums
<1>6. y \in DOMAIN stats <=> BO # {}
  <2> HIDE DEF BA, BO, stats, own
  <2> QED BY <1>3, <1>4, <1>5 DEF ClassOf, YearsOf
<1>7. DOMAIN own = IF BO # {} THEN {y} ELSE {}
  <2> HIDE DEF BA, BO, stats, own
  <2> QED BY <1>3, <1>5
<1>8. BO # {} => Combine(own) = PeopleSums(survey, one, BO)
  <2> HIDE DEF stats, own
  <2> QED BY <1>1, <1>5, CombineOf
<1>9. PeopleSums(survey, one, BO) = PeopleSums(survey, all, BO)
  BY <1>2 DEF PeopleSums, Active, WeightOf, HoursOf, Weights
<1> HIDE DEF BA, BO, stats, own
<1>10. /\ DOMAIN own = IF y \in DOMAIN stats THEN {y} ELSE {}
       /\ y \in DOMAIN stats => Combine(own) = stats[y]
  BY <1>4, <1>5, <1>6, <1>7, <1>8, <1>9
<1> QED BY <1>10 DEF stats, own, all, one
LEMMA CoveredByYear ==
    ASSUME NEW survey, NEW q, NEW years, years # {}
    PROVE  Covered(survey, q, years) <=> \A y \in years : Covered(survey, q, {y})
BY DEF Covered

\* The estimate of one year: refused, or from its own statistics.
LEMMA AloneIs ==
    ASSUME NEW survey, NEW q, WellFormed(q), NEW leaves,
           leaves = Leaves(survey.lexicon, ToSelector(q.activity)), NEW y
    PROVE  LET own == Statistics(survey, OneYear(q, y), leaves)
           IN  IF ~(y \in Known(survey).years /\ Covered(survey, q, {y})) \/ DOMAIN own # {y}
               THEN ~Answered(ByItself(survey, q, y))
               ELSE ByItself(survey, q, y) = FromStatistics(OneYear(q, y), leaves, Combine(own))
<1> DEFINE spec == OneYear(q, y)
           known == Known(survey)
           own == Statistics(survey, spec, leaves)
           refusal == Refusal(known, spec)
           answer == ByItself(survey, q, y)
           computed == FromStatistics(spec, leaves, Combine(own))
<1>1. /\ spec.activity = ToSelector(q.activity) /\ spec.weights = q.weights
      /\ Range(spec.years) = {y}
  BY OneYearOf
<1>2. /\ refusal \in Reason \cup {Null}
      /\ refusal = Null <=> y \in known.years /\ Covered(survey, q, {y})
  <2> HIDE DEF spec
  <2> QED BY <1>1, RefusalIs
<1>3. leaves = Leaves(known.lexicon, spec.activity)
  BY <1>1 DEF Known
<1>4. answer = IF refusal # Null THEN Refuse(refusal)
               ELSE IF DOMAIN own # {y} THEN Refuse("insufficient") ELSE computed
  <2> HIDE DEF spec, known
  <2> QED BY <1>1, <1>3 DEF Estimate, ByItself, spec, known
<1> HIDE DEF answer, refusal, computed, own
<1>5. refusal # Null => ~Answered(Refuse(refusal))
  BY DEF Answered, Refuse
<1>6. ~Answered(Refuse("insufficient"))
  <2>1. "insufficient" # Null
    BY Nulls
  <2> QED BY <2>1 DEF Answered, Refuse
<1>7. IF ~(y \in known.years /\ Covered(survey, q, {y})) \/ DOMAIN own # {y}
      THEN ~Answered(answer) ELSE answer = computed
  BY <1>2, <1>4, <1>5, <1>6
<1> QED BY <1>7 DEF answer, computed, own, spec, known

LEMMA PreparedAre ==
    ASSUME NEW q, WellFormed(q)
    PROVE  LET spec == Prepared(ToSpec(q))
               s == Supported(ToSpec(q))
           IN  /\ spec.activity = ToSelector(q.activity) /\ spec.weights = q.weights
               /\ Range(spec.years) \subseteq Range(q.years) /\ Range(spec.years) # {}
               /\ Range(s) # {} => Range(spec.years) = Range(s)
<1> DEFINE s == Supported(ToSpec(q))
           spec == Prepared(ToSpec(q))
<1>1. /\ (s = <<>> <=> Range(s) = {}) /\ Range(s) \subseteq Range(q.years)
  BY SupportedAre
<1>2. /\ spec.activity = ToSpec(q).activity /\ spec.weights = ToSpec(q).weights
      /\ spec.years = IF s = <<>> THEN ToSpec(q).years ELSE s
  <2> HIDE DEF s
  <2> QED BY DEF Prepared, ToSpec, s
<1>3. /\ ToSpec(q).activity = ToSelector(q.activity) /\ ToSpec(q).weights = q.weights
      /\ Range(ToSpec(q).years) = Range(q.years) /\ Range(q.years) # {}
  BY SpecOf
<1> HIDE DEF s, spec
<1>4. /\ spec.activity = ToSelector(q.activity) /\ spec.weights = q.weights
      /\ Range(spec.years) \subseteq Range(q.years) /\ Range(spec.years) # {}
      /\ Range(s) # {} => Range(spec.years) = Range(s)
  BY <1>1, <1>2, <1>3
<1> QED BY <1>4 DEF s, spec

\* A point of a trend: what the estimate of its year alone is, or left out as that is refused.
Point(survey, q, leaves, stats, y) ==
    CASE y \notin Range(Supported(ToSpec(q))) -> Refuse("unsupported")
      [] y \in Range(Supported(ToSpec(q))) \ DOMAIN stats -> Refuse("no respondents")
      [] OTHER -> FromStatistics(OneYear(q, y), leaves, stats[y])

LEMMA PointIs ==
    ASSUME NEW survey, WellKeyed(survey), Validated(survey), NEW q, WellFormed(q),
           NEW leaves, leaves = Leaves(survey.lexicon, ToSelector(q.activity)),
           NEW stats, stats = Statistics(survey, SupportedYears(q), leaves),
           Refusal(Known(survey), Prepared(ToSpec(q))) = Null, NEW y \in Range(q.years)
    PROVE  LET point == Point(survey, q, leaves, stats, y)
               alone == ByItself(survey, q, y)
           IN  /\ Answered(point) => point = alone
               /\ ~Answered(point) => ~Answered(alone)
               /\ point.refused \in {"invalid", "insufficient"} => point = alone
<1> DEFINE point == Point(survey, q, leaves, stats, y)
           alone == ByItself(survey, q, y)
           S == Range(Supported(ToSpec(q)))
           own == Statistics(survey, OneYear(q, y), leaves)
           spec == Prepared(ToSpec(q))
           computed == FromStatistics(OneYear(q, y), leaves, stats[y])
<1>1. point = CASE y \notin S -> Refuse("unsupported")
                [] y \in S \ DOMAIN stats -> Refuse("no respondents")
                [] OTHER -> computed
  BY DEF Point
<1>2. IF ~(y \in Known(survey).years /\ Covered(survey, q, {y})) \/ DOMAIN own # {y}
      THEN ~Answered(alone)
      ELSE alone = FromStatistics(OneYear(q, y), leaves, Combine(own))
  BY AloneIs
<1> HIDE DEF point, alone, computed
<1>3. CASE y \notin S
  <2>1. y = 2020 /\ q.weights = "multiyear"
    BY <1>3, SupportedAre
  <2>2. ~Covered(survey, q, {y})
    BY <2>1 DEF Covered, Covers
  <2>3. point = Refuse("unsupported") /\ "unsupported" # Null
    BY <1>1, <1>3, Nulls
  <2>4. point.refused = "unsupported"
    BY <2>3 DEF Refuse
  <2> QED BY <1>2, <2>2, <2>3, <2>4 DEF Answered, point, alone
<1>4. CASE y \in S
  <2>1. /\ DOMAIN own = IF y \in DOMAIN stats THEN {y} ELSE {}
        /\ y \in DOMAIN stats => Combine(own) = stats[y]
    BY <1>4, YearAlone
  <2>2. CASE y \notin DOMAIN stats
    <3>1. point = Refuse("no respondents") /\ "no respondents" # Null
      BY <1>1, <1>4, <2>2, Nulls
    <3>2. point.refused = "no respondents"
      BY <3>1 DEF Refuse
    <3>3. DOMAIN own # {y}
      <4> HIDE DEF own
      <4> QED BY <2>1, <2>2
    <3> QED BY <1>2, <3>1, <3>2, <3>3 DEF Answered, point, alone
  <2>3. CASE y \in DOMAIN stats
    <3>1. point = computed
      BY <1>1, <1>4, <2>3
    <3>2. Covered(survey, q, {y}) /\ y \in Known(survey).years
      <4>1. Range(spec.years) = S
        BY <1>4, PreparedAre
      <4>2. S \subseteq Known(survey).years /\ Covered(survey, q, S)
        <5>1. /\ spec.activity = ToSelector(q.activity) /\ spec.weights = q.weights
              /\ Refusal(Known(survey), spec) = Null
          BY PreparedAre
        <5> HIDE DEF spec
        <5> QED BY <4>1, <5>1, RefusalIs
      <4> HIDE DEF S
      <4> QED BY <1>4, <4>2, CoveredByYear
    <3>3. DOMAIN own = {y} /\ Combine(own) = stats[y]
      BY <2>1, <2>3
    <3>4. point = alone
      <4> HIDE DEF own
      <4> QED BY <1>2, <3>1, <3>2, <3>3 DEF computed
    <3> QED BY <3>4 DEF point, alone
  <2> QED BY <2>2, <2>3
<1> QED BY <1>3, <1>4
\* What a trend computes for its years, in their order.
Points(survey, q) ==
    LET leaves == Leaves(survey.lexicon, ToSelector(q.activity))
        stats == Statistics(survey, SupportedYears(q), leaves)
    IN  [i \in DOMAIN ToSpec(q).years |->
           Point(survey, q, leaves, stats, ToSpec(q).years[i])]

\* The points that end a trend.
Errors(points) == {i \in DOMAIN points : points[i].refused \in {"invalid", "insufficient"}}

LEMMA TrendIs ==
    ASSUME NEW survey, NEW q
    PROVE  LET refusal == Refusal(Known(survey), Prepared(ToSpec(q)))
               points == Points(survey, q)
           IN  Trend(survey, Known(survey), ToSpec(q)) =
                 IF refusal # Null THEN Refuse(refusal)
                 ELSE IF Errors(points) # {} THEN points[Min(Errors(points))]
                 ELSE [refused |-> Null, points |-> points]
<1>1. Known(survey).lexicon = survey.lexicon /\ ToSpec(q).activity = ToSelector(q.activity)
  BY DEF Known, ToSpec
<1> QED BY <1>1 DEF Trend, Points, Point, Errors, SupportedYears, OneYear

\* A year of an unprepared trend that the survey does not have or whose weights or activity
\* are unsupported is refused alone too.
LEMMA RefusedTrend ==
    ASSUME NEW survey, NEW q, WellFormed(q),
           Refusal(Known(survey), Prepared(ToSpec(q))) # Null
    PROVE  \E y \in Range(q.years) : ~Answered(ByItself(survey, q, y))
<1> DEFINE spec == Prepared(ToSpec(q))
           leaves == Leaves(survey.lexicon, ToSelector(q.activity))
<1>1. /\ spec.activity = ToSelector(q.activity) /\ spec.weights = q.weights
      /\ Range(spec.years) \subseteq Range(q.years) /\ Range(spec.years) # {}
      /\ Refusal(Known(survey), spec) # Null
  BY PreparedAre
<1> HIDE DEF spec
<1>2. ~(Range(spec.years) \subseteq Known(survey).years /\ Covered(survey, q, Range(spec.years)))
  BY <1>1, RefusalIs
<1> DEFINE Y == Range(spec.years)
<1>3. Y \subseteq Range(q.years) /\ Y # {}
  BY <1>1
<1> HIDE DEF Y
<1>4. Covered(survey, q, Y) <=> \A y \in Y : Covered(survey, q, {y})
  BY <1>3, CoveredByYear
<1>5. PICK y \in Y : ~(y \in Known(survey).years /\ Covered(survey, q, {y}))
  BY <1>2, <1>4 DEF Y
<1>6. ~Answered(ByItself(survey, q, y))
  BY <1>5, AloneIs
<1> QED BY <1>3, <1>5, <1>6

\* A trend's points are the estimates of its years one by one, and it is refused only if one
\* of them is.
LEMMA TrendIsRight ==
    ASSUME NEW survey, WellKeyed(survey), Validated(survey), NEW q, WellFormed(q)
    PROVE  LET trend == Trend(survey, Known(survey), ToSpec(q))
               years == ToSpec(q).years
           IN  IF ~Answered(trend) THEN \E y \in Range(q.years) : ~Answered(ByItself(survey, q, y))
               ELSE /\ DOMAIN trend = {"refused", "points"}
                    /\ trend.points \in Seq(Range(trend.points))
                    /\ DOMAIN trend.points = DOMAIN years
                    /\ \A i \in DOMAIN years :
                         IF Answered(trend.points[i])
                         THEN trend.points[i] = ByItself(survey, q, years[i])
                         ELSE ~Answered(ByItself(survey, q, years[i]))
<1> DEFINE years == ToSpec(q).years
           leaves == Leaves(survey.lexicon, ToSelector(q.activity))
           stats == Statistics(survey, SupportedYears(q), leaves)
           points == Points(survey, q)
           refusal == Refusal(Known(survey), Prepared(ToSpec(q)))
           trend == Trend(survey, Known(survey), ToSpec(q))
           E == Errors(points)
<1>1. trend = IF refusal # Null THEN Refuse(refusal)
              ELSE IF E # {} THEN points[Min(E)] ELSE [refused |-> Null, points |-> points]
  BY TrendIs
<1>2. /\ years \in Seq(Nat) /\ Range(years) = Range(q.years)
      /\ \A i \in DOMAIN years : years[i] \in Range(q.years)
  <2>1. years \in Seq(Nat) /\ Range(years) = Range(q.years)
    BY SpecOf
  <2> HIDE DEF years
  <2> QED BY <2>1 DEF Range
<1>3. /\ DOMAIN points = DOMAIN years
      /\ \A i \in DOMAIN years : points[i] = Point(survey, q, leaves, stats, years[i])
  BY DEF Points
<1>4. refusal = Null => \A i \in DOMAIN years :
        /\ Answered(points[i]) => points[i] = ByItself(survey, q, years[i])
        /\ ~Answered(points[i]) => ~Answered(ByItself(survey, q, years[i]))
        /\ points[i].refused \in {"invalid", "insufficient"} =>
             points[i] = ByItself(survey, q, years[i])
  <2> SUFFICES ASSUME refusal = Null, NEW i \in DOMAIN years
               PROVE  /\ Answered(points[i]) => points[i] = ByItself(survey, q, years[i])
                      /\ ~Answered(points[i]) => ~Answered(ByItself(survey, q, years[i]))
                      /\ points[i].refused \in {"invalid", "insufficient"} =>
                           points[i] = ByItself(survey, q, years[i])
    OBVIOUS
  <2> DEFINE y == years[i]
  <2>1. y \in Range(q.years) /\ points[i] = Point(survey, q, leaves, stats, y)
    BY <1>2, <1>3
  <2> HIDE DEF points, y
  <2>2. /\ Answered(points[i]) => points[i] = ByItself(survey, q, y)
        /\ ~Answered(points[i]) => ~Answered(ByItself(survey, q, y))
        /\ points[i].refused \in {"invalid", "insufficient"} =>
             points[i] = ByItself(survey, q, y)
    BY <2>1, PointIs
  <2> QED BY <2>2 DEF y
<1>5. CASE refusal # Null
  <2>1. ~Answered(trend)
    <3>1. trend = Refuse(refusal)
      BY <1>1, <1>5
    <3> HIDE DEF trend, refusal
    <3> QED BY <1>5, <3>1 DEF Refuse, Answered
  <2>2. \E y \in Range(q.years) : ~Answered(ByItself(survey, q, y))
    BY <1>5, RefusedTrend
  <2> QED BY <2>1, <2>2
<1>6. CASE refusal = Null /\ E # {}
  <2> DEFINE i == Min(E)
  <2>1. i \in DOMAIN years /\ points[i].refused \in {"invalid", "insufficient"}
    <3>1. E \subseteq DOMAIN years /\ DOMAIN years \subseteq Nat
      BY <1>2, <1>3 DEF Errors
    <3>2. \A j \in E : points[j].refused \in {"invalid", "insufficient"}
      BY DEF Errors
    <3> HIDE DEF E, points, years
    <3> QED BY <1>6, <3>1, <3>2, MinIn
  <2>2. trend = points[i]
    BY <1>1, <1>6
  <2> HIDE DEF i, trend, points, years, refusal
  <2>3. points[i] = ByItself(survey, q, years[i]) /\ years[i] \in Range(q.years)
    BY <1>2, <1>4, <1>6, <2>1
  <2>4. ~Answered(points[i])
    <3>1. "invalid" # Null /\ "insufficient" # Null
      BY Nulls
    <3> QED BY <2>1, <3>1 DEF Answered
  <2>5. ~Answered(trend) /\ \E y \in Range(q.years) : ~Answered(ByItself(survey, q, y))
    BY <2>2, <2>3, <2>4
  <2> QED BY <2>5 DEF trend
<1>7. CASE refusal = Null /\ E = {}
  <2>1. trend = [refused |-> Null, points |-> points]
    BY <1>1, <1>7
  <2> HIDE DEF trend, points, years, refusal
  <2>2. Answered(trend) /\ DOMAIN trend = {"refused", "points"} /\ trend.points = points
    BY <2>1 DEF Answered
  <2>3. points \in Seq(Range(points))
    <3>1. points = [i \in 1 .. Len(years) |-> points[i]] /\ Len(years) \in Nat
      <4>1. DOMAIN years = 1 .. Len(years) /\ Len(years) \in Nat
        BY <1>2
      <4>2. points = [i \in DOMAIN years |-> points[i]]
        BY DEF Points, points, years
      <4> QED BY <4>1, <4>2
    <3>2. \A i \in 1 .. Len(years) : points[i] \in Range(points)
      BY <3>1 DEF Range
    <3> HIDE DEF E
    <3> QED BY <3>1, <3>2
  <2>4. \A i \in DOMAIN years :
          IF Answered(points[i]) THEN points[i] = ByItself(survey, q, years[i])
          ELSE ~Answered(ByItself(survey, q, years[i]))
    BY <1>4, <1>7
  <2>5. /\ Answered(trend)
        /\ DOMAIN trend = {"refused", "points"} /\ trend.points \in Seq(Range(trend.points))
        /\ DOMAIN trend.points = DOMAIN years
        /\ \A i \in DOMAIN years :
             IF Answered(trend.points[i]) THEN trend.points[i] = ByItself(survey, q, years[i])
             ELSE ~Answered(ByItself(survey, q, years[i]))
    BY <1>3, <2>2, <2>3, <2>4
  <2> QED BY <2>5 DEF trend, years
<1> QED BY <1>5, <1>6, <1>7
-----------------------------------------------------------------------------
(* What the engine answers on any survey. *)

\* A survey that the questions are checked on, and a question.
LEMMA AskedOf ==
    ASSUME NEW operation, NEW w \in Asked(operation)
    PROVE  /\ WellKeyed(w[1]) /\ Validated(w[1])
           /\ WellFormed(w[2]) /\ w[2].operation = operation
<1>1. PICK survey \in UNION Range(Surveys),
           q \in {asked \in Questions : asked.operation = operation} : w = <<survey, q>>
  BY DEF Asked
<1>2. w[1] = survey /\ w[2] = q /\ q \in Questions /\ q.operation = operation
  BY <1>1
<1>3. \A s \in UNION Range(Surveys) : WellKeyed(s) /\ Validated(s)
  BY AnalysesConstants, Zenon
<1>4. \A r \in Request \cup Questions : WellFormed(r)
  BY AnalysesConstants, Zenon
<1> QED BY <1>2, <1>3, <1>4

LEMMA NoWrongTrend ==
    ASSUME NEW survey, WellKeyed(survey), Validated(survey), NEW q, WellFormed(q),
           q.operation = "trend"
    PROVE  ~WrongTrend(survey, q)
<1> DEFINE trend == Trend(survey, Known(survey), ToSpec(q))
           years == ToSpec(q).years
           alone == [y \in Range(q.years) |-> ByItself(survey, q, y)]
<1>1. Run(survey, Known(survey), JobOf(q)) = trend
  BY DEF Run, JobOf
<1>2. alone = [y \in Range(q.years) |->
                 Estimate(survey, Known(survey), [ToSpec(q) EXCEPT !.years = <<y>>])]
  BY DEF ByItself, OneYear
<1>3. IF ~Answered(trend) THEN \E y \in Range(q.years) : ~Answered(ByItself(survey, q, y))
      ELSE /\ DOMAIN trend.points = DOMAIN years
           /\ \A i \in DOMAIN years :
                IF Answered(trend.points[i])
                THEN trend.points[i] = ByItself(survey, q, years[i])
                ELSE ~Answered(ByItself(survey, q, years[i]))
  <2> HIDE DEF trend, years
  <2> QED BY TrendIsRight DEF trend, years
<1>4. \A i \in DOMAIN years : years[i] \in Range(q.years)
  <2>1. Range(years) = Range(q.years)
    BY SpecOf
  <2> HIDE DEF years
  <2> QED BY <2>1 DEF Range
<1>5. \A y \in Range(q.years) : alone[y] = ByItself(survey, q, y)
  OBVIOUS
<1> HIDE DEF trend, years
<1>6. ~ IF ~Answered(trend) THEN \A y \in Range(q.years) : Answered(alone[y])
        ELSE \E i \in DOMAIN trend.points :
               IF Answered(trend.points[i]) THEN trend.points[i] # alone[years[i]]
               ELSE Answered(alone[years[i]])
  <2> HIDE DEF alone
  <2> QED BY <1>3, <1>4, <1>5
<1> HIDE DEF alone
<1> QED BY <1>1, <1>2, <1>6 DEF WrongTrend, years

\* A trend's points are the estimates of its years one by one, whatever the data is and
\* whichever data is served.
THEOREM TrendIsEstimatesHolds == AnalysesSpec => []TrendIsEstimates
<1>1. WrongTrends = {}
  BY AskedOf, NoWrongTrend DEF WrongTrends
<1>2. TrendIsEstimates
  BY <1>1 DEF TrendIsEstimates
<1> QED BY <1>2, PTL

\* A comparison is of the people in the population and the group, exchanged it is the
\* opposite, and it is refused only for a reason of one of its estimates.
THEOREM ComparisonIsFairHolds == AnalysesSpec => []ComparisonIsFair
<1>1. WrongComparisons = {}
  BY AskedOf, ComparisonIsRight DEF WrongComparisons
<1>2. ComparisonIsFair
  BY <1>1 DEF ComparisonIsFair
<1> QED BY <1>2, PTL
-----------------------------------------------------------------------------
(* The serving database answers like the full one that it was built from. *)

LEMMA ServingTables ==
    ASSUME NEW survey
    PROVE  LET tables == Serving(survey)
           IN  /\ tables.respondents = survey.respondents /\ tables.lexicon = survey.lexicon
               /\ tables.roster = {m \in survey.roster : m.line = 1}
               /\ tables.cps = {c \in survey.cps : c.line = 1}
               /\ Known(tables) = Known(survey)
BY DEF Serving, Known

\* A minute sum of the builder's.
LEMMA MinutesType ==
    ASSUME NEW survey, WellKeyed(survey), NEW x, NEW code
    PROVE  LET S == {e \in survey.activities : e.who = x /\ e.code = code}
           IN  /\ IsFiniteSet(S) /\ Minutes(survey, x, code) = SumOf([e \in S |-> e.minutes], S)
               /\ Minutes(survey, x, code) \in Nat
<1> DEFINE S == {e \in survey.activities : e.who = x /\ e.code = code}
           g == [e \in S |-> e.minutes]
<1>1. IsFiniteSet(S)
  <2>1. S \subseteq survey.activities /\ IsFiniteSet(survey.activities)
    BY SurveyTypes
  <2> HIDE DEF S
  <2> QED BY <2>1, FS_Subset
<1>2. Minutes(survey, x, code) = SumOf(g, S)
  <2>1. Minutes(survey, x, code) = MapThenSumSet(LAMBDA e : e.minutes, S)
    BY DEF Minutes
  <2> HIDE DEF S
  <2> QED BY <1>1, <2>1, MinutesSum
<1>3. \A e \in S : g[e] \in Nat
  BY SurveyTypes
<1>4. SumOf(g, S) \in Nat
  <2> HIDE DEF S, g
  <2> QED BY <1>1, <1>3, SumNat
<1> QED BY <1>1, <1>2, <1>4

\* The one row of a respondent and a code.
Episodes(survey, x, code) ==
    [who |-> x, number |-> 0, code |-> code, minutes |-> Minutes(survey, x, code)]

LEMMA ServingKeyed ==
    ASSUME NEW survey, WellKeyed(survey)
    PROVE  WellKeyed(Serving(survey))
<1> DEFINE tables == Serving(survey)
           row == [e \in survey.activities |-> Episodes(survey, e.who, e.code)]
<1>1. tables.activities = {row[e] : e \in survey.activities}
  BY DEF Serving, Episodes
<1>2. IsFiniteSet(tables.activities)
  <2>1. IsFiniteSet(survey.activities)
    BY SurveyTypes
  <2> HIDE DEF row, tables
  <2> QED BY <1>1, <2>1, FiniteImage
<1>3. /\ tables.respondents = survey.respondents /\ tables.lexicon = survey.lexicon
      /\ tables.roster \subseteq survey.roster /\ tables.cps \subseteq survey.cps
  BY ServingTables
<1>4. ASSUME NEW t \in tables.activities
      PROVE  /\ t.who \in DOMAIN survey.respondents /\ t.code \in survey.lexicon
             /\ t.minutes \in Nat
  <2>1. PICK e \in survey.activities : t = Episodes(survey, e.who, e.code)
    BY <1>1, <1>4
  <2>2. t.who = e.who /\ t.code = e.code /\ t.minutes = Minutes(survey, e.who, e.code)
    BY <2>1 DEF Episodes
  <2>3. e.who \in DOMAIN survey.respondents /\ e.code \in survey.lexicon
    BY DEF WellKeyed
  <2>4. Minutes(survey, e.who, e.code) \in Nat
    BY MinutesType
  <2> QED BY <2>2, <2>3, <2>4
<1> HIDE DEF tables
<1>5. WellKeyed(tables)
  <2>1. /\ IsFiniteSet(DOMAIN tables.respondents)
        /\ \A x \in DOMAIN tables.respondents :
             tables.respondents[x] \in [year : Nat, date : Nat, children : Maybe(Nat),
                                        weight : [Scheme -> Maybe(Nat)]]
    BY <1>3 DEF WellKeyed
  <2>2. \A t \in {tables.roster, tables.cps} : \A m, n \in t :
          m.who = n.who /\ m.line = n.line => m = n
    <3>1. \A t \in {survey.roster, survey.cps} : \A m, n \in t :
            m.who = n.who /\ m.line = n.line => m = n
      BY DEF WellKeyed
    <3> QED BY <1>3, <3>1
  <2>3. \A m \in tables.roster : m.age \in Maybe(Nat)
    BY <1>3 DEF WellKeyed
  <2> QED BY <1>2, <1>3, <1>4, <2>1, <2>2, <2>3 DEF WellKeyed
<1> QED BY <1>5 DEF tables

\* The time that a person spent is a sum over the codes of the minutes of each, which is the
\* sum over their rows of the serving database.
LEMMA ServingTime ==
    ASSUME NEW survey, WellKeyed(survey), NEW x, NEW selector
    PROVE  TimeSpent(Serving(survey), x, selector) = TimeSpent(survey, x, selector)
<1> DEFINE tables == Serving(survey)
           Chosen(code) == Under(code, selector.include) /\ ~Under(code, selector.exclude)
           A == {e \in survey.activities : e.who = x /\ Chosen(e.code)}
           B == {e \in tables.activities : e.who = x /\ Chosen(e.code)}
           code == [e \in A |-> e.code]
           C == {code[e] : e \in A}
           row == [c \in C |-> Episodes(survey, x, c)]
           G == [c \in C |-> Minutes(survey, x, c)]
           g == [e \in A |-> e.minutes]
           h == [e \in B |-> e.minutes]
<1>1. IsFiniteSet(A) /\ IsFiniteSet(C)
  <2>1. A \subseteq survey.activities /\ IsFiniteSet(survey.activities)
    BY SurveyTypes
  <2>2. IsFiniteSet(A)
    <3> HIDE DEF A
    <3> QED BY <2>1, FS_Subset
  <2>3. IsFiniteSet(C)
    <3> HIDE DEF A, code
    <3> QED BY <2>2, FiniteImage
  <2> QED BY <2>2, <2>3
<1>2. B = ImageOf(row, C)
  <2>1. tables.activities = {Episodes(survey, e.who, e.code) : e \in survey.activities}
    BY DEF Serving, Episodes
  <2>2. C = {e.code : e \in A}
    OBVIOUS
  <2>3. \A y, c : Episodes(survey, y, c).who = y /\ Episodes(survey, y, c).code = c
    BY DEF Episodes
  <2>4. ASSUME NEW b \in B PROVE \E c \in C : b = Episodes(survey, x, c)
    <3>1. PICK e \in survey.activities : b = Episodes(survey, e.who, e.code)
      BY <2>1
    <3>2. b.who = x /\ Chosen(b.code)
      OBVIOUS
    <3>3. e.who = x /\ Chosen(e.code)
      BY <2>3, <3>1, <3>2
    <3>4. e \in A
      BY <3>3
    <3> QED BY <2>2, <3>1, <3>3, <3>4
  <2>5. ASSUME NEW c \in C PROVE Episodes(survey, x, c) \in B
    <3>1. PICK e \in A : c = e.code
      BY <2>2
    <3>2. e \in survey.activities /\ e.who = x /\ Chosen(c)
      BY <3>1
    <3>3. Episodes(survey, x, c) \in tables.activities
      BY <2>1, <3>1, <3>2
    <3>4. Episodes(survey, x, c).who = x /\ Episodes(survey, x, c).code = c
      BY <2>3
    <3> QED BY <3>2, <3>3, <3>4
  <2> HIDE DEF B, C, tables
  <2>6. \A c \in C : row[c] = Episodes(survey, x, c)
    OBVIOUS
  <2> HIDE DEF row
  <2> QED BY <2>4, <2>5, <2>6 DEF ImageOf
<1>3. SumOf(g, A) = SumOf(G, C)
  <2>1. \A e \in A : g[e] \in Int /\ code[e] \in C
    <3>1. \A e \in A : g[e] \in Nat
      BY SurveyTypes
    <3> QED BY <3>1
  <2>2. ASSUME NEW c \in C PROVE G[c] = SumOf(g, ClassOf(A, code, c))
    <3> DEFINE S == {e \in survey.activities : e.who = x /\ e.code = c}
               s == [e \in S |-> e.minutes]
    <3>1. ClassOf(A, code, c) = S
      BY DEF ClassOf
    <3>2. IsFiniteSet(S) /\ G[c] = SumOf(s, S)
      <4>1. IsFiniteSet(S) /\ Minutes(survey, x, c) = SumOf(s, S)
        BY MinutesType
      <4>2. G[c] = Minutes(survey, x, c)
        OBVIOUS
      <4> HIDE DEF S, s, G, C
      <4> QED BY <4>1, <4>2
    <3>3. S \subseteq A
      OBVIOUS
    <3>4. \A e \in S : s[e] = g[e]
      BY <3>3
    <3> HIDE DEF S, s, g, G, A
    <3> QED BY <3>1, <3>2, <3>4, SumCongruence
  <2> HIDE DEF A, C, code, g, G
  <2> QED BY <1>1, <2>1, <2>2, SumByClass
<1>4. SumOf(h, ImageOf(row, C)) = SumOf(G, C)
  <2>1. ASSUME NEW c \in C PROVE h[row[c]] = G[c] /\ G[c] \in Int
    <3>1. row[c] = Episodes(survey, x, c) /\ G[c] = Minutes(survey, x, c)
      OBVIOUS
    <3>2. row[c] \in B
      <4> HIDE DEF B, C, row
      <4> QED BY <1>2 DEF ImageOf
    <3>3. h[row[c]] = row[c].minutes
      BY <3>2
    <3>4. row[c].minutes = Minutes(survey, x, c)
      BY <3>1 DEF Episodes
    <3>5. Minutes(survey, x, c) \in Nat
      BY MinutesType
    <3> HIDE DEF h, row, G, C
    <3> QED BY <3>1, <3>3, <3>4, <3>5
  <2>2. \A c, d \in C : row[c] = row[d] => c = d
    <3>1. \A c \in C : row[c].code = c
      BY DEF Episodes
    <3> HIDE DEF row, C
    <3> QED BY <3>1
  <2> HIDE DEF h, row, G, C
  <2> QED BY <1>1, <2>1, <2>2, SumImage
<1>5. IsFiniteSet(B)
  <2>1. B \subseteq tables.activities /\ IsFiniteSet(tables.activities)
    BY ServingKeyed, SurveyTypes
  <2> HIDE DEF B
  <2> QED BY <2>1, FS_Subset
<1>6. TimeSpent(survey, x, selector) = SumOf(g, A)
  <2>1. TimeSpent(survey, x, selector) = MapThenSumSet(LAMBDA e : e.minutes, A)
    BY DEF TimeSpent
  <2> HIDE DEF A
  <2> QED BY <1>1, <2>1, MinutesSum
<1>7. TimeSpent(tables, x, selector) = SumOf(h, B)
  <2>1. TimeSpent(tables, x, selector) = MapThenSumSet(LAMBDA e : e.minutes, B)
    BY DEF TimeSpent
  <2> HIDE DEF B
  <2> QED BY <1>5, <2>1, MinutesSum
<1> HIDE DEF A, B, C, g, h, G, row, code
<1> QED BY <1>2, <1>3, <1>4, <1>6, <1>7
\* The replicate rows that are left: those of all who count.
LEMMA ServingReplicates ==
    ASSUME NEW survey, WellKeyed(survey), Buildable(survey), NEW s \in Scheme,
           NEW x \in DOMAIN survey.respondents, survey.respondents[x].weight[s] \notin {Null, 0}
    PROVE  LET tables == Serving(survey)
           IN  /\ x \in DOMAIN tables.replicates[s] <=> x \in DOMAIN survey.replicates[s]
               /\ x \in DOMAIN survey.replicates[s] =>
                    tables.replicates[s][x] = survey.replicates[s][x]
<1> DEFINE rows == survey.replicates[s]
           kept == {y \in DOMAIN rows : ~Omitted(s, rows[y])}
<1>1. Serving(survey).replicates[s] = [y \in kept |-> rows[y]]
  <2>1. Serving(survey).replicates =
          [i \in Scheme |-> Restrict(survey.replicates[i],
             {y \in DOMAIN survey.replicates[i] : ~Omitted(i, survey.replicates[i][y])})]
    BY DEF Serving
  <2> QED BY <2>1 DEF Restrict
<1>2. x \in DOMAIN rows => ~Omitted(s, rows[x])
  BY DEF Buildable
<1>3. x \in kept <=> x \in DOMAIN rows
  BY <1>2
<1> HIDE DEF kept, rows
<1> QED BY <1>1, <1>3 DEF rows

LEMMA ServingValidated ==
    ASSUME NEW survey, WellKeyed(survey), Validated(survey), Buildable(survey)
    PROVE  Validated(Serving(survey))
<1> DEFINE tables == Serving(survey)
<1>1. tables.respondents = survey.respondents
  BY ServingTables
<1>2. ASSUME NEW x \in DOMAIN survey.respondents, NEW s \in Scheme,
             survey.respondents[x].weight[s] \notin {Null, 0}
      PROVE  /\ x \in DOMAIN tables.replicates[s]
             /\ tables.replicates[s][x] \in [Replicate -> Int]
  <2>1. x \in DOMAIN survey.replicates[s] /\ survey.replicates[s][x] \in [Replicate -> Int]
    BY <1>2 DEF Validated
  <2> HIDE DEF tables
  <2> QED BY <1>2, <2>1, ServingReplicates DEF tables
<1> HIDE DEF tables
<1>3. Validated(tables)
  BY <1>1, <1>2 DEF Validated
<1> QED BY <1>3 DEF tables

LEMMA ServingQualifies ==
    ASSUME NEW survey, NEW x, NEW f
    PROVE  Qualifies(Serving(survey), x, f) <=> Qualifies(survey, x, f)
<1> DEFINE tables == Serving(survey)
<1>1. /\ tables.respondents = survey.respondents
      /\ tables.roster = {m \in survey.roster : m.line = 1}
      /\ tables.cps = {c \in survey.cps : c.line = 1}
  BY ServingTables
<1>2. ASSUME NEW T, NEW R, T = {m \in R : m.line = 1}
      PROVE  /\ (\E m \in T : /\ m.who = x /\ m.line = 1
                              /\ AtLeast(m.age, f.age_min) /\ AtMost(m.age, f.age_max)
                              /\ f.sex # Null => m.sex = f.sex)
               <=> \E m \in R : /\ m.who = x /\ m.line = 1
                                /\ AtLeast(m.age, f.age_min) /\ AtMost(m.age, f.age_max)
                                /\ f.sex # Null => m.sex = f.sex
             /\ (\E c \in T : c.who = x /\ c.line = 1 /\ c.region = f.region)
               <=> \E c \in R : c.who = x /\ c.line = 1 /\ c.region = f.region
  BY <1>2
<1> HIDE DEF tables
<1>3. Qualifies(tables, x, f) <=> Qualifies(survey, x, f)
  BY <1>1, <1>2, Zenon DEF Qualifies
<1> QED BY <1>3 DEF tables

\* The same people are asked about.
LEMMA ServingBase ==
    ASSUME NEW survey, NEW spec, Proper(survey, spec), Buildable(survey)
    PROVE  /\ Base(Serving(survey), spec) = Base(survey, spec)
           /\ \A x \in Base(survey, spec) : \A k \in Weights(spec) :
                Weight(Serving(survey), spec.weights, x, k) = Weight(survey, spec.weights, x, k)
<1> DEFINE tables == Serving(survey)
           s == spec.weights
           Counts(x) == /\ survey.respondents[x].year \in Range(spec.years)
                        /\ survey.respondents[x].weight[s] # Null
                        /\ survey.respondents[x].weight[s] > 0
                        /\ Qualifies(survey, x, spec.population)
<1>1. tables.respondents = survey.respondents /\ s \in Scheme
  BY ServingTables DEF Proper
<1>2. ASSUME NEW x \in DOMAIN survey.respondents, Counts(x)
      PROVE  /\ x \in DOMAIN tables.replicates[s] <=> x \in DOMAIN survey.replicates[s]
             /\ x \in DOMAIN survey.replicates[s] =>
                  tables.replicates[s][x] = survey.replicates[s][x]
  <2>1. survey.respondents[x].weight[s] \notin {Null, 0}
    <3>1. survey.respondents[x].weight[s] \in Nat \cup {Null}
      BY <1>1, SurveyTypes DEF Proper
    <3> QED BY <1>2, <3>1
  <2> HIDE DEF tables, s, Counts
  <2> QED BY <1>1, <2>1, ServingReplicates DEF tables, Proper
<1>3. ASSUME NEW x \in DOMAIN survey.respondents
      PROVE  x \in Base(tables, spec) <=> x \in Base(survey, spec)
  <2>1. Qualifies(tables, x, spec.population) <=> Qualifies(survey, x, spec.population)
    BY ServingQualifies
  <2>2. x \in Base(survey, spec) <=>
          Counts(x) /\ (spec.variance = "replicate" => x \in DOMAIN survey.replicates[s])
    BY DEF Base
  <2> HIDE DEF tables
  <2>3. x \in Base(tables, spec) <=>
          Counts(x) /\ (spec.variance = "replicate" => x \in DOMAIN tables.replicates[s])
    BY <1>1, <2>1 DEF Base
  <2> HIDE DEF Counts, s
  <2> QED BY <1>2, <2>2, <2>3
<1>4. Base(tables, spec) = Base(survey, spec)
  <2>1. /\ Base(tables, spec) \subseteq DOMAIN tables.respondents
        /\ Base(survey, spec) \subseteq DOMAIN survey.respondents
    BY DEF Base
  <2> HIDE DEF tables
  <2> QED BY <1>1, <1>3, <2>1
<1>5. ASSUME NEW x \in Base(survey, spec), NEW k \in Weights(spec)
      PROVE  Weight(tables, s, x, k) = Weight(survey, s, x, k)
  <2>1. /\ x \in DOMAIN survey.respondents /\ Counts(x)
        /\ spec.variance = "replicate" => x \in DOMAIN survey.replicates[s]
    BY <1>5 DEF Base
  <2>2. k # 0 => spec.variance = "replicate"
    BY <1>5 DEF Weights
  <2> HIDE DEF tables, Counts, s
  <2> QED BY <1>1, <1>2, <2>1, <2>2 DEF Weight
<1> QED BY <1>4, <1>5

\* And so the rows, and the statistics, are the same.
LEMMA ServingStatistics ==
    ASSUME NEW survey, NEW spec, Proper(survey, spec), Buildable(survey),
           NEW leaves, leaves = Leaves(survey.lexicon, spec.activity)
    PROVE  Statistics(Serving(survey), spec, leaves) = Statistics(survey, spec, leaves)
<1> DEFINE tables == Serving(survey)
           full == ActivityMinutes(survey, leaves, spec.years)
           small == ActivityMinutes(tables, leaves, spec.years)
           B == Base(survey, spec)
<1>1. /\ tables.respondents = survey.respondents /\ tables.lexicon = survey.lexicon
      /\ WellKeyed(survey) /\ WellKeyed(tables)
  BY ServingTables, ServingKeyed DEF Proper
<1>2. ASSUME NEW x \in B
      PROVE  Row(tables, spec, small, x) = Row(survey, spec, full, x)
  <2> DEFINE t == IF x \in DOMAIN small THEN small[x] ELSE 0
             u == IF x \in DOMAIN full THEN full[x] ELSE 0
             v == [k \in Weights(spec) |-> Weight(tables, spec.weights, x, k)]
             w == [k \in Weights(spec) |-> Weight(survey, spec.weights, x, k)]
  <2>1. x \in DOMAIN survey.respondents /\ survey.respondents[x].year \in Range(spec.years)
    BY BaseTypes
  <2>2. u = TimeSpent(survey, x, spec.activity)
    BY <1>1, <2>1, MinutesAreTime
  <2>3. t = TimeSpent(tables, x, spec.activity)
    <3>1. leaves = Leaves(tables.lexicon, spec.activity)
      BY <1>1
    <3>2. x \in DOMAIN tables.respondents /\ tables.respondents[x].year \in Range(spec.years)
      BY <1>1, <2>1
    <3> HIDE DEF tables
    <3> QED BY <1>1, <3>1, <3>2, MinutesAreTime
  <2>4. t = u
    <3>1. TimeSpent(tables, x, spec.activity) = TimeSpent(survey, x, spec.activity)
      BY <1>1, ServingTime
    <3> HIDE DEF t, u, tables
    <3> QED BY <2>2, <2>3, <3>1
  <2>5. v = w
    BY ServingBase
  <2>6. /\ Row(survey, spec, full, x) =
             [who |-> x, year |-> survey.respondents[x].year, x |-> u, weight |-> w]
        /\ Row(tables, spec, small, x) =
             [who |-> x, year |-> tables.respondents[x].year, x |-> t, weight |-> v]
    <3> HIDE DEF tables, small, full
    <3> QED BY DEF Row
  <2> HIDE DEF t, u, v, w, tables, small, full
  <2> QED BY <1>1, <2>4, <2>5, <2>6
<1>3. Base(tables, spec) = B
  BY ServingBase
<1> DEFINE rows == Rows(survey, spec, full)
           less == Rows(tables, spec, small)
<1>4. rows = {Row(survey, spec, full, x) : x \in B}
  <2> HIDE DEF full
  <2> QED BY DEF Rows, Row
<1>5. less = {Row(tables, spec, small, x) : x \in Base(tables, spec)}
  <2> HIDE DEF small, tables
  <2> QED BY DEF Rows, Row
<1>6. less = rows
  <2> HIDE DEF less, rows, B, tables, small, full
  <2> QED BY <1>2, <1>3, <1>4, <1>5
<1>7. Statistics(survey, spec, leaves) =
        [y \in {r.year : r \in rows} |-> Sums({r \in rows : r.year = y}, Weights(spec))]
  BY DEF Statistics
<1>8. Statistics(tables, spec, leaves) =
        [y \in {r.year : r \in less} |-> Sums({r \in less : r.year = y}, Weights(spec))]
  <2> HIDE DEF tables
  <2> QED BY DEF Statistics, less, small
<1> HIDE DEF less, rows
<1>9. Statistics(tables, spec, leaves) = Statistics(survey, spec, leaves)
  <2> HIDE DEF tables
  <2> QED BY <1>6, <1>7, <1>8
<1> QED BY <1>9 DEF tables
LEMMA ServingEstimate ==
    ASSUME NEW survey, NEW spec, Proper(survey, spec), Buildable(survey)
    PROVE  Estimate(Serving(survey), Known(Serving(survey)), spec)
             = Estimate(survey, Known(survey), spec)
<1> DEFINE tables == Serving(survey)
           leaves == Leaves(survey.lexicon, spec.activity)
<1>1. Known(tables) = Known(survey) /\ Known(survey).lexicon = survey.lexicon
  BY ServingTables DEF Known
<1>2. Statistics(tables, spec, leaves) = Statistics(survey, spec, leaves)
  BY ServingStatistics
<1> HIDE DEF tables
<1>3. Estimate(tables, Known(tables), spec) = Estimate(survey, Known(survey), spec)
  BY <1>1, <1>2 DEF Estimate
<1> QED BY <1>3 DEF tables

\* The specifications that a request's computation asks of the survey.
LEMMA ProperSpecs ==
    ASSUME NEW survey, WellKeyed(survey), Validated(survey), NEW q, WellFormed(q)
    PROVE  /\ Proper(survey, ToSpec(q)) /\ Proper(survey, SupportedYears(q))
           /\ \A g \in Filter : ~Contradicts(ToSpec(q), g) =>
                Proper(survey, Refined(ToSpec(q), g))
<1>1. Proper(survey, ToSpec(q))
  BY SpecOf DEF Proper
<1>2. Proper(survey, SupportedYears(q))
  BY SupportedAre, SupportedYearsOf, SpecOf DEF Proper
<1>3. ASSUME NEW g \in Filter, ~Contradicts(ToSpec(q), g)
      PROVE  Proper(survey, Refined(ToSpec(q), g))
  <2> DEFINE f == q.population
             spec == Refined(ToSpec(q), g)
  <2>1. f \in Filter /\ ToSpec(q).population = f
    BY SpecOf
  <2>2. Merge(f, g) \in Filter
    BY <1>3, <2>1, MergedParts DEF Contradicts
  <2>3. /\ spec.population = Merge(f, g) /\ spec.years = ToSpec(q).years
        /\ spec.weights = ToSpec(q).weights /\ spec.variance = ToSpec(q).variance
    <3> HIDE DEF f
    <3> QED BY DEF Refined, ToSpec, f
  <2> HIDE DEF spec, f
  <2>4. Proper(survey, spec)
    BY <1>1, <2>2, <2>3 DEF Proper
  <2> QED BY <2>4 DEF spec
<1> QED BY <1>1, <1>2, <1>3

LEMMA ServingTrend ==
    ASSUME NEW survey, WellKeyed(survey), Validated(survey), Buildable(survey),
           NEW q, WellFormed(q)
    PROVE  Trend(Serving(survey), Known(Serving(survey)), ToSpec(q))
             = Trend(survey, Known(survey), ToSpec(q))
<1> DEFINE tables == Serving(survey)
           spec == SupportedYears(q)
           leaves == Leaves(survey.lexicon, ToSelector(q.activity))
<1>1. Known(tables) = Known(survey) /\ tables.lexicon = survey.lexicon
  BY ServingTables
<1>2. Statistics(tables, spec, leaves) = Statistics(survey, spec, leaves)
  <2>1. Proper(survey, spec) /\ leaves = Leaves(survey.lexicon, spec.activity)
    BY ProperSpecs, SupportedYearsOf
  <2> HIDE DEF spec, leaves
  <2> QED BY <2>1, ServingStatistics
<1> HIDE DEF tables
<1>3. Points(tables, q) = Points(survey, q)
  BY <1>1, <1>2 DEF Points, Point
<1>4. Trend(tables, Known(tables), ToSpec(q)) = Trend(survey, Known(survey), ToSpec(q))
  BY <1>1, <1>3, TrendIs
<1> QED BY <1>4 DEF tables

LEMMA ServingCompare ==
    ASSUME NEW survey, WellKeyed(survey), Validated(survey), Buildable(survey),
           NEW q, WellFormed(q), NEW a \in Filter, NEW b \in Filter
    PROVE  Compare(Serving(survey), Known(Serving(survey)), ToSpec(q), <<a, b>>)
             = Compare(survey, Known(survey), ToSpec(q), <<a, b>>)
<1> DEFINE tables == Serving(survey)
           spec == ToSpec(q)
           groups == <<a, b>>
           less == [g \in {1, 2} |-> Estimate(tables, Known(tables), Refined(spec, groups[g]))]
           all == [g \in {1, 2} |-> Estimate(survey, Known(survey), Refined(spec, groups[g]))]
<1>1. CASE \E g \in {1, 2} : Contradicts(spec, groups[g])
  <2> HIDE DEF spec, groups, tables
  <2>1. /\ Compare(tables, Known(tables), spec, groups) = Refuse("invalid")
        /\ Compare(survey, Known(survey), spec, groups) = Refuse("invalid")
    BY <1>1 DEF Compare
  <2> QED BY <2>1 DEF spec, groups, tables
<1>2. CASE ~\E g \in {1, 2} : Contradicts(spec, groups[g])
  <2>1. ASSUME NEW g \in {1, 2} PROVE less[g] = all[g]
    <3>1. groups[g] \in Filter /\ ~Contradicts(spec, groups[g])
      <4>1. groups[1] = a /\ groups[2] = b
        OBVIOUS
      <4> HIDE DEF groups, spec
      <4> QED BY <1>2, <2>1, <4>1
    <3>2. Proper(survey, Refined(spec, groups[g]))
      <4> HIDE DEF groups
      <4> QED BY <3>1, ProperSpecs
    <3>3. Estimate(tables, Known(tables), Refined(spec, groups[g]))
            = Estimate(survey, Known(survey), Refined(spec, groups[g]))
      <4> HIDE DEF spec, groups
      <4> QED BY <3>2, ServingEstimate
    <3> HIDE DEF spec, groups, tables
    <3> QED BY <3>3
  <2>2. less = all
    <3>1. less = [g \in {1, 2} |-> less[g]] /\ all = [g \in {1, 2} |-> all[g]]
      OBVIOUS
    <3> HIDE DEF less, all
    <3> QED BY <2>1, <3>1
  <2> DEFINE Result(estimates) ==
               LET errors == {g \in {1, 2} : ~Answered(estimates[g])}
               IN  IF errors # {} THEN estimates[Min(errors)]
                   ELSE [refused |-> Null, a |-> estimates[1], b |-> estimates[2],
                         difference |-> Difference(estimates[1], estimates[2])]
  <2>3. /\ Compare(tables, Known(tables), spec, groups) = Result(less)
        /\ Compare(survey, Known(survey), spec, groups) = Result(all)
    <3> HIDE DEF spec, groups, tables
    <3> QED BY <1>2 DEF Compare
  <2> HIDE DEF Result, less, all, spec, groups, tables
  <2>4. Compare(tables, Known(tables), spec, groups) = Compare(survey, Known(survey), spec, groups)
    BY <2>2, <2>3
  <2> QED BY <2>4 DEF spec, groups, tables
<1> QED BY <1>1, <1>2

\* What is computed for a request on the serving database is what would be on the full one.
LEMMA ServingRun ==
    ASSUME NEW survey, WellKeyed(survey), Validated(survey), Buildable(survey),
           NEW q, WellFormed(q)
    PROVE  Run(Serving(survey), Known(Serving(survey)), JobOf(q))
             = Run(survey, Known(survey), JobOf(q))
<1> DEFINE tables == Serving(survey)
<1>1. JobOf(q).operation = q.operation /\ JobOf(q).spec = ToSpec(q) /\ JobOf(q).groups = q.groups
  BY DEF JobOf
<1>2. q.operation \in {"estimate", "trend", "compare"}
  BY DEF WellFormed, Requests
<1>3. CASE q.operation = "estimate"
  <2>1. Estimate(tables, Known(tables), ToSpec(q)) = Estimate(survey, Known(survey), ToSpec(q))
    BY ProperSpecs, ServingEstimate
  <2> HIDE DEF tables
  <2> QED BY <1>1, <1>3, <2>1 DEF Run, tables
<1>4. CASE q.operation = "trend"
  <2>1. Trend(tables, Known(tables), ToSpec(q)) = Trend(survey, Known(survey), ToSpec(q))
    BY ServingTrend
  <2> HIDE DEF tables
  <2> QED BY <1>1, <1>4, <2>1 DEF Run, tables
<1>5. CASE q.operation = "compare"
  <2>1. PICK a \in Filter, b \in Filter : q.groups = <<a, b>>
    <3>1. q.groups \in {<<>>} \cup (Filter \X Filter) /\ q.groups # <<>>
      BY <1>5 DEF WellFormed, Requests
    <3> QED BY <3>1
  <2>2. Compare(tables, Known(tables), ToSpec(q), q.groups)
          = Compare(survey, Known(survey), ToSpec(q), q.groups)
    BY <2>1, ServingCompare
  <2> HIDE DEF tables
  <2> QED BY <1>1, <1>5, <2>2 DEF Run, tables
<1> QED BY <1>2, <1>3, <1>4, <1>5

\* The estimate that a request asks for is true.
LEMMA EstimateOf ==
    ASSUME NEW survey, WellKeyed(survey), Validated(survey), NEW q, WellFormed(q)
    PROVE  TrueEstimate(Estimate(survey, Known(survey), ToSpec(q)), survey, q,
                        {q.population}, Range(q.years))
<1>1. Asks(survey, ToSpec(q), q, {q.population}, Range(q.years))
  BY SpecOf, ProperSpecs, MeansItself DEF Asks
<1> QED BY <1>1, EstimateIsTrue

LEMMA NoWrongEstimate ==
    ASSUME NEW survey, WellKeyed(survey), Validated(survey), NEW q, WellFormed(q),
           q.operation = "estimate"
    PROVE  ~WrongEstimate(survey, q)
<1>1. Run(survey, Known(survey), JobOf(q)) = Estimate(survey, Known(survey), ToSpec(q))
  BY DEF Run, JobOf
<1>2. Buildable(survey) =>
        Run(Serving(survey), Known(Serving(survey)), JobOf(q)) =
          Run(survey, Known(survey), JobOf(q))
  BY ServingRun
<1> QED BY <1>1, <1>2, EstimateOf DEF WrongEstimate

\* An estimate is answered exactly if the survey can answer it, and then with the weighted
\* mean, rate or count of the people asked about, whichever of the databases is served.
THEOREM EstimatesAreTrueHolds == AnalysesSpec => []EstimatesAreTrue
<1>1. WrongEstimates = {}
  BY AskedOf, NoWrongEstimate DEF WrongEstimates
<1>2. EstimatesAreTrue
  BY <1>1 DEF EstimatesAreTrue
<1> QED BY <1>2, PTL
-----------------------------------------------------------------------------
(* What the runner answers. *)

LEMMA DifferentYears ==
    ASSUME NEW s \in Seq(Nat), IsInjective(s)
    PROVE  Cardinality(Range(s)) = Len(s)
<1> DEFINE n == Len(s)
           D == 1 .. n
<1>1. D = DOMAIN s /\ n \in Nat
  OBVIOUS
<1>2. \A i, j \in D : s[i] = s[j] => i = j
  BY <1>1 DEF IsInjective
<1>3. Range(s) = ImageOf(s, D)
  BY <1>1 DEF Range, ImageOf
<1> HIDE DEF n
<1>4. IsFiniteSet(D) /\ Cardinality(D) = n
  BY <1>1, FS_Interval
<1> HIDE DEF D
<1>5. Cardinality(ImageOf(s, D)) = Cardinality(D)
  BY <1>2, <1>4, CountImage
<1> QED BY <1>3, <1>4, <1>5 DEF n

\* A year's estimate is true; so is any refusal of it, if it is refused.
LEMMA AloneIsTrue ==
    ASSUME NEW survey, WellKeyed(survey), Validated(survey), NEW q, WellFormed(q),
           NEW y \in Range(q.years), NEW point,
           IF Answered(point) THEN point = ByItself(survey, q, y)
             ELSE ~Answered(ByItself(survey, q, y))
    PROVE  TrueEstimate(point, survey, q, {q.population}, {y})
<1>1. TrueEstimate(ByItself(survey, q, y), survey, q, {q.population}, {y})
  BY AsksOneYear, EstimateIsTrue DEF ByItself
<1>2. CASE Answered(point)
  BY <1>1, <1>2
<1>3. CASE ~Answered(point)
  BY <1>1, <1>3 DEF TrueEstimate
<1> QED BY <1>2, <1>3

LEMMA TrendIsTrue ==
    ASSUME NEW survey, WellKeyed(survey), Validated(survey), NEW q, WellFormed(q),
           Answered(Trend(survey, Known(survey), ToSpec(q)))
    PROVE  LET answer == Trend(survey, Known(survey), ToSpec(q))
           IN  /\ DOMAIN answer = {"refused", "points"}
               /\ Len(answer.points) = Cardinality(Range(q.years))
               /\ \A i \in DOMAIN answer.points :
                    TrueEstimate(answer.points[i], survey, q, {q.population},
                                 {ToSpec(q).years[i]})
<1> DEFINE answer == Trend(survey, Known(survey), ToSpec(q))
           years == ToSpec(q).years
           points == answer.points
<1>1. /\ DOMAIN answer = {"refused", "points"} /\ points \in Seq(Range(points))
      /\ DOMAIN points = DOMAIN years
      /\ \A i \in DOMAIN years :
           IF Answered(points[i]) THEN points[i] = ByItself(survey, q, years[i])
           ELSE ~Answered(ByItself(survey, q, years[i]))
  <2> HIDE DEF answer, years
  <2> QED BY TrendIsRight DEF answer, years
<1>2. /\ years \in Seq(Nat) /\ Len(years) = Len(q.years) /\ Range(years) = Range(q.years)
      /\ q.years \in Seq(Nat) /\ IsInjective(q.years)
  BY SpecOf DEF WellFormed, Requests
<1>3. \A i \in DOMAIN years : years[i] \in Range(q.years)
  <2> HIDE DEF years
  <2> QED BY <1>2 DEF Range
<1> HIDE DEF answer, years
<1>4. Len(points) = Len(years)
  <2> DEFINE S == Range(points)
  <2> HIDE DEF S, points
  <2>1. points \in Seq(S)
    BY <1>1 DEF S
  <2>2. DOMAIN points = 1 .. Len(points) /\ Len(points) \in Nat
    BY <2>1
  <2>3. DOMAIN years = 1 .. Len(years) /\ Len(years) \in Nat
    BY <1>2
  <2> DEFINE m == Len(points)
             n == Len(years)
  <2>4. m \in Nat /\ n \in Nat /\ 1 .. m = 1 .. n
    BY <1>1, <2>2, <2>3
  <2> HIDE DEF m, n
  <2>5. m = n
    BY <2>4
  <2> QED BY <2>5 DEF m, n
<1>5. Len(points) = Cardinality(Range(q.years))
  BY <1>2, <1>4, DifferentYears
<1>6. \A i \in DOMAIN points :
        TrueEstimate(points[i], survey, q, {q.population}, {years[i]})
  <2> HIDE DEF points
  <2> QED BY <1>1, <1>3, AloneIsTrue
<1> QED BY <1>1, <1>5, <1>6 DEF answer, years

LEMMA CompareIsTrue ==
    ASSUME NEW survey, WellKeyed(survey), Validated(survey), NEW q, WellFormed(q),
           q.operation = "compare", Answered(Compare(survey, Known(survey), ToSpec(q), q.groups))
    PROVE  LET answer == Compare(survey, Known(survey), ToSpec(q), q.groups)
               years == Range(q.years)
               p == q.population
           IN  /\ DOMAIN answer = {"refused", "a", "b", "difference"}
               /\ TrueEstimate(answer.a, survey, q, {p, q.groups[1]}, years)
               /\ TrueEstimate(answer.b, survey, q, {p, q.groups[2]}, years)
<1> DEFINE answer == Compare(survey, Known(survey), ToSpec(q), q.groups)
           years == Range(q.years)
           p == q.population
<1>1. PICK a \in Filter, b \in Filter : q.groups = <<a, b>>
  <2>1. q.groups \in {<<>>} \cup (Filter \X Filter) /\ q.groups # <<>>
    BY DEF WellFormed, Requests
  <2> QED BY <2>1
<1> DEFINE first == Group(survey, q, a)
           second == Group(survey, q, b)
<1>2. IF \/ Contradicts(ToSpec(q), a) \/ Contradicts(ToSpec(q), b)
         \/ ~Answered(first) \/ ~Answered(second)
      THEN ~Answered(answer)
      ELSE answer = [refused |-> Null, a |-> first, b |-> second,
                     difference |-> Difference(first, second)]
  BY <1>1, CompareIs DEF Group
<1>3. /\ ~Contradicts(ToSpec(q), a) => TrueEstimate(first, survey, q, {p, a}, years)
      /\ ~Contradicts(ToSpec(q), b) => TrueEstimate(second, survey, q, {p, b}, years)
  BY GroupIsTrue
<1>4. Answered(answer)
  OBVIOUS
<1> HIDE DEF answer, first, second
<1>5. /\ DOMAIN answer = {"refused", "a", "b", "difference"}
      /\ answer.a = first /\ answer.b = second
      /\ ~Contradicts(ToSpec(q), a) /\ ~Contradicts(ToSpec(q), b)
  BY <1>2, <1>4
<1>6. q.groups[1] = a /\ q.groups[2] = b
  BY <1>1
<1>7. /\ TrueEstimate(answer.a, survey, q, {p, q.groups[1]}, years)
      /\ TrueEstimate(answer.b, survey, q, {p, q.groups[2]}, years)
  BY <1>3, <1>5, <1>6
<1> QED BY <1>5, <1>7 DEF answer

\* What the engine computes for a request is the true answer to it.
LEMMA RunIsTrue ==
    ASSUME NEW survey, WellKeyed(survey), Validated(survey), NEW q, WellFormed(q)
    PROVE  TrueAnswer(Run(survey, Known(survey), JobOf(q)), survey, q)
<1> DEFINE known == Known(survey)
           answer == Run(survey, known, JobOf(q))
<1>1. JobOf(q).operation = q.operation /\ JobOf(q).spec = ToSpec(q) /\ JobOf(q).groups = q.groups
  BY DEF JobOf
<1>2. q.operation \in {"estimate", "trend", "compare"}
  BY DEF WellFormed, Requests
<1>3. CASE q.operation = "estimate"
  <2>1. answer = Estimate(survey, known, ToSpec(q))
    BY <1>1, <1>3 DEF Run
  <2> QED BY <1>3, <2>1, EstimateOf DEF TrueAnswer
<1>4. CASE q.operation = "trend"
  <2>1. answer = Trend(survey, known, ToSpec(q))
    BY <1>1, <1>4 DEF Run
  <2> HIDE DEF answer
  <2>2. CASE Answered(answer)
    <3>1. /\ DOMAIN answer = {"refused", "points"}
          /\ Len(answer.points) = Cardinality(Range(q.years))
          /\ \A i \in DOMAIN answer.points :
               TrueEstimate(answer.points[i], survey, q, {q.population}, {ToSpec(q).years[i]})
      BY <2>1, <2>2, TrendIsTrue
    <3> QED BY <1>4, <3>1 DEF TrueAnswer, answer
  <2> QED BY <1>4, <2>2 DEF TrueAnswer, answer
<1>5. CASE q.operation = "compare"
  <2>1. answer = Compare(survey, known, ToSpec(q), q.groups)
    BY <1>1, <1>5 DEF Run
  <2> HIDE DEF answer
  <2>2. CASE Answered(answer)
    <3>1. /\ DOMAIN answer = {"refused", "a", "b", "difference"}
          /\ TrueEstimate(answer.a, survey, q, {q.population, q.groups[1]}, Range(q.years))
          /\ TrueEstimate(answer.b, survey, q, {q.population, q.groups[2]}, Range(q.years))
      BY <1>5, <2>1, <2>2, CompareIsTrue
    <3> QED BY <1>5, <3>1 DEF TrueAnswer, answer
  <2> QED BY <1>5, <2>2 DEF TrueAnswer, answer
<1> QED BY <1>2, <1>3, <1>4, <1>5

\* Requests with one key have one job, and what is served of a version answers it truly.
LEMMA OneVersionIsTrue ==
    ASSUME NEW op \in Op, NEW v \in Version, NEW leader \in Asking(op), NEW asker \in Asking(op)
    PROVE  TrueAnswer(Run(Tables[v], Known(Tables[v]), JobOf(leader)), Survey[v], asker)
<1>1. leader \in Request /\ asker \in Request /\ Digest[JobOf(leader)] = Digest[JobOf(asker)]
  BY DEF Asking, KeyOf
<1>2. \A r \in Request : JobOf(r) \in DOMAIN Digest
  BY AnalysesConstants, Zenon
<1>3. \A r \in Request \cup Questions : WellFormed(r)
  BY AnalysesConstants, Zenon
<1>4. IsInjective(Digest)
  BY AnalyticsConstants, Zenon
<1>5. JobOf(leader) = JobOf(asker)
  BY <1>1, <1>2, <1>4 DEF IsInjective
<1>6. WellFormed(asker)
  BY <1>1, <1>3
<1>7. WellKeyed(Survey[v]) /\ Validated(Survey[v])
  <2>1. Surveys \in [Version -> SUBSET UNION Range(Surveys)]
    BY AnalysesConstants, Zenon
  <2>2. \A s \in UNION Range(Surveys) : WellKeyed(s) /\ Validated(s)
    BY AnalysesConstants, Zenon
  <2>3. \A w \in Version : Survey[w] \in Surveys[w]
    BY AnalysesConstants, Zenon
  <2>4. Survey[v] \in UNION Range(Surveys)
    BY <2>1, <2>3
  <2> QED BY <2>2, <2>4
<1>8. \/ Tables[v] = Survey[v]
      \/ Buildable(Survey[v]) /\ Tables[v] = Serving(Survey[v])
  BY AnalysesConstants, Zenon
<1>9. Run(Tables[v], Known(Tables[v]), JobOf(leader))
        = Run(Survey[v], Known(Survey[v]), JobOf(asker))
  BY <1>5, <1>6, <1>7, <1>8, ServingRun
<1> QED BY <1>6, <1>7, <1>9, RunIsTrue

LEMMA NoneIsWrong ==
    ASSUME NEW op \in Op, NEW o \in Outcome, OfOneVersion(o)
    PROVE  <<op, o>> \notin WrongAnswers
<1> DEFINE v == o.label
<1>1. v \in Version /\ o.data = v /\ o.resolver = v
  BY DEF Outcome, OfOneVersion
<1>2. ASSUME NEW leader \in Asking(op), NEW asker \in Asking(op)
      PROVE  TrueAnswer(Run(Tables[o.data], Known(Tables[o.resolver]), JobOf(leader)),
                        Survey[v], asker)
  <2> HIDE DEF v
  <2>1. TrueAnswer(Run(Tables[v], Known(Tables[v]), JobOf(leader)), Survey[v], asker)
    BY <1>1, OneVersionIsTrue
  <2> QED BY <1>1, <2>1
<1>3. IsTrue(op, o)
  BY <1>2 DEF IsTrue
<1> QED BY <1>3 DEF WrongAnswers

LEMMA AnalysesInvariant == AnalysesSpec => []RunnerInv
<1>1. RunnerInv /\ [AnalysesNext]_vars => RunnerInv'
  BY NextRunner DEF AnalysesNext
<1> QED BY InitRunner, <1>1, PTL DEF AnalysesSpec

\* What a key's computation returns, and what is cached under it, is the true answer to
\* every request with that key, on the full survey of the version it is labelled with.
THEOREM AnswersAreTrueHolds == AnalysesSpec => []AnswersAreTrue
<1>1. RunnerInv => AnswersAreTrue
  <2> SUFFICES ASSUME RunnerInv PROVE AnswersAreTrue
    OBVIOUS
  <2>1. TypeOK /\ TasksInv /\ ResultsInv
    BY DEF RunnerInv
  <2>2. ASSUME NEW k \in Key, cache[k] # None
        PROVE  LET o == [data |-> cache[k].data, resolver |-> cache[k].resolver,
                         label |-> k.version]
               IN  <<k.op, o>> \notin WrongAnswers
    <3>1. k.op \in Op /\ k.version \in Version
      BY DEF Key
    <3>2. cache[k] = [data |-> k.version, resolver |-> k.version]
      BY <2>1, <2>2 DEF ResultsInv
    <3> DEFINE v == k.version
               o == [data |-> v, resolver |-> v, label |-> v]
    <3>3. cache[k].data = v /\ cache[k].resolver = v
      BY <3>2
    <3>4. o \in Outcome /\ OfOneVersion(o)
      BY <3>1 DEF Outcome, OfOneVersion
    <3>5. <<k.op, o>> \notin WrongAnswers
      <4> HIDE DEF o
      <4> QED BY <3>1, <3>4, NoneIsWrong
    <3> HIDE DEF v
    <3> QED BY <3>3, <3>5 DEF v
  <2>3. ASSUME NEW t \in Task, phase[t] = "returned", result[t] \notin {None, Failed, Overloaded}
        PROVE  <<key[t].op, result[t]>> \notin WrongAnswers
    <3>1. key[t].op \in Op
      <4>1. key[t] \in Key
        BY <2>1, <2>3 DEF TasksInv
      <4> QED BY <4>1 DEF Key
    <3>2. result[t] \in Outcome
      BY <2>1, <2>3 DEF TypeOK
    <3>3. OfOneVersion(result[t])
      BY <2>1, <2>3 DEF ResultsInv
    <3> QED BY <3>1, <3>2, <3>3, NoneIsWrong
  <2> QED BY <2>2, <2>3 DEF AnswersAreTrue
<1> QED BY <1>1, AnalysesInvariant, PTL
=============================================================================

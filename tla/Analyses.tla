------------------------------ MODULE Analyses ------------------------------
(***************************************************************************)
(* Clients' requests answered by the runner with what the engine computes: *)
(* AnalysisRunner, whose keys are the requests' and whose data versions    *)
(* are surveys, and what an answer should be.                              *)
(***************************************************************************)
EXTENDS AnalysisRunner, Analytics

CONSTANTS
    Request,    \* what clients may ask
    Surveys,    \* the full databases that each data version can be of
    Survey,     \* the one it is of, for the runner's answers
    Tables,     \* what is served of it: all, or the serving database's rows
    Questions   \* requests to check the engine on

ASSUME AnalysesConstants ==
    /\ \A r \in Request \cup Questions : WellFormed(r)
    /\ \A r \in Request : JobOf(r) \in DOMAIN Digest
    /\ Op = {Digest[JobOf(r)] : r \in Request}
    /\ Heavy = {Digest[JobOf(r)] : r \in {q \in Request : HeavyJob(JobOf(q))}}
    /\ Surveys \in [Version -> SUBSET UNION Range(Surveys)]
    /\ \A survey \in UNION Range(Surveys) : WellKeyed(survey) /\ Validated(survey)
    /\ \A v \in Version : Survey[v] \in Surveys[v]
    /\ \A v \in Version :
         \/ Tables[v] = Survey[v]
         \/ Buildable(Survey[v]) /\ Tables[v] = Serving(Survey[v])

Asking(op) == {r \in Request : KeyOf(JobOf(r)) = op}

\* The keys some request with which passes the dry run.
Startable ==
    {k \in Key : \E r \in Asking(k.op) :
                    DryRun(Known(Tables[k.version]), JobOf(r)) = Null}

\* A request that the dry run refuses starts nothing.
AnalysesNext ==
    Next /\ \A t \in Task : phase[t] = "none" /\ phase'[t] = "created" => key'[t] \in Startable

AnalysesSpec == Init /\ [][AnalysesNext]_vars /\ Fairness

-----------------------------------------------------------------------------
(* What an answer should be: the weighted mean, rate or count of the       *)
(* people asked about.                                                     *)

\* What is known of a respondent; Null is missing.
Traits(survey, x) ==
    LET own(table) == {row \in table : row.who = x /\ row.line = 1}
        trait(rows, value(_)) == IF rows = {} THEN Null ELSE value(CHOOSE row \in rows : TRUE)
        r == survey.respondents[x]
    IN  [age |-> trait(own(survey.roster), LAMBDA m : m.age),
         sex |-> trait(own(survey.roster), LAMBDA m : m.sex),
         region |-> trait(own(survey.cps), LAMBDA c : c.region),
         children |-> IF r.children = Null THEN Null ELSE r.children > 0,
         day_type |-> IF Weekend(r.date) THEN "weekend" ELSE "weekday",
         date |-> r.date]

\* Nobody is counted on a trait that is missing.
Belongs(traits, f) ==
    /\ \A d \in {"sex", "region", "children", "day_type"} : f[d] \in {Null, traits[d]}
    /\ \A d \in {"age_min", "age_max", "date_min", "date_max"} : f[d] # Null =>
         LET trait == IF d \in {"age_min", "age_max"} THEN traits.age ELSE traits.date
         IN  trait # Null /\ (IF d \in Lower THEN trait >= f[d] ELSE trait <= f[d])

\* Who is counted in these years, with the weight that counts them.
People(survey, request, filters, years) ==
    {x \in DOMAIN survey.respondents :
       LET r == survey.respondents[x]
       IN  /\ r.year \in years
           /\ r.weight[request.weights] \notin {Null, 0}
           /\ \A f \in filters : Belongs(Traits(survey, x), f)}

TimeSpent(survey, x, selector) ==
    MapThenSumSet(LAMBDA e : e.minutes,
        {e \in survey.activities : /\ e.who = x
                                   /\ Under(e.code, selector.include)
                                   /\ ~Under(e.code, selector.exclude)})

\* The days that these years' weights count each person for.
Days(request, filters, years) ==
    {date \in UNION {y * YearLen .. (y + 1) * YearLen - 1 : y \in years} :
       /\ request.weights = "pandemic" => date % YearLen \notin GapDays
       /\ \A f \in filters :
            /\ AtLeast(date, f.date_min) /\ AtMost(date, f.date_max)
            /\ f.day_type \in {Null, IF Weekend(date) THEN "weekend" ELSE "weekday"}}

\* Under a weight, how many people of a set it counts, and their time.
Headcount(survey, request, people, k) ==
    MapThenSumSet(LAMBDA x : Weight(survey, request.weights, x, k), people)
Hours(survey, request, people, k) ==
    MapThenSumSet(LAMBDA x : Weight(survey, request.weights, x, k)
                               * TimeSpent(survey, x, ToSelector(request.activity)), people)

\* <<numerator, denominator>>
Fraction(survey, request, filters, years, k) ==
    LET people == People(survey, request, filters, years)
        doing == {x \in people : TimeSpent(survey, x, ToSelector(request.activity)) > 0}
        hours == Hours(survey, request, people, k)
    IN  CASE request.measure = "average_minutes_per_day" ->
               <<hours, Headcount(survey, request, people, k)>>
          [] request.measure = "participation_rate" ->
               <<Headcount(survey, request, doing, k), Headcount(survey, request, people, k)>>
          [] request.measure = "average_minutes_per_participant" ->
               <<hours, Headcount(survey, request, doing, k)>>
          [] request.measure = "participants_per_day" ->
               <<Headcount(survey, request, doing, k),
                 Cardinality(Days(request, filters, years))>>

\* A question the survey can answer for these years together.
Answerable(survey, request, filters, years) ==
    LET selector == ToSelector(request.activity)
    IN  /\ \A y \in years :
             /\ Covers(request.weights, y)
             /\ People(survey, request, filters, {y}) # {}
        /\ \A c \in Range(selector.include \o selector.exclude) : KnownCode(survey.lexicon, c)
        /\ Leaves(survey.lexicon, selector) # {}
        /\ \A k \in Weights(request) : Fraction(survey, request, filters, years, k)[2] > 0

SameRatio(a, b) == a[1] * b[2] = b[1] * a[2]

TrueEstimate(answer, survey, request, filters, years) ==
    IF ~Answered(answer) THEN ~Answerable(survey, request, filters, years)
    ELSE /\ Answerable(survey, request, filters, years)
         /\ "values" \in DOMAIN answer
         /\ answer.n = Cardinality(People(survey, request, filters, years))
         /\ answer.label = ToSelector(request.activity).label
         /\ DOMAIN answer.values = Weights(request)
         /\ \A k \in Weights(request) :
              SameRatio(answer.values[k], Fraction(survey, request, filters, years, k))

\* A trend or a comparison that is refused is no answer; its parts are estimates.
TrueAnswer(answer, survey, request) ==
    LET years == Range(request.years)
        p == request.population
    IN  \/ /\ request.operation = "estimate"
           /\ TrueEstimate(answer, survey, request, {p}, years)
        \/ request.operation # "estimate" /\ ~Answered(answer)
        \/ /\ request.operation = "trend" /\ DOMAIN answer = {"refused", "points"}
           /\ Len(answer.points) = Cardinality(years)
           /\ \A i \in DOMAIN answer.points :
                TrueEstimate(answer.points[i], survey, request, {p}, {ToSpec(request).years[i]})
        \/ /\ request.operation = "compare" /\ DOMAIN answer = {"refused", "a", "b", "difference"}
           /\ TrueEstimate(answer.a, survey, request, {p, request.groups[1]}, years)
           /\ TrueEstimate(answer.b, survey, request, {p, request.groups[2]}, years)

-----------------------------------------------------------------------------
(* Properties. *)

\* Whether what the first request with a key computed, with the snapshot of o.resolver on
\* the rows of o.data, is the true answer to all that have it, on the survey of o.label.
IsTrue(op, o) ==
    \A leader, asker \in Asking(op) :
      \A answer \in {Run(Tables[o.data], Known(Tables[o.resolver]), JobOf(leader))} :
        TrueAnswer(answer, Survey[o.label], asker)
WrongAnswers ==
    {w \in {<<op, o>> : op \in Op, o \in Outcome} : ~IsTrue(w[1], w[2])}

\* Whoever asked first and whenever the data was reloaded: what a key's computation
\* returns, and what is cached under it, is the true answer to every request with that
\* key, on the full survey of the version it is labelled with.
AnswersAreTrue ==
    /\ \A k \in Key : cache[k] # None =>
         LET o == [data |-> cache[k].data, resolver |-> cache[k].resolver, label |-> k.version]
         IN  <<k.op, o>> \notin WrongAnswers
    /\ \A t \in Task : phase[t] = "returned" /\ result[t] \notin {None, Failed, Overloaded} =>
         <<key[t].op, result[t]>> \notin WrongAnswers

\* Every question of the operation on every survey.
Asked(operation) ==
    {<<survey, q>> : survey \in UNION Range(Surveys),
                     q \in {asked \in Questions : asked.operation = operation}}

\* A survey and a question whose estimate is not what it should be.
WrongEstimate(survey, q) ==
    \E answer \in {Run(survey, Known(survey), JobOf(q))} :
      \/ ~TrueEstimate(answer, survey, q, {q.population}, Range(q.years))
      \/ /\ Buildable(survey)
         /\ answer # Run(Serving(survey), Known(Serving(survey)), JobOf(q))
WrongEstimates == {w \in Asked("estimate") : WrongEstimate(w[1], w[2])}

\* An estimate is answered exactly if the survey can answer it, and then with the
\* weighted mean, rate or count of the people asked about, of each replicate too,
\* whether the full database or the one built from it is served, whatever it is of.
EstimatesAreTrue == \A w \in WrongEstimates : w[1] \notin Surveys[served]

WrongTrend(survey, q) ==
    \E trend \in {Run(survey, Known(survey), JobOf(q))},
       alone \in {[y \in Range(q.years) |->
                     Estimate(survey, Known(survey), [ToSpec(q) EXCEPT !.years = <<y>>])]} :
      IF ~Answered(trend) THEN \A y \in Range(q.years) : Answered(alone[y])
      ELSE \E i \in DOMAIN trend.points :
             IF Answered(trend.points[i])
             THEN trend.points[i] # alone[ToSpec(q).years[i]]
             ELSE Answered(alone[ToSpec(q).years[i]])
WrongTrends == {w \in Asked("trend") : WrongTrend(w[1], w[2])}

\* A trend's points are the estimates of its years one by one, and a point is left out
\* only where that estimate is refused, as the whole trend is.
TrendIsEstimates == \A w \in WrongTrends : w[1] \notin Surveys[served]

\* A comparison, and with its groups exchanged.
RightComparison(forth, back, survey, q) ==
    LET years == Range(q.years)
        filters(g) == {q.population, q.groups[g]}
    IN  IF ~Answered(forth)
        THEN ~Answered(back) /\ \E g \in {1, 2} : ~Answerable(survey, q, filters(g), years)
        ELSE /\ TrueEstimate(forth.a, survey, q, filters(1), years)
             /\ TrueEstimate(forth.b, survey, q, filters(2), years)
             /\ \A k \in DOMAIN forth.difference :
                  SameRatio(Minus(<<0, 1>>, forth.difference[k]), back.difference[k])

WrongComparison(survey, q) ==
    \E forth \in {Compare(survey, Known(survey), ToSpec(q), q.groups)},
       back \in {Compare(survey, Known(survey), ToSpec(q), <<q.groups[2], q.groups[1]>>)} :
      ~RightComparison(forth, back, survey, q)
WrongComparisons == {w \in Asked("compare") : WrongComparison(w[1], w[2])}

\* A comparison's groups are the people of the population who are also in the group;
\* exchanged, they give the opposite difference, replicate by replicate; it is refused
\* only if one of the two estimates would be, or nobody can be in both.
ComparisonIsFair == \A w \in WrongComparisons : w[1] \notin Surveys[served]
=============================================================================

----------------------------- MODULE Analytics -----------------------------
(***************************************************************************)
(* What an analysis computes: from a request (api/schemas/analysis.py)     *)
(* over the engine (analytics/) to its result, and which rows the serving  *)
(* database keeps for it (serving/shape.py, builder.py).                   *)
(*                                                                         *)
(* A survey is its tables.  Sums and ratios are exact; a standard error    *)
(* and its interval are functions of the estimate and the replicate        *)
(* estimates, which stand for them.  An activity code has one digit per    *)
(* tier, and a week one weekend day.  Of the filters on a coded answer,    *)
(* which are alike, sex (joined from the roster) and region (from the CPS) *)
(* stand for all.                                                          *)
(***************************************************************************)
EXTENDS Integers, FiniteSetsExt, SequencesExt

CONSTANTS
    YearLen,      \* days of a year
    WeekLen,      \* days of a week, the last of which is its weekend
    GapDays,      \* days of the year that TU20FWGT does not represent
    Replicate,    \* replicate weights; 0 is the full-sample weight
    MaxMinutes,   \* minutes of a day
    HeavyYears,   \* HEAVY_YEAR_QUERIES
    Presets,      \* ACTIVITY_PRESETS: name -> selector
    Digest,       \* the SHA-256 digests of the contents of cache keys
    Null

Maybe(S) == S \cup {Null}

DayType == {"weekday", "weekend"}
Reason == {"invalid", "unsupported", "unknown", "insufficient", "no respondents"}

Selector == [include : Seq(Nat), exclude : Seq(Nat), label : Maybe(STRING)]

ASSUME AnalyticsConstants ==
    /\ YearLen \in Nat \ {0} /\ WeekLen \in Nat \ {0} /\ GapDays \subseteq 0 .. YearLen - 1
    /\ IsFiniteSet(Replicate) /\ 0 \notin Replicate /\ MaxMinutes \in Nat /\ HeavyYears \in Nat
    /\ IsInjective(Digest) /\ Presets \in [DOMAIN Presets -> Selector]
    /\ Null \notin Int /\ Null \notin BOOLEAN /\ Null \notin DayType \cup Reason

Scheme == {"multiyear", "pandemic"}

\* Dates are counted from the year 0; the diary's day of the week is its date's.
YearOf(date) == date \div YearLen
Weekend(date) == date % WeekLen = WeekLen - 1

\* Ratios are <<numerator, denominator>>.
Minus(a, b) == <<a[1] * b[2] - b[1] * a[2], a[2] * b[2]>>

Refuse(why) == [refused |-> why]
Answered(answer) == answer.refused = Null

-----------------------------------------------------------------------------
(* The request and its canonical form. *)

\* A sequence in order: its i-th has fewer than i others below it, and i not above.
InOrder(s) ==
    [i \in DOMAIN s |-> CHOOSE v \in Range(s) :
       /\ Cardinality({j \in DOMAIN s : s[j] < v}) < i
       /\ Cardinality({j \in DOMAIN s : s[j] <= v}) >= i]

ToSelector(activity) ==
    IF activity.preset # Null THEN Presets[activity.preset]
    ELSE [include |-> InOrder(activity.include),
          exclude |-> InOrder(activity.exclude), label |-> activity.label]

ToSpec(request) ==
    [measure |-> request.measure, activity |-> ToSelector(request.activity),
     years |-> InOrder(request.years), population |-> request.population,
     weights |-> request.weights, variance |-> request.variance]

\* An AnalysisJob, and but for the versions the content of its cache key.
JobOf(request) ==
    [operation |-> request.operation, spec |-> ToSpec(request), groups |-> request.groups]

\* Fault: the key is that of the specification.
KeyOfSpec(job) == Digest[[job EXCEPT !.operation = "estimate", !.groups = <<>>]]

KeyOf(job) == Digest[job]

HeavyJob(job) ==
    Len(job.spec.years) * (IF job.operation = "compare" THEN 2 ELSE 1) >= HeavyYears

-----------------------------------------------------------------------------
(* The survey's tables. *)

\* The schema's types, primary and foreign keys.
WellKeyed(survey) ==
    /\ IsFiniteSet(DOMAIN survey.respondents) /\ IsFiniteSet(survey.activities)
    /\ \A x \in DOMAIN survey.respondents :
         survey.respondents[x] \in [year : Nat, date : Nat, children : Maybe(Nat),
                                   weight : [Scheme -> Maybe(Nat)]]
    /\ \A table \in {survey.roster, survey.cps} : \A m, n \in table :
         m.who = n.who /\ m.line = n.line => m = n
    /\ \A m \in survey.roster : m.age \in Maybe(Nat)
    /\ \A e \in survey.activities :
         /\ e.who \in DOMAIN survey.respondents /\ e.code \in survey.lexicon
         /\ e.minutes \in Nat

\* What validation checks of a load: every weight that counts has its replicates, TU20FWGT
\* counts no day of the gap, and a diary is of its survey's year (there only a warning).
Validated(survey) ==
    \A x \in DOMAIN survey.respondents :
      LET r == survey.respondents[x]
      IN  /\ r.year = YearOf(r.date)
          /\ r.weight["pandemic"] \notin {Null, 0} => r.date % YearLen \notin GapDays
          /\ \A s \in Scheme : r.weight[s] \notin {Null, 0} =>
               /\ x \in DOMAIN survey.replicates[s]
               /\ survey.replicates[s][x] \in [Replicate -> Int]

-----------------------------------------------------------------------------
(* Population filters: a dimension that is Null is not restricted. *)

ValidFilter(f) ==
    /\ f.age_min # Null /\ f.age_max # Null => f.age_min <= f.age_max
    /\ f.date_min # Null /\ f.date_max # Null => f.date_min <= f.date_max

Filter ==
    [age_min : Maybe(Nat), age_max : Maybe(Nat), sex : Maybe(Nat), region : Maybe(Nat),
     children : Maybe(BOOLEAN), day_type : Maybe(DayType),
     date_min : Maybe(Nat), date_max : Maybe(Nat)]

Requests ==
    [operation : {"estimate", "trend", "compare"},
     measure : {"average_minutes_per_day", "participation_rate",
                "average_minutes_per_participant", "participants_per_day"},
     activity : [preset : Maybe(DOMAIN Presets), include : Seq(Nat), exclude : Seq(Nat),
                 label : Maybe(STRING)],
     years : Seq(Nat), population : Filter, weights : Scheme,
     variance : {"replicate", "none"}, groups : {<<>>} \cup (Filter \X Filter)]

\* What to_spec and the specs' own checks accept.
WellFormed(request) ==
    /\ request \in Requests /\ (request.operation = "compare" => request.groups # <<>>)
    /\ request.years # <<>> /\ IsInjective(request.years)
    /\ \A f \in {request.population} \cup Range(request.groups) : ValidFilter(f)

Lower == {"age_min", "date_min"}
Upper == {"age_max", "date_max"}

Conflicting(f, g) ==
    \E d \in DOMAIN f \ (Lower \cup Upper) : f[d] # Null /\ g[d] # Null /\ f[d] # g[d]

\* Fault: the group's bounds replace the shared ones.
MergeReplacing(f, g) == [d \in DOMAIN f |-> IF g[d] # Null THEN g[d] ELSE f[d]]

\* merge_filters: of two bounds the stricter, of two restrictions either.
Merge(f, g) ==
    [d \in DOMAIN f |->
       IF Null \in {f[d], g[d]} THEN IF f[d] = Null THEN g[d] ELSE f[d]
       ELSE CASE d \in Lower -> Max({f[d], g[d]})
              [] d \in Upper -> Min({f[d], g[d]})
              [] OTHER -> f[d]]

\* A comparison with NULL is not true.
AtLeast(value, bound) == bound # Null => value # Null /\ value >= bound
AtMost(value, bound) == bound # Null => value # Null /\ value <= bound

HasChildren(r, wanted) == wanted # Null => r.children # Null /\ (r.children > 0) = wanted

\* build_population_sql: the joins are on line 1, the respondent's own.
Qualifies(survey, x, f) ==
    LET r == survey.respondents[x]
    IN  /\ {f.age_min, f.age_max, f.sex} # {Null} =>
             \E m \in survey.roster :
               /\ m.who = x /\ m.line = 1
               /\ AtLeast(m.age, f.age_min) /\ AtMost(m.age, f.age_max)
               /\ f.sex # Null => m.sex = f.sex
        /\ f.region # Null =>
             \E c \in survey.cps : c.who = x /\ c.line = 1 /\ c.region = f.region
        /\ HasChildren(r, f.children)
        /\ f.day_type # Null => Weekend(r.date) = (f.day_type = "weekend")
        /\ AtLeast(r.date, f.date_min) /\ AtMost(r.date, f.date_max)

-----------------------------------------------------------------------------
(* Weight schemes and activity codes. *)

\* validate_scheme_for_years
Covers(scheme, year) ==
    IF scheme = "multiyear" THEN year # 2020 ELSE year \in {2019, 2020}

\* Fault: a filter on the day type leaves the denominator at all days.
DaysOfAnyType(scheme, year, f) ==
    Cardinality({d \in 0 .. YearLen - 1 :
                   /\ AtLeast(year * YearLen + d, f.date_min)
                   /\ AtMost(year * YearLen + d, f.date_max)
                   /\ scheme = "pandemic" => d \notin GapDays})

\* The days of a year that its weights stand for.
DaysRepresented(scheme, year, f) ==
    Cardinality({d \in 0 .. YearLen - 1 :
                   LET date == year * YearLen + d
                   IN  /\ AtLeast(date, f.date_min) /\ AtMost(date, f.date_max)
                       /\ scheme = "pandemic" => d \notin GapDays
                       /\ f.day_type # Null => Weekend(date) = (f.day_type = "weekend")})

\* A code stands for all codes below it.
Under(leaf, codes) ==
    \E c \in Range(codes) : c \in {leaf, leaf \div 10, leaf \div 100}

KnownCode(lexicon, code) == \E leaf \in lexicon : Under(leaf, <<code>>)

Leaves(lexicon, selector) ==
    {leaf \in lexicon : Under(leaf, selector.include) /\ ~Under(leaf, selector.exclude)}

-----------------------------------------------------------------------------
(* Sufficient statistics. *)

\* Fault: the pushdown keeps the episodes of the first year only.
MinutesOfFirstYear(survey, leaves, years) ==
    LET hits == {e \in survey.activities :
                   e.code \in leaves /\ survey.respondents[e.who].year = years[1]}
    IN  [x \in {e.who : e \in hits} |->
           MapThenSumSet(LAMBDA e : e.minutes, {e \in hits : e.who = x})]

\* activity_minutes: one row per respondent of the requested years with a
\* selected episode.
ActivityMinutes(survey, leaves, years) ==
    LET hits == {e \in survey.activities :
                   e.code \in leaves /\ survey.respondents[e.who].year \in Range(years)}
    IN  [x \in {e.who : e \in hits} |->
           MapThenSumSet(LAMBDA e : e.minutes, {e \in hits : e.who = x})]

\* What a diary counts under a weight: 0 is that of the full sample.
Weights(spec) == {0} \cup IF spec.variance = "replicate" THEN Replicate ELSE {}

Weight(survey, scheme, x, k) ==
    IF k = 0 THEN survey.respondents[x].weight[scheme] ELSE survey.replicates[scheme][x][k]

\* base: who is of the population, with the replicate weights joined if wanted.
Base(survey, spec) ==
    {x \in DOMAIN survey.respondents :
       LET r == survey.respondents[x]
       IN  /\ r.year \in Range(spec.years)
           /\ r.weight[spec.weights] # Null /\ r.weight[spec.weights] > 0
           /\ Qualifies(survey, x, spec.population)
           /\ spec.variance = "replicate" => x \in DOMAIN survey.replicates[spec.weights]}

\* Its rows, with the minutes of those who have some.
Rows(survey, spec, minutes) ==
    {[who |-> x, year |-> survey.respondents[x].year,
      x |-> IF x \in DOMAIN minutes THEN minutes[x] ELSE 0,
      weight |-> [k \in Weights(spec) |-> Weight(survey, spec.weights, x, k)]] :
       x \in Base(survey, spec)}

\* Of some rows, and under each weight, the sums of w, w * x and w * p.
Sums(rows, weights) ==
    [n |-> Cardinality(rows),
     participants |-> Cardinality({r \in rows : r.x > 0}),
     w |-> [k \in weights |-> MapThenSumSet(LAMBDA r : r.weight[k], rows)],
     wx |-> [k \in weights |-> MapThenSumSet(LAMBDA r : r.weight[k] * r.x, rows)],
     wp |-> [k \in weights |->
               MapThenSumSet(LAMBDA r : r.weight[k], {r \in rows : r.x > 0})]]

\* fetch_year_statistics: the years with rows.
Statistics(survey, spec, leaves) ==
    LET rows == Rows(survey, spec, ActivityMinutes(survey, leaves, spec.years))
    IN  [y \in {r.year : r \in rows} |->
           Sums({r \in rows : r.year = y}, Weights(spec))]

\* The years' sums add.
Combine(stats) ==
    LET total(part) == MapThenSumSet(LAMBDA y : part[y], DOMAIN stats)
        weights == UNION {DOMAIN stats[y].w : y \in DOMAIN stats}
    IN  [n |-> total([y \in DOMAIN stats |-> stats[y].n]),
         participants |-> total([y \in DOMAIN stats |-> stats[y].participants]),
         w |-> [k \in weights |-> total([y \in DOMAIN stats |-> stats[y].w[k]])],
         wx |-> [k \in weights |-> total([y \in DOMAIN stats |-> stats[y].wx[k]])],
         wp |-> [k \in weights |-> total([y \in DOMAIN stats |-> stats[y].wp[k]])]]

-----------------------------------------------------------------------------
(* Estimates. *)

PointEstimate(measure, stats, days, k) ==
    CASE measure = "average_minutes_per_day" -> <<stats.wx[k], stats.w[k]>>
      [] measure = "participation_rate" -> <<stats.wp[k], stats.w[k]>>
      [] measure = "average_minutes_per_participant" -> <<stats.wx[k], stats.wp[k]>>
      [] measure = "participants_per_day" -> <<stats.wp[k], days>>

TotalDays(spec) ==
    MapThenSumSet(LAMBDA y : DaysRepresented(spec.weights, y, spec.population),
                  Range(spec.years))

\* _estimate_from_stats: the point and the replicate estimates; each needs a positive
\* denominator.
FromStatistics(spec, leaves, stats) ==
    LET days == TotalDays(spec)
        values == [k \in Weights(spec) |-> PointEstimate(spec.measure, stats, days, k)]
    IN  CASE days <= 0 -> Refuse("invalid")
          [] days > 0 /\ \E k \in Weights(spec) : values[k][2] <= 0 -> Refuse("insufficient")
          [] OTHER -> [refused |-> Null, years |-> spec.years, label |-> spec.activity.label,
                       leaves |-> leaves, n |-> stats.n, participants |-> stats.participants,
                       days |-> days, people |-> <<stats.w[0], days>>, values |-> values]

\* _prepare, with the years and the lexicon the engine was given; Null if it
\* accepts.
Refusal(known, spec) ==
    IF ~(Range(spec.years) \subseteq known.years) THEN "invalid"
    ELSE IF \E y \in Range(spec.years) : ~Covers(spec.weights, y) THEN "unsupported"
    ELSE IF \E c \in Range(spec.activity.include \o spec.activity.exclude) :
              ~KnownCode(known.lexicon, c) THEN "unknown"
    ELSE IF Leaves(known.lexicon, spec.activity) = {} THEN "invalid" ELSE Null

Estimate(survey, known, spec) ==
    LET leaves == Leaves(known.lexicon, spec.activity)
        stats == Statistics(survey, spec, leaves)
    IN  IF Refusal(known, spec) # Null THEN Refuse(Refusal(known, spec))
        ELSE IF DOMAIN stats # Range(spec.years) THEN Refuse("insufficient")
        ELSE FromStatistics(spec, leaves, Combine(stats))

\* Their order matters to nothing.
Supported(spec) ==
    SetToSeq({y \in Range(spec.years) : spec.weights = "multiyear" => y # 2020})

\* The years whose weights and activity are checked: if none is supported, all.
Prepared(spec) ==
    [spec EXCEPT !.years = IF Supported(spec) = <<>> THEN @ ELSE Supported(spec)]

\* Each supported year with respondents is estimated from its own statistics;
\* one that cannot be ends the trend.
Trend(survey, known, spec) ==
    LET leaves == Leaves(known.lexicon, spec.activity)
        stats == Statistics(survey, [spec EXCEPT !.years = Supported(spec)], leaves)
        point(y) ==
            CASE y \notin Range(Supported(spec)) -> Refuse("unsupported")
              [] y \in Range(Supported(spec)) \ DOMAIN stats -> Refuse("no respondents")
              [] OTHER -> FromStatistics([spec EXCEPT !.years = <<y>>], leaves, stats[y])
        points == [i \in DOMAIN spec.years |-> point(spec.years[i])]
        errors == {i \in DOMAIN points : points[i].refused \in {"invalid", "insufficient"}}
    IN  IF Refusal(known, Prepared(spec)) # Null THEN Refuse(Refusal(known, Prepared(spec)))
        ELSE IF errors # {} THEN points[Min(errors)]
        ELSE [refused |-> Null, points |-> points]

\* A - B, replicate by replicate.
Difference(a, b) == [k \in DOMAIN a.values |-> Minus(a.values[k], b.values[k])]

\* The shared filters and a group's, where nothing contradicts.
Refined(spec, group) == [spec EXCEPT !.population = Merge(@, group)]
Contradicts(spec, group) ==
    Conflicting(spec.population, group) \/ ~ValidFilter(Refined(spec, group).population)

Compare(survey, known, spec, groups) ==
    LET estimates == [g \in {1, 2} |-> Estimate(survey, known, Refined(spec, groups[g]))]
        errors == {g \in {1, 2} : ~Answered(estimates[g])}
    IN  IF \E g \in {1, 2} : Contradicts(spec, groups[g]) THEN Refuse("invalid")
        ELSE IF errors # {} THEN estimates[Min(errors)]
        ELSE [refused |-> Null, a |-> estimates[1], b |-> estimates[2],
              difference |-> Difference(estimates[1], estimates[2])]

Run(survey, known, job) ==
    CASE job.operation = "estimate" -> Estimate(survey, known, job.spec)
      [] job.operation = "trend" -> Trend(survey, known, job.spec)
      [] job.operation = "compare" -> Compare(survey, known, job.spec, job.groups)

\* dry_run: the engine up to its first statement.
DryRun(known, job) ==
    IF job.operation = "compare" /\ \E g \in {1, 2} : Contradicts(job.spec, job.groups[g])
    THEN "invalid"
    ELSE Refusal(known, IF job.operation = "trend" THEN Prepared(job.spec) ELSE job.spec)

\* What the API's data snapshot holds of the survey.
Known(survey) ==
    [years |-> {survey.respondents[x].year : x \in DOMAIN survey.respondents},
     lexicon |-> survey.lexicon]

-----------------------------------------------------------------------------
(* The serving database. *)

Omitted(scheme, row) ==
    \A k \in Replicate : row[k] = IF scheme = "multiyear" THEN Null ELSE 0

Minutes(survey, x, code) ==
    MapThenSumSet(LAMBDA e : e.minutes,
                  {e \in survey.activities : e.who = x /\ e.code = code})

\* ASSERTIONS: no respondent that counts loses its replicate weights, and the
\* minutes of a code fit.
Buildable(survey) ==
    /\ \A s \in Scheme : \A x \in DOMAIN survey.replicates[s] :
         Omitted(s, survey.replicates[s][x]) =>
            survey.respondents[x].weight[s] = Null \/ survey.respondents[x].weight[s] = 0
    /\ \A e \in survey.activities : Minutes(survey, e.who, e.code) <= MaxMinutes

\* The respondents' own lines, the replicate rows that are used, and one row
\* per respondent and code.
Serving(survey) ==
    [respondents |-> survey.respondents, lexicon |-> survey.lexicon,
     roster |-> {m \in survey.roster : m.line = 1},
     cps |-> {c \in survey.cps : c.line = 1},
     replicates |-> [s \in Scheme |->
        LET rows == survey.replicates[s]
        IN  Restrict(rows, {x \in DOMAIN rows : ~Omitted(s, rows[x])})],
     activities |-> {[who |-> e.who, number |-> 0, code |-> e.code,
                      minutes |-> Minutes(survey, e.who, e.code)] : e \in survey.activities}]
=============================================================================

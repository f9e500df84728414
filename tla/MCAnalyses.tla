----------------------------- MODULE MCAnalyses -----------------------------
(* Small surveys and requests for TLC. *)
EXTENDS Analyses

MCPresets == [sleep |-> [include |-> <<111>>, exclude |-> <<>>, label |-> "Sleeping"]]

\* Respondents 1 to 4 are of 2018, 2019 (in the gap), 2019 and 2020.
Date == <<2018 * YearLen, 2019 * YearLen + 1, 2019 * YearLen + 3, 2020 * YearLen + 2>>
Multiyear == <<2, 1, 3, Null>>
Pandemic == <<Null, 0, 2, 1>>
MultiyearRows == <<<<3, 1>>, <<1, 2>>, <<2, 5>>, <<Null, Null>>>>
PandemicRows == [x \in 2 .. 4 |-> <<<<0, 0>>, <<1, 3>>, <<2, 0>>>>[x - 1]]

Episode(x, number, code, minutes) ==
    [who |-> x, number |-> number, code |-> code, minutes |-> minutes]

\* Who a respondent is: without children, with them and active, or little known.
Person(x, kind) ==
    CASE kind = 1 -> [age |-> 20, sex |-> 1, region |-> 1, children |-> 0,
                      diary |-> {Episode(x, 1, 211, 5)}]
      [] kind = 2 -> [age |-> 30, sex |-> 2, region |-> Null, children |-> 2,
                      diary |-> {Episode(x, 1, 111, 1), Episode(x, 2, 111, 2),
                                 Episode(x, 3, 121, 1)}]
      [] kind = 3 -> [age |-> Null, sex |-> 1, region |-> 2, children |-> Null,
                      diary |-> {Episode(x, 1, 111, 0), Episode(x, 2, 112, 4)}]

SurveyOf(kind) ==
    [respondents |-> [x \in 1 .. 4 |->
        [year |-> YearOf(Date[x]), date |-> Date[x], children |-> Person(x, kind[x]).children,
         weight |-> [multiyear |-> Multiyear[x], pandemic |-> Pandemic[x]]]],
     roster |-> UNION {{[who |-> x, line |-> 1, age |-> Person(x, kind[x]).age,
                         sex |-> Person(x, kind[x]).sex],
                        [who |-> x, line |-> 2, age |-> 40, sex |-> 2]} : x \in 1 .. 4},
     cps |-> {[who |-> x, line |-> 1, region |-> Person(x, kind[x]).region] : x \in 1 .. 3},
     activities |-> UNION {Person(x, kind[x]).diary : x \in 1 .. 4},
     replicates |-> [multiyear |-> MultiyearRows, pandemic |-> PandemicRows],
     lexicon |-> {111, 112, 121, 211}]

\* Its builder would leave out a row that counts, or a sum that does not fit.
Unbuildable ==
    {[SurveyOf(<<2, 2, 2, 2>>) EXCEPT !.replicates.pandemic[3] = <<0, 0>>],
     [SurveyOf(<<2, 2, 2, 2>>) EXCEPT !.activities = @ \cup {Episode(1, 4, 111, MaxMinutes)}]}

\* 1 and 4, never counted together, are alike.
MCSurveys ==
    LET of(a) == {SurveyOf(<<a, k[1], k[2], a>>) : k \in (1 .. 3) \X (1 .. 3)}
    IN  (0 :> of(2) \cup Unbuildable) @@ (1 :> of(1) \cup of(3))
MCSurvey == (0 :> SurveyOf(<<2, 1, 3, 2>>)) @@ (1 :> SurveyOf(<<1, 2, 2, 1>>))
MCTables == (0 :> Serving(MCSurvey[0])) @@ (1 :> MCSurvey[1])

-----------------------------------------------------------------------------

Everyone ==
    [age_min |-> Null, age_max |-> Null, sex |-> Null, region |-> Null, children |-> Null,
     day_type |-> Null, date_min |-> Null, date_max |-> Null]
Codes(include, exclude) ==
    [preset |-> Null, include |-> include, exclude |-> exclude, label |-> Null]
Preset(name) == [preset |-> name, include |-> <<>>, exclude |-> <<>>, label |-> Null]

Ask(operation, years, weights) ==
    [operation |-> operation, measure |-> "average_minutes_per_day",
     activity |-> Codes(<<2, 1>>, <<12>>), years |-> years, population |-> Everyone,
     weights |-> weights, variance |-> "replicate", groups |-> <<>>]

Periods == {<<<<2018>>, "multiyear">>, <<<<2019, 2018>>, "multiyear">>,
            <<<<2018, 2020, 2019>>, "multiyear">>, <<<<2020>>, "multiyear">>,
            <<<<2020, 2019>>, "pandemic">>, <<<<2019>>, "pandemic">>,
            <<<<2018, 2019>>, "pandemic">>, <<<<2017>>, "multiyear">>}

Populations ==
    {Everyone} \cup
    {[Everyone EXCEPT !.children = TRUE], [Everyone EXCEPT !.children = FALSE],
     [Everyone EXCEPT !.age_min = 25], [Everyone EXCEPT !.age_max = 25, !.sex = 1],
     [Everyone EXCEPT !.region = 1], [Everyone EXCEPT !.region = 2],
     [Everyone EXCEPT !.day_type = "weekend"],
     [Everyone EXCEPT !.date_min = 2019 * YearLen + 2, !.date_max = 2020 * YearLen + 2]}

Activities ==
    {Codes(<<2, 1>>, <<12>>), Codes(<<121, 112>>, <<>>), Codes(<<3>>, <<>>),
     Codes(<<121>>, <<12>>), Preset("sleep")}

Measures == {"average_minutes_per_day", "participation_rate",
             "average_minutes_per_participant", "participants_per_day"}

Single(operation) ==
    LET asked == {Ask(operation, p[1], p[2]) : p \in Periods}
    IN  {[a EXCEPT !.measure = m] : a \in asked, m \in Measures}
        \cup {[a EXCEPT !.population = f, !.measure = m] :
                a \in asked, f \in Populations,
                m \in {"average_minutes_per_day", "participants_per_day"}}
        \cup {[Ask(operation, <<2019, 2018>>, "multiyear") EXCEPT !.activity = c,
                                                                   !.variance = v] :
                c \in Activities, v \in {"replicate", "none"}}

Comparisons ==
    {[Ask("compare", p[1], p[2]) EXCEPT !.population = f, !.groups = <<a, b>>] :
       p \in {<<<<2019, 2018>>, "multiyear">>, <<<<2019>>, "pandemic">>},
       f \in Populations, a \in Populations, b \in {Everyone, [Everyone EXCEPT !.age_min = 18]}}

MCQuestions == Single("estimate") \cup Single("trend") \cup Comparisons

\* Two that are one, one that is heavy, and one that the dry run refuses.
MCRequest ==
    {Ask("estimate", <<2018, 2019>>, "multiyear"), Ask("estimate", <<2019, 2018>>, "multiyear"),
     [Ask("compare", <<2019, 2018>>, "multiyear") EXCEPT
        !.groups = <<Everyone, [Everyone EXCEPT !.age_min = 18]>>],
     Ask("estimate", <<2017>>, "multiyear")}
MCDigest ==
    [job \in {JobOf(r) : r \in MCRequest} |->
       IF job.spec.years = <<2017>> THEN "refused" ELSE job.operation]
=============================================================================

---------------------------- MODULE LeasedQuota ----------------------------
(***************************************************************************)
(* What the governor promises of its daily counts (edge/src/governor.ts    *)
(* 9-22 and 54-56): an analysis is admitted against all that ran today and *)
(* all that may still run, its lease ends once, by a report of what became *)
(* of it or by expiring as if it had run, and an admission that is given   *)
(* back still counts against what its network may ask in a day.  Rows,     *)
(* purges, compute, egress and the counters' arithmetic are not in the     *)
(* promise.                                                                *)
(***************************************************************************)
EXTENDS Integers, FiniteSets

CONSTANTS
    Network,
    Days,
    PerNetwork,     \* analyses a network may have in a day
    AsksPerNetwork, \* admissions it may have, those given back included
    PerDay,         \* analyses of a day
    HeavyPerDay     \* heavy ones

VARIABLES
    today,
    open,    \* leases not ended, each with its day, its prefix and whether it is heavy
    ran,     \* analyses of a day that ran or may have: all, and the heavy ones
    ranFor,  \* those of a network that the API answered or may have
    asks     \* today's admissions of a network

OfDay(d) == {l \in open : l.day = d}
HeavyOf(d) == {l \in OfDay(d) : l.heavy}
OfNetwork(d, n) == {l \in OfDay(d) : l.prefix = n}

Init ==
    /\ today = 0
    /\ open = {}
    /\ ran = [d \in Days |-> [all |-> 0, heavy |-> 0]]
    /\ ranFor = [d \in Days |-> [n \in Network |-> 0]]
    /\ asks = [n \in Network |-> 0]

-----------------------------------------------------------------------------

\* Leases of which nothing was heard end as if their analyses had run.
Lapse(lost) ==
    /\ lost \subseteq open
    /\ ran' = [d \in Days |->
                 [all |-> ran[d].all + Cardinality(OfDay(d) \cap lost),
                  heavy |-> ran[d].heavy + Cardinality(HeavyOf(d) \cap lost)]]
    /\ ranFor' = [d \in Days |-> [n \in Network |->
                    ranFor[d][n] + Cardinality(OfNetwork(d, n) \cap lost)]]

Expire(lost) ==
    /\ Lapse(lost)
    /\ open' = open \ lost
    /\ UNCHANGED <<today, asks>>

\* Every cap has room for one more, next to all that ran and is open; leases
\* may lapse in the same step.
Admit(l, lost) ==
    /\ l.day = today /\ l \notin open /\ l.prefix \in Network
    /\ ran[today].all + Cardinality(OfDay(today)) < PerDay
    /\ l.heavy => ran[today].heavy + Cardinality(HeavyOf(today)) < HeavyPerDay
    /\ ranFor[today][l.prefix] + Cardinality(OfNetwork(today, l.prefix)) < PerNetwork
    /\ asks[l.prefix] < AsksPerNetwork
    /\ Lapse(lost)
    /\ open' = (open \ lost) \cup {l}
    /\ asks' = [asks EXCEPT ![l.prefix] = @ + 1]
    /\ UNCHANGED today

\* A lease ends with a report, once: of an analysis that ran, of one that the
\* API answered all the same, or of one that is given back to day and network.
End(l, fate) ==
    /\ l \in open
    /\ open' = open \ {l}
    /\ LET one == IF fate = "ran" THEN 1 ELSE 0
       IN  ran' = [ran EXCEPT ![l.day] =
                     [all |-> @.all + one, heavy |-> @.heavy + (IF l.heavy THEN one ELSE 0)]]
    /\ ranFor' = [ranFor EXCEPT ![l.day][l.prefix] = @ + (IF fate = "back" THEN 0 ELSE 1)]
    /\ UNCHANGED <<today, asks>>

\* A day begins with no admissions; the leases of the day before go on.
Midnight ==
    /\ today' \in Days /\ today' > today
    /\ asks' = [n \in Network |-> 0]
    /\ UNCHANGED <<open, ran, ranFor>>

Next ==
    \/ \E l \in open' \ open : Admit(l, open \ open')
    \/ Expire(open \ open')
    \/ \E l \in open, fate \in {"ran", "answered", "back"} : End(l, fate)
    \/ Midnight

Spec == Init /\ [][Next]_<<today, open, ran, ranFor, asks>>
=============================================================================

------------------------------- MODULE Budget -------------------------------
(***************************************************************************)
(* The pure arithmetic of the quota governor, edge/src/budget.ts.          *)
(*                                                                         *)
(* Time is counted in ticks and an interval [start, end) of the code is    *)
(* the set of ticks start .. end - 1, so a list of charged windows is a    *)
(* set of ticks and the length of a union is a cardinality.  Compute is    *)
(* charged in ticks too: the factor NEON_MAX_CU (cuSeconds) only scales    *)
(* every charge and every ceiling.  BudgetIntervals checks this reading    *)
(* against the code's sorted lists of intervals.                           *)
(***************************************************************************)
EXTENDS Integers, FiniteSets

CONSTANTS
    DayLen,       \* DAY_MS
    Busy,         \* PROVISIONAL_BUSY_MS: DB time assumed for an unsettled lease
    Tail,         \* NEON_IDLE_TAIL_MS: idle time before Neon suspends
    StartMargin   \* DB_START_MARGIN_MS: slack before a settled lease's DB time

ASSUME BudgetConstants ==
    /\ DayLen \in Nat \ {0}
    /\ Busy \in Nat
    /\ Tail \in Nat
    /\ StartMargin \in Nat

Larger(a, b) == IF a >= b THEN a ELSE b

\* A db time the API did not report (dbMs === null).
Unreported == -1

\* The UTC day a tick belongs to, and the first tick of the next day.
Day(t) == t \div DayLen
NextMidnight(t) == (t \div DayLen + 1) * DayLen

\* The window a settled analysis is charged for: its DB work and the idle tail.
Window(start, end) == start .. (end + Tail - 1)

\* What an admitted, unsettled request is assumed to keep the compute up for.
Provisional(at) == Window(at, at + Busy)

\* Where the DB work of a request settled at `end` began.
DbStart(at, end, db) ==
    IF db = Unreported THEN at ELSE Larger(at, end - db - StartMargin)

\* The time of `ticks` no settled request has paid for yet.
Uncovered(ticks, charged) == ticks \ charged

\* Fault: a run that ends just after keepAfter is dropped as well.
KeepAfterLate(charged, keepAfter) ==
    {t \in charged :
        \E last \in charged :
            /\ last >= t
            /\ last > keepAfter
            /\ t .. last \subseteq charged}

(***************************************************************************)
(* Charged windows are kept merged, and a merged run is dropped as a       *)
(* whole once it ends at or before keepAfter: a tick survives when its     *)
(* unbroken run reaches keepAfter.                                         *)
(***************************************************************************)
KeepAfter(charged, keepAfter) ==
    {t \in charged :
        \E last \in charged :
            /\ last >= t
            /\ last >= keepAfter
            /\ t .. last \subseteq charged}

AddCharged(charged, window, keepAfter) ==
    KeepAfter(charged \cup window, keepAfter)
=============================================================================

--------------------------------- MODULE Site ---------------------------------
(***************************************************************************)
(* The page's API calls (frontend/src/api: resilience.ts, client.ts,       *)
(* endpoints.ts) over the edge Worker: an attempt is one request of        *)
(* EdgeWorker, and withRetries decides what follows its answer.  One slot  *)
(* is one call and its present request.                                    *)
(***************************************************************************)
EXTENDS EdgeWorker

CONSTANTS
    Asks,      \* bound: the kinds of request each slot makes
    Budget,    \* COLD_START_BUDGET_MS
    MaxDelay   \* bound: the longest wait between attempts

CallKind == {"analysis", "lookup"}

ASSUME SiteConstants ==
    Asks \in [Slot -> SUBSET Kind] /\ Budget \in Nat /\ MaxDelay \in Nat \ {0}

VARIABLES
    ask,         \* the kind of each slot's call
    phase,       \* whether it waits for an answer or for its next attempt
    since,       \* startedAt
    resumeAt,    \* when its sleep ends; 0 when it does not sleep
    resent,      \* transientRetries
    computed     \* history: attempts of the call the API began to compute; None once
                 \* such a one lost its connection, the API or the end of its answer

call == <<ask, phase, since, resumeAt, resent, computed>>
vars == <<edgeVars, call>>

SiteTypeOK ==
    /\ EdgeTypeOK
    /\ ask \in [Slot -> CallKind \cup {None}]
    /\ phase \in [Slot -> {"idle", "sent", "waiting"}]
    /\ since \in [Slot -> 0 .. MaxTime] /\ resumeAt \in [Slot -> 0 .. MaxTime]
    /\ resent \in [Slot -> 0 .. 1]
    /\ computed \in [Slot -> Nat \cup {None}]

-----------------------------------------------------------------------------
\* A call begins; the clock's bound leaves it its whole budget.
NewCall(c, k) ==
    /\ k \in Asks[c] \cap CallKind /\ phase[c] = "idle" /\ now + Budget <= MaxTime
    /\ Arrive(c, k)
    /\ ask' = [ask EXCEPT ![c] = k]
    /\ phase' = [phase EXCEPT ![c] = "sent"]
    /\ since' = [since EXCEPT ![c] = now]
    /\ UNCHANGED <<resumeAt, resent, computed>>

\* The page's prewake, and anyone's health request.
Visit(c, k) ==
    /\ k \in Asks[c] \ CallKind /\ phase[c] = "idle" /\ Arrive(c, k) /\ UNCHANGED call

Serve(c) ==
    /\ RequestStep(c)
    /\ computed' = [computed EXCEPT ![c] =
          IF phase[c] = "sent" /\ @ # None /\ own'[c] /\ ~own[c] THEN @ + 1 ELSE @]
    /\ UNCHANGED <<ask, phase, since, resumeAt, resent>>

\* Fault: the reasons of upstream_unavailable are not looked at.
ClassOfCode(what) ==
    CASE what \in {"waking", "circuit_open", "connect_failed", "cut", "origin_timeout",
                   "broken_response"} -> "waking"
      [] what = "overloaded" -> "transient"
      [] OTHER -> what

\* classifyFailure
Class(what) ==
    CASE what \in {"waking", "circuit_open", "connect_failed", "cut"} -> "waking"
      [] what \in {"origin_timeout", "broken_response", "overloaded"} -> "transient"
      [] OTHER -> what

\* mayRetry
MayRetry(c, class) ==
    /\ class # "final"
    /\ \/ ask[c] = "lookup"
       \/ class = "waking"
       \/ class = "transient" /\ resent[c] = 0

\* Fault: the budget starts again with every attempt.
RestartedBudget(c, delay) == delay <= Budget

InBudget(c, delay) == now - since[c] + delay <= Budget

Settle(c) ==
    /\ ask' = [ask EXCEPT ![c] = None]
    /\ phase' = [phase EXCEPT ![c] = "idle"]
    /\ since' = [since EXCEPT ![c] = 0] /\ resumeAt' = [resumeAt EXCEPT ![c] = 0]
    /\ resent' = [resent EXCEPT ![c] = 0] /\ computed' = [computed EXCEPT ![c] = 0]

\* The failed attempt is followed by a wait, if the budget still allows it.
SleepOrSettle(c, class, lost) ==
    \E delay \in 1 .. MaxDelay :
        IF InBudget(c, delay)
        THEN /\ phase' = [phase EXCEPT ![c] = "waiting"]
             /\ resumeAt' = [resumeAt EXCEPT ![c] = now + delay]
             /\ resent' = [resent EXCEPT ![c] = IF class = "transient" THEN 1 ELSE @]
             /\ computed' = [computed EXCEPT ![c] = IF lost THEN None ELSE @]
             /\ UNCHANGED <<ask, since>>
        ELSE Settle(c)

\* One turn of withRetries: the attempt's answer reaches the page.
HandleReply(c) ==
    /\ stage[c] = "replied" /\ phase[c] = "sent"
    /\ IF reply[c] # "result" /\ MayRetry(c, Class(reply[c]))
       THEN SleepOrSettle(c, Class(reply[c]), own[c] /\ (severed[c] \/ reply[c] = "cut"))
       ELSE Settle(c)
    /\ Free(c)

\* A lookup's attempt times out and its request is aborted (long after admission).
LookupTimesOut(c) ==
    /\ stage[c] = "calling" /\ ask[c] = "lookup" /\ phase[c] = "sent"
    /\ SleepOrSettle(c, "waking", FALSE)
    /\ Free(c)

Resend(c) ==
    /\ phase[c] = "waiting" /\ now >= resumeAt[c]
    /\ Arrive(c, ask[c])
    /\ phase' = [phase EXCEPT ![c] = "sent"]
    /\ resumeAt' = [resumeAt EXCEPT ![c] = 0]
    /\ UNCHANGED <<ask, since, resent, computed>>

\* The caller aborts the call, or an analysis' attempt times out: the request goes
\* on without it.
GiveUp(c) ==
    /\ phase[c] # "idle"
    /\ Settle(c)
    /\ UNCHANGED edgeVars

\* No one waits for this answer.
DropReply(c) ==
    /\ stage[c] = "replied" /\ phase[c] # "sent"
    /\ Free(c) /\ UNCHANGED call

Around == Surroundings /\ UNCHANGED call

Init ==
    /\ EdgeInit
    /\ ask = [c \in Slot |-> None] /\ phase = [c \in Slot |-> "idle"]
    /\ since = [c \in Slot |-> 0] /\ resumeAt = [c \in Slot |-> 0]
    /\ resent = [c \in Slot |-> 0] /\ computed = [c \in Slot |-> 0]

Next ==
    \/ \E c \in Slot :
          \/ \E k \in Kind : NewCall(c, k) \/ Visit(c, k)
          \/ Serve(c) \/ HandleReply(c) \/ LookupTimesOut(c) \/ Resend(c) \/ GiveUp(c)
          \/ DropReply(c)
    \/ Around

Spec == Init /\ [][Next]_vars

\* A request's awaits end (fetch and the governor's call time out), an answer is
\* handled, a timer fires, the clock runs.
FairSpec ==
    /\ Spec
    /\ \A c \in Slot : WF_vars(Serve(c)) /\ WF_vars(HandleReply(c)) /\ WF_vars(Resend(c))
                       /\ WF_vars(DropReply(c))
    /\ WF_vars(Tick /\ UNCHANGED call)

-----------------------------------------------------------------------------
(* Properties. *)

\* Retrying does not multiply work: whatever a call is answered at the edge, by the
\* platform and by the API, at once or after it computed, the API begins to compute at
\* most two of its attempts, unless one that it computed was cut off before (its
\* connection or the API was lost, or its answer broke off at the page).
ComputedAtMostTwice == \A c \in Slot : computed[c] # None => computed[c] <= 2

\* Every call of the page ends, whatever it is answered: retried within the
\* budget, it is answered, given up or told its last error.
CallsSettle ==
    \A c \in {s \in Slot : Asks[s] \cap CallKind # {}} : phase[c] # "idle" ~> phase[c] = "idle"

\* The inductive invariant.  A call that waits for an answer is the one its slot's
\* request is of, and what it had computed is a retry's and its present attempt's.
CallsInv ==
    \A c \in Slot :
      /\ phase[c] = "idle" => computed[c] = 0 /\ resent[c] = 0
      /\ phase[c] # "idle" =>
            ask[c] \in CallKind /\ since[c] <= now /\ since[c] + Budget <= MaxTime
      /\ phase[c] = "sent" => stage[c] # "free" /\ kind[c] = ask[c]
      /\ ask[c] # "analysis" => computed[c] \in {0, None}
      /\ computed[c] # None =>
            computed[c] <= resent[c] + (IF phase[c] = "sent" /\ own[c] THEN 1 ELSE 0)

SiteInv == SiteTypeOK /\ TrailInv /\ CallsInv

=============================================================================

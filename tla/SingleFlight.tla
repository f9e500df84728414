---------------------------- MODULE SingleFlight ----------------------------
(***************************************************************************)
(* What the analysis runner promises those who ask it                      *)
(* (api/analysis_runner.py, "single-flight"): identical requests share one *)
(* flight while it is in the air, it looks at the data once, and its       *)
(* answer is a whole answer of what it saw or a failure; a flight never    *)
(* ends without having answered those who wait for it, and the cache keeps *)
(* an answer only under the version it is of.  Threads, lanes, caps and    *)
(* the map of flights are not in the promise.                              *)
(***************************************************************************)
EXTENDS Naturals

CONSTANTS
    Client,
    Flight,
    Key,       \* what can be asked: records with the version asked for
    None,
    Failed

VARIABLES
    served,   \* the data version a look would see
    work,     \* "none", "flying", or "adrift": given up, its thread not back
    asked,    \* what each flight is to answer
    seen,     \* the version it saw
    future,   \* its answer
    waits,    \* the flight whose answer each client awaits
    cache     \* what is kept under each key

\* All of an answer is of one version, and so is all that is kept of it.
Whole(v) == [data |-> v, resolver |-> v, label |-> v]
Kept(v) == [data |-> v, resolver |-> v]

Init ==
    /\ served = 0
    /\ work = [t \in Flight |-> "none"]
    /\ asked = [t \in Flight |-> None]
    /\ seen = [t \in Flight |-> None]
    /\ future = [t \in Flight |-> None]
    /\ waits = [c \in Client |-> None]
    /\ cache = [k \in Key |-> None]

-----------------------------------------------------------------------------

InTheAir(t, k) == work[t] = "flying" /\ asked[t] = k /\ future[t] = None

\* A flight starts when none of its key is in the air, with nobody else aboard.
Start(c, k, t) ==
    /\ waits[c] = None /\ waits' = [waits EXCEPT ![c] = t]
    /\ cache[k] = None /\ \A u \in Flight : ~InTheAir(u, k)
    /\ work[t] = "none" /\ \A d \in Client : waits[d] # t
    /\ work' = [work EXCEPT ![t] = "flying"]
    /\ asked' = [asked EXCEPT ![t] = k]
    /\ future' = [future EXCEPT ![t] = None]
    /\ UNCHANGED <<served, seen, cache>>

\* Who asks the same meanwhile boards the one in the air, never one that is over.
Board(c, k) ==
    /\ waits[c] = None
    /\ \E t \in Flight : waits' = [waits EXCEPT ![c] = t] /\ InTheAir(t, k)
    /\ cache[k] = None
    /\ UNCHANGED <<served, work, asked, seen, future, cache>>

\* The one look at the data, taken by a flight given up too.
Look(t) ==
    /\ seen[t] = None /\ work[t] # "none"
    /\ seen' = [seen EXCEPT ![t] = served]
    /\ UNCHANGED <<served, work, asked, future, waits, cache>>

\* An answer is kept under its own version; others may be dropped for it.
Keeps(t) ==
    /\ asked[t] \in Key /\ seen[t] = asked[t].version
    /\ cache'[asked[t]] = Kept(seen[t])
    /\ cache' \in [Key -> {None} \cup {Kept(k.version) : k \in Key}]
    /\ \A k \in Key \ {asked[t]} : cache'[k] \in {cache[k], None}

Keep(t) ==
    /\ work[t] = "flying" /\ Keeps(t)
    /\ UNCHANGED <<served, work, asked, seen, future, waits>>

Over(t) ==
    /\ work' = [work EXCEPT ![t] = "none"]
    /\ asked' = [asked EXCEPT ![t] = None]
    /\ seen' = [seen EXCEPT ![t] = None]

\* A flight ends with an answer, and the answer is of what it saw.
Land(t) ==
    /\ work[t] = "flying"
    /\ \E answer \in {Failed} \cup (IF seen[t] = None THEN {} ELSE {Whole(seen[t])}) :
         future' = [future EXCEPT ![t] = answer]
    /\ Over(t)
    /\ UNCHANGED <<served, waits, cache>>

\* It is given up: those aboard are told, its thread goes on.
Abandon(t) ==
    /\ work[t] = "flying"
    /\ work' = [work EXCEPT ![t] = "adrift"]
    /\ future' = [future EXCEPT ![t] = Failed]
    /\ UNCHANGED <<served, asked, seen, waits, cache>>

\* The thread comes back; nobody hears from it but the cache.
Sink(t) ==
    /\ work[t] = "adrift"
    /\ Over(t)
    /\ UNCHANGED cache \/ Keeps(t)
    /\ UNCHANGED <<served, future, waits>>

\* A client is answered, or does not wait for it.
Leave(c) ==
    /\ waits[c] # None
    /\ waits' = [waits EXCEPT ![c] = None]
    /\ UNCHANGED <<served, work, asked, seen, future, cache>>

Publish ==
    /\ served' \in Nat /\ served' > served
    /\ UNCHANGED <<work, asked, seen, future, waits, cache>>

Next ==
    \/ \E c \in Client, k \in Key : Board(c, k) \/ \E t \in Flight : Start(c, k, t)
    \/ \E t \in Flight : Look(t) \/ Keep(t) \/ Land(t) \/ Abandon(t) \/ Sink(t)
    \/ \E c \in Client : Leave(c)
    \/ Publish

Spec == Init /\ [][Next]_<<served, work, asked, seen, future, waits, cache>>
=============================================================================

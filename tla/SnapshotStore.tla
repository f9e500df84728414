---------------------------- MODULE SnapshotStore ----------------------------
(***************************************************************************)
(* The in-process data snapshot of the API (api/snapshot.py): one copy of  *)
(* what the served database contains, read again when a request needs it,  *)
(* shared by the requests that wait for one read, pinned to the expected   *)
(* version, served stale when the database fails, and invalidated by       *)
(* analyses that find another version.                                     *)
(*                                                                         *)
(* Requests and the shared read's task run on one event loop; the read     *)
(* itself and invalidate() run in worker threads, so they fall between any *)
(* two steps of the loop.  A snapshot is its data version.                 *)
(***************************************************************************)
EXTENDS Naturals

CONSTANTS
    Request,     \* requests that can wait at once
    MaxVersion,  \* bound: data versions after the first
    MaxTime,     \* bound: the clock stops here
    TTL,         \* ttl_s
    StaleRetry,  \* stale_retry_s, at most the TTL
    None,
    Failed       \* a read that raised

Version == 0 .. MaxVersion
Ago == 0         \* -math.inf: a time no clock value is below

ASSUME SnapshotConstants ==
    /\ MaxVersion \in Nat /\ MaxTime \in Nat
    /\ TTL \in Nat \ {0} /\ StaleRetry \in Nat /\ StaleRetry <= TTL
    /\ None \notin Nat /\ Failed \notin Nat /\ None # Failed

VARIABLES
    expected,    \* expected_version, or None: fixed when the process starts
    now,         \* the clock
    served,      \* the data version in the database
    snapshot,    \* _snapshot
    trusted,     \* _trusted
    freshUntil,  \* _fresh_until
    staleUntil,  \* _stale_until
    loadedAt,    \* _loaded_at
    load,        \* where the task of _pending is
    outcome,     \* what its read returned
    clean,       \* no invalidate() since it noted the generation, while it reads
    waits,       \* requests in get: None, or whether they are strict
    got,         \* what the awaited read gave a request that is to resume
    handed,      \* versions analyses have been given
    noticed,     \* history: the newest version an analysis reported
    failedAt     \* history: when a read last failed while a snapshot was trusted

store == <<snapshot, trusted, freshUntil, staleUntil, loadedAt>>
task == <<load, outcome, clean>>
requests == <<waits, got, handed>>
history == <<noticed, failedAt>>
vars == <<expected, now, served, store, task, requests, history>>

TypeOK ==
    /\ expected \in Version \cup {None}
    /\ now \in 0 .. MaxTime /\ served \in Version
    /\ snapshot \in Version \cup {None}
    /\ trusted \in BOOLEAN /\ (trusted => snapshot # None)
    /\ freshUntil \in 0 .. MaxTime + TTL /\ staleUntil \in 0 .. MaxTime + StaleRetry
    /\ loadedAt \in 0 .. MaxTime
    /\ load \in {"none", "created", "reading", "read", "loaded", "failed"}
    /\ outcome \in Version \cup {None} /\ clean \in BOOLEAN
    /\ waits \in [Request -> {None} \cup BOOLEAN]
    /\ got \in [Request -> Version \cup {None, Failed}]
    /\ handed \subseteq Version /\ noticed \in Version
    /\ failedAt \in 0 .. MaxTime \cup {None}

-----------------------------------------------------------------------------

Pinned == trusted /\ expected # None /\ snapshot = expected

\* Fault: a strict request is answered from a stale or pinned snapshot too.
UsableByAll(strict) ==
    /\ snapshot # None
    /\ \/ now < freshUntil
       \/ trusted /\ (Pinned \/ now < staleUntil)

\* _usable: the snapshot answers without a read.
Usable(strict) ==
    /\ snapshot # None
    /\ \/ now < freshUntil
       \/ ~strict /\ trusted /\ (Pinned \/ now < staleUntil)

\* An analysis gets the snapshot unless the deployment expects another.
Hand(version) ==
    handed' = IF expected \in {None, version} THEN handed \cup {version} ELSE handed

\* get answers from memory.  (A readiness check, strict, starts no analysis.)
AnswerFromMemory ==
    /\ Usable(FALSE)
    /\ Hand(snapshot)
    /\ UNCHANGED <<expected, now, served, store, task, waits, got, history>>

\* _refresh: start the shared read.
StartRead(r, strict) ==
    /\ waits[r] = None
    /\ ~Usable(strict)
    /\ load = "none"
    /\ load' = "created"
    /\ waits' = [waits EXCEPT ![r] = strict]
    /\ UNCHANGED <<expected, now, served, store, outcome, clean, got, handed, history>>

\* _refresh: join it, also when it is over and not yet settled.
JoinRead(r, strict) ==
    /\ waits[r] = None
    /\ ~Usable(strict)
    /\ load # "none"
    /\ waits' = [waits EXCEPT ![r] = strict]
    /\ got' = [got EXCEPT ![r] = CASE load = "loaded" -> outcome
                                   [] load = "failed" -> Failed
                                   [] OTHER -> None]
    /\ UNCHANGED <<expected, now, served, store, task, handed, history>>

\* The task first notes the generation, then hands the read to a thread.
NoteGeneration ==
    /\ load = "created"
    /\ load' = "reading"
    /\ clean' = TRUE
    /\ UNCHANGED <<expected, now, served, store, outcome, requests, history>>

\* db.read_snapshot: one transaction, one version.
ReadDatabase ==
    /\ load = "reading"
    /\ load' = "read"
    /\ outcome' = served
    /\ UNCHANGED <<expected, now, served, store, clean, requests, history>>

\* The waiting requests of the read get its result.
Give(result) ==
    got' = [r \in Request |-> IF waits[r] # None /\ got[r] = None THEN result ELSE got[r]]

\* Fault: the waiting requests are not told.
ReadFailsSilently ==
    /\ load = "reading"
    /\ load' = "failed" /\ clean' = FALSE
    /\ UNCHANGED <<expected, now, served, store, outcome, requests, history>>

ReadFails ==
    /\ load = "reading"
    /\ load' = "failed" /\ clean' = FALSE
    /\ Give(Failed)
    /\ UNCHANGED <<expected, now, served, store, outcome, waits, handed, history>>

\* Fault: the generation is not looked at again.
EndLoadTrusting ==
    /\ load = "read"
    /\ load' = "loaded" /\ clean' = FALSE
    /\ snapshot' = outcome
    /\ loadedAt' = now
    /\ staleUntil' = Ago
    /\ trusted' = TRUE
    /\ freshUntil' = now + TTL
    /\ Give(outcome)
    /\ UNCHANGED <<expected, now, served, outcome, waits, handed, history>>

\* _load keeps what was read; trusted and fresh only if nothing was
\* invalidated meanwhile.
EndLoad ==
    /\ load = "read"
    /\ load' = "loaded" /\ clean' = FALSE
    /\ snapshot' = outcome
    /\ loadedAt' = now
    /\ staleUntil' = Ago
    /\ trusted' = clean
    /\ freshUntil' = IF clean THEN now + TTL ELSE freshUntil
    /\ Give(outcome)
    /\ UNCHANGED <<expected, now, served, outcome, waits, handed, history>>

\* Fault: the whole TTL is waited, not the shorter time after a failure.
SettleForTTL ==
    /\ load \in {"loaded", "failed"}
    /\ load' = "none" /\ outcome' = None
    /\ IF load = "failed" /\ trusted
       THEN staleUntil' = now + TTL /\ failedAt' = now
       ELSE UNCHANGED <<staleUntil, failedAt>>
    /\ UNCHANGED <<expected, now, served, snapshot, trusted, freshUntil, loadedAt, clean,
                   requests, noticed>>

\* Fault: a failed read is not remembered.
SettleQuietly ==
    /\ load \in {"loaded", "failed"}
    /\ load' = "none" /\ outcome' = None
    /\ failedAt' = IF load = "failed" /\ trusted THEN now ELSE failedAt
    /\ UNCHANGED <<expected, now, served, store, clean, requests, noticed>>

\* _settle, the task's first done callback.
Settle ==
    /\ load \in {"loaded", "failed"}
    /\ load' = "none" /\ outcome' = None
    /\ IF load = "failed" /\ trusted
       THEN staleUntil' = now + StaleRetry /\ failedAt' = now
       ELSE UNCHANGED <<staleUntil, failedAt>>
    /\ UNCHANGED <<expected, now, served, snapshot, trusted, freshUntil, loadedAt, clean,
                   requests, noticed>>

\* _stale_fallback
Fallback(r) == ~waits[r] /\ trusted

\* get goes on: with the snapshot read, the stale one, or an error.
Resume(r) ==
    /\ got[r] # None
    /\ waits' = [waits EXCEPT ![r] = None]
    /\ got' = [got EXCEPT ![r] = None]
    /\ \/ got[r] # Failed /\ ~waits[r] /\ Hand(got[r])
       \/ got[r] = Failed /\ Fallback(r) /\ Hand(snapshot)
       \/ (waits[r] \/ (got[r] = Failed /\ ~Fallback(r))) /\ UNCHANGED handed
    /\ UNCHANGED <<expected, now, served, store, task, history>>

\* invalidate(): an analysis read another version than the one it was given.
Invalidate ==
    /\ \E version \in handed : version # served
    /\ freshUntil' = Ago /\ staleUntil' = Ago
    /\ trusted' = FALSE
    /\ clean' = FALSE
    /\ noticed' = served
    /\ UNCHANGED <<expected, now, served, snapshot, loadedAt, load, outcome, requests,
                   failedAt>>

\* `atus load` or a restored database: a newer version is served.
Reload ==
    /\ served < MaxVersion
    /\ served' = served + 1
    /\ UNCHANGED <<expected, now, store, task, requests, history>>

Tick ==
    /\ now < MaxTime
    /\ now' = now + 1
    /\ UNCHANGED <<expected, served, store, task, requests, history>>

Init ==
    /\ expected \in Version \cup {None}
    /\ now = 0 /\ served = 0
    /\ snapshot = None /\ trusted = FALSE
    /\ freshUntil = Ago /\ staleUntil = Ago /\ loadedAt = 0
    /\ load = "none" /\ outcome = None /\ clean = FALSE
    /\ waits = [r \in Request |-> None]
    /\ got = [r \in Request |-> None]
    /\ handed = {} /\ noticed = 0 /\ failedAt = None

LoadStep == NoteGeneration \/ ReadDatabase \/ ReadFails \/ EndLoad \/ Settle

Next ==
    \/ AnswerFromMemory
    \/ \E r \in Request, strict \in BOOLEAN : StartRead(r, strict) \/ JoinRead(r, strict)
    \/ LoadStep
    \/ \E r \in Request : Resume(r)
    \/ Invalidate \/ Reload \/ Tick

Spec == Init /\ [][Next]_vars

\* The loop runs what is ready, and a read ends (its deadline).
Fairness ==
    /\ WF_vars(LoadStep)
    /\ \A r \in Request : WF_vars(Resume(r))
FairSpec == Spec /\ Fairness

-----------------------------------------------------------------------------
(* Properties. *)

\* What an analysis reported is never unlearned: no request is answered from
\* memory, fresh, pinned or stale, with a version older than one reported.
ReportedIsKept ==
    Usable(FALSE) \/ Usable(TRUE) \/ (\E r \in Request : got[r] = Failed /\ Fallback(r))
        => snapshot >= noticed

\* Readiness answers from memory as of a read at most TTL old.
StrictIsRecent == Usable(TRUE) => trusted /\ now - loadedAt < TTL

\* So does every other answer, unless it is of the expected version or the
\* database failed less than StaleRetry ago.
AnswersAreRecent ==
    Usable(FALSE) =>
      \/ now - loadedAt < TTL
      \/ snapshot = expected
      \/ failedAt # None /\ now - failedAt < StaleRetry

\* Metadata traffic cannot keep a failing or a pinned database awake: no
\* ordinary request reads it again within StaleRetry of a failure while a
\* trusted snapshot is there, nor ever while that has the expected version.
DatabaseLeftAlone ==
    [][\A r \in Request :
         load = "none" /\ load' = "created" /\ waits'[r] # waits[r] /\ waits'[r] = FALSE
         /\ trusted =>
           /\ snapshot # expected
           /\ failedAt # None => now - failedAt >= StaleRetry]_vars

\* Every request that waits for a read goes on, also when the read fails.
WaitersGoOn == \A r \in Request : waits[r] # None ~> waits[r] = None
\* The inductive invariants behind them.  The read that is over has a version;
TypeInv == TypeOK /\ (load = "read" => outcome \in Version)

\* a time of freshness belongs to the snapshot kept and trusted, and a read that
\* something invalidated found none to extend;
FreshInv ==
    /\ freshUntil # Ago => trusted /\ freshUntil = loadedAt + TTL
    /\ load \in {"reading", "read"} /\ ~clean => freshUntil = Ago

\* what is trusted, or will be, is no older than what was reported;
VersionInv ==
    /\ noticed <= served
    /\ trusted => snapshot >= noticed
    /\ load = "read" /\ clean => outcome >= noticed

\* and a stale answer, or a fresh one after it, is due to the last failure.
StaleInv ==
    /\ failedAt # None => failedAt <= now
    /\ staleUntil # Ago => failedAt # None /\ staleUntil = failedAt + StaleRetry
    /\ trusted /\ failedAt # None =>
         freshUntil >= failedAt + StaleRetry \/ staleUntil >= failedAt + StaleRetry

StoreInv == TypeInv /\ FreshInv /\ VersionInv /\ StaleInv
=============================================================================

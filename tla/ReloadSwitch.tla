---------------------------- MODULE ReloadSwitch ----------------------------
(***************************************************************************)
(* `atus load` (loading/loader.py, loading/switch.py): the new data is     *)
(* built in a shadow schema and its tables are moved over the live ones in *)
(* one short transaction, while transactions of the API and of the serving *)
(* builder read the live tables.                                           *)
(*                                                                         *)
(* A load is named by its ingestion run.  PostgreSQL is modelled by what   *)
(* this code relies on: ACCESS SHARE locks held to the end of a            *)
(* transaction, ACCESS EXCLUSIVE locks that wait for them, names resolved  *)
(* once the lock is granted, a snapshot per statement (READ COMMITTED) or  *)
(* per transaction (REPEATABLE READ), and rollback when a session ends.    *)
(***************************************************************************)
EXTENDS Naturals, Sequences, FiniteSets

CONSTANTS
    Loader,      \* processes running `atus load`
    Reader,      \* sessions that read
    Canonical,   \* CANONICAL_TABLES, a sequence
    MaxRun,      \* bound: ingestion runs after the first
    MaxAttempts, \* switch attempts that fit in SwitchOptions.timeout_s
    None

Run == 0 .. MaxRun
Runs == "ingestion_runs"
LockOrder == <<Runs>> \o Canonical
Tables == {LockOrder[k] : k \in 1 .. Len(LockOrder)}
Empty == MaxRun + 1    \* what a table shows whose rows the snapshot cannot see

\* rc: an API analysis or metadata read (READ COMMITTED).  rr: the API's
\* snapshot read (REPEATABLE READ, SNAPSHOT_LOCK first).  build: the serving
\* builder's source transaction (REPEATABLE READ).
Kinds == {"rc", "rr", "build"}

ASSUME ReloadConstants ==
    /\ MaxRun \in Nat /\ MaxAttempts \in Nat \ {0}
    /\ LockOrder \in Seq(Tables)
    /\ Runs \notin {Canonical[k] : k \in 1 .. Len(Canonical)}
    /\ None \notin Loader /\ None \notin Nat /\ None \notin Tables
    /\ None \notin Kinds

VARIABLES
    live,      \* the load whose tables are in schema atus
    status,    \* ingestion_runs.status of each run
    shadow,    \* the load whose tables are in schema atus_next
    built,     \* loads whose rows are committed
    advisory,  \* the loader holding the session advisory lock
    pc,        \* where each loader is in load_all
    run,       \* its ingestion run
    attempts,  \* switch attempts it has made
    locked,    \* how many tables of LockOrder its switch transaction holds
    older,     \* open transactions that began before its cutoff
    kind,      \* the transaction each reader has open
    share,     \* the tables it holds ACCESS SHARE locks on
    snapshot,  \* what its REPEATABLE READ snapshot sees
    waits,     \* the table its statement is waiting to lock
    saw        \* the loads its statements have read from

database == <<live, status, shadow, built>>
loaders == <<advisory, pc, run, attempts, locked, older>>
readers == <<kind, share, snapshot, waits, saw>>
vars == <<database, loaders, readers>>

Snapshots == [built : SUBSET Run, version : Run]

TypeOK ==
    /\ live \in Run
    /\ status \in [Run -> {"none", "running", "failed", "succeeded"}]
    /\ shadow \in Run \cup {None}
    /\ built \subseteq Run
    /\ advisory \in Loader \cup {None}
    /\ pc \in [Loader -> {"idle", "locked", "clean", "running", "built", "ready",
                          "locking", "committed", "raised", "cleanup", "unlock"}]
    /\ run \in [Loader -> Run]
    /\ attempts \in [Loader -> 0 .. MaxAttempts]
    /\ locked \in [Loader -> 0 .. Len(LockOrder)]
    /\ older \in [Loader -> SUBSET Reader]
    /\ kind \in [Reader -> Kinds \cup {None}]
    /\ share \in [Reader -> SUBSET Tables]
    /\ snapshot \in [Reader -> Snapshots \cup {None}]
    /\ waits \in [Reader -> Tables \cup {None}]
    /\ saw \in [Reader -> SUBSET (Run \cup {Empty})]

-----------------------------------------------------------------------------
(* The database as statements see it. *)

Succeeded == {i \in Run : status[i] = "succeeded"}

\* read_data_version: the latest succeeded run.
Published == CHOOSE i \in Succeeded : \A j \in Succeeded : j <= i

SwitchHolds(t) == \E l \in Loader, k \in 1 .. Len(LockOrder) :
                     k <= locked[l] /\ LockOrder[k] = t
ReaderHolds(t) == \E r \in Reader : t \in share[r]
Open == {r \in Reader : kind[r] # None}

-----------------------------------------------------------------------------
(* Readers. *)

Begin(r, k) ==
    /\ kind[r] = None
    /\ kind' = [kind EXCEPT ![r] = k]
    /\ UNCHANGED <<database, loaders, share, snapshot, waits, saw>>

\* Fault: the snapshot is taken without the lock.
TakeSnapshotUnlocked(r) ==
    /\ kind[r] \in {"rr", "build"} /\ snapshot[r] = None /\ waits[r] = None
    /\ snapshot' = [snapshot EXCEPT ![r] = [built |-> built, version |-> Published]]
    /\ UNCHANGED <<database, loaders, kind, share, waits, saw>>

\* The first statement that needs one fixes a REPEATABLE READ transaction's
\* snapshot.  The API's follows LOCK TABLE ingestion_runs; the builder's is the
\* schema comment read by serving_marker.
TakeSnapshot(r) ==
    /\ kind[r] \in {"rr", "build"} /\ snapshot[r] = None /\ waits[r] = None
    /\ kind[r] = "rr" => Runs \in share[r]
    /\ snapshot' = [snapshot EXCEPT ![r] = [built |-> built, version |-> Published]]
    /\ UNCHANGED <<database, loaders, kind, share, waits, saw>>

\* A statement asks for a table: any, in any order, as often as it likes.
Ask(r, t) ==
    /\ kind[r] # None /\ waits[r] = None
    /\ kind[r] = "rr" /\ snapshot[r] = None => t = Runs /\ Runs \notin share[r]
    /\ kind[r] = "build" => snapshot[r] # None
    /\ waits' = [waits EXCEPT ![r] = t]
    /\ UNCHANGED <<database, loaders, kind, share, snapshot, saw>>

\* What a statement of r finds in t once the name is resolved under the lock.
Shows(r, t) ==
    IF kind[r] = "rc" THEN IF t = Runs THEN Published ELSE live
    ELSE IF t = Runs THEN snapshot[r].version
    ELSE IF live \in snapshot[r].built THEN live ELSE Empty

\* The lock is granted and the statement reads (LOCK TABLE itself does not).
Read(r) ==
    LET t == waits[r]
    IN  /\ t # None
        /\ ~SwitchHolds(t)
        /\ share' = [share EXCEPT ![r] = @ \cup {t}]
        /\ waits' = [waits EXCEPT ![r] = None]
        /\ saw' = IF kind[r] = "rr" /\ snapshot[r] = None THEN saw
                  ELSE [saw EXCEPT ![r] = @ \cup {Shows(r, t)}]
        /\ UNCHANGED <<database, loaders, kind, snapshot>>

\* Commit, rollback or a lost session.
End(r) ==
    /\ kind[r] # None
    /\ kind' = [kind EXCEPT ![r] = None]
    /\ share' = [share EXCEPT ![r] = {}]
    /\ snapshot' = [snapshot EXCEPT ![r] = None]
    /\ waits' = [waits EXCEPT ![r] = None]
    /\ saw' = [saw EXCEPT ![r] = {}]
    /\ older' = [l \in Loader |-> older[l] \ {r}]
    /\ UNCHANGED <<database, advisory, pc, run, attempts, locked>>

-----------------------------------------------------------------------------
(* The loader. *)

Goes(l, from, to) == pc[l] = from /\ pc' = [pc EXCEPT ![l] = to]

\* Fault: no advisory lock.
AcquireAnyway(l) ==
    /\ Goes(l, "idle", "locked")
    /\ advisory' = l
    /\ UNCHANGED <<database, run, attempts, locked, older, readers>>

\* _load_session: pg_try_advisory_lock; refused while another loader holds it.
Acquire(l) ==
    /\ Goes(l, "idle", "locked")
    /\ advisory = None
    /\ advisory' = l
    /\ UNCHANGED <<database, run, attempts, locked, older, readers>>

\* A serving database or an outdated schema is refused before the run exists.
Refuse(l) ==
    /\ Goes(l, "locked", "unlock")
    /\ UNCHANGED <<database, advisory, run, attempts, locked, older, readers>>

\* Runs left 'running' belong to loaders that died.
AbandonStaleRuns(l) ==
    /\ Goes(l, "locked", "clean")
    /\ status' = [i \in Run |-> IF status[i] = "running" THEN "failed" ELSE status[i]]
    /\ UNCHANGED <<live, shadow, built, advisory, run, attempts, locked, older, readers>>

InsertRun(l) ==
    /\ Goes(l, "clean", "running")
    /\ \E i \in Run :
         /\ status[i] = "none"
         /\ \A j \in Run : j < i => status[j] # "none"
         /\ status' = [status EXCEPT ![i] = "running"]
         /\ run' = [run EXCEPT ![l] = i]
    /\ attempts' = [attempts EXCEPT ![l] = 0]
    /\ UNCHANGED <<live, shadow, built, advisory, locked, older, readers>>

\* create_shadow drops what is left of an earlier shadow; the COPYs commit
\* with it.
Build(l) ==
    /\ Goes(l, "running", "built")
    /\ shadow' = run[l]
    /\ built' = built \cup {run[l]}
    /\ UNCHANGED <<live, status, advisory, run, attempts, locked, older, readers>>

\* Fault: transactions that began earlier are not looked for.
CutoffSeesNone(l) ==
    /\ Goes(l, "built", "ready")
    /\ older' = [older EXCEPT ![l] = {}]
    /\ UNCHANGED <<database, advisory, run, attempts, locked, readers>>

\* clock_timestamp() after the commit: transactions now open began before it.
Cutoff(l) ==
    /\ Goes(l, "built", "ready")
    /\ older' = [older EXCEPT ![l] = Open]
    /\ UNCHANGED <<database, advisory, run, attempts, locked, readers>>

StartSwitch(l) ==
    /\ Goes(l, "ready", "locking")
    /\ older[l] = {}
    /\ UNCHANGED <<database, advisory, run, attempts, locked, older, readers>>

\* Fault: waiting for older transactions has no time limit.
DeferForever(l) ==
    /\ pc[l] = "ready" /\ older[l] # {}
    /\ UNCHANGED vars

\* An attempt failed: try again, or give up when the time is over.
Retry(l) ==
    /\ attempts' = [attempts EXCEPT ![l] = @ + 1]
    /\ pc' = [pc EXCEPT ![l] = IF attempts[l] + 1 = MaxAttempts THEN "raised" ELSE "ready"]

\* older_transactions found some.
Defer(l) ==
    /\ pc[l] = "ready" /\ older[l] # {}
    /\ Retry(l)
    /\ UNCHANGED <<database, advisory, run, locked, older, readers>>

LockNext(l) ==
    /\ pc[l] = "locking" /\ locked[l] < Len(LockOrder)
    /\ ~ReaderHolds(LockOrder[locked[l] + 1])
    /\ locked' = [locked EXCEPT ![l] = @ + 1]
    /\ UNCHANGED <<database, advisory, pc, run, attempts, older, readers>>

\* Fault: the next attempt waits with the locks of this one.
LockTimeoutHolding(l) ==
    /\ pc[l] = "locking" /\ locked[l] < Len(LockOrder)
    /\ ReaderHolds(LockOrder[locked[l] + 1])
    /\ UNCHANGED vars

\* lock_timeout: the whole attempt is rolled back.
LockTimeout(l) ==
    /\ pc[l] = "locking" /\ locked[l] < Len(LockOrder)
    /\ ReaderHolds(LockOrder[locked[l] + 1])
    /\ Retry(l)
    /\ locked' = [locked EXCEPT ![l] = 0]
    /\ UNCHANGED <<database, advisory, run, older, readers>>

\* Fault: the swap commits before the run is published.
SwapOnly(l) ==
    /\ Goes(l, "locking", "raised")
    /\ locked[l] = Len(LockOrder)
    /\ live' = shadow
    /\ shadow' = None
    /\ locked' = [locked EXCEPT ![l] = 0]
    /\ UNCHANGED <<status, built, advisory, run, attempts, older, readers>>

\* The swap and publish, in one transaction.
Commit(l) ==
    /\ Goes(l, "locking", "committed")
    /\ locked[l] = Len(LockOrder)
    /\ status[run[l]] = "running" /\ shadow # None
    /\ live' = shadow
    /\ shadow' = None
    /\ status' = [status EXCEPT ![run[l]] = "succeeded"]
    /\ locked' = [locked EXCEPT ![l] = 0]
    /\ UNCHANGED <<built, advisory, run, attempts, older, readers>>

\* Any exception inside load_all's try: a failed COPY, a failed validation
\* check, a dependent view, an interrupt (also one after the commit).  An open
\* transaction is rolled back.
Raise(l) ==
    /\ pc[l] \in {"running", "built", "ready", "locking", "committed"}
    /\ pc' = [pc EXCEPT ![l] = "raised"]
    /\ locked' = [locked EXCEPT ![l] = 0]
    /\ UNCHANGED <<database, advisory, run, attempts, older, readers>>

\* Fault: the status is not looked at.
MarkFailedAlways(l) ==
    /\ Goes(l, "raised", "cleanup")
    /\ status' = [status EXCEPT ![run[l]] = "failed"]
    /\ UNCHANGED <<live, shadow, built, advisory, run, attempts, locked, older, readers>>

\* The update can fail too; the next load then abandons the run.
MarkFailed(l) ==
    /\ Goes(l, "raised", "cleanup")
    /\ status' \in {status,
                    [status EXCEPT ![run[l]] = IF @ = "running" THEN "failed" ELSE @]}
    /\ UNCHANGED <<live, shadow, built, advisory, run, attempts, locked, older, readers>>

\* _drop_shadow_quietly: what it fails to drop the next load drops.
DropShadow(l) ==
    /\ pc[l] \in {"committed", "cleanup"}
    /\ pc' = [pc EXCEPT ![l] = "unlock"]
    /\ shadow' \in {shadow, None}
    /\ UNCHANGED <<live, status, built, advisory, run, attempts, locked, older, readers>>

Unlock(l) ==
    /\ Goes(l, "unlock", "idle")
    /\ advisory' = None
    /\ UNCHANGED <<database, run, attempts, locked, older, readers>>

\* The process or its session dies: the server rolls back and releases.
Crash(l) ==
    /\ pc[l] # "idle"
    /\ pc' = [pc EXCEPT ![l] = "idle"]
    /\ advisory' = IF advisory = l THEN None ELSE advisory
    /\ locked' = [locked EXCEPT ![l] = 0]
    /\ UNCHANGED <<database, run, attempts, older, readers>>

-----------------------------------------------------------------------------

Init ==
    /\ live = 0 /\ shadow = None /\ built = {0}
    /\ status = [i \in Run |-> IF i = 0 THEN "succeeded" ELSE "none"]
    /\ advisory = None
    /\ pc = [l \in Loader |-> "idle"]
    /\ run = [l \in Loader |-> 0]
    /\ attempts = [l \in Loader |-> 0]
    /\ locked = [l \in Loader |-> 0]
    /\ older = [l \in Loader |-> {}]
    /\ kind = [r \in Reader |-> None]
    /\ share = [r \in Reader |-> {}]
    /\ snapshot = [r \in Reader |-> None]
    /\ waits = [r \in Reader |-> None]
    /\ saw = [r \in Reader |-> {}]

\* The bound on runs: a load that cannot insert one does not begin.
RunLeft == \E i \in Run : status[i] = "none"

LoaderStep(l) ==
    \/ AbandonStaleRuns(l) \/ InsertRun(l) \/ Build(l) \/ Cutoff(l)
    \/ StartSwitch(l) \/ Defer(l) \/ LockNext(l) \/ LockTimeout(l) \/ Commit(l)
    \/ MarkFailed(l) \/ DropShadow(l) \/ Unlock(l)

Next ==
    \/ \E r \in Reader, k \in Kinds : Begin(r, k)
    \/ \E r \in Reader : TakeSnapshot(r) \/ Read(r) \/ End(r)
    \/ \E r \in Reader, t \in Tables : Ask(r, t)
    \/ \E l \in Loader : RunLeft /\ Acquire(l)
    \/ \E l \in Loader : LoaderStep(l) \/ Refuse(l) \/ Raise(l) \/ Crash(l)

Spec == Init /\ [][Next]_vars

\* A loader that neither fails nor dies goes on; a granted lock is taken.
\* Readers need not end their transactions.
Fairness ==
    /\ \A l \in Loader : WF_vars(LoaderStep(l))
    /\ \A r \in Reader : WF_vars(Read(r))
FairSpec == Spec /\ Fairness

-----------------------------------------------------------------------------
(* Properties. *)

\* One transaction of the API reads one load, tables and data version alike,
\* and never a table without its rows, whenever the switch comes.
AllOldOrAllNew ==
    \A r \in Reader : kind[r] \in {"rc", "rr"} =>
        Cardinality(saw[r]) <= 1 /\ Empty \notin saw[r]

\* No transaction at all, locked first or not, finds a new table empty (F21).
NeverEmpty == \A r \in Reader : Empty \notin saw[r]

\* The published data version is that of the live tables, after any failure,
\* crash or abandoned run (F20).
VersionIsLive == Published = live

\* A run that went live stays succeeded: no late failure, interrupt or cleanup
\* of its loader or of another takes it back.
SucceededStays ==
    [][\A i \in Run : status[i] = "succeeded" => status'[i] = "succeeded"]_vars

\* Every load ends, even when a reader never ends its transaction.
LoadsEnd == \A l \in Loader : pc[l] # "idle" ~> pc[l] = "idle"

\* A statement waiting for a table gets it: the switch always gives way, so a
\* lock-order cycle with a reader ends with the reader going on (F19).
ReadersGoOn == \A r \in Reader : waits[r] # None ~> waits[r] = None

\* Readers through the API see the promise of AtomicReload.
ApiView == [r \in Reader |-> IF kind[r] = "build" THEN {} ELSE saw[r]]
Promise == INSTANCE AtomicReload WITH Load <- Run, current <- live, view <- ApiView
ReloadIsAtomic == Promise!Spec

\* serving/builder.py: the source is read in one transaction, a consistent
\* snapshot, so all of it is one load.
BuilderConsistent ==
    \A r \in Reader : kind[r] = "build" => Cardinality(saw[r]) <= 1

\* The inductive invariant behind the safety properties, in parts.  The
\* advisory lock lets one loader in at a time;
OneLoader == \A l \in Loader : pc[l] # "idle" <=> advisory = l

\* runs are numbered in the order they are inserted, the latest successful one
\* is live, and the rows of what is live are committed;
RunsInv ==
    /\ \A i, j \in Run : j < i /\ status[i] # "none" => status[j] # "none"
    /\ status[live] = "succeeded"
    /\ \A i \in Run : status[i] = "succeeded" => i <= live
    /\ live \in built

\* the run of a loader at work is the last one, and once built the shadow
\* schema is its own;
LoaderInv ==
    \A l \in Loader :
      /\ pc[l] \in {"running", "built", "ready", "locking"} =>
           /\ status[run[l]] = "running"
           /\ \A i \in Run : status[i] # "none" => i <= run[l]
           /\ attempts[l] < MaxAttempts
      /\ pc[l] \in {"built", "ready", "locking"} => shadow = run[l] /\ run[l] \in built
      /\ locked[l] # 0 => pc[l] = "locking"

\* a table is share-locked or locked by a switch, never both, and what a
\* transaction has read or its snapshot is of it holds locks for;
LocksInv ==
    /\ \A l \in Loader, k \in 1 .. Len(LockOrder), r \in Reader :
         k <= locked[l] => LockOrder[k] \notin share[r]
    /\ \A r \in Reader :
         /\ saw[r] # {} => share[r] # {}
         /\ kind[r] = "rr" /\ snapshot[r] # None => share[r] # {}
         /\ kind[r] = None => saw[r] = {} /\ snapshot[r] = None
         /\ waits[r] # None /\ kind[r] \notin {"rc", "rr"} => snapshot[r] # None

\* a snapshot sees the rows of the live load, and those of the load that is to
\* be switched in unless its transaction is waited for;
SnapshotsInv ==
    \A r \in Reader : snapshot[r] # None =>
      /\ live \in snapshot[r].built
      /\ kind[r] = "rr" => snapshot[r].version = live
      /\ \A l \in Loader :
           /\ pc[l] = "ready" => r \in older[l] \/ run[l] \in snapshot[r].built
           /\ pc[l] = "locking" => run[l] \in snapshot[r].built

\* and a transaction of the API has read the live load only.
ViewsInv ==
    \A r \in Reader :
      /\ Empty \notin saw[r]
      /\ kind[r] # "build" => saw[r] \subseteq {live}

ReloadInv ==
    /\ TypeOK /\ OneLoader /\ RunsInv /\ LoaderInv
    /\ LocksInv /\ SnapshotsInv /\ ViewsInv
=============================================================================

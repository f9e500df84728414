---------------------------- MODULE ReloadProofs ----------------------------
(***************************************************************************)
(* Theorems about the build-and-switch reload, for any number of loaders,  *)
(* readers, tables and runs.                                               *)
(***************************************************************************)
EXTENDS ReloadSwitch, TLAPS, SequenceTheorems, FiniteSetTheorems

-----------------------------------------------------------------------------
(* The tables, in the order they are locked. *)

\* Every table has a place in the locking order.
LEMMA TableFacts ==
    /\ Len(LockOrder) \in Nat
    /\ \A t \in Tables : \E k \in 1 .. Len(LockOrder) : t = LockOrder[k]
    /\ \A k \in 1 .. Len(LockOrder) : LockOrder[k] \in Tables
<1>1. Len(LockOrder) \in Nat
  BY ReloadConstants, LenProperties
<1> QED BY <1>1 DEF Tables

\* What the proofs use of the constants.
LEMMA ConstantTypes ==
    /\ MaxRun \in Nat /\ MaxAttempts \in Nat \ {0}
    /\ None \notin Loader /\ None \notin Run /\ None \notin Tables
BY ReloadConstants DEF Run

\* The steps of one reader, and of one loader.
ReaderStep(r) ==
    \/ \E k \in Kinds : Begin(r, k)
    \/ \E t \in Tables : Ask(r, t)
    \/ TakeSnapshot(r) \/ Read(r) \/ End(r)

LoaderAct(l) == Acquire(l) \/ LoaderStep(l) \/ Refuse(l) \/ Raise(l) \/ Crash(l)

-----------------------------------------------------------------------------
(* Types. *)

\* The first state has the types.
LEMMA InitTypes == Init => TypeOK
<1> SUFFICES ASSUME Init PROVE TypeOK
  OBVIOUS
<1>1. 0 \in Run /\ 0 \in 0 .. MaxAttempts /\ 0 \in 0 .. Len(LockOrder)
  BY ConstantTypes, TableFacts DEF Run
<1> QED BY <1>1 DEF Init, TypeOK

\* What the latest successful run is, once there is one.
LEMMA PublishedIsLive ==
    ASSUME TypeOK, RunsInv
    PROVE  Published = live
<1>1. live \in Succeeded /\ \A j \in Succeeded : j <= live
  BY DEF TypeOK, RunsInv, Succeeded
<1>2. \A i \in Succeeded : (\A j \in Succeeded : j <= i) => i = live
  BY <1>1, ConstantTypes DEF Succeeded, Run
<1> QED BY <1>1, <1>2 DEF Published

\* A step of a reader keeps the types.
LEMMA ReaderTypes ==
    ASSUME TypeOK, RunsInv, LocksInv, NEW r \in Reader,
           ReaderStep(r)
    PROVE  TypeOK'
<1>1. CASE \E k \in Kinds : Begin(r, k)
  BY <1>1 DEF Begin, TypeOK, database, loaders
<1>2. CASE \E t \in Tables : Ask(r, t)
  BY <1>2 DEF Ask, TypeOK, database, loaders
<1>3. CASE TakeSnapshot(r)
  <2>1. [built |-> built, version |-> Published] \in Snapshots
    BY PublishedIsLive DEF TypeOK, Snapshots
  <2> QED BY <1>3, <2>1 DEF TakeSnapshot, TypeOK, database, loaders
<1>4. CASE Read(r)
  <2>1. waits[r] \in Tables /\ waits[r] # None
    BY <1>4 DEF Read, TypeOK
  <2>2. kind[r] = "rr" \/ kind[r] = "rc" \/ snapshot[r] \in Snapshots
    BY <2>1 DEF LocksInv, TypeOK
  <2>3. ~(kind[r] = "rr" /\ snapshot[r] = None) => Shows(r, waits[r]) \in Run \cup {Empty}
    BY <2>2, PublishedIsLive DEF Shows, TypeOK, Snapshots
  <2>4. saw' \in [Reader -> SUBSET (Run \cup {Empty})]
    BY <1>4, <2>3 DEF Read, TypeOK
  <2>5. share' \in [Reader -> SUBSET Tables] /\ waits' \in [Reader -> Tables \cup {None}]
    BY <1>4, <2>1 DEF Read, TypeOK
  <2> QED BY <1>4, <2>4, <2>5 DEF Read, TypeOK, database, loaders
<1>5. CASE End(r)
  <2>1. older' \in [Loader -> SUBSET Reader]
    BY <1>5 DEF End, TypeOK
  <2> QED BY <1>5, <2>1 DEF End, TypeOK, database
<1> QED BY <1>1, <1>2, <1>3, <1>4, <1>5 DEF ReaderStep

\* A step of a loader keeps the types.
LEMMA LoaderTypes ==
    ASSUME TypeOK, LoaderInv, NEW l \in Loader, LoaderAct(l)
    PROVE  TypeOK'
<1> USE ConstantTypes
<1>1. CASE Acquire(l)
  BY <1>1 DEF Acquire, Goes, database, readers, TypeOK
<1>2. CASE Refuse(l)
  BY <1>2 DEF Refuse, Goes, database, readers, TypeOK
<1>3. CASE AbandonStaleRuns(l)
  BY <1>3 DEF AbandonStaleRuns, Goes, readers, TypeOK
<1>4. CASE InsertRun(l)
  BY <1>4 DEF InsertRun, Goes, readers, TypeOK
<1>5. CASE Build(l)
  BY <1>5 DEF Build, Goes, readers, TypeOK
<1>6. CASE Cutoff(l)
  BY <1>6 DEF Cutoff, Goes, database, readers, TypeOK, Open
<1>7. CASE StartSwitch(l)
  BY <1>7 DEF StartSwitch, Goes, database, readers, TypeOK
<1>8. CASE Defer(l)
  BY <1>8 DEF Defer, Retry, database, readers, TypeOK, LoaderInv
<1>9. CASE LockNext(l)
  BY <1>9 DEF LockNext, database, readers, TypeOK
<1>10. CASE LockTimeout(l)
  BY <1>10 DEF LockTimeout, Retry, database, readers, TypeOK, LoaderInv
<1>11. CASE Commit(l)
  BY <1>11 DEF Commit, Goes, readers, TypeOK
<1>12. CASE MarkFailed(l)
  BY <1>12 DEF MarkFailed, Goes, readers, TypeOK
<1>13. CASE DropShadow(l)
  BY <1>13 DEF DropShadow, readers, TypeOK
<1>14. CASE Unlock(l)
  BY <1>14 DEF Unlock, Goes, database, readers, TypeOK
<1>15. CASE Raise(l)
  BY <1>15 DEF Raise, database, readers, TypeOK
<1>16. CASE Crash(l)
  BY <1>16 DEF Crash, database, readers, TypeOK
<1> QED BY <1>1, <1>2, <1>3, <1>4, <1>5, <1>6, <1>7, <1>8, <1>9, <1>10, <1>11, <1>12,
   <1>13, <1>14, <1>15, <1>16 DEF LoaderAct, LoaderStep

-----------------------------------------------------------------------------
(* The loader's steps. *)

\* The loader that enters is the one that now holds the lock.
LEMMA AcquireKeeps ==
    ASSUME ReloadInv, NEW l \in Loader, Acquire(l)
    PROVE  ReloadInv'
<1> USE DEF ReloadInv
<1>1. TypeOK'
  BY LoaderTypes DEF LoaderAct, LoaderStep
<1>2. OneLoader'
  BY <1>1, ConstantTypes DEF Acquire, Goes, database, readers, OneLoader, TypeOK
<1>3. LoaderInv'
  BY <1>1, ConstantTypes DEF Acquire, Goes, database, readers, LoaderInv, TypeOK,
     OneLoader, RunsInv
<1>4. SnapshotsInv'
  BY <1>1, ConstantTypes DEF Acquire, Goes, database, readers, SnapshotsInv, TypeOK,
     OneLoader, LoaderInv, RunsInv
<1>5. RunsInv' /\ LocksInv' /\ ViewsInv'
  BY DEF Acquire, Goes, database, readers, RunsInv, LocksInv, ViewsInv
<1> QED BY <1>1, <1>2, <1>3, <1>4, <1>5

\* A refused load has no run and no locks yet.
LEMMA RefuseKeeps ==
    ASSUME ReloadInv, NEW l \in Loader, Refuse(l)
    PROVE  ReloadInv'
<1> USE DEF ReloadInv
<1>1. TypeOK'
  BY LoaderTypes DEF LoaderAct, LoaderStep
<1>2. OneLoader'
  BY <1>1, ConstantTypes DEF Refuse, Goes, database, readers, OneLoader, TypeOK
<1>3. LoaderInv'
  BY <1>1, ConstantTypes DEF Refuse, Goes, database, readers, LoaderInv, TypeOK,
     OneLoader, RunsInv
<1>4. SnapshotsInv'
  BY <1>1, ConstantTypes DEF Refuse, Goes, database, readers, SnapshotsInv, TypeOK,
     OneLoader, LoaderInv, RunsInv
<1>5. RunsInv' /\ LocksInv' /\ ViewsInv'
  BY DEF Refuse, Goes, database, readers, RunsInv, LocksInv, ViewsInv
<1> QED BY <1>1, <1>2, <1>3, <1>4, <1>5

\* The other loaders are idle, so no run at work is taken away.
LEMMA AbandonStaleRunsKeeps ==
    ASSUME ReloadInv, NEW l \in Loader, AbandonStaleRuns(l)
    PROVE  ReloadInv'
<1> USE DEF ReloadInv
<1>1. TypeOK'
  BY LoaderTypes DEF LoaderAct, LoaderStep
<1>2. OneLoader'
  BY <1>1, ConstantTypes DEF AbandonStaleRuns, Goes, readers, OneLoader, TypeOK
<1>3. RunsInv'
  BY <1>1, ConstantTypes DEF AbandonStaleRuns, Goes, readers, RunsInv, TypeOK,
     OneLoader, LoaderInv
<1>4. LoaderInv'
  <2>1. \A m \in Loader : m # l => pc[m] = "idle"
    BY DEF AbandonStaleRuns, Goes, OneLoader
  <2>2. /\ \A m \in Loader : m # l => pc'[m] = "idle" /\ locked'[m] = locked[m]
        /\ locked'[l] = locked[l] /\ locked[l] = 0
    BY <2>1 DEF AbandonStaleRuns, Goes, TypeOK, LoaderInv
  <2>3. pc'[l] = "clean"
    BY DEF AbandonStaleRuns, Goes, TypeOK
  <2> QED BY <2>1, <2>2, <2>3 DEF LoaderInv
<1>5. SnapshotsInv'
  BY <1>1, ConstantTypes DEF AbandonStaleRuns, Goes, readers, SnapshotsInv, TypeOK,
     OneLoader, LoaderInv, RunsInv
<1>6. LocksInv' /\ ViewsInv'
  BY DEF AbandonStaleRuns, Goes, readers, LocksInv, ViewsInv
<1> QED BY <1>1, <1>2, <1>3, <1>4, <1>5, <1>6

\* The new run is the last one.
LEMMA InsertRunKeeps ==
    ASSUME ReloadInv, NEW l \in Loader, InsertRun(l)
    PROVE  ReloadInv'
<1> USE DEF ReloadInv
<1>1. TypeOK'
  BY LoaderTypes DEF LoaderAct, LoaderStep
<1>2. OneLoader'
  BY <1>1, ConstantTypes DEF InsertRun, Goes, readers, OneLoader, TypeOK
<1>3. RunsInv'
  BY <1>1, ConstantTypes DEF InsertRun, Goes, readers, RunsInv, TypeOK, OneLoader,
     LoaderInv
<1>4. LoaderInv'
  <2>1. \A m \in Loader : m # l => pc[m] = "idle"
    BY DEF InsertRun, Goes, OneLoader
  <2>2. /\ \A m \in Loader : m # l => pc'[m] = "idle" /\ locked'[m] = locked[m]
        /\ locked'[l] = locked[l] /\ locked[l] = 0
    BY <2>1 DEF InsertRun, Goes, TypeOK, LoaderInv
  <2>3. pc'[l] = "running" /\ attempts'[l] = 0
    BY DEF InsertRun, Goes, TypeOK
  <2>4. PICK i \in Run : /\ status[i] = "none"
                         /\ \A j \in Run : j < i => status[j] # "none"
                         /\ status' = [status EXCEPT ![i] = "running"]
                         /\ run' = [run EXCEPT ![l] = i]
    BY DEF InsertRun
  <2>5. \A j \in Run : status'[j] # "none" => j <= i
    BY <2>4, ConstantTypes DEF RunsInv, TypeOK, Run
  <2>6. run'[l] = i /\ status'[i] = "running"
    BY <2>4 DEF TypeOK
  <2> QED BY <2>1, <2>2, <2>3, <2>5, <2>6, ConstantTypes DEF LoaderInv
<1>5. SnapshotsInv'
  BY <1>1, ConstantTypes DEF InsertRun, Goes, readers, SnapshotsInv, TypeOK,
     OneLoader, LoaderInv, RunsInv
<1>6. LocksInv' /\ ViewsInv'
  BY DEF InsertRun, Goes, readers, LocksInv, ViewsInv
<1> QED BY <1>1, <1>2, <1>3, <1>4, <1>5, <1>6

\* The shadow is now the loader's own, and every snapshot keeps what it saw.
LEMMA BuildKeeps ==
    ASSUME ReloadInv, NEW l \in Loader, Build(l)
    PROVE  ReloadInv'
<1> USE DEF ReloadInv
<1>1. TypeOK'
  BY LoaderTypes DEF LoaderAct, LoaderStep
<1>2. OneLoader'
  BY <1>1, ConstantTypes DEF Build, Goes, readers, OneLoader, TypeOK
<1>3. RunsInv'
  BY <1>1, ConstantTypes DEF Build, Goes, readers, RunsInv, TypeOK, OneLoader, LoaderInv
<1>4. LoaderInv'
  <2>1. \A m \in Loader : m # l => pc[m] = "idle"
    BY DEF Build, Goes, OneLoader
  <2>2. /\ \A m \in Loader : m # l => pc'[m] = "idle"
        /\ pc'[l] = "built" /\ pc[l] = "running"
    BY <2>1 DEF Build, Goes, TypeOK
  <2>3. /\ UNCHANGED <<status, run, attempts, locked>>
        /\ shadow' = run[l] /\ built' = built \cup {run[l]}
    BY DEF Build
  <2> QED BY <2>1, <2>2, <2>3 DEF LoaderInv
<1>5. SnapshotsInv'
  BY <1>1, ConstantTypes DEF Build, Goes, readers, SnapshotsInv, TypeOK, OneLoader,
     LoaderInv, RunsInv
<1>6. LocksInv' /\ ViewsInv'
  BY DEF Build, Goes, readers, LocksInv, ViewsInv
<1> QED BY <1>1, <1>2, <1>3, <1>4, <1>5, <1>6

\* Each open snapshot lacks the new rows at most while its transaction is
\* waited for.
LEMMA CutoffKeeps ==
    ASSUME ReloadInv, NEW l \in Loader, Cutoff(l)
    PROVE  ReloadInv'
<1> USE DEF ReloadInv
<1>1. TypeOK'
  BY LoaderTypes DEF LoaderAct, LoaderStep
<1>2. OneLoader'
  BY <1>1, ConstantTypes DEF Cutoff, Goes, database, readers, OneLoader, TypeOK
<1>3. LoaderInv'
  BY <1>1, ConstantTypes DEF Cutoff, Goes, database, readers, LoaderInv, TypeOK,
     OneLoader, RunsInv
<1>4. SnapshotsInv'
  <2>1. pc'[l] = "ready" /\ older'[l] = Open
    BY DEF Cutoff, Goes, TypeOK
  <2>2. \A m \in Loader : m # l => pc'[m] = pc[m] /\ older'[m] = older[m]
    BY DEF Cutoff, Goes, TypeOK
  <2>3. \A r \in Reader : snapshot[r] # None => r \in Open
    BY DEF LocksInv, Open
  <2>4. UNCHANGED <<live, run, kind, snapshot>>
    BY DEF Cutoff, database, readers
  <2> QED BY <2>1, <2>2, <2>3, <2>4 DEF SnapshotsInv
<1>5. RunsInv' /\ LocksInv' /\ ViewsInv'
  BY DEF Cutoff, Goes, database, readers, RunsInv, LocksInv, ViewsInv
<1> QED BY <1>1, <1>2, <1>3, <1>4, <1>5

\* No transaction is waited for any more, so every snapshot has the rows.
LEMMA StartSwitchKeeps ==
    ASSUME ReloadInv, NEW l \in Loader, StartSwitch(l)
    PROVE  ReloadInv'
<1> USE DEF ReloadInv
<1>1. TypeOK'
  BY LoaderTypes DEF LoaderAct, LoaderStep
<1>2. OneLoader'
  BY <1>1, ConstantTypes DEF StartSwitch, Goes, database, readers, OneLoader, TypeOK
<1>3. LoaderInv'
  BY <1>1, ConstantTypes DEF StartSwitch, Goes, database, readers, LoaderInv, TypeOK,
     OneLoader, RunsInv
<1>4. SnapshotsInv'
  BY <1>1, ConstantTypes DEF StartSwitch, Goes, database, readers, SnapshotsInv,
     TypeOK, OneLoader, LoaderInv, RunsInv
<1>5. RunsInv' /\ LocksInv' /\ ViewsInv'
  BY DEF StartSwitch, Goes, database, readers, RunsInv, LocksInv, ViewsInv
<1> QED BY <1>1, <1>2, <1>3, <1>4, <1>5

\* The attempts have not run out where another is tried.
LEMMA DeferKeeps ==
    ASSUME ReloadInv, NEW l \in Loader, Defer(l)
    PROVE  ReloadInv'
<1> USE DEF ReloadInv
<1>1. TypeOK'
  BY LoaderTypes DEF LoaderAct, LoaderStep
<1>2. OneLoader'
  BY <1>1, ConstantTypes DEF Defer, Retry, database, readers, OneLoader, TypeOK
<1>3. LoaderInv'
  BY <1>1, ConstantTypes DEF Defer, Retry, database, readers, LoaderInv, TypeOK,
     OneLoader, RunsInv
<1>4. SnapshotsInv'
  BY <1>1, ConstantTypes DEF Defer, Retry, database, readers, SnapshotsInv, TypeOK,
     OneLoader, LoaderInv, RunsInv
<1>5. RunsInv' /\ LocksInv' /\ ViewsInv'
  BY DEF Defer, Retry, database, readers, RunsInv, LocksInv, ViewsInv
<1> QED BY <1>1, <1>2, <1>3, <1>4, <1>5

\* A table is locked by the switch when no reader holds it.
LEMMA LockNextKeeps ==
    ASSUME ReloadInv, NEW l \in Loader, LockNext(l)
    PROVE  ReloadInv'
<1> USE DEF ReloadInv
<1>1. TypeOK'
  BY LoaderTypes DEF LoaderAct, LoaderStep
<1>2. LoaderInv'
  BY <1>1, ConstantTypes DEF LockNext, database, readers, LoaderInv, TypeOK,
     OneLoader, RunsInv
<1>3. LocksInv'
  <2> DEFINE next == locked[l] + 1
  <2>1. /\ UNCHANGED <<kind, share, snapshot, waits, saw>>
        /\ locked' = [locked EXCEPT ![l] = next]
        /\ \A r \in Reader : LockOrder[next] \notin share[r]
    BY DEF LockNext, readers, ReaderHolds
  <2>2. locked[l] \in Nat
    BY TableFacts DEF TypeOK
  <2>3. ASSUME NEW m \in Loader, NEW k \in 1 .. Len(LockOrder), NEW r \in Reader,
               k <= locked'[m]
        PROVE  LockOrder[k] \notin share[r]
    <3>1. CASE m # l \/ k # next
      <4>1. k <= locked[m]
        BY <2>1, <2>2, <2>3, <3>1, TableFacts DEF TypeOK
      <4> QED BY <4>1 DEF LocksInv
    <3>2. CASE m = l /\ k = next
      BY <2>1, <3>2
    <3> QED BY <3>1, <3>2
  <2> QED BY <2>1, <2>3 DEF LocksInv
<1>4. OneLoader' /\ RunsInv' /\ SnapshotsInv' /\ ViewsInv'
  BY DEF LockNext, database, readers, OneLoader, RunsInv, SnapshotsInv, ViewsInv
<1> QED BY <1>1, <1>2, <1>3, <1>4

\* Every lock of the attempt is given back.
LEMMA LockTimeoutKeeps ==
    ASSUME ReloadInv, NEW l \in Loader, LockTimeout(l)
    PROVE  ReloadInv'
<1> USE DEF ReloadInv
<1>1. TypeOK'
  BY LoaderTypes DEF LoaderAct, LoaderStep
<1>2. OneLoader'
  BY <1>1, ConstantTypes DEF LockTimeout, Retry, database, readers, OneLoader, TypeOK
<1>3. LoaderInv'
  BY <1>1, ConstantTypes DEF LockTimeout, Retry, database, readers, LoaderInv, TypeOK,
     OneLoader, RunsInv
<1>4. LocksInv'
  <2>1. UNCHANGED <<kind, share, snapshot, waits, saw>>
    BY DEF LockTimeout, readers
  <2>2. \A m \in Loader : locked'[m] = locked[m] \/ locked'[m] = 0
    BY DEF LockTimeout, TypeOK
  <2>3. \A k \in 1 .. Len(LockOrder) : ~(k <= 0)
    BY TableFacts
  <2> QED BY <2>1, <2>2, <2>3 DEF LocksInv
<1>5. SnapshotsInv'
  BY <1>1, ConstantTypes DEF LockTimeout, Retry, database, readers, SnapshotsInv,
     TypeOK, OneLoader, LoaderInv, RunsInv
<1>6. RunsInv' /\ ViewsInv'
  BY DEF LockTimeout, Retry, database, readers, RunsInv, ViewsInv
<1> QED BY <1>1, <1>2, <1>3, <1>4, <1>5, <1>6

\* The switch holds every table: no reader has read anything or has a
\* snapshot but the builder's, and that one sees the new rows.
LEMMA CommitKeeps ==
    ASSUME ReloadInv, NEW l \in Loader, Commit(l)
    PROVE  ReloadInv'
<1> USE DEF ReloadInv
<1>1. TypeOK'
  BY LoaderTypes DEF LoaderAct, LoaderStep
<1>0. \A r \in Reader : share[r] = {}
  <2> SUFFICES ASSUME NEW r \in Reader, NEW t \in share[r] PROVE FALSE
    OBVIOUS
  <2>1. PICK k \in 1 .. Len(LockOrder) : t = LockOrder[k]
    BY TableFacts DEF TypeOK
  <2>2. k <= locked[l]
    BY TableFacts DEF Commit
  <2> QED BY <2>1, <2>2 DEF LocksInv
<1>2. OneLoader'
  BY <1>1, ConstantTypes DEF Commit, Goes, readers, OneLoader, TypeOK
<1>3. RunsInv'
  BY <1>1, ConstantTypes DEF Commit, Goes, readers, RunsInv, TypeOK, OneLoader,
     LoaderInv
<1>4. LoaderInv'
  <2>1. \A m \in Loader : m # l => pc[m] = "idle"
    BY DEF Commit, Goes, OneLoader
  <2>2. /\ \A m \in Loader : m # l => pc'[m] = "idle"
        /\ pc'[l] = "committed"
    BY <2>1 DEF Commit, Goes, TypeOK
  <2>3. \A m \in Loader : locked'[m] = IF m = l THEN 0 ELSE locked[m]
    BY DEF Commit, TypeOK
  <2> QED BY <2>1, <2>2, <2>3 DEF LoaderInv
<1>5. LocksInv'
  <2>1. UNCHANGED <<kind, share, snapshot, waits, saw>>
    BY DEF Commit, readers
  <2>2. \A m \in Loader : locked'[m] = locked[m] \/ locked'[m] = 0
    BY DEF Commit, TypeOK
  <2>3. \A k \in 1 .. Len(LockOrder) : ~(k <= 0)
    BY TableFacts
  <2> QED BY <2>1, <2>2, <2>3 DEF LocksInv
<1>6. SnapshotsInv'
  <2>1. \A r \in Reader : snapshot[r] # None => run[l] \in snapshot[r].built
    BY DEF Commit, Goes, SnapshotsInv
  <2>2. live' = run[l]
    BY DEF Commit, Goes, LoaderInv
  <2>3. \A r \in Reader : kind[r] = "rr" => snapshot[r] = None
    BY <1>0 DEF LocksInv
  <2>4. \A m \in Loader : m # l => pc[m] = "idle"
    BY DEF Commit, Goes, OneLoader
  <2>5. \A m \in Loader : pc'[m] \notin {"ready", "locking"}
    BY <2>4 DEF Commit, Goes, TypeOK
  <2>6. UNCHANGED <<kind, snapshot>>
    BY DEF Commit, readers
  <2> QED BY <2>1, <2>2, <2>3, <2>5, <2>6 DEF SnapshotsInv
<1>7. ViewsInv'
  <2>1. \A r \in Reader : saw[r] = {}
    BY <1>0 DEF LocksInv
  <2> QED BY <2>1 DEF Commit, readers, ViewsInv
<1> QED BY <1>1, <1>2, <1>3, <1>4, <1>5, <1>6, <1>7

\* A run that succeeded is not marked.
LEMMA MarkFailedKeeps ==
    ASSUME ReloadInv, NEW l \in Loader, MarkFailed(l)
    PROVE  ReloadInv'
<1> USE DEF ReloadInv
<1>1. TypeOK'
  BY LoaderTypes DEF LoaderAct, LoaderStep
<1>2. OneLoader'
  BY <1>1, ConstantTypes DEF MarkFailed, Goes, readers, OneLoader, TypeOK
<1>3. RunsInv'
  <2>1. /\ \A i \in Run : status'[i] = "succeeded" <=> status[i] = "succeeded"
        /\ \A i \in Run : status'[i] = "none" <=> status[i] = "none"
    BY DEF MarkFailed, TypeOK
  <2>2. UNCHANGED <<live, built>> /\ live \in Run
    BY DEF MarkFailed, TypeOK
  <2> QED BY <2>1, <2>2 DEF RunsInv
<1>4. LoaderInv'
  <2>1. \A m \in Loader : m # l => pc[m] = "idle"
    BY DEF MarkFailed, Goes, OneLoader
  <2>2. /\ \A m \in Loader : m # l => pc'[m] = "idle" /\ locked'[m] = locked[m]
        /\ locked'[l] = locked[l] /\ locked[l] = 0
    BY <2>1 DEF MarkFailed, Goes, TypeOK, LoaderInv
  <2>3. pc'[l] = "cleanup"
    BY DEF MarkFailed, Goes, TypeOK
  <2> QED BY <2>1, <2>2, <2>3 DEF LoaderInv
<1>5. SnapshotsInv'
  BY <1>1, ConstantTypes DEF MarkFailed, Goes, readers, SnapshotsInv, TypeOK,
     OneLoader, LoaderInv, RunsInv
<1>6. LocksInv' /\ ViewsInv'
  BY DEF MarkFailed, Goes, readers, LocksInv, ViewsInv
<1> QED BY <1>1, <1>2, <1>3, <1>4, <1>5, <1>6

\* The loader no longer needs the shadow.
LEMMA DropShadowKeeps ==
    ASSUME ReloadInv, NEW l \in Loader, DropShadow(l)
    PROVE  ReloadInv'
<1> USE DEF ReloadInv
<1>1. TypeOK'
  BY LoaderTypes DEF LoaderAct, LoaderStep
<1>2. OneLoader'
  BY <1>1, ConstantTypes DEF DropShadow, readers, OneLoader, TypeOK
<1>3. LoaderInv'
  BY <1>1, ConstantTypes DEF DropShadow, readers, LoaderInv, TypeOK, OneLoader, RunsInv
<1>4. SnapshotsInv'
  BY <1>1, ConstantTypes DEF DropShadow, readers, SnapshotsInv, TypeOK, OneLoader,
     LoaderInv, RunsInv
<1>5. RunsInv' /\ LocksInv' /\ ViewsInv'
  BY DEF DropShadow, readers, RunsInv, LocksInv, ViewsInv
<1> QED BY <1>1, <1>2, <1>3, <1>4, <1>5

\* The lock is free once its holder is idle.
LEMMA UnlockKeeps ==
    ASSUME ReloadInv, NEW l \in Loader, Unlock(l)
    PROVE  ReloadInv'
<1> USE DEF ReloadInv
<1>1. TypeOK'
  BY LoaderTypes DEF LoaderAct, LoaderStep
<1>2. OneLoader'
  BY <1>1, ConstantTypes DEF Unlock, Goes, database, readers, OneLoader, TypeOK
<1>3. LoaderInv'
  BY <1>1, ConstantTypes DEF Unlock, Goes, database, readers, LoaderInv, TypeOK,
     OneLoader, RunsInv
<1>4. SnapshotsInv'
  BY <1>1, ConstantTypes DEF Unlock, Goes, database, readers, SnapshotsInv, TypeOK,
     OneLoader, LoaderInv, RunsInv
<1>5. RunsInv' /\ LocksInv' /\ ViewsInv'
  BY DEF Unlock, Goes, database, readers, RunsInv, LocksInv, ViewsInv
<1> QED BY <1>1, <1>2, <1>3, <1>4, <1>5

\* Locks go with the transaction.
LEMMA RaiseKeeps ==
    ASSUME ReloadInv, NEW l \in Loader, Raise(l)
    PROVE  ReloadInv'
<1> USE DEF ReloadInv
<1>1. TypeOK'
  BY LoaderTypes DEF LoaderAct, LoaderStep
<1>2. OneLoader'
  BY <1>1, ConstantTypes DEF Raise, database, readers, OneLoader, TypeOK
<1>3. LoaderInv'
  BY <1>1, ConstantTypes DEF Raise, database, readers, LoaderInv, TypeOK, OneLoader,
     RunsInv
<1>4. LocksInv'
  <2>1. UNCHANGED <<kind, share, snapshot, waits, saw>>
    BY DEF Raise, readers
  <2>2. \A m \in Loader : locked'[m] = locked[m] \/ locked'[m] = 0
    BY DEF Raise, TypeOK
  <2>3. \A k \in 1 .. Len(LockOrder) : ~(k <= 0)
    BY TableFacts
  <2> QED BY <2>1, <2>2, <2>3 DEF LocksInv
<1>5. SnapshotsInv'
  BY <1>1, ConstantTypes DEF Raise, database, readers, SnapshotsInv, TypeOK,
     OneLoader, LoaderInv, RunsInv
<1>6. RunsInv' /\ ViewsInv'
  BY DEF Raise, database, readers, RunsInv, ViewsInv
<1> QED BY <1>1, <1>2, <1>3, <1>4, <1>5, <1>6

\* Locks go with the session; the run stays as it was.
LEMMA CrashKeeps ==
    ASSUME ReloadInv, NEW l \in Loader, Crash(l)
    PROVE  ReloadInv'
<1> USE DEF ReloadInv
<1>1. TypeOK'
  BY LoaderTypes DEF LoaderAct, LoaderStep
<1>2. OneLoader'
  BY <1>1, ConstantTypes DEF Crash, database, readers, OneLoader, TypeOK
<1>3. LoaderInv'
  BY <1>1, ConstantTypes DEF Crash, database, readers, LoaderInv, TypeOK, OneLoader,
     RunsInv
<1>4. LocksInv'
  <2>1. UNCHANGED <<kind, share, snapshot, waits, saw>>
    BY DEF Crash, readers
  <2>2. \A m \in Loader : locked'[m] = locked[m] \/ locked'[m] = 0
    BY DEF Crash, TypeOK
  <2>3. \A k \in 1 .. Len(LockOrder) : ~(k <= 0)
    BY TableFacts
  <2> QED BY <2>1, <2>2, <2>3 DEF LocksInv
<1>5. SnapshotsInv'
  BY <1>1, ConstantTypes DEF Crash, database, readers, SnapshotsInv, TypeOK,
     OneLoader, LoaderInv, RunsInv
<1>6. RunsInv' /\ ViewsInv'
  BY DEF Crash, database, readers, RunsInv, ViewsInv
<1> QED BY <1>1, <1>2, <1>3, <1>4, <1>5, <1>6

-----------------------------------------------------------------------------
(* The readers' steps. *)

\* They leave what the loaders' invariants speak of.
LEMMA ReadersLeave ==
    ASSUME ReloadInv, NEW r \in Reader, ReaderStep(r)
    PROVE  /\ UNCHANGED <<live, status, shadow, built, advisory, pc, run, attempts, locked>>
           /\ TypeOK' /\ OneLoader' /\ RunsInv' /\ LoaderInv'
<1>1. UNCHANGED <<live, status, shadow, built, advisory, pc, run, attempts, locked>>
  BY DEF ReaderStep, Begin, Ask, TakeSnapshot, Read, End, database, loaders
<1>2. TypeOK'
  BY ReaderTypes DEF ReloadInv
<1> QED BY <1>1, <1>2 DEF ReloadInv, OneLoader, RunsInv, LoaderInv

\* A new transaction holds nothing and has read nothing.
LEMMA BeginKeeps ==
    ASSUME ReloadInv, NEW r \in Reader, NEW k \in Kinds, Begin(r, k)
    PROVE  ReloadInv'
<1>1. ReaderStep(r)
  BY DEF ReaderStep
<1>2. /\ UNCHANGED <<live, pc, run, locked, older, share, snapshot, waits, saw>>
      /\ kind' = [kind EXCEPT ![r] = k] /\ kind[r] = None
  BY DEF Begin, database, loaders
<1>3. \A q \in Reader : kind'[q] = IF q = r THEN k ELSE kind[q]
  BY <1>2 DEF TypeOK, ReloadInv
<1>4. saw[r] = {} /\ snapshot[r] = None /\ waits[r] = None
  BY <1>2, ReloadConstants DEF ReloadInv, LocksInv, Kinds
<1>5. LocksInv'
  BY <1>2, <1>3, <1>4 DEF LocksInv, ReloadInv
<1>6. SnapshotsInv'
  BY <1>2, <1>3, <1>4 DEF SnapshotsInv, ReloadInv
<1>7. ViewsInv'
  BY <1>2, <1>3, <1>4 DEF ViewsInv, ReloadInv
<1> QED BY <1>1, <1>5, <1>6, <1>7, ReadersLeave DEF ReloadInv

\* Asking for a table only waits.
LEMMA AskKeeps ==
    ASSUME ReloadInv, NEW r \in Reader, NEW t \in Tables, Ask(r, t)
    PROVE  ReloadInv'
<1>1. ReaderStep(r)
  BY DEF ReaderStep
<1>2. UNCHANGED <<live, pc, run, locked, older, kind, share, snapshot, saw>>
  BY DEF Ask, database, loaders
<1>3. LocksInv'
  BY <1>2 DEF Ask, LocksInv, TypeOK, ReloadInv, Kinds
<1>4. SnapshotsInv' /\ ViewsInv'
  BY <1>2 DEF SnapshotsInv, ViewsInv, ReloadInv
<1> QED BY <1>1, <1>3, <1>4, ReadersLeave DEF ReloadInv

\* A snapshot taken now has the live load's rows and those of a built load.
LEMMA TakeSnapshotKeeps ==
    ASSUME ReloadInv, NEW r \in Reader, TakeSnapshot(r)
    PROVE  ReloadInv'
<1>1. ReaderStep(r)
  BY DEF ReaderStep
<1> DEFINE taken == [built |-> built, version |-> Published]
<1>2. /\ UNCHANGED <<live, built, pc, run, locked, older, kind, share, waits, saw>>
      /\ snapshot' = [snapshot EXCEPT ![r] = taken]
      /\ kind[r] # None /\ waits[r] = None
      /\ kind[r] = "rr" => Runs \in share[r]
  BY ReloadConstants DEF TakeSnapshot, database, loaders, Kinds
<1>3. LocksInv'
  BY <1>2 DEF LocksInv, TypeOK, ReloadInv
<1>4. taken.built = built /\ taken.version = live
  BY PublishedIsLive DEF ReloadInv
<1>5. live \in built /\ \A l \in Loader : pc[l] \in {"ready", "locking"} => run[l] \in built
  BY DEF ReloadInv, RunsInv, LoaderInv
<1> HIDE DEF taken
<1>6. SnapshotsInv'
  BY <1>2, <1>4, <1>5 DEF SnapshotsInv, TypeOK, ReloadInv
<1>7. ViewsInv'
  BY <1>2 DEF ViewsInv, ReloadInv
<1> QED BY <1>1, <1>3, <1>6, <1>7, ReadersLeave DEF ReloadInv

\* What a statement of a transaction sees is the live load.
LEMMA ShowsLive ==
    ASSUME ReloadInv, NEW r \in Reader, waits[r] # None,
           ~(kind[r] = "rr" /\ snapshot[r] = None)
    PROVE  /\ Shows(r, waits[r]) # Empty
           /\ kind[r] # "build" => Shows(r, waits[r]) = live
<1>1. Published = live /\ live \in Run
  BY PublishedIsLive DEF ReloadInv, TypeOK
<1>2. \A i \in Run : i # Empty
  BY ConstantTypes DEF Run, Empty
<1>3. CASE kind[r] = "rc"
  BY <1>1, <1>2, <1>3 DEF Shows
<1>4. CASE kind[r] # "rc"
  <2>1. snapshot[r] # None
    BY <1>4 DEF ReloadInv, LocksInv
  <2>2. live \in snapshot[r].built /\ snapshot[r].version \in Run
    BY <2>1 DEF ReloadInv, SnapshotsInv, TypeOK, Snapshots
  <2>3. kind[r] = "rr" => snapshot[r].version = live
    BY <2>1 DEF ReloadInv, SnapshotsInv
  <2>4. kind[r] # "build" => kind[r] = "rr"
    BY <1>4, <2>1 DEF ReloadInv, LocksInv, TypeOK, Kinds
  <2> QED BY <1>1, <1>2, <1>4, <2>2, <2>3, <2>4 DEF Shows
<1> QED BY <1>3, <1>4

\* A lock is granted on a table no switch holds, and shows the live load.
LEMMA ReadKeeps ==
    ASSUME ReloadInv, NEW r \in Reader, Read(r)
    PROVE  ReloadInv'
<1>1. ReaderStep(r)
  BY DEF ReaderStep
<1> DEFINE t == waits[r]
<1>2. /\ UNCHANGED <<live, built, pc, run, locked, older, kind, snapshot>>
      /\ t # None /\ ~SwitchHolds(t)
      /\ share' = [share EXCEPT ![r] = @ \cup {t}]
      /\ waits' = [waits EXCEPT ![r] = None]
  BY DEF Read, database, loaders
<1>3. \/ saw' = saw
      \/ saw' = [saw EXCEPT ![r] = @ \cup {Shows(r, t)}]
           /\ ~(kind[r] = "rr" /\ snapshot[r] = None)
  BY DEF Read
<1>4. ASSUME NEW l \in Loader, NEW k \in 1 .. Len(LockOrder), NEW q \in Reader, k <= locked[l]
      PROVE  LockOrder[k] \notin share'[q]
  BY <1>2, <1>4 DEF SwitchHolds, ReloadInv, LocksInv, TypeOK
<1>5. \A q \in Reader : /\ share'[q] = IF q = r THEN share[q] \cup {t} ELSE share[q]
                        /\ waits'[q] = IF q = r THEN None ELSE waits[q]
                        /\ q # r => saw'[q] = saw[q]
  BY <1>2, <1>3 DEF ReloadInv, TypeOK
<1>6. kind[r] # None
  BY <1>2, ReloadConstants DEF ReloadInv, LocksInv, Kinds
<1>7. LocksInv'
  <2>1. share'[r] # {} /\ waits'[r] = None
    BY <1>5
  <2>2. ASSUME NEW q \in Reader
        PROVE  /\ saw'[q] # {} => share'[q] # {}
               /\ kind[q] = "rr" /\ snapshot[q] # None => share'[q] # {}
               /\ kind[q] = None => saw'[q] = {} /\ snapshot[q] = None
               /\ waits'[q] # None /\ kind[q] \notin {"rc", "rr"} => snapshot[q] # None
    <3>1. CASE q = r
      BY <1>6, <2>1, <3>1
    <3>2. CASE q # r
      BY <1>5, <3>2 DEF ReloadInv, LocksInv
    <3> QED BY <3>1, <3>2
  <2> QED BY <1>2, <1>4, <2>2 DEF LocksInv
<1>8. SnapshotsInv'
  BY <1>2 DEF ReloadInv, SnapshotsInv
<1>9. ViewsInv'
  <2>1. CASE saw' = saw
    BY <1>2, <2>1 DEF ReloadInv, ViewsInv
  <2>2. CASE saw' # saw
    <3>1. saw'[r] = saw[r] \cup {Shows(r, t)} /\ ~(kind[r] = "rr" /\ snapshot[r] = None)
      BY <1>3, <2>2 DEF ReloadInv, TypeOK
    <3>2. Shows(r, t) # Empty /\ (kind[r] # "build" => Shows(r, t) = live)
      BY <1>2, <3>1, ShowsLive
    <3> QED BY <1>2, <1>5, <3>1, <3>2 DEF ReloadInv, ViewsInv
  <2> QED BY <2>1, <2>2
<1> QED BY <1>1, <1>7, <1>8, <1>9, ReadersLeave DEF ReloadInv

\* The end of a transaction gives back what it held.
LEMMA EndKeeps ==
    ASSUME ReloadInv, NEW r \in Reader, End(r)
    PROVE  ReloadInv'
<1>1. ReaderStep(r)
  BY DEF ReaderStep
<1>2. UNCHANGED <<live, built, pc, run, locked>>
  BY DEF End, database
<1>3. \A q \in Reader :
        /\ kind'[q] = IF q = r THEN None ELSE kind[q]
        /\ share'[q] = IF q = r THEN {} ELSE share[q]
        /\ snapshot'[q] = IF q = r THEN None ELSE snapshot[q]
        /\ waits'[q] = IF q = r THEN None ELSE waits[q]
        /\ saw'[q] = IF q = r THEN {} ELSE saw[q]
  BY DEF End, ReloadInv, TypeOK
<1>4. \A l \in Loader : older'[l] = older[l] \ {r}
  BY DEF End
<1>5. LocksInv'
  BY <1>2, <1>3 DEF ReloadInv, LocksInv
<1>6. SnapshotsInv'
  BY <1>2, <1>3, <1>4 DEF ReloadInv, SnapshotsInv
<1>7. ViewsInv'
  BY <1>2, <1>3 DEF ReloadInv, ViewsInv
<1> QED BY <1>1, <1>5, <1>6, <1>7, ReadersLeave DEF ReloadInv

-----------------------------------------------------------------------------
(* The invariant. *)

\* The invariant holds at first,
LEMMA InitReload == Init => ReloadInv
<1> SUFFICES ASSUME Init PROVE ReloadInv
  OBVIOUS
<1>1. TypeOK
  BY InitTypes
<1>2. 0 \in Run /\ \A i \in Run : i # 0 => status[i] = "none"
  BY ConstantTypes DEF Init, Run
<1>3. OneLoader /\ LoaderInv
  BY ConstantTypes DEF Init, OneLoader, LoaderInv
<1>4. RunsInv
  BY <1>2, ConstantTypes DEF Init, RunsInv, Run
<1>5. LocksInv /\ SnapshotsInv
  BY DEF Init, LocksInv, SnapshotsInv
<1>6. ViewsInv
  BY DEF Init, ViewsInv
<1> QED BY <1>1, <1>3, <1>4, <1>5, <1>6 DEF ReloadInv

\* every step keeps it,
LEMMA NextReload ==
    ASSUME ReloadInv, [Next]_vars
    PROVE  ReloadInv'
<1>1. ASSUME NEW r \in Reader, ReaderStep(r) PROVE ReloadInv'
  BY <1>1, BeginKeeps, AskKeeps, TakeSnapshotKeeps, ReadKeeps, EndKeeps DEF ReaderStep
<1>2. ASSUME NEW l \in Loader, LoaderAct(l) PROVE ReloadInv'
  BY <1>2, AcquireKeeps, RefuseKeeps, AbandonStaleRunsKeeps, InsertRunKeeps, BuildKeeps,
     CutoffKeeps, StartSwitchKeeps, DeferKeeps, LockNextKeeps, LockTimeoutKeeps,
     CommitKeeps, MarkFailedKeeps, DropShadowKeeps, UnlockKeeps, RaiseKeeps, CrashKeeps
     DEF LoaderAct, LoaderStep
<1>3. CASE UNCHANGED vars
  BY <1>3 DEF vars, database, loaders, readers, ReloadInv, TypeOK, OneLoader, RunsInv,
              LoaderInv, LocksInv, SnapshotsInv, ViewsInv
<1> QED BY <1>1, <1>2, <1>3 DEF Next, ReaderStep, LoaderAct

\* so it always holds.
LEMMA ReloadInvariant == Spec => []ReloadInv
BY InitReload, NextReload, PTL DEF Spec

\* Spec => []TypeOK: the database, the loaders and the readers keep their types
\* (loading/loader.py, loading/switch.py).
THEOREM ReloadTypes == Spec => []TypeOK
<1>1. ReloadInv => TypeOK
  BY DEF ReloadInv
<1> QED BY <1>1, ReloadInvariant, PTL

\* Spec => []VersionIsLive: the latest successful run is the load whose tables
\* are live, whatever failed, crashed or was abandoned (switch.py, publish).
THEOREM VersionIsLiveHolds == Spec => []VersionIsLive
<1>1. ReloadInv => VersionIsLive
  BY PublishedIsLive DEF ReloadInv, VersionIsLive
<1> QED BY <1>1, ReloadInvariant, PTL

\* Spec => []NeverEmpty: no transaction finds the new tables without their rows
\* (switch.py, the cutoff and older_transactions).
THEOREM NeverEmptyHolds == Spec => []NeverEmpty
<1>1. ReloadInv => NeverEmpty
  BY DEF ReloadInv, ViewsInv, NeverEmpty
<1> QED BY <1>1, ReloadInvariant, PTL

\* Spec => []AllOldOrAllNew: a transaction of the API reads one load (switch.py,
\* the exclusive locks on every table before the swap).
THEOREM AllOldOrAllNewHolds == Spec => []AllOldOrAllNew
<1>1. ReloadInv => AllOldOrAllNew
  <2> SUFFICES ASSUME ReloadInv, NEW r \in Reader, kind[r] \in {"rc", "rr"}
               PROVE  Cardinality(saw[r]) <= 1 /\ Empty \notin saw[r]
    BY DEF AllOldOrAllNew
  <2>1. Empty \notin saw[r]
    BY DEF ReloadInv, ViewsInv
  <2>2. CASE saw[r] = {}
    BY <2>1, <2>2, FS_EmptySet
  <2>3. CASE saw[r] = {live}
    <3>1. Cardinality({live}) = 1
      BY FS_Singleton
    <3> QED BY <2>1, <2>3, <3>1
  <2> QED BY <2>2, <2>3 DEF ReloadInv, ViewsInv
<1> QED BY <1>1, ReloadInvariant, PTL

\* Spec => SucceededStays: nothing unpublishes a run (loader.py, mark_failed and
\* abandon_stale_runs).
THEOREM SucceededStaysHolds == Spec => SucceededStays
<1>1. ASSUME TypeOK, [Next]_vars, NEW i \in Run, status[i] = "succeeded"
      PROVE  status'[i] = "succeeded"
  <2>1. CASE UNCHANGED status
    BY <1>1, <2>1
  <2>2. CASE \E l \in Loader : AbandonStaleRuns(l) \/ InsertRun(l) \/ Commit(l) \/ MarkFailed(l)
    BY <1>1, <2>2 DEF AbandonStaleRuns, InsertRun, Commit, MarkFailed, TypeOK
  <2> QED BY <1>1, <2>1, <2>2
          DEF Next, LoaderStep, vars, database, Begin, Ask, TakeSnapshot, Read, End, Acquire,
              Refuse, Build, Cutoff, StartSwitch, Defer, LockNext, LockTimeout, DropShadow,
              Unlock, Raise, Crash
<1>2. TypeOK /\ [Next]_vars
        => [\A i \in Run : status[i] = "succeeded" => status'[i] = "succeeded"]_vars
  BY <1>1
<1> QED BY <1>2, ReloadTypes, PTL DEF Spec, SucceededStays

-----------------------------------------------------------------------------
(* The refinement. *)

\* No transaction has read anything before it begins, so none of the API's
\* views changes but by a statement of that transaction or its end.
LEMMA ReadLooks ==
    ASSUME ReloadInv, NEW r \in Reader, Read(r)
    PROVE  Promise!Look(r) \/ UNCHANGED <<live, ApiView>>
<1>1. UNCHANGED <<live, kind>>
  BY DEF Read, database
<1>2. CASE saw' = saw \/ kind[r] = "build"
  <2>1. \A q \in Reader : q # r => saw'[q] = saw[q]
    BY DEF Read, ReloadInv, TypeOK
  <2>2. ApiView' = ApiView
    BY <1>1, <1>2, <2>1 DEF ApiView
  <2> QED BY <1>1, <2>2
<1>3. CASE saw' # saw /\ kind[r] # "build"
  <2>1. /\ saw' = [saw EXCEPT ![r] = @ \cup {Shows(r, waits[r])}]
        /\ ~(kind[r] = "rr" /\ snapshot[r] = None) /\ waits[r] # None
    BY <1>3 DEF Read
  <2>2. Shows(r, waits[r]) = live
    BY <1>3, <2>1, ShowsLive
  <2>3. saw[r] = {} \/ saw[r] = {live}
    BY <1>3 DEF ReloadInv, ViewsInv
  <2>4. saw'[r] = {live} /\ \A q \in Reader : q # r => saw'[q] = saw[q]
    BY <2>1, <2>2, <2>3 DEF ReloadInv, TypeOK
  <2>5. saw[r] = {}
    BY <1>3, <2>1, <2>2, <2>3, <2>4 DEF ReloadInv, TypeOK
  <2>6. ApiView[r] = {} /\ ApiView' = [ApiView EXCEPT ![r] = {live}]
    BY <1>1, <1>3, <2>4, <2>5 DEF ApiView
  <2> QED BY <1>1, <2>6 DEF Promise!Look
<1> QED BY <1>2, <1>3

\* The commit is the promise's one step to a later load.
LEMMA CommitPublishes ==
    ASSUME ReloadInv, NEW l \in Loader, Commit(l)
    PROVE  Promise!Publish
<1>1. live' = run[l] /\ run[l] \in Run
  BY DEF Commit, Goes, ReloadInv, LoaderInv, TypeOK
<1>2. run[l] > live
  <2>1. status[run[l]] = "running" /\ status[live] = "succeeded" /\ live \in Run
    BY DEF Commit, ReloadInv, RunsInv, TypeOK
  <2>2. live <= run[l] /\ live # run[l]
    BY <2>1 DEF Commit, Goes, ReloadInv, LoaderInv
  <2> QED BY <1>1, <2>1, <2>2, ConstantTypes DEF Run
<1>3. ApiView' = ApiView
  BY DEF Commit, readers, ApiView
<1> QED BY <1>1, <1>2, <1>3 DEF Promise!Publish

\* Every other step but a reader's statement or end changes nothing of the
\* promise.
LEMMA EveryStep ==
    ASSUME ReloadInv, [Next]_vars
    PROVE  Promise!Next \/ UNCHANGED <<live, ApiView>>
<1>1. ASSUME NEW r \in Reader, NEW k \in Kinds, Begin(r, k)
      PROVE  UNCHANGED <<live, ApiView>>
  <2>1. saw[r] = {} /\ saw' = saw /\ live' = live
    BY <1>1 DEF Begin, database, ReloadInv, LocksInv
  <2>2. \A q \in Reader : q # r => kind'[q] = kind[q]
    BY <1>1 DEF Begin, ReloadInv, TypeOK
  <2>3. ApiView' = ApiView
    BY <2>1, <2>2 DEF ApiView
  <2> QED BY <2>1, <2>3
<1>2. ASSUME NEW r \in Reader, NEW t \in Tables, Ask(r, t) \/ TakeSnapshot(r)
      PROVE  UNCHANGED <<live, ApiView>>
  BY <1>2 DEF Ask, TakeSnapshot, database, ApiView
<1>3. ASSUME NEW r \in Reader, Read(r)
      PROVE  Promise!Next \/ UNCHANGED <<live, ApiView>>
  BY <1>3, ReadLooks DEF Promise!Next
<1>4. ASSUME NEW r \in Reader, End(r)
      PROVE  Promise!Next
  <2>1. /\ kind'[r] = None /\ saw'[r] = {} /\ live' = live
        /\ \A q \in Reader : q # r => kind'[q] = kind[q] /\ saw'[q] = saw[q]
    BY <1>4 DEF End, database, ReloadInv, TypeOK
  <2>2. ApiView' = [ApiView EXCEPT ![r] = {}]
    BY <2>1 DEF ApiView
  <2> QED BY <2>1, <2>2 DEF Promise!Next, Promise!Leave
<1>5. ASSUME NEW l \in Loader, LoaderAct(l), ~Commit(l)
      PROVE  UNCHANGED <<live, ApiView>>
  <2>1. UNCHANGED <<live, kind, saw>>
    BY <1>5 DEF LoaderAct, LoaderStep, Acquire, Refuse, AbandonStaleRuns, InsertRun,
       Build,
                Cutoff, StartSwitch, Defer, LockNext, LockTimeout, MarkFailed, DropShadow,
                Unlock, Raise, Crash, database, readers
  <2> QED BY <2>1 DEF ApiView
<1>6. ASSUME NEW l \in Loader, Commit(l)
      PROVE  Promise!Next
  BY <1>6, CommitPublishes DEF Promise!Next
<1>7. CASE UNCHANGED vars
  BY <1>7 DEF vars, database, readers, ApiView
<1>8. ASSUME NEW r \in Reader, TakeSnapshot(r)
      PROVE  UNCHANGED <<live, ApiView>>
  BY <1>8 DEF TakeSnapshot, database, ApiView
<1> QED BY <1>1, <1>2, <1>3, <1>4, <1>5, <1>6, <1>7, <1>8 DEF Next, LoaderAct

\* Spec => ReloadIsAtomic: to the API's readers a reload is one step from one
\* whole load to a later one, and a transaction reads the load it first saw.
THEOREM ReloadIsAtomicHolds == Spec => ReloadIsAtomic
<1>1. Init => Promise!Init
  BY ConstantTypes DEF Init, Promise!Init, ApiView, Run
<1>2. ReloadInv /\ [Next]_vars => [Promise!Next]_<<live, ApiView>>
  BY EveryStep
<1> QED BY <1>1, <1>2, ReloadInvariant, PTL DEF Spec, ReloadIsAtomic, Promise!Spec
=============================================================================

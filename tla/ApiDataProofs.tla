--------------------------- MODULE ApiDataProofs ---------------------------
(***************************************************************************)
(* Theorems about the API's data snapshot, for any number of requests,     *)
(* versions, TTL and retry time; about its transactions, for any number of *)
(* callers, connections and statements; and about their composition, which *)
(* implements both, so that what is proved of each holds of it.            *)
(***************************************************************************)
EXTENDS ApiData, TLAPS

-----------------------------------------------------------------------------
(* The data snapshot. *)


\* What every proof below knows of the constants.
LEMMA ConstantTypes ==
    /\ MaxVersion \in Nat /\ MaxTime \in Nat /\ TTL \in Nat \ {0}
    /\ StaleRetry \in Nat /\ StaleRetry <= TTL
    /\ None \notin Nat /\ Failed \notin Nat /\ None # Failed
    /\ None \notin Version /\ Failed \notin Version
BY SnapshotConstants DEF Version

\* A request is handed a snapshot of a version (SnapshotStore.get).
LEMMA HandType ==
    ASSUME TypeOK, NEW version \in Version, Hand(version)
    PROVE  handed' \subseteq Version
BY DEF TypeOK, Hand

\* The awaiting requests are given the read's outcome (the shared future).
LEMMA GiveType ==
    ASSUME TypeOK, NEW outcomes \in Version \cup {Failed}, Give(outcomes)
    PROVE  got' \in [Request -> Version \cup {None, Failed}]
BY DEF TypeOK, Give

-----------------------------------------------------------------------------
(* The types, with what was read when the read is over. *)

\* The store's initial types.
LEMMA InitTypes == Init => TypeInv
<1> SUFFICES ASSUME Init PROVE TypeInv
  OBVIOUS
<1>1. /\ 0 \in 0 .. MaxTime /\ 0 \in Version
      /\ 0 \in 0 .. MaxTime + TTL /\ 0 \in 0 .. MaxTime + StaleRetry
  BY ConstantTypes DEF Version
<1>2. waits \in [Request -> {None} \cup BOOLEAN]
  BY DEF Init
<1>3. got \in [Request -> Version \cup {None, Failed}]
  BY DEF Init
<1> QED BY <1>1, <1>2, <1>3 DEF Init, TypeInv, TypeOK, Ago

\* Every step keeps them.
LEMMA NextTypes ==
    ASSUME TypeInv, [Next]_vars
    PROVE  TypeInv'
<1>1. CASE AnswerFromMemory
  <2>1. snapshot \in Version
    BY <1>1 DEF AnswerFromMemory, Usable, TypeInv, TypeOK
  <2>2. handed' \subseteq Version
    BY <1>1, <2>1, HandType DEF AnswerFromMemory, TypeInv
  <2> QED BY <1>1, <2>2 DEF AnswerFromMemory, TypeInv, TypeOK, store, task, history
<1>2. ASSUME NEW r \in Request, NEW strict \in BOOLEAN, StartRead(r, strict)
      PROVE TypeInv'
  BY <1>2, ConstantTypes DEF StartRead, TypeInv, TypeOK, store, history
<1>3. ASSUME NEW r \in Request, NEW strict \in BOOLEAN, JoinRead(r, strict)
      PROVE TypeInv'
  <2>1. got' \in [Request -> Version \cup {None, Failed}]
    BY <1>3 DEF JoinRead, TypeInv, TypeOK
  <2> QED BY <1>3, <2>1 DEF JoinRead, TypeInv, TypeOK, store, task, history
<1>4. CASE NoteGeneration
  BY <1>4 DEF NoteGeneration, TypeInv, TypeOK, store, requests, history
<1>5. CASE ReadDatabase
  BY <1>5 DEF ReadDatabase, TypeInv, TypeOK, store, requests, history
<1>6. CASE ReadFails
  <2>1. got' \in [Request -> Version \cup {None, Failed}]
    BY <1>6, GiveType DEF ReadFails, TypeInv
  <2> QED BY <1>6, <2>1 DEF ReadFails, TypeInv, TypeOK, store, history
<1>7. CASE EndLoad
  <2>1. outcome \in Version
    BY <1>7 DEF EndLoad, TypeInv
  <2>2. got' \in [Request -> Version \cup {None, Failed}]
    BY <1>7, <2>1, GiveType DEF EndLoad, TypeInv
  <2>3. freshUntil' \in 0 .. MaxTime + TTL
    BY <1>7, ConstantTypes DEF EndLoad, TypeInv, TypeOK
  <2>4. staleUntil' \in 0 .. MaxTime + StaleRetry
    BY <1>7, ConstantTypes DEF EndLoad, Ago
  <2>5. snapshot' \in Version /\ snapshot' # None /\ trusted' \in BOOLEAN
    BY <1>7, <2>1, ConstantTypes DEF EndLoad, TypeInv, TypeOK
  <2> QED BY <1>7, <2>2, <2>3, <2>4, <2>5
          DEF EndLoad, TypeInv, TypeOK, history, Ago
<1>8. CASE Settle
  <2>1. staleUntil' \in 0 .. MaxTime + StaleRetry /\ failedAt' \in 0 .. MaxTime \cup {None}
    BY <1>8, ConstantTypes DEF Settle, TypeInv, TypeOK
  <2> QED BY <1>8, <2>1 DEF Settle, TypeInv, TypeOK, requests
<1>9. ASSUME NEW r \in Request, Resume(r) PROVE TypeInv'
  <2>1. handed' \subseteq Version
    <3>1. CASE got[r] # Failed /\ ~waits[r] /\ Hand(got[r])
      <4>1. got[r] \in Version
        BY <1>9, <3>1 DEF Resume, TypeInv, TypeOK
      <4> QED BY <3>1, <4>1, HandType DEF TypeInv
    <3>2. CASE got[r] = Failed /\ Fallback(r) /\ Hand(snapshot)
      <4>1. snapshot \in Version
        BY <3>2 DEF Fallback, TypeInv, TypeOK
      <4> QED BY <3>2, <4>1, HandType DEF TypeInv
    <3>3. CASE UNCHANGED handed
      BY <3>3 DEF TypeInv, TypeOK
    <3> QED BY <1>9, <3>1, <3>2, <3>3 DEF Resume
  <2>2. /\ waits' \in [Request -> {None} \cup BOOLEAN]
        /\ got' \in [Request -> Version \cup {None, Failed}]
    BY <1>9 DEF Resume, TypeInv, TypeOK
  <2>3. UNCHANGED <<expected, now, served, store, task, history>>
    BY <1>9 DEF Resume
  <2> QED BY <2>1, <2>2, <2>3 DEF TypeInv, TypeOK, store, task, history
<1>10. CASE Invalidate
  <2>1. /\ freshUntil' \in 0 .. MaxTime + TTL /\ staleUntil' \in 0 .. MaxTime + StaleRetry
        /\ noticed' \in Version
    BY <1>10, ConstantTypes DEF Invalidate, TypeInv, TypeOK, Ago
  <2> QED BY <1>10, <2>1 DEF Invalidate, TypeInv, TypeOK, requests
<1>11. CASE Reload
  BY <1>11, ConstantTypes DEF Reload, TypeInv, TypeOK, Version, store, task, requests, history
<1>12. CASE Tick
  BY <1>12, ConstantTypes DEF Tick, TypeInv, TypeOK, store, task, requests, history
<1>13. CASE UNCHANGED vars
  BY <1>13 DEF vars, TypeInv, TypeOK, store, task, requests, history
<1> QED BY <1>1, <1>2, <1>3, <1>4, <1>5, <1>6, <1>7, <1>8, <1>9, <1>10, <1>11, <1>12, <1>13
        DEF Next, LoadStep

\* Spec => []TypeOK: the snapshot store's variables keep their types, and it
\* trusts no snapshot before it has one (api/snapshot.py, _usable).
THEOREM SnapshotTypes == Spec => []TypeOK
<1>1. TypeInv => TypeOK
  BY DEF TypeInv
<1> QED BY <1>1, InitTypes, NextTypes, PTL DEF Spec

-----------------------------------------------------------------------------
(* The invariant of the times and versions. *)

LEMMA InitStore == Init => StoreInv
<1>1. Init => FreshInv /\ VersionInv /\ StaleInv
  BY ConstantTypes DEF Init, FreshInv, VersionInv, StaleInv, Version, Ago
<1> QED BY <1>1, InitTypes DEF StoreInv

\* A step that changes none of the times, versions and trust keeps them.
LEMMA QuietKeeps ==
    ASSUME StoreInv, [Next]_vars,
           UNCHANGED <<now, served, store, outcome, clean, noticed, failedAt>>,
           load' = load
    PROVE  StoreInv'
<1>1. TypeInv'
  BY NextTypes DEF StoreInv
<1> QED BY <1>1 DEF StoreInv, FreshInv, VersionInv, StaleInv, store

LEMMA NextStore ==
    ASSUME StoreInv, [Next]_vars
    PROVE  StoreInv'
<1> USE DEF StoreInv
<1>t. TypeInv /\ TypeInv'
  BY NextTypes
<1>n. /\ now \in Nat /\ served \in Nat /\ noticed \in Nat
      /\ freshUntil \in Nat /\ staleUntil \in Nat /\ loadedAt \in Nat
      /\ failedAt # None => failedAt \in Nat
      /\ snapshot # None => snapshot \in Nat
      /\ trusted => snapshot # None
      /\ load = "read" => outcome \in Nat
  BY <1>t, ConstantTypes DEF TypeInv, TypeOK, Version
<1>1. CASE AnswerFromMemory
  BY <1>1, QuietKeeps DEF AnswerFromMemory, history, task
<1>2. ASSUME NEW r \in Request, NEW strict \in BOOLEAN, StartRead(r, strict)
      PROVE StoreInv'
  BY <1>2, <1>t DEF StartRead, FreshInv, VersionInv, StaleInv, store, history
<1>3. ASSUME NEW r \in Request, NEW strict \in BOOLEAN, JoinRead(r, strict)
      PROVE StoreInv'
  BY <1>3, QuietKeeps DEF JoinRead, history, task
<1>4. CASE NoteGeneration
  BY <1>4, <1>t DEF NoteGeneration, FreshInv, VersionInv, StaleInv, store, history
<1>5. CASE ReadDatabase
  BY <1>5, <1>t, <1>n DEF ReadDatabase, FreshInv, VersionInv, StaleInv, store, history
<1>6. CASE ReadFails
  BY <1>6, <1>t DEF ReadFails, FreshInv, VersionInv, StaleInv, store, history
<1>7. CASE EndLoad
  <2>1. FreshInv'
    BY <1>7, <1>n DEF EndLoad, FreshInv
  <2>2. VersionInv'
    BY <1>7, <1>n DEF EndLoad, VersionInv, history
  <2>3. StaleInv'
    BY <1>7, <1>n, ConstantTypes DEF EndLoad, StaleInv, history, Ago
  <2> QED BY <1>t, <2>1, <2>2, <2>3
<1>8. CASE Settle
  <2>1. FreshInv' /\ VersionInv'
    BY <1>8, <1>t DEF Settle, FreshInv, VersionInv
  <2>2. StaleInv'
    BY <1>8, <1>n, ConstantTypes DEF Settle, StaleInv
  <2> QED BY <1>t, <2>1, <2>2
<1>9. ASSUME NEW r \in Request, Resume(r) PROVE StoreInv'
  BY <1>9, QuietKeeps DEF Resume, history, task
<1>10. CASE Invalidate
  BY <1>10, <1>t, <1>n DEF Invalidate, FreshInv, VersionInv, StaleInv, Ago
<1>11. CASE Reload
  BY <1>11, <1>t, <1>n DEF Reload, FreshInv, VersionInv, StaleInv, store, task, history
<1>12. CASE Tick
  BY <1>12, <1>t, <1>n DEF Tick, FreshInv, VersionInv, StaleInv, store, task, history
<1>13. CASE UNCHANGED vars
  BY <1>13, QuietKeeps DEF vars, history, task
<1> QED BY <1>1, <1>2, <1>3, <1>4, <1>5, <1>6, <1>7, <1>8, <1>9, <1>10, <1>11, <1>12, <1>13
        DEF Next, LoadStep

LEMMA StoreInvariant == Spec => []StoreInv
BY InitStore, NextStore, PTL DEF Spec

\* Spec => []ReportedIsKept: once an analysis has reported a version, no request
\* is answered from memory with an older one (api/snapshot.py, invalidate).
THEOREM ReportedIsKeptHolds == Spec => []ReportedIsKept
<1>1. StoreInv => ReportedIsKept
  <2> SUFFICES ASSUME StoreInv,
                      \/ \E strict \in BOOLEAN : Usable(strict)
                      \/ \E r \in Request : Fallback(r)
               PROVE  snapshot >= noticed
    BY DEF ReportedIsKept
  <2>1. now \in Nat
    BY ConstantTypes DEF StoreInv, TypeInv, TypeOK
  <2>2. trusted
    BY <2>1 DEF Usable, Fallback, StoreInv, FreshInv, Ago
  <2> QED BY <2>2 DEF StoreInv, VersionInv
<1> QED BY <1>1, StoreInvariant, PTL

\* Spec => []StrictIsRecent: readiness is answered from memory only as of a read
\* at most the TTL old (get, strict).
THEOREM StrictIsRecentHolds == Spec => []StrictIsRecent
<1>1. StoreInv => StrictIsRecent
  <2> SUFFICES ASSUME StoreInv, Usable(TRUE) PROVE trusted /\ now - loadedAt < TTL
    BY DEF StrictIsRecent
  <2>1. now \in Nat /\ loadedAt \in Nat /\ now < freshUntil
    BY ConstantTypes DEF StoreInv, TypeInv, TypeOK, Usable
  <2> QED BY <2>1, ConstantTypes DEF StoreInv, FreshInv, Ago
<1> QED BY <1>1, StoreInvariant, PTL

\* Spec => []AnswersAreRecent: another answer is as recent, or of the expected
\* version, or stale after a failure less than the retry time ago.
THEOREM AnswersAreRecentHolds == Spec => []AnswersAreRecent
<1>1. StoreInv => AnswersAreRecent
  <2> SUFFICES ASSUME StoreInv, Usable(FALSE)
               PROVE  \/ now - loadedAt < TTL
                      \/ snapshot = expected
                      \/ failedAt # None /\ now - failedAt < StaleRetry
    BY DEF AnswersAreRecent
  <2>1. /\ now \in Nat /\ loadedAt \in Nat
        /\ failedAt # None => failedAt \in Nat
    BY ConstantTypes DEF StoreInv, TypeInv, TypeOK
  <2>2. CASE now < freshUntil
    BY <2>1, <2>2, ConstantTypes DEF StoreInv, FreshInv, Ago
  <2>3. CASE Pinned
    BY <2>3 DEF Pinned
  <2>4. CASE now < staleUntil
    BY <2>1, <2>4, ConstantTypes DEF StoreInv, StaleInv, Ago
  <2> QED BY <2>2, <2>3, <2>4 DEF Usable
<1> QED BY <1>1, StoreInvariant, PTL

\* Spec => DatabaseLeftAlone: no ordinary request reads the database within the
\* retry time of a failure, nor while the expected version is pinned.
THEOREM DatabaseLeftAloneHolds == Spec => DatabaseLeftAlone
<1>1. ASSUME StoreInv, [Next]_vars, NEW r \in Request, load = "none", load' = "created",
             waits'[r] # waits[r], waits'[r] = FALSE, trusted
      PROVE  /\ snapshot # expected
             /\ failedAt # None => now - failedAt >= StaleRetry
  <2>1. PICK q \in Request, strict \in BOOLEAN : StartRead(q, strict)
    BY <1>1 DEF Next, LoadStep, AnswerFromMemory, JoinRead, NoteGeneration,
                ReadDatabase, ReadFails, EndLoad, Settle, Resume, Invalidate, Reload, Tick,
                vars, task
  <2>6. q = r /\ strict = FALSE
    BY <1>1, <2>1 DEF StartRead, StoreInv, TypeInv, TypeOK
  <2>2. snapshot # None /\ ~(now < freshUntil) /\ ~Pinned /\ ~(now < staleUntil)
    BY <1>1, <2>1, <2>6 DEF StartRead, Usable, StoreInv, TypeInv, TypeOK
  <2>3. snapshot # expected
    BY <1>1, <2>2 DEF Pinned
  <2>4. /\ now \in Nat /\ freshUntil \in Nat /\ staleUntil \in Nat
        /\ failedAt # None => failedAt \in Nat
    BY <1>1, ConstantTypes DEF StoreInv, TypeInv, TypeOK
  <2>5. failedAt # None => now - failedAt >= StaleRetry
    BY <1>1, <2>2, <2>4, ConstantTypes DEF StoreInv, StaleInv
  <2> QED BY <2>3, <2>5
<1>2. StoreInv /\ [Next]_vars
        => [\A r \in Request :
              load = "none" /\ load' = "created" /\ waits'[r] # waits[r] /\ waits'[r] = FALSE
              /\ trusted =>
                /\ snapshot # expected
                /\ failedAt # None => now - failedAt >= StaleRetry]_vars
  BY <1>1
<1> QED BY <1>2, StoreInvariant, PTL DEF Spec, DatabaseLeftAlone

-----------------------------------------------------------------------------
(* The transactions. *)

LEMMA TxConstantTypes ==
    /\ Analyst \subseteq Caller /\ Statements \in [Caller -> Nat \ {0}]
    /\ Nobody \notin Conn /\ Nobody # "deadline" /\ Nobody # "shutdown"
BY TxConstants

LEMMA BeginKeeps ==
    ASSUME TxInv, NEW x \in Caller, Begin(x)
    PROVE  TxInv'
<1>1. TxTypeOK /\ ConnInv /\ MarkInv /\ NoneSlipsPast
  BY DEF TxInv
<1>2. TxTypeOK'
  BY <1>1 DEF Begin, TxTypeOK, ConnInv, MarkInv, Reason, Using, Active, own, shared, ending
<1>3. ConnInv'
  BY <1>1, TxConstantTypes DEF Begin, TxTypeOK, ConnInv, Using, Active, own, shared, ending
<1>4. MarkInv'
  BY <1>1, TxConstantTypes DEF Begin, TxTypeOK, ConnInv, MarkInv, Using, Active, own, shared, ending, Reason
<1>5. NoneSlipsPast'
  BY <1>1, TxConstantTypes DEF Begin, NoneSlipsPast, TxTypeOK, ConnInv, MarkInv, Using, Active, own, shared, ending
<1> QED BY <1>2, <1>3, <1>4, <1>5 DEF TxInv

LEMMA AcquireKeeps ==
    ASSUME TxInv, NEW x \in Caller, Acquire(x)
    PROVE  TxInv'
<1>1. TxTypeOK /\ ConnInv /\ MarkInv /\ NoneSlipsPast
  BY DEF TxInv
<1>2. TxTypeOK'
  BY <1>1 DEF Acquire, TxTypeOK, ConnInv, MarkInv, Reason, Using, Active, own, shared, ending
<1>3. ConnInv'
  BY <1>1, TxConstantTypes DEF Acquire, TxTypeOK, ConnInv, Using, Active, own, shared, ending
<1>4. MarkInv'
  BY <1>1, TxConstantTypes DEF Acquire, TxTypeOK, ConnInv, MarkInv, Using, Active, own, shared, ending, Reason
<1>5. NoneSlipsPast'
  BY <1>1, TxConstantTypes DEF Acquire, NoneSlipsPast, TxTypeOK, ConnInv, MarkInv, Using, Active, own, shared, ending
<1> QED BY <1>2, <1>3, <1>4, <1>5 DEF TxInv

LEMMA AcquireFailsKeeps ==
    ASSUME TxInv, NEW x \in Caller, AcquireFails(x)
    PROVE  TxInv'
<1>1. TxTypeOK /\ ConnInv /\ MarkInv /\ NoneSlipsPast
  BY DEF TxInv
<1>2. TxTypeOK'
  BY <1>1 DEF AcquireFails, TxTypeOK, ConnInv, MarkInv, Reason, Using, Active, own, shared, ending
<1>3. ConnInv'
  BY <1>1, TxConstantTypes DEF AcquireFails, TxTypeOK, ConnInv, Using, Active, own, shared, ending
<1>4. MarkInv'
  BY <1>1, TxConstantTypes DEF AcquireFails, TxTypeOK, ConnInv, MarkInv, Using, Active, own, shared, ending, Reason
<1>5. NoneSlipsPast'
  BY <1>1, TxConstantTypes DEF AcquireFails, NoneSlipsPast, TxTypeOK, ConnInv, MarkInv, Using, Active, own, shared, ending
<1> QED BY <1>2, <1>3, <1>4, <1>5 DEF TxInv

LEMMA RegisterKeeps ==
    ASSUME TxInv, NEW x \in Caller, Register(x)
    PROVE  TxInv'
<1>1. TxTypeOK /\ ConnInv /\ MarkInv /\ NoneSlipsPast
  BY DEF TxInv
<1>2. TxTypeOK'
  BY <1>1 DEF Register, Open, TxTypeOK, ConnInv, MarkInv, Reason, Using, Active, own, shared, ending
<1>3. ConnInv'
  BY <1>1, TxConstantTypes DEF Register, Open, TxTypeOK, ConnInv, Using, Active, own, shared, ending
<1>4. MarkInv'
  BY <1>1, TxConstantTypes DEF Register, Open, TxTypeOK, ConnInv, MarkInv, Using, Active, own, shared, ending, Reason
<1>5. NoneSlipsPast'
  BY <1>1, TxConstantTypes DEF Register, Open, NoneSlipsPast, TxTypeOK, ConnInv, MarkInv, Using, Active, own, shared, ending
<1> QED BY <1>2, <1>3, <1>4, <1>5 DEF TxInv

LEMMA CheckKeeps ==
    ASSUME TxInv, NEW x \in Caller, Check(x)
    PROVE  TxInv'
<1>1. TxTypeOK /\ ConnInv /\ MarkInv /\ NoneSlipsPast
  BY DEF TxInv
<1>2. TxTypeOK'
  BY <1>1 DEF Check, TxTypeOK, ConnInv, MarkInv, Reason, Using, Active, own, shared, ending
<1>3. ConnInv'
  BY <1>1, TxConstantTypes DEF Check, TxTypeOK, ConnInv, Using, Active, own, shared, ending
<1>4. MarkInv'
  BY <1>1, TxConstantTypes DEF Check, TxTypeOK, ConnInv, MarkInv, Using, Active, own, shared, ending, Reason
<1>5. NoneSlipsPast'
  BY <1>1, TxConstantTypes DEF Check, NoneSlipsPast, TxTypeOK, ConnInv, MarkInv, Using, Active, own, shared, ending
<1> QED BY <1>2, <1>3, <1>4, <1>5 DEF TxInv

LEMMA SendKeeps ==
    ASSUME TxInv, NEW x \in Caller, Send(x)
    PROVE  TxInv'
<1>1. TxTypeOK /\ ConnInv /\ MarkInv /\ NoneSlipsPast
  BY DEF TxInv
<1>2. TxTypeOK'
  BY <1>1 DEF Send, TxTypeOK, ConnInv, MarkInv, Reason, Using, Active, own, shared, ending
<1>3. ConnInv'
  BY <1>1, TxConstantTypes DEF Send, TxTypeOK, ConnInv, Using, Active, own, shared, ending
<1>4. MarkInv'
  BY <1>1, TxConstantTypes DEF Send, TxTypeOK, ConnInv, MarkInv, Using, Active, own, shared, ending, Reason
<1>5. NoneSlipsPast'
  BY <1>1, TxConstantTypes DEF Send, NoneSlipsPast, TxTypeOK, ConnInv, MarkInv, Using, Active, own, shared, ending
<1> QED BY <1>2, <1>3, <1>4, <1>5 DEF TxInv

LEMMA StatementEndsKeeps ==
    ASSUME TxInv, NEW x \in Caller, StatementEnds(x)
    PROVE  TxInv'
<1>1. TxTypeOK /\ ConnInv /\ MarkInv /\ NoneSlipsPast
  BY DEF TxInv
<1>2. TxTypeOK'
  BY <1>1 DEF StatementEnds, TxTypeOK, ConnInv, MarkInv, Reason, Using, Active, own, shared, ending
<1>3. ConnInv'
  BY <1>1, TxConstantTypes DEF StatementEnds, TxTypeOK, ConnInv, Using, Active, own, shared, ending
<1>4. MarkInv'
  BY <1>1, TxConstantTypes DEF StatementEnds, TxTypeOK, ConnInv, MarkInv, Using, Active, own, shared, ending, Reason
<1>5. NoneSlipsPast'
  BY <1>1, TxConstantTypes DEF StatementEnds, NoneSlipsPast, TxTypeOK, ConnInv, MarkInv, Using, Active, own, shared, ending
<1> QED BY <1>2, <1>3, <1>4, <1>5 DEF TxInv

LEMMA FinishKeeps ==
    ASSUME TxInv, NEW x \in Caller, Finish(x)
    PROVE  TxInv'
<1>1. TxTypeOK /\ ConnInv /\ MarkInv /\ NoneSlipsPast
  BY DEF TxInv
<1>2. TxTypeOK'
  BY <1>1 DEF Finish, TxTypeOK, ConnInv, MarkInv, Reason, Using, Active, own, shared, ending
<1>3. ConnInv'
  BY <1>1, TxConstantTypes DEF Finish, TxTypeOK, ConnInv, Using, Active, own, shared, ending
<1>4. MarkInv'
  BY <1>1, TxConstantTypes DEF Finish, TxTypeOK, ConnInv, MarkInv, Using, Active, own, shared, ending, Reason
<1>5. NoneSlipsPast'
  BY <1>1, TxConstantTypes DEF Finish, NoneSlipsPast, TxTypeOK, ConnInv, MarkInv, Using, Active, own, shared, ending
<1> QED BY <1>2, <1>3, <1>4, <1>5 DEF TxInv

LEMMA StopDeadlineKeeps ==
    ASSUME TxInv, NEW x \in Caller, StopDeadline(x)
    PROVE  TxInv'
<1>1. TxTypeOK /\ ConnInv /\ MarkInv /\ NoneSlipsPast
  BY DEF TxInv
<1>2. TxTypeOK'
  BY <1>1 DEF StopDeadline, TxTypeOK, ConnInv, MarkInv, Reason, Using, Active, own, shared, ending
<1>3. ConnInv'
  BY <1>1, TxConstantTypes DEF StopDeadline, TxTypeOK, ConnInv, Using, Active, own, shared, ending
<1>4. MarkInv'
  BY <1>1, TxConstantTypes DEF StopDeadline, TxTypeOK, ConnInv, MarkInv, Using, Active, own, shared, ending, Reason
<1>5. NoneSlipsPast'
  BY <1>1, TxConstantTypes DEF StopDeadline, NoneSlipsPast, TxTypeOK, ConnInv, MarkInv, Using, Active, own, shared, ending
<1> QED BY <1>2, <1>3, <1>4, <1>5 DEF TxInv

LEMMA ReleaseKeeps ==
    ASSUME TxInv, NEW x \in Caller, Release(x)
    PROVE  TxInv'
<1>1. TxTypeOK /\ ConnInv /\ MarkInv /\ NoneSlipsPast
  BY DEF TxInv
<1>2. TxTypeOK'
  BY <1>1 DEF Release, Leave, TxTypeOK, ConnInv, MarkInv, Reason, Using, Active, own, shared, ending
<1>3. ConnInv'
  BY <1>1, TxConstantTypes DEF Release, Leave, TxTypeOK, ConnInv, Using, Active, own, shared, ending
<1>4. MarkInv'
  BY <1>1, TxConstantTypes DEF Release, Leave, TxTypeOK, ConnInv, MarkInv, Using, Active, own, shared, ending, Reason
<1>5. NoneSlipsPast'
  BY <1>1, TxConstantTypes DEF Release, Leave, NoneSlipsPast, TxTypeOK, ConnInv, MarkInv, Using, Active, own, shared, ending
<1> QED BY <1>2, <1>3, <1>4, <1>5 DEF TxInv

LEMMA DeadlinePassesKeeps ==
    ASSUME TxInv, NEW x \in Caller, DeadlinePasses(x)
    PROVE  TxInv'
<1>1. TxTypeOK /\ ConnInv /\ MarkInv /\ NoneSlipsPast
  BY DEF TxInv
<1>2. TxTypeOK'
  BY <1>1 DEF DeadlinePasses, TxTypeOK, ConnInv, MarkInv, Reason, Using, Active, own, shared, ending
<1>3. ConnInv'
  BY <1>1, TxConstantTypes DEF DeadlinePasses, TxTypeOK, ConnInv, Using, Active, own, shared, ending
<1>4. MarkInv'
  BY <1>1, TxConstantTypes DEF DeadlinePasses, TxTypeOK, ConnInv, MarkInv, Using, Active, own, shared, ending, Reason
<1>5. NoneSlipsPast'
  BY <1>1, TxConstantTypes DEF DeadlinePasses, NoneSlipsPast, TxTypeOK, ConnInv, MarkInv, Using, Active, own, shared, ending
<1> QED BY <1>2, <1>3, <1>4, <1>5 DEF TxInv

LEMMA FireKeeps ==
    ASSUME TxInv, NEW x \in Caller, NEW delivered \in BOOLEAN, Fire(x, delivered)
    PROVE  TxInv'
<1>1. TxTypeOK /\ ConnInv /\ MarkInv /\ NoneSlipsPast
  BY DEF TxInv
<1>2. TxTypeOK'
  BY <1>1 DEF Fire, Cancel, Lost, TxTypeOK, ConnInv, MarkInv, Reason, Using, Active, own, shared, ending
<1>3. ConnInv'
  BY <1>1, TxConstantTypes DEF Fire, Cancel, Lost, TxTypeOK, ConnInv, Using, Active, own, shared, ending
<1>4. MarkInv'
  BY <1>1, TxConstantTypes DEF Fire, Cancel, Lost, TxTypeOK, ConnInv, MarkInv, Using, Active, own, shared, ending, Reason
<1>5. NoneSlipsPast'
  BY <1>1, TxConstantTypes DEF Fire, Cancel, Lost, NoneSlipsPast, TxTypeOK, ConnInv, MarkInv, Using, Active, own, shared, ending
<1> QED BY <1>2, <1>3, <1>4, <1>5 DEF TxInv

LEMMA CloseDoorKeeps ==
    ASSUME TxInv, CloseDoor
    PROVE  TxInv'
<1>1. TxTypeOK /\ ConnInv /\ MarkInv /\ NoneSlipsPast
  BY DEF TxInv
<1>2. TxTypeOK'
  BY <1>1 DEF CloseDoor, TxTypeOK, ConnInv, MarkInv, Reason, Using, Active, own, shared, ending
<1>3. ConnInv'
  BY <1>1, TxConstantTypes DEF CloseDoor, TxTypeOK, ConnInv, Using, Active, own, shared, ending
<1>4. MarkInv'
  BY <1>1, TxConstantTypes DEF CloseDoor, TxTypeOK, ConnInv, MarkInv, Using, Active, own, shared, ending, Reason
<1>5. NoneSlipsPast'
  BY <1>1, TxConstantTypes DEF CloseDoor, NoneSlipsPast, TxTypeOK, ConnInv, MarkInv, Using, Active, own, shared, ending
<1> QED BY <1>2, <1>3, <1>4, <1>5 DEF TxInv

LEMMA MarkActiveKeeps ==
    ASSUME TxInv, MarkActive
    PROVE  TxInv'
<1>1. TxTypeOK /\ ConnInv /\ MarkInv /\ NoneSlipsPast
  BY DEF TxInv
<1>2. TxTypeOK'
  BY <1>1 DEF MarkActive, After, TxTypeOK, ConnInv, MarkInv, Reason, Using, Active, own, shared, ending
<1>3. ConnInv'
  BY <1>1, TxConstantTypes DEF MarkActive, After, TxTypeOK, ConnInv, Using, Active, own, shared, ending
<1>4. MarkInv'
  BY <1>1, TxConstantTypes DEF MarkActive, After, TxTypeOK, ConnInv, MarkInv, Using, Active, own, shared, ending, Reason
<1>5. NoneSlipsPast'
  BY <1>1, TxConstantTypes DEF MarkActive, After, NoneSlipsPast, TxTypeOK, ConnInv, MarkInv, Using, Active, own, shared, ending
<1> QED BY <1>2, <1>3, <1>4, <1>5 DEF TxInv

LEMMA CancelOneKeeps ==
    ASSUME TxInv, NEW c \in Conn, NEW delivered \in BOOLEAN, CancelOne(c, delivered)
    PROVE  TxInv'
<1>1. TxTypeOK /\ ConnInv /\ MarkInv /\ NoneSlipsPast
  BY DEF TxInv
<1>2. TxTypeOK'
  BY <1>1 DEF CancelOne, Cancel, Lost, After, TxTypeOK, ConnInv, MarkInv, Reason, Using, Active, own, shared, ending
<1>3. ConnInv'
  BY <1>1, TxConstantTypes DEF CancelOne, Cancel, Lost, After, TxTypeOK, ConnInv, Using, Active, own, shared, ending
<1>4. MarkInv'
  BY <1>1, TxConstantTypes DEF CancelOne, Cancel, Lost, After, TxTypeOK, ConnInv, MarkInv, Using, Active, own, shared, ending, Reason
<1>5. NoneSlipsPast'
  BY <1>1, TxConstantTypes DEF CancelOne, Cancel, Lost, After, NoneSlipsPast, TxTypeOK, ConnInv, MarkInv, Using, Active, own, shared, ending
<1> QED BY <1>2, <1>3, <1>4, <1>5 DEF TxInv

-----------------------------------------------------------------------------
(* Theorems. *)

LEMMA TxInitInv == TxInit => TxInv
<1> SUFFICES ASSUME TxInit PROVE TxInv
  OBVIOUS
<1>1. TxTypeOK
  BY DEF TxInit, TxTypeOK
<1>2. ConnInv
  BY DEF TxInit, ConnInv, Using, Active
<1>3. MarkInv
  BY TxConstantTypes DEF TxInit, MarkInv, Active
<1>4. NoneSlipsPast
  BY DEF TxInit, NoneSlipsPast
<1> QED BY <1>1, <1>2, <1>3, <1>4 DEF TxInv

LEMMA TxNextInv == TxInv /\ [TxNext]_txVars => TxInv'
<1> SUFFICES ASSUME TxInv, [TxNext]_txVars PROVE TxInv'
  OBVIOUS
<1>1. CASE TxNext
  <2>1. ASSUME NEW x \in Caller,
               \/ Begin(x) \/ Step(x) \/ StatementEnds(x) \/ DeadlinePasses(x)
               \/ \E delivered \in BOOLEAN : Fire(x, delivered)
        PROVE  TxInv'
    BY <2>1, BeginKeeps, AcquireKeeps, AcquireFailsKeeps, RegisterKeeps, CheckKeeps, SendKeeps,
       StatementEndsKeeps, FinishKeeps, StopDeadlineKeeps, ReleaseKeeps, DeadlinePassesKeeps,
       FireKeeps DEF Step
  <2>2. CASE TxShutdown
    BY <2>2, CloseDoorKeeps, MarkActiveKeeps, CancelOneKeeps DEF TxShutdown
  <2> QED BY <1>1, <2>1, <2>2 DEF TxNext
<1>2. CASE UNCHANGED txVars
  BY <1>2 DEF txVars, own, shared, ending, TxInv, TxTypeOK, ConnInv, MarkInv, NoneSlipsPast,
              Using, Active
<1> QED BY <1>1, <1>2

\* TxSpec => []TxInv: the inductive invariant holds.
THEOREM TxInvariant == TxSpec => []TxInv
BY TxInitInv, TxNextInv, PTL DEF TxSpec

\* TxSpec => []TxTypeOK: the transactions keep their types.
THEOREM TxTypes == TxSpec => []TxTypeOK
<1>1. TxInv => TxTypeOK
  BY DEF TxInv
<1> QED BY <1>1, TxInvariant, PTL

\* TxSpec => []CancelStaysHome: a transaction is cancelled or refused a statement only
\* by its own deadline, after it passed, or by the shutdown (database.py, _Deadline,
\* cancel_active, Database._transaction).
THEOREM CancelStaysHomeOfTransactions == TxSpec => []CancelStaysHome
<1>1. ASSUME TxInv
      PROVE  CancelStaysHome
  <2>1. ASSUME NEW c \in pool
        PROVE  refused[c] = Nobody
    <3>1. c \notin active /\ c \in Conn
      BY <1>1, <2>1 DEF TxInv, TxTypeOK, ConnInv, Using, Active
    <3> QED BY <1>1, <3>1 DEF TxInv, MarkInv
  <2> QED BY <1>1, <2>1 DEF TxInv, MarkInv, CancelStaysHome
<1> QED BY <1>1, TxInvariant, PTL

\* TxSpec => []NoneSlipsPast: once the shutdown has marked what runs, every active
\* connection is marked (database.py, begin_shutdown and cancel_active).
THEOREM NoneSlipsPastOfTransactions == TxSpec => []NoneSlipsPast
<1>1. TxInv => NoneSlipsPast
  BY DEF TxInv
<1> QED BY <1>1, TxInvariant, PTL

-----------------------------------------------------------------------------
(* The composition. *)

LEMMA ReaderIsCaller == Reader \in Caller
BY ReaderAssumption

\* Every step of the composition is a step of the snapshot store or none, and so it is
\* of the transactions.
LEMMA StepIsOfBoth ==
    ASSUME ApiNext
    PROVE  [Next]_vars /\ [TxNext]_txVars
<1>1. CASE TaskStep \/ LoopStep \/ Switch
  BY <1>1 DEF TaskStep, LoopStep, Switch, Next, LoadStep
<1>2. CASE \E r \in Request : GoOn(r)
  BY <1>2 DEF GoOn, Next
<1>3. CASE ReadBegins
  BY <1>3, ReaderIsCaller DEF ReadBegins, Next, LoadStep, TxNext
<1>4. CASE ReadCompletes
  BY <1>4, ReaderIsCaller DEF ReadCompletes, Next, LoadStep, TxNext, Step
<1>5. CASE ReadEnds
  BY <1>5, ReaderIsCaller DEF ReadEnds, Next, LoadStep, TxNext, Step
<1>6. CASE ReadGoesOn
  BY <1>6, ReaderIsCaller DEF ReadGoesOn, TxNext, Step
<1>7. CASE OtherStep
  BY <1>7, TxConstantTypes DEF OtherStep, Next, TxNext, Step
<1>8. CASE CancelStep
  BY <1>8 DEF CancelStep, TxNext
<1> QED BY <1>1, <1>2, <1>3, <1>4, <1>5, <1>6, <1>7, <1>8 DEF ApiNext, ReadStep

\* ApiSpec => Spec: whatever happens to its transaction, the shared read is one that
\* SnapshotStore describes (snapshot.py over database.py, read_snapshot).
THEOREM ImplementsSnapshotStore == ApiSpec => Spec
<1>1. ApiInit => Init
  BY DEF ApiInit
<1>2. [ApiNext]_apiVars => [Next]_vars
  BY StepIsOfBoth DEF apiVars, vars
<1> QED BY <1>1, <1>2, PTL DEF ApiSpec, Spec

\* ApiSpec => TxSpec: the shared read and the analyses use the pool as Transactions has it.
THEOREM ImplementsTransactions == ApiSpec => TxSpec
<1>1. ApiInit => TxInit
  BY DEF ApiInit
<1>2. [ApiNext]_apiVars => [TxNext]_txVars
  BY StepIsOfBoth DEF apiVars, txVars
<1> QED BY <1>1, <1>2, PTL DEF ApiSpec, TxSpec

\* ApiSpec => []ApiTypeOK: snapshot and transactions keep their types together.
THEOREM ApiTypes == ApiSpec => []ApiTypeOK
<1>1. TypeOK /\ TxTypeOK => ApiTypeOK
  BY DEF ApiTypeOK
<1> QED BY <1>1, ImplementsSnapshotStore, ImplementsTransactions, SnapshotTypes, TxTypes, PTL

\* ApiSpec => []ReportedIsKept: a version an analysis reported is not unlearned, however
\* the reads fare (snapshot.py, invalidate).
THEOREM ApiReportedIsKept == ApiSpec => []ReportedIsKept
BY ImplementsSnapshotStore, ReportedIsKeptHolds, PTL

\* ApiSpec => []AnswersAreRecent: nor is an answer from memory older than promised
\* (snapshot.py, get).
THEOREM ApiAnswersAreRecent == ApiSpec => []AnswersAreRecent
BY ImplementsSnapshotStore, AnswersAreRecentHolds, PTL

\* ApiSpec => []CancelStaysHome: a cancel reaches its own transaction only
\* (database.py, _Deadline and cancel_active).
THEOREM CancelStaysHomeHolds == ApiSpec => []CancelStaysHome
BY ImplementsTransactions, CancelStaysHomeOfTransactions, PTL

\* ApiSpec => []NoneSlipsPast: nothing slips past the shutdown, the shared read
\* included (database.py, begin_shutdown).
THEOREM NoneSlipsPastHolds == ApiSpec => []NoneSlipsPast
BY ImplementsTransactions, NoneSlipsPastOfTransactions, PTL
==============================================================================

-------------------------------- MODULE ApiData --------------------------------
(***************************************************************************)
(* The API's data snapshot over its database transactions: the shared read *)
(* of SnapshotStore is a metadata transaction of one of the Callers, so it *)
(* waits for a connection that an analysis may hold, is refused or         *)
(* cancelled by the shutdown, and keeps a reload waiting while it holds    *)
(* SNAPSHOT_LOCK (api/snapshot.py _load, api/database.py read_snapshot).   *)
(***************************************************************************)
EXTENDS SnapshotStore, Transactions

CONSTANT Reader   \* the thread of the shared read

ASSUME ReaderAssumption == Reader \in Caller \ Analyst

apiVars == <<vars, txVars>>

ApiTypeOK == TypeOK /\ TxTypeOK

\* The lock is the transaction's first statement, and falls with its commit or rollback.
HoldsSnapshotLock ==
    \/ txStage[Reader] \in {"checking", "sending", "ended"} /\ sent[Reader] > 0
    \/ txStage[Reader] = "running" /\ sent[Reader] > 1

\* The task of the shared read; the read's thread ends before _load goes on.
TaskStep ==
    /\ NoteGeneration \/ (txStage[Reader] = "idle" /\ EndLoad) \/ Settle
    /\ UNCHANGED txVars

GoOn(r) == Resume(r) /\ UNCHANGED txVars

LoopStep ==
    /\ \/ AnswerFromMemory \/ Tick
       \/ \E r \in Request, strict \in BOOLEAN : StartRead(r, strict) \/ JoinRead(r, strict)
    /\ UNCHANGED txVars

\* The database is switched to a newer version.
Switch == Reload /\ ~HoldsSnapshotLock /\ UNCHANGED txVars

\* read_snapshot begins, or the shutdown has closed the door.
ReadBegins ==
    /\ load = "reading"
    /\ \/ Begin(Reader) /\ UNCHANGED vars
       \/ closing /\ txStage[Reader] = "idle" /\ ReadFails /\ UNCHANGED txVars

\* It has made all its statements: they saw the version it locked.
ReadCompletes == sent[Reader] = Statements[Reader] /\ Finish(Reader) /\ ReadDatabase

\* It ends without a connection, or with an error.
ReadEnds ==
    \/ AcquireFails(Reader) /\ ReadFails
    \/ closing /\ Register(Reader) /\ ReadFails
    \/ Release(Reader) /\ IF load = "reading" THEN ReadFails ELSE UNCHANGED vars

ReadGoesOn ==
    /\ \/ Acquire(Reader) \/ (~closing /\ Register(Reader)) \/ Check(Reader) \/ Send(Reader)
       \/ StatementEnds(Reader) \/ StopDeadline(Reader)
       \/ (sent[Reader] < Statements[Reader] /\ Finish(Reader))
    /\ UNCHANGED vars

ReadStep == ReadBegins \/ ReadCompletes \/ ReadEnds \/ ReadGoesOn

\* An analysis has been given a snapshot, and may report another version at its end.
OtherStep ==
    \/ /\ \E x \in Caller \ {Reader} :
             (handed # {} /\ Begin(x)) \/ Step(x) \/ StatementEnds(x)
       /\ UNCHANGED vars
    \/ \E x \in Analyst : Finish(x) /\ Invalidate

CancelStep ==
    /\ \/ \E x \in Caller : DeadlinePasses(x) \/ \E delivered \in BOOLEAN : Fire(x, delivered)
       \/ TxShutdown
    /\ UNCHANGED vars

ApiInit == Init /\ TxInit
ApiNext ==
    \/ TaskStep \/ (\E r \in Request : GoOn(r)) \/ LoopStep \/ Switch
    \/ ReadStep \/ OtherStep \/ CancelStep
ApiSpec == ApiInit /\ [][ApiNext]_apiVars

\* The event loop runs what is ready, threads run, timers fire, a cancel repeated for
\* ever is delivered, a lock is not missed for ever.  The read's statements end
\* (statement_timeout); of an analysis' statements nothing is assumed.
ApiFairSpec ==
    /\ ApiSpec
    /\ WF_apiVars(TaskStep) /\ \A r \in Request : WF_apiVars(GoOn(r))
    /\ WF_apiVars(ReadStep)
    /\ \A x \in Caller \ {Reader} :
          /\ WF_apiVars(Step(x) /\ UNCHANGED vars)
          /\ SF_apiVars(StopDeadline(x) /\ UNCHANGED vars)
    /\ \A x \in Analyst :
          /\ WF_apiVars(DeadlinePasses(x) /\ UNCHANGED vars)
          /\ SF_apiVars(Fire(x, TRUE) /\ UNCHANGED vars)
================================================================================

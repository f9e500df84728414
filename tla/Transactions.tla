----------------------------- MODULE Transactions -----------------------------
(***************************************************************************)
(* The API's database transactions (api/database.py): a connection from    *)
(* the pool, statements that are checked and then sent, the deadline       *)
(* thread of an analysis, and the shutdown of app.py's lifespan, which     *)
(* marks and cancels what runs.                                            *)
(*                                                                         *)
(* A statement is in the API (about to be checked, or past its check) or   *)
(* at the server; PostgreSQL drops a cancel that finds none at the server. *)
(* Names carry the prefix Tx where another module of the API has them too. *)
(***************************************************************************)
EXTENDS Naturals, FiniteSets

CONSTANTS
    Caller,         \* requests' threads
    Analyst,        \* those that run analyses: their transactions have a deadline
    Conn,           \* the pool's connections
    Statements,     \* bound: statements of each caller's transaction
    Nobody

ASSUME TxConstants ==
    /\ Analyst \subseteq Caller /\ Statements \in [Caller -> Nat \ {0}]
    /\ Nobody \notin Conn \cup {"deadline", "shutdown"}

VARIABLES
    txStage,   \* where each caller's transaction is
    conn,      \* its connection
    sent,      \* statements it has sent
    canceled,  \* why it was cancelled or refused a statement
    deadline,  \* its _Deadline
    pool,      \* idle connections
    active,    \* _active
    refused,   \* each connection's refused_because
    closing,   \* _closing
    shutdown,  \* where the lifespan's end is
    toCancel   \* cancel_active's list

txVars == <<txStage, conn, sent, canceled, deadline, pool, active, refused, closing,
            shutdown, toCancel>>
own == <<sent, canceled, deadline>>
ending == <<closing, shutdown, toCancel>>
shared == <<pool, active, refused, ending>>

Reason == {"deadline", "shutdown"}

TxTypeOK ==
    /\ txStage \in [Caller -> {"idle", "asking", "got", "checking", "sending", "running",
                               "ended", "stopped"}]
    /\ conn \in [Caller -> Conn \cup {Nobody}] /\ sent \in [Caller -> Nat]
    /\ canceled \in [Caller -> Reason \cup {Nobody}]
    /\ deadline \in [Caller -> {"off", "armed", "firing", "fired"}]
    /\ pool \subseteq Conn /\ active \subseteq Conn
    /\ refused \in [Conn -> Reason \cup {Nobody}] /\ closing \in BOOLEAN
    /\ shutdown \in {"up", "closing", "cancelling", "draining", "again", "closed"}
    /\ toCancel \subseteq Conn

-----------------------------------------------------------------------------
(* Database._transaction *)

\* It looks at _closing, then asks the pool.
Begin(x) ==
    /\ txStage[x] = "idle" /\ ~closing
    /\ txStage' = [txStage EXCEPT ![x] = "asking"]
    /\ UNCHANGED <<conn, own, shared>>

\* acquire
Acquire(x) ==
    /\ txStage[x] = "asking"
    /\ \E c \in pool :
          /\ conn' = [conn EXCEPT ![x] = c]
          /\ pool' = pool \ {c}
    /\ txStage' = [txStage EXCEPT ![x] = "got"]
    /\ UNCHANGED <<own, active, refused, ending>>

\* The pool stays empty, its database does not answer, or the pool was closed.
AcquireFails(x) ==
    /\ txStage[x] = "asking"
    /\ txStage' = [txStage EXCEPT ![x] = "idle"]
    /\ UNCHANGED <<conn, own, shared>>

\* The transaction is active and, if it is an analysis', timed.
Open(x) ==
    /\ active' = active \cup {conn[x]}
    /\ txStage' = [txStage EXCEPT ![x] = "checking"]
    /\ deadline' = [deadline EXCEPT ![x] = IF x \in Analyst THEN "armed" ELSE "off"]
    /\ UNCHANGED <<conn, pool>>

\* Fault: _closing is not looked at again.
RegisterAnyway(x) ==
    /\ txStage[x] = "got"
    /\ Open(x)
    /\ UNCHANGED <<sent, canceled, refused, ending>>

\* Under _active_lock; a refused transaction gives its connection back.
Register(x) ==
    /\ txStage[x] = "got"
    /\ IF closing
       THEN /\ pool' = pool \cup {conn[x]}
            /\ txStage' = [txStage EXCEPT ![x] = "idle"]
            /\ UNCHANGED <<conn, active, deadline>>
       ELSE Open(x)
    /\ UNCHANGED <<sent, canceled, refused, ending>>

\* CountingCursor: a marked connection sends nothing.
Check(x) ==
    /\ txStage[x] = "checking" /\ sent[x] < Statements[x]
    /\ canceled' = [canceled EXCEPT ![x] = refused[conn[x]]]
    /\ txStage' = [txStage EXCEPT ![x] = IF refused[conn[x]] = Nobody THEN "sending" ELSE "ended"]
    /\ UNCHANGED <<conn, sent, deadline, shared>>

Send(x) ==
    /\ txStage[x] = "sending"
    /\ txStage' = [txStage EXCEPT ![x] = "running"]
    /\ sent' = [sent EXCEPT ![x] = @ + 1]
    /\ UNCHANGED <<conn, canceled, deadline, shared>>

\* The statement ends, or fails (statement_timeout, or the connection broke).
StatementEnds(x) ==
    /\ txStage[x] = "running"
    /\ \E stage \in {"checking", "ended"} : txStage' = [txStage EXCEPT ![x] = stage]
    /\ UNCHANGED <<conn, own, shared>>

\* The caller is done, or failed between two statements.
Finish(x) ==
    /\ txStage[x] = "checking"
    /\ txStage' = [txStage EXCEPT ![x] = "ended"]
    /\ UNCHANGED <<conn, own, shared>>

\* Fault: the deadline is left to run.
LeaveDeadline(x) ==
    /\ txStage[x] = "ended" /\ deadline[x] # "firing"
    /\ txStage' = [txStage EXCEPT ![x] = "stopped"]
    /\ UNCHANGED <<conn, own, shared>>

\* The commit or rollback is done; _Deadline.stop waits for a fire that has its lock.
StopDeadline(x) ==
    /\ txStage[x] = "ended" /\ deadline[x] # "firing"
    /\ txStage' = [txStage EXCEPT ![x] = "stopped"]
    /\ deadline' = [deadline EXCEPT ![x] = "off"]
    /\ UNCHANGED <<conn, sent, canceled, shared>>

\* Back to the pool, for good.
Leave(x) ==
    /\ txStage[x] = "stopped"
    /\ active' = active \ {conn[x]} /\ pool' = pool \cup {conn[x]}
    /\ txStage' = [txStage EXCEPT ![x] = "idle"]
    /\ sent' = [sent EXCEPT ![x] = 0]
    /\ canceled' = [canceled EXCEPT ![x] = Nobody]
    /\ UNCHANGED <<conn, deadline, ending>>

\* Fault: the mark stays on the connection.
ReleaseMarked(x) == Leave(x) /\ UNCHANGED refused

\* Under _active_lock the cancel's mark is cleared, for it belonged to this
\* transaction; then putconn.
Release(x) == Leave(x) /\ refused' = [refused EXCEPT ![conn[x]] = Nobody]

-----------------------------------------------------------------------------
(* Cancels *)

\* A cancel for c ends the statement at the server, if it is there.
Cancel(c, why) ==
    LET hit == {x \in Caller : txStage[x] = "running" /\ conn[x] = c}
    IN  /\ txStage' = [x \in Caller |-> IF x \in hit THEN "ended" ELSE txStage[x]]
        /\ canceled' = [x \in Caller |-> IF x \in hit THEN why ELSE canceled[x]]

Lost == UNCHANGED <<txStage, canceled>>

\* _Deadline._fire takes its lock, finds the transaction not done, and marks it.
DeadlinePasses(x) ==
    /\ deadline[x] \in {"armed", "fired"}
    /\ deadline' = [deadline EXCEPT ![x] = "firing"]
    /\ refused' = [refused EXCEPT ![conn[x]] = "deadline"]
    /\ UNCHANGED <<txStage, conn, sent, canceled, pool, active, ending>>

\* Fault: it fires once.
FireOnce(x, delivered) ==
    /\ deadline[x] = "firing"
    /\ IF delivered THEN Cancel(conn[x], "deadline") ELSE Lost
    /\ deadline' = [deadline EXCEPT ![x] = "off"]
    /\ UNCHANGED <<conn, sent, shared>>

\* The rest of _fire: the cancel reaches the server or not, and is scheduled again.
Fire(x, delivered) ==
    /\ deadline[x] = "firing"
    /\ IF delivered THEN Cancel(conn[x], "deadline") ELSE Lost
    /\ deadline' = [deadline EXCEPT ![x] = "fired"]
    /\ UNCHANGED <<conn, sent, shared>>

-----------------------------------------------------------------------------
(* The end of the lifespan *)

\* begin_shutdown
CloseDoor ==
    /\ shutdown = "up"
    /\ shutdown' = "closing" /\ closing' = TRUE
    /\ UNCHANGED <<txStage, conn, own, pool, active, refused, toCancel>>

\* cancel_active ends with its list; the runner's shutdown, the pool's close follow.
After(step, list) ==
    IF list # {} THEN step ELSE IF step = "cancelling" THEN "draining" ELSE "closed"

\* cancel_active under _active_lock: at once, and again when the runner has ended.
MarkActive ==
    /\ shutdown \in {"closing", "draining"}
    /\ shutdown' = After(IF shutdown = "closing" THEN "cancelling" ELSE "again", active)
    /\ toCancel' = active
    /\ refused' = [c \in Conn |-> IF c \in active THEN "shutdown" ELSE refused[c]]
    /\ UNCHANGED <<txStage, conn, own, pool, active, closing>>

\* Its cancels, without the lock.
CancelOne(c, delivered) ==
    /\ c \in toCancel
    /\ toCancel' = toCancel \ {c}
    /\ shutdown' = After(shutdown, toCancel')
    /\ IF delivered THEN Cancel(c, "shutdown") ELSE Lost
    /\ UNCHANGED <<conn, sent, deadline, pool, active, refused, closing>>

-----------------------------------------------------------------------------

TxInit ==
    /\ txStage = [x \in Caller |-> "idle"] /\ conn = [x \in Caller |-> Nobody]
    /\ sent = [x \in Caller |-> 0] /\ canceled = [x \in Caller |-> Nobody]
    /\ deadline = [x \in Caller |-> "off"]
    /\ pool = Conn /\ active = {} /\ refused = [c \in Conn |-> Nobody]
    /\ closing = FALSE /\ shutdown = "up" /\ toCancel = {}

\* A thread's steps but for the wait for its statement.
Step(x) ==
    \/ Acquire(x) \/ AcquireFails(x) \/ Register(x) \/ Check(x) \/ Send(x) \/ Finish(x)
    \/ StopDeadline(x) \/ Release(x)

TxShutdown == CloseDoor \/ MarkActive
              \/ \E c \in Conn, delivered \in BOOLEAN : CancelOne(c, delivered)

TxNext ==
    \/ \E x \in Caller :
          \/ Begin(x) \/ Step(x) \/ StatementEnds(x) \/ DeadlinePasses(x)
          \/ \E delivered \in BOOLEAN : Fire(x, delivered)
    \/ TxShutdown

TxSpec == TxInit /\ [][TxNext]_txVars

\* Threads run, and timers; a cancel that is sent for ever is delivered at last.
\* A statement of an analysis may run for ever: nothing is assumed of it.
TxFairSpec ==
    /\ TxSpec
    /\ \A x \in Caller : WF_txVars(Step(x)) /\ WF_txVars(DeadlinePasses(x))
                         /\ WF_txVars(\E delivered \in BOOLEAN : Fire(x, delivered))
                         /\ SF_txVars(Fire(x, TRUE)) /\ SF_txVars(StopDeadline(x))
    /\ \A x \in Caller \ Analyst : WF_txVars(StatementEnds(x))

-----------------------------------------------------------------------------
(* Properties. *)

\* A cancel belongs to one transaction: a transaction is refused a statement or
\* cancelled only by its own deadline, after it passed, or by the shutdown, and the
\* connection goes clean to the pool's check and to its next transaction.
CancelStaysHome ==
    /\ \A x \in Caller :
          /\ canceled[x] = "deadline" => x \in Analyst /\ deadline[x] # "armed"
          /\ canceled[x] = "shutdown" => closing
    /\ \A c \in pool : refused[c] = Nobody

\* No transaction slips past the shutdown: once it has marked what runs, every
\* active connection is marked, and only a statement past its check is still sent.
NoneSlipsPast == shutdown \notin {"up", "closing"} => \A c \in active : refused[c] # Nobody

\* An analysis' transaction ends although its statements may run for ever and the
\* server drops the cancels that find none: the cancel is repeated.
DeadlineEnds == \A x \in Analyst : txStage[x] = "checking" ~> txStage[x] = "idle"

\* The inductive invariants behind the cancels.  A connection has one user, and is
\* active from its registration to its release;
Using(x) == txStage[x] \notin {"idle", "asking"}
Active(x) == txStage[x] \notin {"idle", "asking", "got"}

ConnInv ==
    /\ \A x \in Caller : Using(x) => conn[x] \in Conn \ pool
    /\ \A x, y \in Caller : Using(x) /\ Using(y) /\ conn[x] = conn[y] => x = y
    /\ \A x \in Caller : Active(x) => conn[x] \in active
    /\ \A c \in active : \E x \in Caller : Active(x) /\ conn[x] = c

\* its mark, and what its transaction is told, are the transaction's own or the
\* shutdown's, which comes once nothing more is registered.
MarkInv ==
    /\ \A x \in Caller :
         /\ deadline[x] # "off" =>
               x \in Analyst /\ txStage[x] \in {"checking", "sending", "running", "ended"}
         /\ canceled[x] # Nobody => txStage[x] \in {"ended", "stopped"}
         /\ Active(x) /\ refused[conn[x]] = "deadline" => x \in Analyst /\ deadline[x] # "armed"
         /\ canceled[x] = "deadline" => x \in Analyst /\ deadline[x] # "armed"
         /\ canceled[x] = "shutdown" => closing
    /\ \A c \in Conn : refused[c] # Nobody => c \in active
    /\ \A c \in Conn : refused[c] = "shutdown" => closing
    /\ toCancel # {} => shutdown \in {"cancelling", "again"}
    /\ shutdown # "up" => closing

TxInv == TxTypeOK /\ ConnInv /\ MarkInv /\ NoneSlipsPast
=============================================================================

---------------------------- MODULE SqlTransaction ----------------------------
(***************************************************************************)
(* Transactions on their way to MySQL.  Worker threads execute             *)
(* TransactionTasks on the asynchronous connections, other threads execute *)
(* DirectCommitTransaction on synchronous ones.  Both run                  *)
(* MySQLConnection::ExecuteTransaction (START TRANSACTION, the statements  *)
(* in the order they were appended, COMMIT, or ROLLBACK after an error)    *)
(* and repeat it when the server answers ER_LOCK_DEADLOCK: a task while it *)
(* holds the one _deadlockLock and for at most a minute, a direct commit   *)
(* without it and five times.  A statement that loses the connection is    *)
(* repeated by itself on the connection that replaces it.                  *)
(*                                                                         *)
(* The server is external and does what the code relies on: it locks a row *)
(* until the transaction that wrote it ends, rolls back the transaction it *)
(* chooses as a deadlock's victim, only the statement on any other error,  *)
(* and the whole transaction when its connection is lost; START            *)
(* TRANSACTION commits one that is open; a statement outside a transaction *)
(* commits by itself (autocommit is 1).                                    *)
(***************************************************************************)
EXTENDS Naturals, Sequences, FiniteSets, Functions

CONSTANTS
    AsyncConnections, SyncConnections,
    Queued,         \* the tasks of CommitTransaction, as they were enqueued
    Direct,         \* the tasks of DirectCommitTransaction
    Rows,           \* the row each statement of a task writes, in order
    Rejected,       \* the <<task, index>> the server may answer with an error
    LoopBreaker,    \* loopBreaker, 5 in the code
    MaxTries,       \* how often a task is tried before its minute is over
    MaxLosses,      \* how often a connection is lost
    NoTask

Tasks == {Queued[i] : i \in DOMAIN Queued} \union Direct
Connections == AsyncConnections \union SyncConnections

RowSet == UNION {{Rows[t][k] : k \in DOMAIN Rows[t]} : t \in Tasks}

ASSUME ConstantsAssumption ==
    /\ Queued \in Seq(Tasks)
    /\ Rows \in [Tasks -> Seq(RowSet)]
    /\ AsyncConnections \intersect SyncConnections = {}
    /\ \A i, j \in DOMAIN Queued : Queued[i] = Queued[j] => i = j
    /\ \A i \in DOMAIN Queued : Queued[i] \notin Direct
    /\ NoTask \notin Tasks
    /\ LoopBreaker \in Nat /\ MaxTries \in Nat \ {0} /\ MaxLosses \in Nat

VARIABLES
    queue,      \* what is left of Queued for the worker threads
    todo,       \* the direct commits not begun
    pc, task,   \* where each connection's thread is, and in which task
    stmt,       \* where the loop of ExecuteTransaction is
    code,       \* the error code it will return
    tries,      \* how often it has been called for this task
    retrier,    \* the connection whose thread holds _deadlockLock
    cleaned,    \* the tasks whose statements Cleanup has deleted
    result,     \* what became of each task
    inTx,       \* server: the connections with an open transaction
    written,    \* server: the <<task, index>> the open transaction has done,
                \* for each task, in order
    durable,    \* server: those of each task that are committed, in order
    losses,     \* how many connections have been lost
    lostIn      \* the tasks that were being executed when one was

clientVars == <<queue, todo, task, tries, retrier, cleaned, result>>
serverVars == <<inTx, written, durable>>
lossVars == <<losses, lostIn>>
vars == <<queue, todo, pc, task, stmt, code, tries, retrier, cleaned, result,
          inTx, written, durable, losses, lostIn>>

NothingWritten == [t \in Tasks |-> << >>]

Init ==
    /\ queue = Queued
    /\ todo = Direct
    /\ pc = [c \in Connections |-> "idle"]
    /\ task = [c \in Connections |-> NoTask]
    /\ stmt = [c \in Connections |-> 1]
    /\ code = [c \in Connections |-> "ok"]
    /\ tries = [c \in Connections |-> 0]
    /\ retrier = {}
    /\ cleaned = {}
    /\ result = [t \in Tasks |-> "pending"]
    /\ inTx = {}
    /\ written = [c \in Connections |-> NothingWritten]
    /\ durable = [t \in Tasks |-> << >>]
    /\ losses = 0
    /\ lostIn = {}

GoTo(c, label) == pc' = [pc EXCEPT ![c] = label]

-----------------------------------------------------------------------------
(* The server (external).                                                  *)

Current(c) == <<task[c], stmt[c]>>
RowOf(statement) == Rows[statement[1]][statement[2]]

Locked(c) == {RowOf(s) : s \in UNION {Range(written[c][t]) : t \in Tasks}}

WaitsFor(c) ==
    {d \in Connections \ {c} : pc[c] = "stmt" /\ RowOf(Current(c)) \in Locked(d)}

\* c is on a cycle of connections that wait for each other.
InCycle(c) ==
    \E S \in SUBSET Connections :
        /\ c \in S
        /\ \A d \in S : WaitsFor(d) \intersect S # {}

MakeDurable(c) ==
    /\ durable' = [t \in Tasks |-> durable[t] \o written[c][t]]
    /\ written' = [written EXCEPT ![c] = NothingWritten]

CommitOpen(c) == MakeDurable(c) /\ inTx' = inTx \ {c}

RollbackOpen(c) ==
    /\ inTx' = inTx \ {c}
    /\ written' = [written EXCEPT ![c] = NothingWritten]
    /\ UNCHANGED durable

Write(c) ==
    IF c \in inTx
      THEN /\ written' = [written EXCEPT ![c][task[c]] = Append(@, Current(c))]
           /\ UNCHANGED <<inTx, durable>>
      ELSE /\ durable' = [durable EXCEPT ![task[c]] = Append(@, Current(c))]
           /\ UNCHANGED <<inTx, written>>

-----------------------------------------------------------------------------
(* MySQLConnection::ExecuteTransaction.                                    *)

\* `if (queries.empty()) return -1;`
ReturnEmpty(c) ==
    /\ pc[c] = "begin"
    /\ Rows[task[c]] = << >> \/ task[c] \in cleaned
    /\ code' = [code EXCEPT ![c] = "error"]
    /\ GoTo(c, "returned")
    /\ UNCHANGED <<clientVars, stmt, serverVars, lossVars>>

\* Begin without START TRANSACTION.
BeginAutocommit(c) ==
    /\ pc[c] = "begin"
    /\ Rows[task[c]] # << >>
    /\ task[c] \notin cleaned
    /\ stmt' = [stmt EXCEPT ![c] = 1]
    /\ GoTo(c, "stmt")
    /\ UNCHANGED <<clientVars, code, serverVars, lossVars>>

\* START TRANSACTION.
Begin(c) ==
    /\ pc[c] = "begin"
    /\ Rows[task[c]] # << >>
    /\ task[c] \notin cleaned
    /\ MakeDurable(c)
    /\ inTx' = inTx \union {c}
    /\ stmt' = [stmt EXCEPT ![c] = 1]
    /\ GoTo(c, "stmt")
    /\ UNCHANGED <<clientVars, code, lossVars>>

\* StatementSucceeds of a loop that runs once too often.
StatementOverrun(c) ==
    /\ pc[c] = "stmt"
    /\ WaitsFor(c) = {}
    /\ Write(c)
    /\ IF stmt[c] > Len(Rows[task[c]])
         THEN GoTo(c, "commit") /\ UNCHANGED stmt
         ELSE stmt' = [stmt EXCEPT ![c] = @ + 1] /\ UNCHANGED pc
    /\ UNCHANGED <<clientVars, code, lossVars>>

StatementSucceeds(c) ==
    /\ pc[c] = "stmt"
    /\ WaitsFor(c) = {}
    /\ Write(c)
    /\ IF stmt[c] = Len(Rows[task[c]])
         THEN GoTo(c, "commit") /\ UNCHANGED stmt
         ELSE stmt' = [stmt EXCEPT ![c] = @ + 1] /\ UNCHANGED pc
    /\ UNCHANGED <<clientVars, code, lossVars>>

\* The server's answer when it has rolled back this transaction.
StatementDeadlocks(c) ==
    /\ pc[c] = "stmt"
    /\ InCycle(c)
    /\ RollbackOpen(c)
    /\ code' = [code EXCEPT ![c] = "deadlock"]
    /\ GoTo(c, "rollback")
    /\ UNCHANGED <<clientVars, stmt, lossVars>>

\* Any other error: the statement has done nothing, the transaction is open.
StatementFails(c) ==
    /\ pc[c] = "stmt"
    /\ Current(c) \in Rejected
    /\ code' = [code EXCEPT ![c] = "error"]
    /\ GoTo(c, "rollback")
    /\ UNCHANGED <<clientVars, stmt, serverVars, lossVars>>

\* Rollback that returns the error without ROLLBACK.
NoRollback(c) ==
    /\ pc[c] = "rollback"
    /\ GoTo(c, "returned")
    /\ UNCHANGED <<clientVars, stmt, code, serverVars, lossVars>>

\* Rollback that also deletes the statements.
RollbackAndCleanup(c) ==
    /\ pc[c] = "rollback"
    /\ RollbackOpen(c)
    /\ cleaned' = cleaned \union {task[c]}
    /\ GoTo(c, "returned")
    /\ UNCHANGED <<queue, todo, task, tries, retrier, result, stmt, code, lossVars>>

Rollback(c) ==
    /\ pc[c] = "rollback"
    /\ RollbackOpen(c)
    /\ GoTo(c, "returned")
    /\ UNCHANGED <<clientVars, stmt, code, lossVars>>

Commit(c) ==
    /\ pc[c] = "commit"
    /\ CommitOpen(c)
    /\ code' = [code EXCEPT ![c] = "ok"]
    /\ GoTo(c, "returned")
    /\ UNCHANGED <<clientVars, stmt, lossVars>>

-----------------------------------------------------------------------------
(* TransactionTask::Execute and DatabaseWorkerPool::DirectCommitTransaction. *)

Start(c, t) ==
    /\ pc[c] = "idle"
    /\ task' = [task EXCEPT ![c] = t]
    /\ tries' = [tries EXCEPT ![c] = 1]
    /\ GoTo(c, "begin")
    /\ UNCHANGED <<stmt, code, retrier, cleaned, result, serverVars, lossVars>>

StartTask(c) ==
    /\ c \in AsyncConnections
    /\ queue # << >>
    /\ queue' = Tail(queue)
    /\ Start(c, Head(queue))
    /\ UNCHANGED todo

StartDirect(c, t) ==
    /\ c \in SyncConnections
    /\ t \in todo
    /\ todo' = todo \ {t}
    /\ Start(c, t)
    /\ UNCHANGED queue

\* The attempt was the first one and ended in a deadlock, or the loop repeats it
\* whatever the error was.
Retries(c) == code[c] # "ok" /\ (code[c] = "deadlock" \/ tries[c] > 1)

\* Finish that keeps _deadlockLock.
FinishLocked(c) ==
    /\ result' = [result EXCEPT ![task[c]] = IF code[c] = "ok" THEN "done" ELSE "failed"]
    /\ cleaned' = IF code[c] = "ok" THEN cleaned ELSE cleaned \union {task[c]}
    /\ GoTo(c, "idle")
    /\ task' = [task EXCEPT ![c] = NoTask]
    /\ stmt' = [stmt EXCEPT ![c] = 1]
    /\ code' = [code EXCEPT ![c] = "ok"]
    /\ tries' = [tries EXCEPT ![c] = 0]
    /\ UNCHANGED <<queue, todo, retrier, serverVars, lossVars>>

Finish(c) ==
    /\ result' = [result EXCEPT ![task[c]] = IF code[c] = "ok" THEN "done" ELSE "failed"]
    /\ cleaned' = IF code[c] = "ok" THEN cleaned ELSE cleaned \union {task[c]}
    /\ retrier' = retrier \ {c}
    /\ GoTo(c, "idle")
    /\ task' = [task EXCEPT ![c] = NoTask]
    /\ stmt' = [stmt EXCEPT ![c] = 1]
    /\ code' = [code EXCEPT ![c] = "ok"]
    /\ tries' = [tries EXCEPT ![c] = 0]
    /\ UNCHANGED <<queue, todo, serverVars, lossVars>>

Return(c) ==
    /\ pc[c] = "returned"
    /\ ~ Retries(c)
    /\ Finish(c)

\* The first deadlock of a task: its thread waits for _deadlockLock.
TakeDeadlockLock(c) ==
    /\ pc[c] = "returned"
    /\ c \in AsyncConnections
    /\ Retries(c)
    /\ tries[c] = 1
    /\ retrier = {}
    /\ retrier' = {c}
    /\ tries' = [tries EXCEPT ![c] = @ + 1]
    /\ GoTo(c, "begin")
    /\ UNCHANGED <<queue, todo, task, stmt, code, cleaned, result, serverVars, lossVars>>

RetryTask(c) ==
    /\ pc[c] = "returned"
    /\ c \in retrier
    /\ Retries(c)
    /\ tries[c] < MaxTries
    /\ tries' = [tries EXCEPT ![c] = @ + 1]
    /\ GoTo(c, "begin")
    /\ UNCHANGED <<queue, todo, task, stmt, code, retrier, cleaned, result, serverVars, lossVars>>

\* DEADLOCK_MAX_RETRY_TIME_MS has passed.
GiveUpTask(c) ==
    /\ pc[c] = "returned"
    /\ c \in retrier
    /\ Retries(c)
    /\ Finish(c)

RetryDirect(c) ==
    /\ pc[c] = "returned"
    /\ c \in SyncConnections
    /\ Retries(c)
    /\ tries[c] <= LoopBreaker
    /\ tries' = [tries EXCEPT ![c] = @ + 1]
    /\ GoTo(c, "begin")
    /\ UNCHANGED <<queue, todo, task, stmt, code, retrier, cleaned, result, serverVars, lossVars>>

GiveUpDirect(c) ==
    /\ pc[c] = "returned"
    /\ c \in SyncConnections
    /\ Retries(c)
    /\ tries[c] > LoopBreaker
    /\ Finish(c)

-----------------------------------------------------------------------------
(* Lost connections: Execute gets CR_SERVER_LOST, _HandleMySQLErrno opens   *)
(* another connection and returns true, and Execute calls itself again.     *)

InCall(c) == pc[c] \in {"begin", "stmt", "rollback", "commit"}

Lose(c) ==
    /\ InCall(c)
    /\ losses < MaxLosses
    /\ losses' = losses + 1
    /\ lostIn' = lostIn \union {task[c]}
    /\ UNCHANGED <<clientVars, pc, stmt, code>>

\* Before the server has seen the statement: its transaction is rolled back.
LoseStatement(c) == Lose(c) /\ RollbackOpen(c)

\* After the server has executed it, before its answer arrived.
LoseAnswer(c) ==
    /\ Lose(c)
    /\ \/ pc[c] = "commit" /\ CommitOpen(c)
       \/ pc[c] = "stmt" /\ c \notin inTx /\ WaitsFor(c) = {} /\ Write(c)

-----------------------------------------------------------------------------
Step(c) ==
    \/ StartTask(c)
    \/ \E t \in Direct : StartDirect(c, t)
    \/ ReturnEmpty(c)
    \/ Begin(c)
    \/ StatementSucceeds(c)
    \/ StatementDeadlocks(c)
    \/ StatementFails(c)
    \/ Rollback(c)
    \/ Commit(c)
    \/ Return(c)
    \/ TakeDeadlockLock(c)
    \/ RetryTask(c)
    \/ GiveUpTask(c)
    \/ RetryDirect(c)
    \/ GiveUpDirect(c)

AllDone == (\A t \in Tasks : result[t] # "pending") /\ UNCHANGED vars

Next ==
    \/ \E c \in Connections : Step(c) \/ LoseStatement(c) \/ LoseAnswer(c)
    \/ AllDone

\* The connections' threads are scheduled and the server answers.
Fairness ==
    \A c \in Connections : WF_vars(Step(c))

Spec == Init /\ [][Next]_vars
FairSpec == Spec /\ Fairness

-----------------------------------------------------------------------------
(* Properties.                                                             *)

Statements(t) == {<<t, k>> : k \in DOMAIN Rows[t]}
AllStatements == UNION {Statements(t) : t \in Tasks}
Appended(t) == [k \in DOMAIN Rows[t] |-> <<t, k>>]

TypeOK ==
    /\ queue \in Seq(Tasks)
    /\ todo \in SUBSET Direct
    /\ pc \in [Connections -> {"idle", "begin", "stmt", "rollback", "commit", "returned"}]
    /\ task \in [Connections -> Tasks \union {NoTask}]
    /\ \A c \in Connections : pc[c] = "stmt" => Current(c) \in AllStatements
    /\ code \in [Connections -> {"ok", "deadlock", "error"}]
    /\ tries \in [Connections -> Nat]
    /\ retrier \in SUBSET AsyncConnections
    /\ cleaned \in SUBSET Tasks
    /\ result \in [Tasks -> {"pending", "done", "failed"}]
    /\ inTx \in SUBSET Connections
    /\ written \in [Connections -> [Tasks -> Seq(AllStatements)]]
    /\ durable \in [Tasks -> Seq(AllStatements)]
    /\ losses \in 0 .. MaxLosses
    /\ lostIn \in SUBSET Tasks

\* As long as no connection is lost, a transaction is all or nothing, its
\* statements are applied once and in the order they were appended, and what
\* its caller is told is what happened, whatever deadlocks, errors and retries
\* came in between.
AtomicUnlessLost ==
    \A t \in Tasks \ lostIn :
        /\ durable[t] \in {<< >>, Appended(t)}
        /\ result[t] = "done" => durable[t] = Appended(t)
        /\ result[t] = "failed" => durable[t] = << >>

\* A connection that goes back to its pool has no transaction open and holds no
\* row, connections that were replaced in the middle included: the next
\* ExecuteTransaction would commit what was left, and until then others wait.
IdleConnectionIsClean ==
    \A c \in Connections : pc[c] \in {"idle", "returned"} => c \notin inTx /\ Locked(c) = {}

\* MySQLConnection.cpp:458: the statements are there for as long as the
\* transaction may be tried again.
NeverRetriesCleaned ==
    \A c \in Connections : pc[c] \in {"begin", "stmt"} => task[c] \notin cleaned

\* Every transaction comes to an end: row locks, _deadlockLock and the retries
\* of two transactions that keep meeting never leave a thread waiting for good.
EveryTaskEnds == \A t \in Tasks : <>(result[t] # "pending")

\* DatabaseWorkerPool.h:183 says of a transaction that it "will automatically
\* rollback if not commited. (Autocommit=0)": a transaction that has ended is
\* there as a whole or not at all.
WholeOrRolledBack ==
    \A t \in Tasks : result[t] # "pending" => durable[t] \in {<< >>, Appended(t)}
=============================================================================

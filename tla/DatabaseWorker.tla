--------------------------- MODULE DatabaseWorker ---------------------------
(***************************************************************************)
(* The asynchronous half of a DatabaseWorkerPool: callers Enqueue          *)
(* SQLOperations on one ProducerConsumerQueue, one worker thread per       *)
(* asynchronous connection takes and executes them, and Close() destroys   *)
(* the connections one after the other, each destructor setting its        *)
(* worker's cancelation token, cancelling the shared queue and joining the *)
(* thread.                                                                 *)
(*                                                                         *)
(* Operation i is the i-th one pushed.  `executed` and `dropped` are the   *)
(* record of what became of each; the code keeps neither.                  *)
(***************************************************************************)
EXTENDS Naturals, Sequences, FiniteSets

CONSTANTS
    Workers,    \* the worker threads, one per asynchronous connection
    MaxOps      \* how many operations are ever pushed

ASSUME ConstantsAssumption == MaxOps \in Nat /\ IsFiniteSet(Workers)

Ops == 1 .. MaxOps
None == 0                  \* `SQLOperation* operation = nullptr`

VARIABLES
    queue, shutdown, waiting,  \* the shared ProducerConsumerQueue
    pc,         \* where each worker is in WorkerThread
    op,         \* its local `operation`
    cancel,     \* its _cancelationToken
    closer,     \* where the thread inside DatabaseWorkerPool::Close is
    victim,     \* the connections whose destructor has begun
    submitted,  \* the operations pushed so far: 1 .. submitted
    executed,   \* the operations whose call() returned
    dropped     \* the operations deleted, or abandoned, without a call()

Q == INSTANCE PCQueue

workerVars == <<pc, op>>
closeVars == <<cancel, closer, victim>>
record == <<submitted, executed, dropped>>
vars == <<queue, shutdown, waiting, pc, op, cancel, closer, victim,
          submitted, executed, dropped>>

Queued == {queue[i] : i \in DOMAIN queue}
Held == {op[w] : w \in Workers} \ {None}

Init ==
    /\ Q!Init
    /\ pc = [w \in Workers |-> "pop"]
    /\ op = [w \in Workers |-> None]
    /\ cancel = [w \in Workers |-> FALSE]
    /\ closer = "open"
    /\ victim = {}
    /\ submitted = 0
    /\ executed = {}
    /\ dropped = {}

-----------------------------------------------------------------------------
(* The callers.                                                            *)

\* DatabaseWorkerPool::Enqueue, which every Execute, AsyncQuery,
\* DelayQueryHolder, CommitTransaction and KeepAlive ends in.  Close is called
\* when every other thread that could call it has exited.
Enqueue ==
    /\ closer = "open"
    /\ submitted < MaxOps
    /\ submitted' = submitted + 1
    /\ Q!Push(submitted + 1)
    /\ UNCHANGED <<workerVars, closeVars, executed, dropped>>

-----------------------------------------------------------------------------
(* DatabaseWorker::WorkerThread.                                           *)

GoTo(w, label) == pc' = [pc EXCEPT ![w] = label]

WorkerWait(w) ==
    /\ pc[w] = "pop"
    /\ Q!Wait(w)
    /\ UNCHANGED <<workerVars, closeVars, record>>

WorkerSpuriousWake(w) ==
    /\ Q!SpuriousWake(w)
    /\ UNCHANGED <<workerVars, closeVars, record>>

WorkerPop(w) ==
    /\ pc[w] = "pop"
    /\ Q!PopFront(w)
    /\ op' = [op EXCEPT ![w] = Head(queue)]
    /\ GoTo(w, "check")
    /\ UNCHANGED <<closeVars, record>>

WorkerPopNothing(w) ==
    /\ pc[w] = "pop"
    /\ Q!PopNothing(w)
    /\ GoTo(w, "check")
    /\ UNCHANGED <<op, closeVars, record>>

\* `if (_cancelationToken || !operation) return;`: an operation already popped
\* is neither executed nor deleted.
WorkerExit(w) ==
    /\ pc[w] = "check"
    /\ cancel[w] \/ op[w] = None
    /\ dropped' = dropped \union ({op[w]} \ {None})
    /\ op' = [op EXCEPT ![w] = None]
    /\ GoTo(w, "exited")
    /\ UNCHANGED <<queue, shutdown, waiting, closeVars, submitted, executed>>

\* WorkerCall without the test of `!operation`.
WorkerCallUnchecked(w) ==
    /\ pc[w] = "check"
    /\ ~ cancel[w]
    /\ GoTo(w, "call")
    /\ UNCHANGED <<queue, shutdown, waiting, op, closeVars, record>>

WorkerCall(w) ==
    /\ pc[w] = "check"
    /\ ~ cancel[w]
    /\ op[w] # None
    /\ GoTo(w, "call")
    /\ UNCHANGED <<queue, shutdown, waiting, op, closeVars, record>>

\* call() returns, the operation is deleted, and the loop starts over with
\* `operation = nullptr`.
WorkerDone(w) ==
    /\ pc[w] = "call"
    /\ executed' = executed \union {op[w]}
    /\ op' = [op EXCEPT ![w] = None]
    /\ GoTo(w, "pop")
    /\ UNCHANGED <<queue, shutdown, waiting, closeVars, submitted, dropped>>

WorkerStep(w) ==
    \/ WorkerWait(w)
    \/ WorkerPop(w)
    \/ WorkerPopNothing(w)
    \/ WorkerExit(w)
    \/ WorkerCall(w)
    \/ WorkerDone(w)

-----------------------------------------------------------------------------
(* DatabaseWorkerPool::Close: `_connections[IDX_ASYNC].clear()` runs         *)
(* ~MySQLConnection, and so ~DatabaseWorker, for one connection at a time.   *)

SetToken(w) ==
    /\ closer \in {"open", "next"}
    /\ w \notin victim
    /\ cancel' = [cancel EXCEPT ![w] = TRUE]
    /\ victim' = victim \union {w}
    /\ closer' = "cancel"
    /\ UNCHANGED <<queue, shutdown, waiting, workerVars, record>>

CancelQueue ==
    /\ closer = "cancel"
    /\ Q!Cancel
    /\ dropped' = dropped \union Queued
    /\ closer' = "join"
    /\ UNCHANGED <<workerVars, cancel, victim, submitted, executed>>

Join ==
    /\ closer = "join"
    /\ \A w \in victim : pc[w] = "exited"
    /\ closer' = IF victim = Workers THEN "closed" ELSE "next"
    /\ UNCHANGED <<queue, shutdown, waiting, workerVars, cancel, victim, record>>

CloseStep ==
    \/ \E w \in Workers : SetToken(w)
    \/ CancelQueue
    \/ Join

\* After Close() the pool is gone.
Closed == closer = "closed" /\ UNCHANGED vars

Next ==
    \/ Enqueue
    \/ \E w \in Workers : WorkerStep(w) \/ WorkerSpuriousWake(w)
    \/ CloseStep
    \/ Closed

\* Threads are scheduled, call() returns, and a destructor once begun runs on.
\* Nothing makes the server push an operation or begin to close.
Fairness ==
    /\ \A w \in Workers : WF_vars(WorkerStep(w))
    /\ WF_vars(CloseStep /\ closer # "open")

Spec == Init /\ [][Next]_vars
FairSpec == Spec /\ Fairness

-----------------------------------------------------------------------------
(* Properties.                                                             *)

TypeOK ==
    /\ queue \in Seq(Ops)
    /\ shutdown \in BOOLEAN
    /\ waiting \in SUBSET Workers
    /\ pc \in [Workers -> {"pop", "check", "call", "exited"}]
    /\ op \in [Workers -> Ops \union {None}]
    /\ cancel \in [Workers -> BOOLEAN]
    /\ closer \in {"open", "cancel", "join", "next", "closed"}
    /\ victim \in SUBSET Workers
    /\ submitted \in 0 .. MaxOps
    /\ executed \in SUBSET Ops
    /\ dropped \in SUBSET Ops

\* No operation is lost, run twice or both run and deleted: whatever was pushed
\* is in exactly one place -- the queue (once), one worker's hands, executed,
\* or dropped.  A double `delete` or a use after it would be an operation in two.
OneOwner ==
    /\ 1 .. submitted = Queued \union Held \union executed \union dropped
    /\ \A i, j \in DOMAIN queue : queue[i] = queue[j] => i = j
    /\ \A v, w \in Workers : op[v] = op[w] /\ op[v] # None => v = w
    /\ Queued \intersect (Held \union executed \union dropped) = {}
    /\ Held \intersect (executed \union dropped) = {}
    /\ executed \intersect dropped = {}

\* Statements reach the server in the order they were pushed, but for the ones
\* other workers hold: an operation runs ahead of an older one only while that
\* one is out of the queue.  With one worker thread (the default) this is FIFO.
NoOvertakingInQueue ==
    \A o \in executed \union Held : \A i \in DOMAIN queue : o < queue[i]

\* notify_one under the lock is enough: no worker sleeps while there is more
\* queued than there are awake workers on their way to the queue.
NoWastedWorker ==
    waiting # {} => Len(queue) <= Cardinality({w \in Workers \ waiting : pc[w] = "pop"})

\* WorkerThread never dereferences an operation that WaitAndPop did not fill in,
\* and no operation is still executing on a connection whose destructor joined.
CallsAreLive ==
    /\ \A w \in Workers : pc[w] = "call" => op[w] \in 1 .. submitted
    /\ closer \in {"next", "closed"} => \A w \in victim : pc[w] = "exited"

\* An operation pushed is some day executed or, at shutdown, discarded.
EveryOpSettles ==
    \A o \in Ops : o <= submitted ~> o \in executed \union dropped

\* Close() returns: every join ends, whatever the workers were doing when their
\* token was set.
CloseReturns == closer # "open" ~> closer = "closed"

\* The workers and their queue implement the abstract executor.
Executor == INSTANCE AsyncExecutor WITH
    closing <- closer # "open",
    backlog <- queue,
    claimed <- Held,
    finished <- executed

ImplementsExecutor == Executor!Spec

\* Main.cpp:362 says of KickAll, whose LogoutPlayer calls push the saves,
\* "save and kick all players": when the pool is closed all that was pushed
\* before has been executed.
SavedWhenClosed == closer = "closed" => executed = 1 .. submitted
=============================================================================

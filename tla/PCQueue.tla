------------------------------- MODULE PCQueue -------------------------------
(***************************************************************************)
(* ProducerConsumerQueue<T> (src/src/common/Threading/PCQueue.h): a FIFO   *)
(* guarded by one mutex, with one condition variable and a shutdown flag.  *)
(*                                                                         *)
(* Every method body is one critical section of _queueLock, so each is one *)
(* action here.  WaitAndPop can block in the middle: a consumer that       *)
(* blocks is in `waiting` (the threads asleep on _condition), and one that *)
(* has been notified is back where it was before it tested the queue.      *)
(*                                                                         *)
(* The module has no specification of its own: DatabaseWorker and          *)
(* MapUpdater instantiate it and conjoin its actions with their own.       *)
(***************************************************************************)
EXTENDS Naturals, Sequences

VARIABLES
    queue,      \* _queue, front first
    shutdown,   \* _shutdown
    waiting     \* the consumers asleep on _condition

queueVars == <<queue, shutdown, waiting>>

Init ==
    /\ queue = << >>
    /\ shutdown = FALSE
    /\ waiting = {}

\* NotifyOne of a Push that forgets to notify.
NotifyNobody == UNCHANGED waiting

\* _condition.notify_one(): wakes one sleeping consumer, if there is one.
NotifyOne ==
    \/ waiting = {} /\ UNCHANGED waiting
    \/ \E t \in waiting : waiting' = waiting \ {t}

\* Push at the wrong end.
PushFront(v) ==
    /\ queue' = <<v>> \o queue
    /\ NotifyOne
    /\ UNCHANGED shutdown

\* Push that notifies only when it finds the queue empty.
PushNotifyIfEmpty(v) ==
    /\ queue' = Append(queue, v)
    /\ IF queue = << >> THEN NotifyOne ELSE UNCHANGED waiting
    /\ UNCHANGED shutdown

Push(v) ==
    /\ queue' = Append(queue, v)
    /\ NotifyOne
    /\ UNCHANGED shutdown

\* WaitAndPop, when the loop condition holds: the consumer goes to sleep.
Wait(t) ==
    /\ t \notin waiting
    /\ queue = << >>
    /\ ~ shutdown
    /\ waiting' = waiting \union {t}
    /\ UNCHANGED <<queue, shutdown>>

\* WaitAndPop returning the front element.
PopFront(t) ==
    /\ t \notin waiting
    /\ queue # << >>
    /\ ~ shutdown
    /\ queue' = Tail(queue)
    /\ UNCHANGED <<shutdown, waiting>>

\* WaitAndPop returning with the caller's value untouched.
PopNothing(t) ==
    /\ t \notin waiting
    /\ shutdown
    /\ UNCHANGED queueVars

\* A condition variable may wake a thread that nobody notified.
SpuriousWake(t) ==
    /\ t \in waiting
    /\ waiting' = waiting \ {t}
    /\ UNCHANGED <<queue, shutdown>>

\* Cancel that deletes the elements but leaves the pointers in the queue.
CancelKeepingQueue ==
    /\ shutdown' = TRUE
    /\ waiting' = {}
    /\ UNCHANGED queue

\* Cancel without notify_all.
CancelSilently ==
    /\ queue' = << >>
    /\ shutdown' = TRUE
    /\ UNCHANGED waiting

\* Cancel() deletes what is queued, then releases every consumer.
Cancel ==
    /\ queue' = << >>
    /\ shutdown' = TRUE
    /\ waiting' = {}
=============================================================================

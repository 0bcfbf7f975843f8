----------------------------- MODULE LockedQueue -----------------------------
(***************************************************************************)
(* LockedQueue<T> (src/src/common/Threading/LockedQueue.h): a deque behind *)
(* a mutex.  Every method is one critical section, so each is one action.  *)
(* The module has no specification of its own: SessionIO instantiates it   *)
(* for the packets a session has received.                                 *)
(***************************************************************************)
EXTENDS Naturals, Sequences

VARIABLE queue      \* _queue, front first

Init == queue = << >>

\* add
Add(v) == queue' = Append(queue, v)

\* readd at "the bottom of the queue", where WorldSession.cpp:331 has it.
ReaddAtBottom(vs) == queue' = queue \o vs

\* readd: back to the front, in the order they were taken.
Readd(vs) == queue' = vs \o queue

\* next(result, checker) takes the front if the checker lets it, and never looks
\* behind it.
Next(allowed) ==
    /\ queue # << >>
    /\ Head(queue) \in allowed
    /\ queue' = Tail(queue)
=============================================================================

---------------------------- MODULE AsyncExecutor ----------------------------
(***************************************************************************)
(* What the asynchronous half of a DatabaseWorkerPool promises to the code *)
(* that calls Enqueue, without threads, locks or connections: operations   *)
(* are numbered in the order they were submitted, they are claimed in that *)
(* order, each is executed at most once, and one is dropped only after the *)
(* pool has begun to close.                                                *)
(***************************************************************************)
EXTENDS Naturals, Sequences

CONSTANT MaxOps     \* how many operations are ever submitted

VARIABLES
    closing,    \* the pool is being closed: nothing more is submitted
    submitted,  \* the number of operations submitted so far
    backlog,    \* submitted and not claimed, oldest first
    claimed,    \* claimed and neither finished nor dropped
    finished,   \* executed
    dropped     \* never executed

vars == <<closing, submitted, backlog, claimed, finished, dropped>>

Init ==
    /\ closing = FALSE
    /\ submitted = 0
    /\ backlog = << >>
    /\ claimed = {}
    /\ finished = {}
    /\ dropped = {}

Submit ==
    /\ ~ closing
    /\ submitted < MaxOps
    /\ submitted' = submitted + 1
    /\ backlog' = Append(backlog, submitted + 1)
    /\ UNCHANGED <<closing, claimed, finished, dropped>>

Claim ==
    /\ backlog # << >>
    /\ claimed' = claimed \union {Head(backlog)}
    /\ backlog' = Tail(backlog)
    /\ UNCHANGED <<closing, submitted, finished, dropped>>

Finish(o) ==
    /\ o \in claimed
    /\ claimed' = claimed \ {o}
    /\ finished' = finished \union {o}
    /\ UNCHANGED <<closing, submitted, backlog, dropped>>

Close ==
    /\ closing' = TRUE
    /\ UNCHANGED <<submitted, backlog, claimed, finished, dropped>>

DropBacklog ==
    /\ closing
    /\ dropped' = dropped \union {backlog[i] : i \in DOMAIN backlog}
    /\ backlog' = << >>
    /\ UNCHANGED <<closing, submitted, claimed, finished>>

DropClaimed(o) ==
    /\ closing
    /\ o \in claimed
    /\ claimed' = claimed \ {o}
    /\ dropped' = dropped \union {o}
    /\ UNCHANGED <<closing, submitted, backlog, finished>>

Next ==
    \/ Submit
    \/ Claim
    \/ \E o \in 1 .. MaxOps : Finish(o) \/ DropClaimed(o)
    \/ Close
    \/ DropBacklog

Spec == Init /\ [][Next]_vars
=============================================================================

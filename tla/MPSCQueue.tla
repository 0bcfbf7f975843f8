------------------------------ MODULE MPSCQueue ------------------------------
(***************************************************************************)
(* MPSCQueueIntrusive (src/src/common/Threading/MPSCQueue.h): the lock     *)
(* free queue between the threads that call WorldSocket::SendPacket and    *)
(* the network thread that dequeues in WorldSocket::Update.                *)
(*                                                                         *)
(* A step is one access to an atomic that another thread may see; a null   *)
(* store to the link of a node nobody else can reach is merged with the    *)
(* exchange behind it.  The release stores and acquire loads of the code   *)
(* order every other access the way the interleavings here do, and a load  *)
(* of _head that misses a newer exchange is the load before that exchange. *)
(***************************************************************************)
EXTENDS Naturals, Sequences, FiniteSets

CONSTANTS
    Producers,  \* the threads that enqueue
    Messages,   \* the elements; each is enqueued at most once
    Dummy,      \* _dummyPtr
    Null

Nodes == Messages \union {Dummy}

ASSUME ConstantsAssumption ==
    /\ IsFiniteSet(Messages)
    /\ Dummy \notin Messages
    /\ Null \notin Nodes

VARIABLES
    head,       \* _head
    tail,       \* _tail, written by the consumer only
    link,       \* the IntrusiveLink of each node
    adding,     \* each producer between its exchange and its link store: the
                \* node it added and the head it replaced
    pc,         \* where the consumer is in Dequeue
    next,       \* its local `next`
    prevHead,   \* its local prevHead in Enqueue(_dummyPtr)
    order,      \* the elements in the order of their exchanges
    out         \* the elements dequeued, in order, and so deleted by now

producerVars == <<adding, order>>
consumerVars == <<pc, next, prevHead, tail, out>>
vars == <<head, tail, link, adding, pc, next, prevHead, order, out>>

Idle == [node |-> Null, prev |-> Null]

Init ==
    /\ head = Dummy
    /\ tail = Dummy
    /\ link = [n \in Nodes |-> Null]
    /\ adding = [p \in Producers |-> Idle]
    /\ pc = "load"
    /\ next = Null
    /\ prevHead = Null
    /\ order = << >>
    /\ out = << >>

SeqToSet(s) == {s[i] : i \in DOMAIN s}

-----------------------------------------------------------------------------
(* Enqueue, by a producer.                                                 *)

Exchange(p, m) ==
    /\ adding[p] = Idle
    /\ m \notin SeqToSet(order)
    /\ link' = [link EXCEPT ![m] = Null]
    /\ head' = m
    /\ adding' = [adding EXCEPT ![p] = [node |-> m, prev |-> head]]
    /\ order' = Append(order, m)
    /\ UNCHANGED consumerVars

Link(p) ==
    /\ adding[p] # Idle
    /\ link' = [link EXCEPT ![adding[p].prev] = adding[p].node]
    /\ adding' = [adding EXCEPT ![p] = Idle]
    /\ UNCHANGED <<head, order, consumerVars>>

-----------------------------------------------------------------------------
(* Dequeue, by the consumer.                                               *)

\* Dequeue returns true with the old tail, which the caller deletes.
Return(n) ==
    /\ tail' = n
    /\ out' = Append(out, tail)
    /\ pc' = "load"

\* LoadNext of a Dequeue that does not know the dummy node.
LoadNextDummyBlind ==
    /\ pc = "load"
    /\ next' = link[tail]
    /\ pc' = IF tail = Dummy /\ link[tail] = Null THEN "load" ELSE "test"
    /\ UNCHANGED <<head, link, producerVars, prevHead, tail, out>>

\* The first load of tail's link, and the return of false on an empty queue.
LoadNext ==
    /\ pc = "load"
    /\ next' = link[tail]
    /\ pc' = IF tail = Dummy /\ link[tail] = Null THEN "load"
             ELSE IF tail = Dummy THEN "skip"
             ELSE "test"
    /\ UNCHANGED <<head, link, producerVars, prevHead, tail, out>>

\* `if (tail == _dummyPtr)`: step over the dummy node and load again.
SkipDummy ==
    /\ pc = "skip"
    /\ tail' = next
    /\ next' = link[next]
    /\ pc' = "test"
    /\ UNCHANGED <<head, link, producerVars, prevHead, out>>

\* TakeLinked without the test of `next`.
TakeUnlinked ==
    /\ pc = "test"
    /\ Return(next)
    /\ UNCHANGED <<head, link, producerVars, next, prevHead>>

TakeLinked ==
    /\ pc = "test"
    /\ next # Null
    /\ Return(next)
    /\ UNCHANGED <<head, link, producerVars, next, prevHead>>

\* The load of _head; a producer that is between its two steps makes Dequeue
\* return false.
LoadHead ==
    /\ pc = "test"
    /\ next = Null
    /\ pc' = IF head = tail THEN "dummy" ELSE "load"
    /\ UNCHANGED <<head, link, producerVars, next, prevHead, tail, out>>

\* Enqueue(_dummyPtr): the null store is a step of its own, because a producer
\* could have been given the dummy node to link behind.
ResetDummy ==
    /\ pc = "dummy"
    /\ link' = [link EXCEPT ![Dummy] = Null]
    /\ pc' = "exchange"
    /\ UNCHANGED <<head, producerVars, next, prevHead, tail, out>>

ExchangeDummy ==
    /\ pc = "exchange"
    /\ prevHead' = head
    /\ head' = Dummy
    /\ pc' = "link"
    /\ UNCHANGED <<link, producerVars, next, tail, out>>

\* LinkDummy that forgets the store to prevHead's link.
LinkDummyLost ==
    /\ pc = "link"
    /\ pc' = "retry"
    /\ UNCHANGED <<head, link, producerVars, next, prevHead, tail, out>>

LinkDummy ==
    /\ pc = "link"
    /\ link' = [link EXCEPT ![prevHead] = Dummy]
    /\ pc' = "retry"
    /\ UNCHANGED <<head, producerVars, next, prevHead, tail, out>>

\* LoadAgain that takes it for granted that the dummy comes next.
LoadAgainUntested ==
    /\ pc = "retry"
    /\ next' = Dummy
    /\ Return(Dummy)
    /\ UNCHANGED <<head, link, producerVars, prevHead>>

\* The last load of tail's link; null if a producer came in before the dummy
\* and has not linked its node yet.
LoadAgain ==
    /\ pc = "retry"
    /\ next' = link[tail]
    /\ IF link[tail] # Null
         THEN Return(link[tail])
         ELSE pc' = "load" /\ UNCHANGED <<tail, out>>
    /\ UNCHANGED <<head, link, producerVars, prevHead>>

Dequeue ==
    \/ LoadNext
    \/ SkipDummy
    \/ TakeLinked
    \/ LoadHead
    \/ ResetDummy
    \/ ExchangeDummy
    \/ LinkDummy
    \/ LoadAgain

Next ==
    \/ \E p \in Producers : (\E m \in Messages : Exchange(p, m)) \/ Link(p)
    \/ Dequeue

\* WorldSocket::Update polls the queue for as long as the socket is open, and a
\* thread inside Enqueue is scheduled.  Nothing makes a thread enqueue.
Fairness ==
    /\ WF_vars(Dequeue)
    /\ \A p \in Producers : WF_vars(Link(p))

Spec == Init /\ [][Next]_vars
FairSpec == Spec /\ Fairness

-----------------------------------------------------------------------------
(* Properties.                                                             *)

TypeOK ==
    /\ head \in Nodes
    /\ tail \in Nodes
    /\ link \in [Nodes -> Nodes \union {Null}]
    /\ adding \in [Producers -> [node : Messages \union {Null}, prev : Nodes \union {Null}]]
    /\ pc \in {"load", "skip", "test", "dummy", "exchange", "link", "retry"}
    /\ next \in Nodes \union {Null}
    /\ prevHead \in Nodes \union {Null}
    /\ order \in Seq(Messages)
    /\ out \in Seq(Nodes)

\* Dequeue hands its node to a caller that deletes it: afterwards no thread may
\* store to its link, nor the consumer read it again.  A producer holds a
\* pointer to the node before its own until it has linked the two.
NoUseAfterDelete ==
    /\ \A p \in Producers : adding[p].prev \notin SeqToSet(out)
    /\ tail \notin SeqToSet(out)
    /\ head \notin SeqToSet(out)
    /\ pc = "link" => prevHead \notin SeqToSet(out)
    /\ pc = "skip" => next \notin SeqToSet(out)

\* The queue implements a FIFO whose order is that of the exchanges of _head:
\* nothing is lost, repeated or reordered, and the dummy is never delivered.
Fifo == INSTANCE MessageFifo WITH
    accepted <- order,
    delivered <- IF out = SubSeq(order, 1, Len(out)) THEN Len(out) ELSE Len(order) + 1

ImplementsFifo == Fifo!Spec

\* What was enqueued is some day dequeued: no interleaving leaves the list cut
\* in two for good, with the dummy on the wrong side.
EverythingDelivered ==
    \A m \in Messages : m \in SeqToSet(order) ~> m \in SeqToSet(out)
=============================================================================

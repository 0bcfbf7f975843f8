------------------------ MODULE DatabaseWorkerProofs ------------------------
(***************************************************************************)
(* Proofs about DatabaseWorker, for every set of worker threads and every  *)
(* number of operations: the safety properties, from one inductive         *)
(* invariant, and that the workers implement AsyncExecutor.                *)
(***************************************************************************)
EXTENDS DatabaseWorker, FiniteSetTheorems, TLAPS

-----------------------------------------------------------------------------
(* The inductive invariant.                                                *)

\* Operations are numbered as they are pushed, so the queue is sorted.
Ordered == \A i, j \in DOMAIN queue : i < j => queue[i] < queue[j]

\* What the local variables of the threads say of one another.
Coherent ==
    /\ \A w \in Workers : op[w] # None => pc[w] \in {"check", "call"}
    /\ \A w \in Workers : pc[w] = "call" => op[w] # None
    /\ \A w \in waiting : pc[w] = "pop"
    /\ shutdown => closer # "open" /\ queue = << >>
    /\ \A w \in Workers : cancel[w] => closer # "open"

\* What is in the queue, in hands and settled, and in what order.
Fate == OneOwner /\ Ordered /\ NoOvertakingInQueue

IInv ==
    /\ TypeOK
    /\ Coherent
    /\ Fate
    /\ CallsAreLive
    /\ NoWastedWorker

-----------------------------------------------------------------------------
(* What Push and WaitAndPop do to the elements of a queue.                 *)

Elements(q) == {q[i] : i \in DOMAIN q}

\* Push: every element keeps its place and the new one comes last.
LEMMA PushedQueue ==
    ASSUME NEW S, NEW q \in Seq(S), NEW v \in S
    PROVE  /\ Append(q, v) \in Seq(S)
           /\ DOMAIN Append(q, v) = 1 .. Len(q) + 1
           /\ \A i \in 1 .. Len(q) : Append(q, v)[i] = q[i]
           /\ Append(q, v)[Len(q) + 1] = v
           /\ Elements(Append(q, v)) = Elements(q) \union {v}
<1>1. /\ Append(q, v) \in Seq(S)
      /\ DOMAIN Append(q, v) = 1 .. Len(q) + 1
      /\ \A i \in 1 .. Len(q) : Append(q, v)[i] = q[i]
      /\ Append(q, v)[Len(q) + 1] = v
      /\ DOMAIN q = 1 .. Len(q) /\ Len(q) \in Nat
    OBVIOUS
<1>2. Elements(Append(q, v)) = Elements(q) \union {v}
    BY <1>1 DEF Elements
<1>3. QED
    BY <1>1, <1>2

\* WaitAndPop returning an element: the rest moves up by one place.
LEMMA PoppedQueue ==
    ASSUME NEW S, NEW q \in Seq(S), q # << >>
    PROVE  /\ Head(q) \in S
           /\ Head(q) = q[1]
           /\ 1 \in DOMAIN q
           /\ Tail(q) \in Seq(S)
           /\ DOMAIN q = 1 .. Len(q) /\ Len(q) \in Nat \ {0}
           /\ Len(Tail(q)) = Len(q) - 1
           /\ DOMAIN Tail(q) = 1 .. Len(q) - 1
           /\ \A i \in DOMAIN Tail(q) : i + 1 \in DOMAIN q /\ Tail(q)[i] = q[i + 1]
           /\ Elements(q) = Elements(Tail(q)) \union {Head(q)}
<1>1. /\ Head(q) \in S
      /\ Head(q) = q[1]
      /\ 1 \in DOMAIN q
      /\ Tail(q) \in Seq(S)
      /\ DOMAIN q = 1 .. Len(q) /\ Len(q) \in Nat \ {0}
      /\ Len(Tail(q)) = Len(q) - 1
      /\ DOMAIN Tail(q) = 1 .. Len(q) - 1
      /\ \A i \in DOMAIN Tail(q) : i + 1 \in DOMAIN q /\ Tail(q)[i] = q[i + 1]
    OBVIOUS
<1>2. Elements(Tail(q)) \union {Head(q)} \subseteq Elements(q)
    BY <1>1 DEF Elements
<1>3. ASSUME NEW i \in DOMAIN q
      PROVE  q[i] \in Elements(Tail(q)) \union {Head(q)}
    <2>1. CASE i = 1
        BY <2>1, <1>1
    <2>2. CASE i # 1
        <3>1. i - 1 \in DOMAIN Tail(q) /\ Tail(q)[i - 1] = q[i]
            BY <2>2, <1>1
        <3>2. QED
            BY <3>1 DEF Elements
    <2>3. QED
        BY <2>1, <2>2
<1>4. QED
    BY <1>1, <1>2, <1>3 DEF Elements

\* In a queue without repetitions the element that is popped is gone.
LEMMA PoppedElementGone ==
    ASSUME NEW S, NEW q \in Seq(S), q # << >>,
           \A i, j \in DOMAIN q : q[i] = q[j] => i = j
    PROVE  Head(q) \notin Elements(Tail(q))
<1>1. SUFFICES ASSUME NEW i \in DOMAIN Tail(q), Tail(q)[i] = Head(q)
               PROVE  FALSE
    BY DEF Elements
<1>2. i + 1 \in DOMAIN q /\ q[i + 1] = q[1] /\ 1 \in DOMAIN q /\ i \in Nat /\ i >= 1
    BY <1>1, PoppedQueue
<1>3. QED
    BY <1>2

-----------------------------------------------------------------------------
(* Types.                                                                  *)

\* What an action leaves of the queue's variables is well typed.
LEMMA NotifyType ==
    ASSUME waiting \in SUBSET Workers, Q!NotifyOne
    PROVE  waiting' \in SUBSET Workers
BY DEF Q!NotifyOne

\* Every action preserves the type invariant.
LEMMA TypeStep == TypeOK /\ Coherent /\ [Next]_vars => TypeOK'
<1> SUFFICES ASSUME TypeOK, Coherent, [Next]_vars PROVE TypeOK'
    OBVIOUS
<1> USE ConstantsAssumption DEF TypeOK, Ops, None, workerVars, closeVars, record
<1>1. CASE Enqueue
    <2>1. submitted + 1 \in Ops /\ submitted' \in 0 .. MaxOps
        BY <1>1 DEF Enqueue
    <2>2. queue' \in Seq(Ops)
        BY <1>1, <2>1, PushedQueue DEF Enqueue, Q!Push
    <2>3. waiting' \in SUBSET Workers
        BY <1>1, NotifyType DEF Enqueue, Q!Push
    <2>4. QED
        BY <1>1, <2>1, <2>2, <2>3 DEF Enqueue, Q!Push
<1>2. ASSUME NEW w \in Workers, WorkerWait(w) PROVE TypeOK'
    BY <1>2 DEF WorkerWait, Q!Wait
<1>3. ASSUME NEW w \in Workers, WorkerSpuriousWake(w) PROVE TypeOK'
    BY <1>3 DEF WorkerSpuriousWake, Q!SpuriousWake
<1>4. ASSUME NEW w \in Workers, WorkerPop(w) PROVE TypeOK'
    <2>1. Head(queue) \in Ops /\ Tail(queue) \in Seq(Ops)
        BY <1>4, PoppedQueue DEF WorkerPop, Q!PopFront
    <2>2. QED
        BY <1>4, <2>1 DEF WorkerPop, Q!PopFront, GoTo
<1>5. ASSUME NEW w \in Workers, WorkerPopNothing(w) PROVE TypeOK'
    BY <1>5 DEF WorkerPopNothing, Q!PopNothing, Q!queueVars, GoTo
<1>6. ASSUME NEW w \in Workers, WorkerExit(w) PROVE TypeOK'
    BY <1>6 DEF WorkerExit, GoTo
<1>7. ASSUME NEW w \in Workers, WorkerCall(w) PROVE TypeOK'
    BY <1>7 DEF WorkerCall, GoTo
<1>8. ASSUME NEW w \in Workers, WorkerDone(w) PROVE TypeOK'
    BY <1>8 DEF WorkerDone, GoTo, Coherent
<1>9. ASSUME NEW w \in Workers, SetToken(w) PROVE TypeOK'
    BY <1>9 DEF SetToken
<1>10. CASE CancelQueue
    <2>1. queue' \in Seq(Ops) /\ Queued \subseteq Ops
        BY <1>10 DEF CancelQueue, Q!Cancel, Queued
    <2>2. QED
        BY <1>10, <2>1 DEF CancelQueue, Q!Cancel
<1>11. CASE Join
    BY <1>11 DEF Join
<1>12. CASE UNCHANGED vars
    BY <1>12 DEF vars
<1>13. QED
    BY <1>1, <1>2, <1>3, <1>4, <1>5, <1>6, <1>7, <1>8, <1>9, <1>10, <1>11, <1>12
       DEF Next, WorkerStep, CloseStep, Closed

-----------------------------------------------------------------------------
(* The threads' local variables.                                           *)

\* Every action preserves Coherent: in particular no worker comes to call()
\* without an operation, and Cancel leaves nothing behind in the queue.
LEMMA CoherentStep == TypeOK /\ Coherent /\ [Next]_vars => Coherent'
<1> SUFFICES ASSUME TypeOK, Coherent, [Next]_vars PROVE Coherent'
    OBVIOUS
<1> USE DEF TypeOK, Coherent, workerVars, closeVars, record
<1>1. CASE Enqueue
    BY <1>1 DEF Enqueue, Q!Push, Q!NotifyOne
<1>2. ASSUME NEW w \in Workers, WorkerWait(w) PROVE Coherent'
    BY <1>2 DEF WorkerWait, Q!Wait
<1>3. ASSUME NEW w \in Workers, WorkerSpuriousWake(w) PROVE Coherent'
    BY <1>3 DEF WorkerSpuriousWake, Q!SpuriousWake
<1>4. ASSUME NEW w \in Workers, WorkerPop(w) PROVE Coherent'
    BY <1>4 DEF WorkerPop, Q!PopFront, GoTo
<1>5. ASSUME NEW w \in Workers, WorkerPopNothing(w) PROVE Coherent'
    BY <1>5 DEF WorkerPopNothing, Q!PopNothing, Q!queueVars, GoTo
<1>6. ASSUME NEW w \in Workers, WorkerExit(w) PROVE Coherent'
    BY <1>6 DEF WorkerExit, GoTo
<1>7. ASSUME NEW w \in Workers, WorkerCall(w) PROVE Coherent'
    BY <1>7 DEF WorkerCall, GoTo
<1>8. ASSUME NEW w \in Workers, WorkerDone(w) PROVE Coherent'
    BY <1>8 DEF WorkerDone, GoTo
<1>9. ASSUME NEW w \in Workers, SetToken(w) PROVE Coherent'
    BY <1>9 DEF SetToken
<1>10. CASE CancelQueue
    BY <1>10 DEF CancelQueue, Q!Cancel
<1>11. CASE Join
    BY <1>11 DEF Join
<1>12. CASE UNCHANGED vars
    BY <1>12 DEF vars
<1>13. QED
    BY <1>1, <1>2, <1>3, <1>4, <1>5, <1>6, <1>7, <1>8, <1>9, <1>10, <1>11, <1>12
       DEF Next, WorkerStep, CloseStep, Closed

-----------------------------------------------------------------------------
(* What becomes of the operations.                                         *)

\* The operations in workers' hands after w has put its own down.
LEMMA HeldLess ==
    ASSUME TypeOK, OneOwner, NEW w \in Workers, op' = [op EXCEPT ![w] = None]
    PROVE  Held' = Held \ {op[w]}
<1>1. op'[w] = None /\ \A v \in Workers \ {w} : op'[v] = op[v]
    BY DEF TypeOK
<1>2. \A v \in Workers \ {w} : op[v] # None => op[v] # op[w]
    BY DEF OneOwner
<1>3. Held' \subseteq Held \ {op[w]}
    BY <1>1, <1>2 DEF Held
<1>4. Held \ {op[w]} \subseteq Held'
    BY <1>1 DEF Held
<1>5. QED
    BY <1>3, <1>4

\* The operations in workers' hands after w, which had none, has taken o.
LEMMA HeldMore ==
    ASSUME TypeOK, NEW w \in Workers, NEW o, o # None, op[w] = None,
           op' = [op EXCEPT ![w] = o]
    PROVE  Held' = Held \union {o}
<1>1. op'[w] = o /\ \A v \in Workers \ {w} : op'[v] = op[v]
    BY DEF TypeOK
<1>2. Held' \subseteq Held \union {o}
    BY <1>1 DEF Held
<1>3. Held \union {o} \subseteq Held'
    BY <1>1 DEF Held
<1>4. QED
    BY <1>2, <1>3

\* A step that moves no operation preserves Fate.
LEMMA FateUnmoved ==
    ASSUME Fate, UNCHANGED <<queue, op, submitted, executed, dropped>>
    PROVE  Fate'
BY DEF Fate, OneOwner, Ordered, NoOvertakingInQueue, Queued, Held

\* A new operation is the youngest, and in the queue only.
LEMMA FateOfEnqueue ==
    ASSUME TypeOK, Fate, Enqueue
    PROVE  Fate'
<1> DEFINE n == submitted + 1
<1> USE DEF Fate
<1>1. /\ queue' = Append(queue, n) /\ submitted' = n
      /\ UNCHANGED <<op, executed, dropped>>
      /\ n \in Ops /\ submitted \in Nat /\ queue \in Seq(Ops)
    BY ConstantsAssumption DEF TypeOK, Ops, Enqueue, Q!Push, workerVars
<1>2. /\ DOMAIN queue = 1 .. Len(queue) /\ Len(queue) \in Nat
      /\ DOMAIN queue' = 1 .. Len(queue) + 1
      /\ \A i \in DOMAIN queue : queue'[i] = queue[i]
      /\ queue'[Len(queue) + 1] = n
    BY <1>1, PushedQueue
<1>3. Queued' = Queued \union {n} /\ Held' = Held
    BY <1>1, PushedQueue DEF Elements, Queued, Held
<1>4. \A o \in Queued \union Held \union executed \union dropped : o \in Nat /\ o < n
    BY <1>1 DEF OneOwner
<1>5. \A i \in DOMAIN queue : queue[i] \in Nat /\ queue[i] < n
    BY <1>4 DEF Queued
<1>6. Ordered'
    BY <1>2, <1>5 DEF Ordered
<1>7. NoOvertakingInQueue'
    <2>1. \A o \in executed \union Held : \A i \in DOMAIN queue' : o < queue'[i]
        BY <1>2, <1>4 DEF NoOvertakingInQueue
    <2>2. QED
        BY <2>1, <1>1, <1>3 DEF NoOvertakingInQueue
<1>8. OneOwner'
    <2>1. 1 .. n = (1 .. submitted) \union {n}
        BY <1>1
    <2>2. n \notin Queued \union Held \union executed \union dropped
        BY <1>4
    <2>3. \A i, j \in DOMAIN queue' : queue'[i] = queue'[j] => i = j
        BY <1>2, <1>5 DEF OneOwner
    <2>4. QED
        BY <1>1, <1>3, <2>1, <2>2, <2>3 DEF OneOwner
<1>9. QED
    BY <1>6, <1>7, <1>8

\* The operation popped is the oldest one queued, and from then on in the hands
\* of one worker only.
LEMMA FateOfPop ==
    ASSUME TypeOK, Coherent, Fate, NEW w \in Workers, WorkerPop(w)
    PROVE  /\ Fate'
           /\ Head(queue) \in Ops
           /\ Held' = Held \union {Head(queue)}
<1> DEFINE h == Head(queue)
<1> USE DEF Fate
<1>1. /\ queue # << >> /\ queue \in Seq(Ops) /\ queue' = Tail(queue)
      /\ op[w] = None /\ op' = [op EXCEPT ![w] = h]
      /\ UNCHANGED <<submitted, executed, dropped>>
    BY DEF TypeOK, Coherent, WorkerPop, Q!PopFront, record
<1>2. /\ h \in Ops /\ h = queue[1] /\ 1 \in DOMAIN queue
      /\ DOMAIN queue = 1 .. Len(queue) /\ Len(queue) \in Nat
      /\ DOMAIN queue' = 1 .. Len(queue) - 1
      /\ \A i \in DOMAIN queue' : i + 1 \in DOMAIN queue /\ queue'[i] = queue[i + 1]
    BY <1>1, PoppedQueue
<1>3. h # None
    BY <1>2, ConstantsAssumption DEF Ops, None
<1>4. Held' = Held \union {h}
    BY <1>1, <1>3, HeldMore
<1>5. Queued = Queued' \union {h}
    <2>1. Elements(queue) = Elements(Tail(queue)) \union {Head(queue)}
        BY <1>1, PoppedQueue
    <2>2. QED
        BY <1>1, <2>1 DEF Elements, Queued
<1>6. h \notin Queued'
    BY <1>1, PoppedElementGone DEF Elements, Queued, OneOwner
<1>7. Ordered'
    BY <1>2 DEF Ordered
<1>8. NoOvertakingInQueue'
    <2>1. \A i \in DOMAIN queue' : h < queue'[i]
        BY <1>2 DEF Ordered
    <2>2. \A o \in executed \union Held : \A i \in DOMAIN queue' : o < queue'[i]
        BY <1>2 DEF NoOvertakingInQueue
    <2>3. QED
        BY <2>1, <2>2, <1>1, <1>4 DEF NoOvertakingInQueue
<1>9. OneOwner'
    <2>1. \A i, j \in DOMAIN queue' : queue'[i] = queue'[j] => i = j
        BY <1>2 DEF OneOwner
    <2>2. h \notin Held
        BY <1>5 DEF OneOwner
    <2>3. op'[w] = h /\ \A v \in Workers \ {w} : op'[v] = op[v]
        BY <1>1 DEF TypeOK
    <2>4. \A v \in Workers : op[v] # h
        BY <2>2, <1>3 DEF Held
    <2>5. \A u, v \in Workers : op'[u] = op'[v] /\ op'[u] # None => u = v
        BY <2>3, <2>4 DEF OneOwner
    <2>6. QED
        BY <1>1, <1>4, <1>5, <1>6, <2>1, <2>5 DEF OneOwner
<1>10. QED
    BY <1>2, <1>4, <1>7, <1>8, <1>9

\* A worker whose token is set abandons what it holds, if anything.
LEMMA FateOfExit ==
    ASSUME TypeOK, Fate, NEW w \in Workers, WorkerExit(w)
    PROVE  Fate' /\ Held' = Held \ {op[w]}
<1> USE DEF Fate
<1>1. /\ UNCHANGED <<queue, submitted, executed>>
      /\ dropped' = dropped \union ({op[w]} \ {None})
      /\ op' = [op EXCEPT ![w] = None]
    BY DEF WorkerExit
<1>2. Held' = Held \ {op[w]} /\ Queued' = Queued
    BY <1>1, HeldLess DEF Queued
<1>3. op[w] \in Held \/ op[w] = None
    BY DEF Held
<1>4. op'[w] = None /\ \A v \in Workers \ {w} : op'[v] = op[v]
    BY <1>1 DEF TypeOK
<1>5. None \notin Held
    BY DEF Held
<1>6. OneOwner'
    BY <1>1, <1>2, <1>3, <1>4, <1>5 DEF OneOwner
<1>7. Ordered' /\ NoOvertakingInQueue'
    BY <1>1, <1>2 DEF Ordered, NoOvertakingInQueue
<1>8. QED
    BY <1>2, <1>6, <1>7

\* An operation whose call() returns goes from its worker to the executed ones.
LEMMA FateOfDone ==
    ASSUME TypeOK, Coherent, Fate, NEW w \in Workers, WorkerDone(w)
    PROVE  /\ Fate'
           /\ op[w] \in Held
           /\ Held' = Held \ {op[w]}
<1> USE DEF Fate
<1>1. /\ UNCHANGED <<queue, submitted, dropped>>
      /\ executed' = executed \union {op[w]}
      /\ op' = [op EXCEPT ![w] = None]
    BY DEF WorkerDone
<1>2. Held' = Held \ {op[w]} /\ Queued' = Queued
    BY <1>1, HeldLess DEF Queued
<1>3. op[w] \in Held
    BY DEF WorkerDone, Coherent, Held
<1>4. op'[w] = None /\ \A v \in Workers \ {w} : op'[v] = op[v]
    BY <1>1 DEF TypeOK
<1>5. OneOwner'
    BY <1>1, <1>2, <1>3, <1>4 DEF OneOwner
<1>6. Ordered' /\ NoOvertakingInQueue'
    BY <1>1, <1>2, <1>3 DEF Ordered, NoOvertakingInQueue
<1>7. QED
    BY <1>2, <1>3, <1>5, <1>6

\* Cancel deletes what is queued and nothing else.
LEMMA FateOfCancel ==
    ASSUME TypeOK, Fate, CancelQueue
    PROVE  Fate'
<1> USE DEF Fate
<1>1. /\ queue' = << >>
      /\ dropped' = dropped \union Queued
      /\ UNCHANGED <<op, submitted, executed>>
    BY DEF CancelQueue, Q!Cancel, workerVars
<1>2. Queued' = {} /\ Held' = Held /\ DOMAIN queue' = {}
    BY <1>1 DEF Queued, Held
<1>3. OneOwner'
    BY <1>1, <1>2 DEF OneOwner
<1>4. Ordered' /\ NoOvertakingInQueue'
    BY <1>2 DEF Ordered, NoOvertakingInQueue
<1>5. QED
    BY <1>3, <1>4

\* Every action preserves Fate.
LEMMA FateStep == TypeOK /\ Coherent /\ Fate /\ [Next]_vars => Fate'
<1> SUFFICES ASSUME TypeOK, Coherent, Fate, [Next]_vars PROVE Fate'
    OBVIOUS
<1> USE DEF workerVars, closeVars, record
<1>1. CASE Enqueue
    BY <1>1, FateOfEnqueue
<1>2. ASSUME NEW w \in Workers, WorkerWait(w) PROVE Fate'
    BY <1>2, FateUnmoved DEF WorkerWait, Q!Wait
<1>3. ASSUME NEW w \in Workers, WorkerSpuriousWake(w) PROVE Fate'
    BY <1>3, FateUnmoved DEF WorkerSpuriousWake, Q!SpuriousWake
<1>4. ASSUME NEW w \in Workers, WorkerPop(w) PROVE Fate'
    BY <1>4, FateOfPop
<1>5. ASSUME NEW w \in Workers, WorkerPopNothing(w) PROVE Fate'
    BY <1>5, FateUnmoved DEF WorkerPopNothing, Q!PopNothing, Q!queueVars
<1>6. ASSUME NEW w \in Workers, WorkerExit(w) PROVE Fate'
    BY <1>6, FateOfExit
<1>7. ASSUME NEW w \in Workers, WorkerCall(w) PROVE Fate'
    BY <1>7, FateUnmoved DEF WorkerCall
<1>8. ASSUME NEW w \in Workers, WorkerDone(w) PROVE Fate'
    BY <1>8, FateOfDone
<1>9. ASSUME NEW w \in Workers, SetToken(w) PROVE Fate'
    BY <1>9, FateUnmoved DEF SetToken
<1>10. CASE CancelQueue
    BY <1>10, FateOfCancel
<1>11. CASE Join
    BY <1>11, FateUnmoved DEF Join
<1>12. CASE UNCHANGED vars
    BY <1>12, FateUnmoved DEF vars
<1>13. QED
    BY <1>1, <1>2, <1>3, <1>4, <1>5, <1>6, <1>7, <1>8, <1>9, <1>10, <1>11, <1>12
       DEF Next, WorkerStep, CloseStep, Closed

-----------------------------------------------------------------------------
(* Threads that are joined and threads that sleep.                         *)

\* A thread that has left WorkerThread stays out of it, and Close goes on only
\* when the threads of all the connections it has begun to destroy are out.
LEMMA CallsStep ==
    TypeOK /\ CallsAreLive /\ Coherent' /\ Fate' /\ [Next]_vars => CallsAreLive'
<1> SUFFICES ASSUME TypeOK, CallsAreLive, Coherent', Fate', [Next]_vars
             PROVE  CallsAreLive'
    OBVIOUS
<1>1. \A w \in Workers : pc'[w] = "call" => op'[w] \in 1 .. submitted'
    BY DEF Coherent, Fate, OneOwner, Held
<1>2. ASSUME NEW w \in Workers, pc[w] = "exited" PROVE pc'[w] = "exited"
    BY <1>2 DEF TypeOK, Next, WorkerStep, CloseStep, Closed, Enqueue, WorkerWait,
          WorkerSpuriousWake, WorkerPop, WorkerPopNothing, WorkerExit, WorkerCall,
          WorkerDone, SetToken, CancelQueue, Join, GoTo, workerVars, vars
<1>3. CASE \E w \in Workers : SetToken(w)
    BY <1>1, <1>3 DEF SetToken, CallsAreLive
<1>4. CASE CancelQueue
    BY <1>1, <1>4 DEF CancelQueue, CallsAreLive
<1>5. CASE Join
    BY <1>1, <1>5 DEF Join, CallsAreLive, workerVars
<1>6. CASE UNCHANGED <<closer, victim>>
    BY <1>1, <1>2, <1>6 DEF TypeOK, CallsAreLive
<1>7. QED
    BY <1>3, <1>4, <1>5, <1>6 DEF Next, WorkerStep, CloseStep, Closed, Enqueue,
       WorkerWait, WorkerSpuriousWake, WorkerPop, WorkerPopNothing, WorkerExit,
       WorkerCall, WorkerDone, closeVars, vars

\* The threads that are on their way to the queue.
Awake == {w \in Workers \ waiting : pc[w] = "pop"}

\* With an empty queue no worker can be missed.
LEMMA NothingQueued ==
    ASSUME queue' = << >>
    PROVE  NoWastedWorker'
<1>1. IsFiniteSet(Awake')
    BY ConstantsAssumption, FS_Subset DEF Awake
<1>2. Cardinality(Awake') \in Nat
    BY <1>1, FS_CardinalityType
<1>3. QED
    BY <1>2 DEF NoWastedWorker, Awake

\* More threads awake for the same queue do no harm.
LEMMA MoreAwake ==
    ASSUME TypeOK, NoWastedWorker, queue' = queue, waiting' \subseteq waiting,
           Awake \subseteq Awake'
    PROVE  NoWastedWorker'
<1>1. IsFiniteSet(Awake')
    BY ConstantsAssumption, FS_Subset DEF Awake
<1>2. /\ Cardinality(Awake) <= Cardinality(Awake')
      /\ Cardinality(Awake) \in Nat /\ Cardinality(Awake') \in Nat
    BY <1>1, FS_Subset, FS_CardinalityType
<1>3. Len(queue) \in Nat
    BY DEF TypeOK
<1>4. QED
    BY <1>2, <1>3 DEF NoWastedWorker, Awake

\* notify_one in every Push is enough.
LEMMA WastedStep ==
    TypeOK /\ Coherent /\ NoWastedWorker /\ [Next]_vars => NoWastedWorker'
<1> SUFFICES ASSUME TypeOK, Coherent, NoWastedWorker, [Next]_vars
             PROVE  NoWastedWorker'
    OBVIOUS
<1> USE DEF TypeOK, workerVars, closeVars, record
<1>0. IsFiniteSet(Awake) /\ Cardinality(Awake) \in Nat
    BY ConstantsAssumption, FS_Subset, FS_CardinalityType DEF Awake
<1>1. CASE Enqueue
    <2>1. CASE waiting = {}
        BY <1>1, <2>1 DEF Enqueue, Q!Push, Q!NotifyOne, NoWastedWorker
    <2>2. CASE waiting # {}
        <3>1. PICK t \in waiting : waiting' = waiting \ {t}
            BY <1>1, <2>2 DEF Enqueue, Q!Push, Q!NotifyOne
        <3>2. t \notin Awake /\ Awake' = Awake \union {t}
            BY <1>1, <3>1 DEF Enqueue, Coherent, Awake
        <3>3. Cardinality(Awake') = Cardinality(Awake) + 1
            BY <1>0, <3>2, FS_AddElement
        <3>4. Len(queue') = Len(queue) + 1 /\ Len(queue) \in Nat
            BY <1>1 DEF Enqueue, Q!Push
        <3>5. QED
            BY <1>0, <2>2, <3>3, <3>4 DEF NoWastedWorker, Awake
    <2>3. QED
        BY <2>1, <2>2
<1>2. ASSUME NEW w \in Workers, WorkerWait(w) PROVE NoWastedWorker'
    BY <1>2, NothingQueued DEF WorkerWait, Q!Wait
<1>3. ASSUME NEW w \in Workers, WorkerSpuriousWake(w) PROVE NoWastedWorker'
    BY <1>3, MoreAwake DEF WorkerSpuriousWake, Q!SpuriousWake, Awake
<1>4. ASSUME NEW w \in Workers, WorkerPop(w) PROVE NoWastedWorker'
    <2>1. w \in Awake /\ Awake' = Awake \ {w} /\ waiting' = waiting
        BY <1>4 DEF WorkerPop, Q!PopFront, GoTo, Awake
    <2>2. Cardinality(Awake') = Cardinality(Awake) - 1
        BY <1>0, <2>1, FS_RemoveElement
    <2>3. Len(queue') = Len(queue) - 1 /\ Len(queue) \in Nat
        BY <1>4, PoppedQueue DEF WorkerPop, Q!PopFront
    <2>4. QED
        BY <1>0, <2>1, <2>2, <2>3 DEF NoWastedWorker, Awake
<1>5. ASSUME NEW w \in Workers, WorkerPopNothing(w) PROVE NoWastedWorker'
    BY <1>5, NothingQueued DEF WorkerPopNothing, Q!PopNothing, Q!queueVars, Coherent
<1>6. ASSUME NEW w \in Workers, WorkerExit(w) PROVE NoWastedWorker'
    BY <1>6, MoreAwake DEF WorkerExit, GoTo, Awake
<1>7. ASSUME NEW w \in Workers, WorkerCall(w) PROVE NoWastedWorker'
    BY <1>7, MoreAwake DEF WorkerCall, GoTo, Awake
<1>8. ASSUME NEW w \in Workers, WorkerDone(w) PROVE NoWastedWorker'
    BY <1>8, MoreAwake DEF WorkerDone, GoTo, Awake
<1>9. ASSUME NEW w \in Workers, SetToken(w) PROVE NoWastedWorker'
    BY <1>9, MoreAwake DEF SetToken, Awake
<1>10. CASE CancelQueue
    BY <1>10 DEF CancelQueue, Q!Cancel, NoWastedWorker
<1>11. CASE Join
    BY <1>11, MoreAwake DEF Join, Awake
<1>12. CASE UNCHANGED vars
    BY <1>12, MoreAwake DEF vars, Awake
<1>13. QED
    BY <1>1, <1>2, <1>3, <1>4, <1>5, <1>6, <1>7, <1>8, <1>9, <1>10, <1>11, <1>12
       DEF Next, WorkerStep, CloseStep, Closed

-----------------------------------------------------------------------------
(* The theorems.                                                           *)

\* The inductive invariant holds when the pool has been opened.
LEMMA InvInit == Init => IInv
<1> SUFFICES ASSUME Init PROVE IInv
    OBVIOUS
<1> USE DEF Init, Q!Init, None
<1>1. TypeOK
    <2>1. queue \in Seq(Ops)
        OBVIOUS
    <2>2. 0 \in 0 .. MaxOps
        BY ConstantsAssumption
    <2>3. QED
        BY <2>1, <2>2 DEF TypeOK
<1>2. Coherent
    BY DEF Coherent
<1>3. Queued = {} /\ Held = {} /\ DOMAIN queue = {}
    BY DEF Queued, Held
<1>4. Fate
    BY <1>3 DEF Fate, OneOwner, Ordered, NoOvertakingInQueue
<1>5. CallsAreLive /\ NoWastedWorker
    BY DEF CallsAreLive, NoWastedWorker
<1>6. QED
    BY <1>1, <1>2, <1>4, <1>5 DEF IInv

\* Every step of a caller, a worker or Close preserves it.
LEMMA InvStep == IInv /\ [Next]_vars => IInv'
BY TypeStep, CoherentStep, FateStep, CallsStep, WastedStep DEF IInv

\* So it holds throughout.
LEMMA Invariance == Spec => []IInv
BY InvInit, InvStep, PTL DEF Spec

\* The state keeps its types (DatabaseWorker, PCQueue).
THEOREM TypeCorrect == Spec => []TypeOK
BY Invariance, PTL DEF IInv

\* Whatever Enqueue, WorkerThread and Close do in which order, an operation is
\* queued, held by one worker, executed or discarded, and never two of these.
THEOREM OwnerCorrect == Spec => []OneOwner
BY Invariance, PTL DEF IInv, Fate

\* Operations leave the queue in the order of their Enqueue calls, for any number
\* of worker threads.
THEOREM OrderCorrect == Spec => []NoOvertakingInQueue
BY Invariance, PTL DEF IInv, Fate

\* WorkerThread never calls through a null or a foreign operation, and none runs
\* on a connection whose destructor has joined its thread.
THEOREM CallsCorrect == Spec => []CallsAreLive
BY Invariance, PTL DEF IInv

\* Push's notify_one never leaves a worker asleep that is needed.
THEOREM NotifyCorrect == Spec => []NoWastedWorker
BY Invariance, PTL DEF IInv

-----------------------------------------------------------------------------
(* The refinement.                                                         *)

\* Every step of the threads is one of the abstract executor's, or leaves what
\* the executor shows as it is.
LEMMA ExecutorStep == IInv /\ [Next]_vars => [Executor!Next]_(Executor!vars)
<1> SUFFICES ASSUME IInv, [Next]_vars
             PROVE  Executor!Next \/ UNCHANGED Executor!vars
    OBVIOUS
<1> USE DEF IInv, workerVars, closeVars, record
<1> DEFINE Stutter == UNCHANGED <<closer # "open", submitted, queue, Held, executed, dropped>>
<1>0. Stutter => UNCHANGED Executor!vars
    BY DEF Executor!vars
<1>1. CASE Enqueue
    BY <1>1 DEF Enqueue, Q!Push, Held, Executor!Submit, Executor!Next
<1>2. ASSUME NEW w \in Workers, WorkerWait(w) PROVE Stutter
    BY <1>2 DEF WorkerWait, Q!Wait, Held
<1>3. ASSUME NEW w \in Workers, WorkerSpuriousWake(w) PROVE Stutter
    BY <1>3 DEF WorkerSpuriousWake, Q!SpuriousWake, Held
<1>4. ASSUME NEW w \in Workers, WorkerPop(w) PROVE Executor!Next
    BY <1>4, FateOfPop DEF WorkerPop, Q!PopFront, Executor!Claim, Executor!Next
<1>5. ASSUME NEW w \in Workers, WorkerPopNothing(w) PROVE Stutter
    BY <1>5 DEF WorkerPopNothing, Q!PopNothing, Q!queueVars, Held
<1>6. ASSUME NEW w \in Workers, WorkerExit(w) PROVE Executor!Next \/ Stutter
    <2>1. /\ Held' = Held \ {op[w]}
          /\ dropped' = dropped \union ({op[w]} \ {None})
          /\ UNCHANGED <<closer, submitted, queue, executed>>
        BY <1>6, FateOfExit DEF WorkerExit
    <2>2. CASE op[w] = None
        BY <2>1, <2>2 DEF Held
    <2>3. CASE op[w] # None
        <3>1. closer # "open" /\ op[w] \in Held /\ op[w] \in 1 .. MaxOps
            BY <1>6, <2>3 DEF WorkerExit, Coherent, Held, TypeOK, Ops
        <3>2. Executor!DropClaimed(op[w])
            BY <2>1, <2>3, <3>1 DEF Executor!DropClaimed
        <3>3. QED
            BY <3>1, <3>2 DEF Executor!Next
    <2>4. QED
        BY <2>2, <2>3
<1>7. ASSUME NEW w \in Workers, WorkerCall(w) PROVE Stutter
    BY <1>7 DEF WorkerCall, Held
<1>8. ASSUME NEW w \in Workers, WorkerDone(w) PROVE Executor!Next
    <2>1. op[w] \in Held /\ op[w] \in 1 .. MaxOps /\ Held' = Held \ {op[w]}
        BY <1>8, FateOfDone DEF WorkerDone, TypeOK, Ops, None, Held
    <2>2. Executor!Finish(op[w])
        BY <1>8, <2>1 DEF WorkerDone, Executor!Finish
    <2>3. QED
        BY <2>1, <2>2 DEF Executor!Next
<1>9. ASSUME NEW w \in Workers, SetToken(w) PROVE Executor!Next
    BY <1>9 DEF SetToken, Held, Executor!Close, Executor!Next
<1>10. CASE CancelQueue
    <2>1. closer = "cancel" /\ closer' = "join" /\ Held' = Held
        BY <1>10 DEF CancelQueue, Held
    <2>2. Executor!DropBacklog
        BY <1>10, <2>1 DEF CancelQueue, Q!Cancel, Queued, Executor!DropBacklog
    <2>3. QED
        BY <2>2 DEF Executor!Next
<1>11. ASSUME Join PROVE Stutter
    <2>1. closer # "open" /\ closer' # "open"
        BY <1>11 DEF Join
    <2>2. QED
        BY <1>11, <2>1 DEF Join, Held
<1>12. ASSUME UNCHANGED vars PROVE Stutter
    BY <1>12 DEF vars, Held
<1>13. QED
    BY <1>0, <1>1, <1>2, <1>3, <1>4, <1>5, <1>6, <1>7, <1>8, <1>9, <1>10, <1>11, <1>12
       DEF Next, WorkerStep, CloseStep, Closed

\* The worker threads, their shared queue and Close implement AsyncExecutor:
\* operations are claimed in submission order, executed at most once, and
\* discarded only once the pool closes.
THEOREM ExecutorCorrect == Spec => ImplementsExecutor
<1>1. Init => Executor!Init
    BY DEF Init, Q!Init, Held, Executor!Init
<1>2. QED
    BY <1>1, Invariance, ExecutorStep, PTL DEF Spec, ImplementsExecutor, Executor!Spec
=============================================================================

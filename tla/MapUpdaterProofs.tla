-------------------------- MODULE MapUpdaterProofs --------------------------
(***************************************************************************)
(* Proofs about MapUpdater, for every number of threads, maps and          *)
(* instances: the types, the counter of the barrier and what it protects.  *)
(***************************************************************************)
EXTENDS MapUpdater, FiniteSetTheorems, TLAPS

-----------------------------------------------------------------------------
(* The inductive invariant.                                                *)

\* Where the world thread is, and what it has not done there.
Phases ==
    /\ main \notin {"schedule", "wait"} => pending = 0
    /\ main # "schedule" => toSchedule = {}
    /\ cancel <=> main \in {"deactivate", "cancel", "join", "stopped"}
    /\ shutdown => cancel

\* What the local variables of the workers say of one another.
Locals ==
    /\ NoNullRequest
    /\ \A w \in Workers : pc[w] = "pop" => req[w] = None
    /\ \A w \in Workers : pc[w] = "check" /\ req[w] = None => cancel
    /\ \A w \in Workers : pc[w] # "call" => todo[w] = {}
    /\ \A w \in Workers : \A i \in todo[w] : BaseOf[i] = req[w]

\* The requests of this tick, or of the last one when the next has not begun.
Requested == Queued \union Held \union updated

\* What is still to be requested has not been, and an instance is requested only
\* by a worker that has come to the instances of its base map.
Fresh ==
    /\ toSchedule \intersect Requested = {}
    /\ \A w \in Workers : todo[w] \intersect Requested = {}
    /\ \A i \in Instances \intersect Requested :
          \/ BaseOf[i] \in updated
          \/ \E w \in Workers : pc[w] = "call" /\ req[w] = BaseOf[i]

\* The base maps whose instances have still to be looked at.
Unvisited ==
    toSchedule \union Queued \union {req[w] : w \in {v \in Workers : pc[v] = "check"}}

\* In a tick nothing is forgotten: what has not been requested will be.
NothingForgotten ==
    main \in {"schedule", "wait", "delayed"} =>
        /\ LFG \in Requested
        /\ BaseMaps \subseteq toSchedule \union Requested
        /\ \A i \in live :
              \/ i \in Requested \union skipped
              \/ \E w \in Workers : i \in todo[w]
              \/ BaseOf[i] \in Unvisited

IInv ==
    /\ TypeOK
    /\ Phases
    /\ Locals
    /\ PendingIsExact
    /\ OneUpdatePerTick
    /\ Fresh
    /\ NoDanglingMap
    /\ NothingForgotten

-----------------------------------------------------------------------------
(* What the steps do to the requests.                                      *)

\* The type and the effect of schedule_update.
LEMMA Scheduled ==
    ASSUME TypeOK, NEW r \in Requests, ScheduleUpdate(r)
    PROVE  /\ queue' \in Seq(Requests) /\ shutdown' = shutdown
           /\ waiting' \in SUBSET Workers /\ waiting' \subseteq waiting
           /\ pending' \in Nat /\ pending' = pending + 1
           /\ Len(queue') = Len(queue) + 1 /\ Len(queue) \in Nat
           /\ Queued' = Queued \union {r}
           /\ OneUpdatePerTick /\ r \notin Queued =>
                 \A i, j \in DOMAIN queue' : queue'[i] = queue'[j] => i = j
<1>1. /\ queue \in Seq(Requests) /\ queue' = Append(queue, r)
      /\ shutdown' = shutdown /\ pending' = pending + 1
      /\ Len(queue') = Len(queue) + 1 /\ Len(queue) \in Nat
    BY DEF TypeOK, ScheduleUpdate, Q!Push
<1>2. waiting' \in SUBSET Workers /\ waiting' \subseteq waiting
    BY DEF TypeOK, ScheduleUpdate, Q!Push, Q!NotifyOne
<1>3. /\ queue' \in Seq(Requests)
      /\ DOMAIN queue' = 1 .. Len(queue) + 1
      /\ \A i \in 1 .. Len(queue) : queue'[i] = queue[i]
      /\ queue'[Len(queue) + 1] = r
      /\ DOMAIN queue = 1 .. Len(queue)
    BY <1>1
<1>4. Queued' = Queued \union {r}
    BY <1>1, <1>3 DEF Queued
<1>5. ASSUME OneUpdatePerTick, r \notin Queued
      PROVE  \A i, j \in DOMAIN queue' : queue'[i] = queue'[j] => i = j
    <2>1. DOMAIN queue = 1 .. Len(queue)
        BY <1>1
    <2>2. \A i \in DOMAIN queue : queue'[i] # r
        BY <1>3, <1>5, <2>1 DEF Queued
    <2>3. QED
        BY <1>1, <1>3, <1>5, <2>1, <2>2 DEF OneUpdatePerTick
<1>6. QED
    BY <1>1, <1>2, <1>3, <1>4, <1>5 DEF TypeOK

\* The number and the requests of the workers that have one are finite.
LEMMA BusyFinite == IsFiniteSet(Busy) /\ Cardinality(Busy) \in Nat
BY ConstantsAssumption, FS_Subset, FS_CardinalityType DEF Busy

\* A worker takes the request at the front of the queue into its hands.
LEMMA Popped ==
    ASSUME TypeOK, Locals, NEW w \in Workers, WorkerPop(w)
    PROVE  /\ queue # << >> /\ Head(queue) \in Requests
           /\ queue' \in Seq(Requests)
           /\ Len(queue') = Len(queue) - 1 /\ Len(queue) \in Nat \ {0}
           /\ Queued = Queued' \union {Head(queue)}
           /\ req[w] = None /\ req'[w] = Head(queue)
           /\ \A v \in Workers \ {w} : req'[v] = req[v] /\ pc'[v] = pc[v]
           /\ pc[w] = "pop" /\ pc'[w] = "check"
           /\ Held' = Held \union {Head(queue)}
           /\ w \notin Busy /\ Busy' = Busy \union {w}
           /\ OneUpdatePerTick =>
                 /\ Head(queue) \notin Queued'
                 /\ \A i, j \in DOMAIN queue' : queue'[i] = queue'[j] => i = j
<1>1. /\ queue \in Seq(Requests) /\ queue # << >> /\ queue' = Tail(queue)
      /\ req' = [req EXCEPT ![w] = Head(queue)]
      /\ pc' = [pc EXCEPT ![w] = "check"]
      /\ pc[w] = "pop" /\ req[w] = None
    BY DEF TypeOK, Locals, WorkerPop, Q!PopFront, GoTo
<1>2. /\ Head(queue) \in Requests
      /\ queue' \in Seq(Requests)
      /\ Len(queue') = Len(queue) - 1 /\ Len(queue) \in Nat \ {0}
      /\ \A i \in DOMAIN queue' : i + 1 \in DOMAIN queue /\ queue'[i] = queue[i + 1]
      /\ DOMAIN queue' = 1 .. Len(queue) - 1
      /\ Head(queue) = queue[1] /\ DOMAIN queue = 1 .. Len(queue)
    BY <1>1
<1>3. Queued = Queued' \union {Head(queue)}
    <2>1. Queued' \union {Head(queue)} \subseteq Queued
        BY <1>2 DEF Queued
    <2>2. ASSUME NEW i \in DOMAIN queue
          PROVE  queue[i] \in Queued' \union {Head(queue)}
        <3>1. CASE i = 1
            BY <3>1, <1>2
        <3>2. CASE i # 1
            <4>1. i - 1 \in DOMAIN queue' /\ queue'[i - 1] = queue[i]
                BY <3>2, <1>2
            <4>2. QED
                BY <4>1 DEF Queued
        <3>3. QED
            BY <3>1, <3>2
    <2>3. QED
        BY <2>1, <2>2 DEF Queued
<1>4. /\ req'[w] = Head(queue) /\ pc'[w] = "check"
      /\ \A v \in Workers \ {w} : req'[v] = req[v] /\ pc'[v] = pc[v]
    BY <1>1 DEF TypeOK
<1>5. Head(queue) # None
    BY <1>2, ConstantsAssumption
<1>6. w \notin Busy /\ Busy' = Busy \union {w} /\ Busy \subseteq Workers
    BY <1>1, <1>4, <1>5 DEF Busy
<1>7. Held' = Held \union {Head(queue)}
    <2>1. Held' \subseteq Held \union {Head(queue)}
        BY <1>4, <1>6 DEF Held
    <2>2. Held \union {Head(queue)} \subseteq Held'
        BY <1>4, <1>6 DEF Held
    <2>3. QED
        BY <2>1, <2>2
<1>8. ASSUME OneUpdatePerTick
      PROVE  /\ Head(queue) \notin Queued'
             /\ \A i, j \in DOMAIN queue' : queue'[i] = queue'[j] => i = j
    <2>1. \A i \in DOMAIN queue' : queue'[i] # Head(queue)
        <3>1. SUFFICES ASSUME NEW i \in DOMAIN queue', queue'[i] = Head(queue)
                       PROVE  FALSE
            OBVIOUS
        <3>2. i + 1 \in DOMAIN queue /\ 1 \in DOMAIN queue /\ queue[i + 1] = queue[1] /\ i >= 1
            BY <3>1, <1>2
        <3>3. QED
            BY <3>2, <1>8, <1>2 DEF OneUpdatePerTick
    <2>2. \A i, j \in DOMAIN queue' : queue'[i] = queue'[j] => i = j
        BY <1>2, <1>8 DEF OneUpdatePerTick
    <2>3. QED
        BY <2>1, <2>2 DEF Queued
<1>9. QED
    BY <1>1, <1>2, <1>3, <1>4, <1>6, <1>7, <1>8

\* A worker puts down the request it has finished.
LEMMA Finished ==
    ASSUME TypeOK, Locals, NEW w \in Workers, WorkerFinish(w)
    PROVE  /\ req[w] \in Requests /\ req'[w] = None
           /\ pc[w] = "call" /\ pc'[w] = "pop" /\ todo[w] = {}
           /\ \A v \in Workers \ {w} : req'[v] = req[v] /\ pc'[v] = pc[v]
           /\ w \in Busy /\ Busy' = Busy \ {w}
           /\ Held = Held' \union {req[w]}
           /\ OneUpdatePerTick => req[w] \notin Held'
<1>1. /\ pc[w] = "call" /\ todo[w] = {} /\ req[w] # None
      /\ req' = [req EXCEPT ![w] = None]
      /\ pc' = [pc EXCEPT ![w] = "pop"]
    BY DEF WorkerFinish, GoTo, Locals, NoNullRequest
<1>2. /\ req'[w] = None /\ pc'[w] = "pop"
      /\ \A v \in Workers \ {w} : req'[v] = req[v] /\ pc'[v] = pc[v]
    BY <1>1 DEF TypeOK
<1>3. w \in Busy /\ Busy' = Busy \ {w} /\ Busy \subseteq Workers
    BY <1>1, <1>2 DEF Busy
<1>4. Held = Held' \union {req[w]}
    <2>1. Held \subseteq Held' \union {req[w]}
        BY <1>2, <1>3 DEF Held
    <2>2. Held' \union {req[w]} \subseteq Held
        BY <1>2, <1>3 DEF Held
    <2>3. QED
        BY <2>1, <2>2
<1>5. OneUpdatePerTick => req[w] \notin Held'
    BY <1>2, <1>3 DEF OneUpdatePerTick, Held
<1>6. QED
    BY <1>1, <1>2, <1>3, <1>4, <1>5 DEF TypeOK

\* While the counter is zero nobody has anything to do with the maps.
LEMMA Quiet ==
    ASSUME TypeOK, Phases, Locals, PendingIsExact, main \notin {"schedule", "wait"}
    PROVE  /\ queue = << >> /\ Queued = {} /\ Busy = {} /\ Held = {}
           /\ \A w \in Workers : req[w] = None /\ pc[w] # "call" /\ todo[w] = {}
<1>1. Len(queue) + Cardinality(Busy) = 0
    BY DEF Phases, PendingIsExact
<1>2. queue \in Seq(Requests) /\ Len(queue) \in Nat
    BY DEF TypeOK
<1>3. Len(queue) = 0 /\ Cardinality(Busy) = 0
    BY <1>1, <1>2, BusyFinite
<1>4. queue = << >>
    BY <1>2, <1>3
<1>5. Busy = {}
    BY <1>3, BusyFinite, FS_EmptySet
<1>6. Queued = {} /\ Held = {}
    BY <1>4, <1>5 DEF Queued, Held
<1>7. \A w \in Workers : req[w] = None /\ pc[w] # "call" /\ todo[w] = {}
    BY <1>5 DEF Busy, Locals, NoNullRequest
<1>8. QED
    BY <1>4, <1>5, <1>6, <1>7

-----------------------------------------------------------------------------
(* Types, phases and local variables.                                      *)

\* Every action preserves the type invariant: in particular pending_requests is
\* not decremented below 0.
LEMMA TypeStep == TypeOK /\ Phases /\ Locals /\ PendingIsExact /\ [Next]_vars => TypeOK'
<1> SUFFICES ASSUME TypeOK, Phases, Locals, PendingIsExact, [Next]_vars
             PROVE  TypeOK'
    OBVIOUS
<1> USE DEF queueVars, workerVars, mapVars, tickVars
<1>1. ASSUME NEW i \in Instances, CreateInstance(i) PROVE TypeOK'
    BY <1>1 DEF CreateInstance, TypeOK
<1>2. CASE BeginTick
    <2>1. LFG \in Requests
        BY DEF Requests
    <2>2. ScheduleUpdate(LFG)
        BY <1>2 DEF BeginTick
    <2>3. /\ queue' \in Seq(Requests) /\ shutdown' = shutdown
          /\ waiting' \in SUBSET Workers /\ pending' \in Nat
        BY <2>1, <2>2, Scheduled
    <2>4. QED
        BY <1>2, <2>3 DEF BeginTick, TypeOK
<1>3. ASSUME NEW m \in BaseMaps, ScheduleMap(m) PROVE TypeOK'
    <2>1. m \in Requests
        BY DEF Requests
    <2>2. ScheduleUpdate(m)
        BY <1>3 DEF ScheduleMap
    <2>3. /\ queue' \in Seq(Requests) /\ shutdown' = shutdown
          /\ waiting' \in SUBSET Workers /\ pending' \in Nat
        BY <2>1, <2>2, Scheduled
    <2>4. QED
        BY <1>3, <2>3 DEF ScheduleMap, TypeOK
<1>4. CASE EndSchedule
    BY <1>4 DEF EndSchedule, TypeOK
<1>5. CASE WaitSleep
    BY <1>5 DEF WaitSleep, TypeOK
<1>6. CASE WaitReturn
    BY <1>6 DEF WaitReturn, TypeOK
<1>7. CASE DelayedUpdate
    BY <1>7 DEF DelayedUpdate, TypeOK
<1>8. CASE CancelQueue
    BY <1>8 DEF CancelQueue, Q!Cancel, TypeOK
<1>9. CASE Join
    BY <1>9 DEF Join, TypeOK
<1>10. CASE UnloadAll
    BY <1>10 DEF UnloadAll, TypeOK
<1>11. CASE WaitSpuriousWake
    BY <1>11 DEF WaitSpuriousWake, TypeOK
<1>12. ASSUME NEW w \in Workers, WorkerWait(w) PROVE TypeOK'
    BY <1>12 DEF WorkerWait, Q!Wait, TypeOK
<1>13. ASSUME NEW w \in Workers, WorkerSpuriousWake(w) PROVE TypeOK'
    BY <1>13 DEF WorkerSpuriousWake, Q!SpuriousWake, TypeOK
<1>14. ASSUME NEW w \in Workers, WorkerPop(w) PROVE TypeOK'
    <2>1. queue' \in Seq(Requests) /\ Head(queue) \in Requests
        BY <1>14, Popped
    <2>2. QED
        BY <1>14, <2>1 DEF WorkerPop, Q!PopFront, GoTo, TypeOK
<1>15. ASSUME NEW w \in Workers, WorkerPopNothing(w) PROVE TypeOK'
    BY <1>15 DEF WorkerPopNothing, Q!PopNothing, Q!queueVars, GoTo, TypeOK
<1>16. ASSUME NEW w \in Workers, WorkerExit(w) PROVE TypeOK'
    BY <1>16 DEF WorkerExit, GoTo, TypeOK
<1>17. ASSUME NEW w \in Workers, WorkerCall(w) PROVE TypeOK'
    BY <1>17 DEF WorkerCall, GoTo, TypeOK
<1>18. ASSUME NEW w \in Workers, NEW i \in Instances, WorkerScheduleInstance(w, i)
       PROVE  TypeOK'
    <2>1. i \in Requests
        BY DEF Requests
    <2>2. ScheduleUpdate(i)
        BY <1>18 DEF WorkerScheduleInstance
    <2>3. /\ queue' \in Seq(Requests) /\ shutdown' = shutdown
          /\ waiting' \in SUBSET Workers /\ pending' \in Nat
        BY <2>1, <2>2, Scheduled
    <2>4. QED
        BY <1>18, <2>3 DEF WorkerScheduleInstance, TypeOK
<1>19. ASSUME NEW w \in Workers, NEW i \in Instances, WorkerDestroyInstance(w, i)
       PROVE  TypeOK'
    BY <1>19 DEF WorkerDestroyInstance, TypeOK
<1>20. ASSUME NEW w \in Workers, NEW i \in Instances, WorkerSkipInstance(w, i)
       PROVE  TypeOK'
    BY <1>20 DEF WorkerSkipInstance, TypeOK
<1>21. ASSUME NEW w \in Workers, WorkerFinish(w) PROVE TypeOK'
    <2>1. req[w] \in Requests /\ w \in Busy
        BY <1>21, Finished
    <2>2. Cardinality(Busy) # 0 /\ Cardinality(Busy) \in Nat
        BY <2>1, BusyFinite, FS_EmptySet
    <2>3. pending - 1 \in Nat
        BY <2>2 DEF PendingIsExact, TypeOK
    <2>4. QED
        BY <1>21, <2>1, <2>3 DEF WorkerFinish, GoTo, TypeOK
<1>22. CASE UNCHANGED vars
    BY <1>22 DEF vars, TypeOK
<1>23. QED
    BY <1>1, <1>2, <1>3, <1>4, <1>5, <1>6, <1>7, <1>8, <1>9, <1>10, <1>11,
       <1>12, <1>13, <1>14, <1>15, <1>16, <1>17, <1>18, <1>19, <1>20, <1>21, <1>22
       DEF Next, MainStep, WorkerStep, Stopped

\* Every action preserves Phases: workers schedule only while the world thread
\* waits for them.
LEMMA PhasesStep ==
    TypeOK /\ Phases /\ Locals /\ PendingIsExact /\ [Next]_vars => Phases'
<1> SUFFICES ASSUME TypeOK, Phases, Locals, PendingIsExact, [Next]_vars
             PROVE  Phases'
    OBVIOUS
<1> USE DEF queueVars, workerVars, mapVars, tickVars
<1>1. ASSUME NEW i \in Instances, CreateInstance(i) PROVE Phases'
    BY <1>1 DEF CreateInstance, Phases
<1>2. CASE BeginTick
    BY <1>2 DEF BeginTick, ScheduleUpdate, Q!Push, Phases
<1>3. ASSUME NEW m \in BaseMaps, ScheduleMap(m) PROVE Phases'
    BY <1>3 DEF ScheduleMap, ScheduleUpdate, Q!Push, Phases
<1>4. CASE EndSchedule
    BY <1>4 DEF EndSchedule, Phases
<1>5. CASE WaitSleep
    BY <1>5 DEF WaitSleep, Phases
<1>6. CASE WaitReturn
    BY <1>6 DEF WaitReturn, Phases
<1>7. CASE DelayedUpdate
    BY <1>7 DEF DelayedUpdate, Phases
<1>8. CASE CancelQueue
    BY <1>8 DEF CancelQueue, Q!Cancel, Phases
<1>9. CASE Join
    BY <1>9 DEF Join, Phases
<1>10. CASE UnloadAll
    BY <1>10 DEF UnloadAll, Phases
<1>11. CASE WaitSpuriousWake
    BY <1>11 DEF WaitSpuriousWake, Phases
<1>12. ASSUME NEW w \in Workers,
              \/ WorkerWait(w) \/ WorkerSpuriousWake(w) \/ WorkerPop(w)
              \/ WorkerPopNothing(w) \/ WorkerExit(w) \/ WorkerCall(w)
       PROVE  Phases'
    BY <1>12 DEF WorkerWait, WorkerSpuriousWake, WorkerPop, WorkerPopNothing,
                 WorkerExit, WorkerCall, Q!Wait, Q!SpuriousWake, Q!PopFront,
                 Q!PopNothing, Q!queueVars, Phases
<1>13. ASSUME NEW w \in Workers, NEW i \in Instances, WorkerScheduleInstance(w, i)
       PROVE  Phases'
    <2>1. main \in {"schedule", "wait"}
        BY <1>13, Quiet DEF WorkerScheduleInstance
    <2>2. QED
        BY <1>13, <2>1 DEF WorkerScheduleInstance, ScheduleUpdate, Q!Push, Phases
<1>14. ASSUME NEW w \in Workers, NEW i \in Instances,
              WorkerDestroyInstance(w, i) \/ WorkerSkipInstance(w, i)
       PROVE  Phases'
    BY <1>14 DEF WorkerDestroyInstance, WorkerSkipInstance, Phases
<1>15. ASSUME NEW w \in Workers, WorkerFinish(w) PROVE Phases'
    <2>1. main \in {"schedule", "wait"}
        BY <1>15, Quiet DEF WorkerFinish
    <2>2. QED
        BY <1>15, <2>1 DEF WorkerFinish, Phases
<1>16. CASE UNCHANGED vars
    BY <1>16 DEF vars, Phases
<1>17. QED
    BY <1>1, <1>2, <1>3, <1>4, <1>5, <1>6, <1>7, <1>8, <1>9, <1>10, <1>11,
       <1>12, <1>13, <1>14, <1>15, <1>16
       DEF Next, MainStep, WorkerStep, Stopped

\* Every action preserves Locals: a worker reaches call() only with a request,
\* because WaitAndPop comes back without one only when the token is set.
LEMMA LocalsStep ==
    TypeOK /\ Phases /\ Locals /\ [Next]_vars => Locals'
<1> SUFFICES ASSUME TypeOK, Phases, Locals, [Next]_vars
             PROVE  Locals'
    OBVIOUS
<1> USE DEF queueVars, workerVars, mapVars, tickVars, NoNullRequest
<1>1. ASSUME UNCHANGED <<pc, req, todo>>, cancel => cancel' PROVE Locals'
    BY <1>1 DEF Locals
<1>2. CASE MainStep \/ UnloadAll \/ WaitSpuriousWake \/ UNCHANGED vars
    <2>1. UNCHANGED <<pc, req, todo>> /\ (cancel => cancel')
        BY <1>2 DEF MainStep, BeginTick, ScheduleMap, EndSchedule, WaitSleep,
                    WaitReturn, DelayedUpdate, CancelQueue, Join, UnloadAll,
                    WaitSpuriousWake, vars
    <2>2. QED
        BY <1>1, <2>1
<1>3. ASSUME NEW i \in Instances, CreateInstance(i) PROVE Locals'
    BY <1>1, <1>3 DEF CreateInstance
<1>4. ASSUME NEW w \in Workers, WorkerWait(w) \/ WorkerSpuriousWake(w)
      PROVE  Locals'
    BY <1>1, <1>4 DEF WorkerWait, WorkerSpuriousWake
<1>5. ASSUME NEW w \in Workers, WorkerPop(w) PROVE Locals'
    <2>1. /\ Head(queue) \in Requests /\ req'[w] = Head(queue) /\ pc'[w] = "check"
          /\ \A v \in Workers \ {w} : req'[v] = req[v] /\ pc'[v] = pc[v]
          /\ pc[w] = "pop"
        BY <1>5, Popped
    <2>2. UNCHANGED <<todo, cancel>>
        BY <1>5 DEF WorkerPop
    <2>3. Head(queue) # None
        BY <2>1, ConstantsAssumption
    <2>4. todo[w] = {}
        BY <2>1 DEF Locals
    <2>5. QED
        BY <2>1, <2>2, <2>3, <2>4 DEF Locals
<1>6. ASSUME NEW w \in Workers, WorkerPopNothing(w) PROVE Locals'
    BY <1>6 DEF WorkerPopNothing, Q!PopNothing, GoTo, Phases, Locals, TypeOK
<1>7. ASSUME NEW w \in Workers, WorkerExit(w) PROVE Locals'
    BY <1>7 DEF WorkerExit, GoTo, Locals, TypeOK
<1>8. ASSUME NEW w \in Workers, WorkerCall(w) PROVE Locals'
    <2>1. /\ pc[w] = "check" /\ req[w] # None /\ UNCHANGED <<req, cancel>>
          /\ pc' = [pc EXCEPT ![w] = "call"]
          /\ todo' = [todo EXCEPT ![w] = {i \in live : BaseOf[i] = req[w]}]
        BY <1>8 DEF WorkerCall, GoTo, Locals
    <2>2. /\ pc'[w] = "call" /\ \A i \in todo'[w] : BaseOf[i] = req[w]
          /\ \A v \in Workers \ {w} : pc'[v] = pc[v] /\ todo'[v] = todo[v]
        BY <2>1 DEF TypeOK
    <2>3. QED
        BY <2>1, <2>2 DEF Locals
<1>9. ASSUME NEW w \in Workers, NEW i \in Instances,
             \/ WorkerScheduleInstance(w, i)
             \/ WorkerDestroyInstance(w, i)
             \/ WorkerSkipInstance(w, i)
      PROVE  Locals'
    <2>1. /\ todo' = [todo EXCEPT ![w] = @ \ {i}]
          /\ UNCHANGED <<pc, req, cancel>>
        BY <1>9 DEF WorkerScheduleInstance, WorkerDestroyInstance, WorkerSkipInstance
    <2>2. \A v \in Workers : todo'[v] \subseteq todo[v]
        BY <2>1 DEF TypeOK
    <2>3. QED
        BY <2>1, <2>2 DEF Locals
<1>10. ASSUME NEW w \in Workers, WorkerFinish(w) PROVE Locals'
    <2>1. /\ req'[w] = None /\ pc'[w] = "pop" /\ todo[w] = {}
          /\ \A v \in Workers \ {w} : req'[v] = req[v] /\ pc'[v] = pc[v]
        BY <1>10, Finished
    <2>2. UNCHANGED <<todo, cancel>>
        BY <1>10 DEF WorkerFinish
    <2>3. QED
        BY <2>1, <2>2 DEF Locals
<1>11. QED
    BY <1>2, <1>3, <1>4, <1>5, <1>6, <1>7, <1>8, <1>9, <1>10
       DEF Next, WorkerStep, Stopped

-----------------------------------------------------------------------------
(* The requests.                                                           *)

\* What is queued, held and updated depends on three variables.
LEMMA Unmoved ==
    ASSUME UNCHANGED <<queue, req, updated>>
    PROVE  /\ Queued' = Queued /\ Held' = Held /\ Busy' = Busy
           /\ Requested' = Requested
BY DEF Requested, Queued, Held, Busy

\* The steps that move no request.
LEMMA OtherSteps ==
    ASSUME TypeOK, Phases, Locals, PendingIsExact, [Next]_vars,
           ~ BeginTick,
           \A m \in BaseMaps : ~ ScheduleMap(m),
           \A w \in Workers :
              /\ ~ WorkerPop(w) /\ ~ WorkerFinish(w)
              /\ \A i \in Instances : ~ WorkerScheduleInstance(w, i)
    PROVE  UNCHANGED <<queue, req, updated, pending>>
<1> USE DEF queueVars, workerVars, mapVars, tickVars
<1>1. CASE CancelQueue
    <2>1. queue = << >>
        BY <1>1, Quiet DEF CancelQueue
    <2>2. QED
        BY <1>1, <2>1 DEF CancelQueue, Q!Cancel
<1>2. CASE MainStep \/ UnloadAll \/ WaitSpuriousWake \/ UNCHANGED vars
    BY <1>1, <1>2 DEF MainStep, EndSchedule, WaitSleep, WaitReturn,
                      DelayedUpdate, Join, UnloadAll, WaitSpuriousWake, vars
<1>3. ASSUME NEW i \in Instances, CreateInstance(i)
      PROVE  UNCHANGED <<queue, req, updated, pending>>
    BY <1>3 DEF CreateInstance
<1>4. ASSUME NEW w \in Workers, WorkerStep(w) \/ WorkerSpuriousWake(w)
      PROVE  UNCHANGED <<queue, req, updated, pending>>
    BY <1>4 DEF WorkerStep, WorkerWait, WorkerSpuriousWake, WorkerPopNothing,
                WorkerExit, WorkerCall, WorkerDestroyInstance,
                WorkerSkipInstance, Q!Wait, Q!SpuriousWake, Q!PopNothing,
                Q!queueVars
<1>5. QED
    BY <1>2, <1>3, <1>4 DEF Next, Stopped

\* Every action preserves PendingIsExact: a request is counted before it can be
\* popped, and it is discounted by the worker that has it, once.
LEMMA ExactStep ==
    TypeOK /\ Phases /\ Locals /\ PendingIsExact /\ [Next]_vars => PendingIsExact'
<1> SUFFICES ASSUME TypeOK, Phases, Locals, PendingIsExact, [Next]_vars
             PROVE  PendingIsExact'
    OBVIOUS
<1> USE DEF queueVars, workerVars, mapVars, tickVars
<1>1. ASSUME NEW r \in Requests, ScheduleUpdate(r), UNCHANGED req
      PROVE  PendingIsExact'
    <2>1. /\ pending' = pending + 1 /\ Len(queue') = Len(queue) + 1
          /\ Len(queue) \in Nat
        BY <1>1, Scheduled
    <2>2. Busy' = Busy
        BY <1>1 DEF Busy
    <2>3. QED
        BY <2>1, <2>2, BusyFinite DEF PendingIsExact
<1>2. CASE BeginTick
    BY <1>1, <1>2 DEF BeginTick, Requests
<1>3. ASSUME NEW m \in BaseMaps, ScheduleMap(m) PROVE PendingIsExact'
    BY <1>1, <1>3 DEF ScheduleMap, Requests
<1>4. ASSUME NEW w \in Workers, NEW i \in Instances, WorkerScheduleInstance(w, i)
      PROVE  PendingIsExact'
    BY <1>1, <1>4 DEF WorkerScheduleInstance, Requests
<1>5. ASSUME NEW w \in Workers, WorkerPop(w) PROVE PendingIsExact'
    <2>1. /\ Len(queue') = Len(queue) - 1 /\ Len(queue) \in Nat \ {0}
          /\ w \notin Busy /\ Busy' = Busy \union {w}
        BY <1>5, Popped
    <2>2. Cardinality(Busy') = Cardinality(Busy) + 1
        BY <2>1, BusyFinite, FS_AddElement
    <2>3. pending' = pending
        BY <1>5 DEF WorkerPop
    <2>4. QED
        BY <2>1, <2>2, <2>3, BusyFinite DEF PendingIsExact
<1>6. ASSUME NEW w \in Workers, WorkerFinish(w) PROVE PendingIsExact'
    <2>1. w \in Busy /\ Busy' = Busy \ {w}
        BY <1>6, Finished
    <2>2. Cardinality(Busy') = Cardinality(Busy) - 1
        BY <2>1, BusyFinite, FS_RemoveElement
    <2>3. pending' = pending - 1 /\ queue' = queue
        BY <1>6 DEF WorkerFinish
    <2>4. Len(queue) \in Nat
        BY DEF TypeOK
    <2>5. QED
        BY <2>2, <2>3, <2>4, BusyFinite DEF PendingIsExact
<1>7. ASSUME UNCHANGED <<queue, req, updated, pending>> PROVE PendingIsExact'
    BY <1>7, Unmoved DEF PendingIsExact
<1>8. QED
    BY <1>2, <1>3, <1>4, <1>5, <1>6, <1>7, OtherSteps

\* A request that has not been made in this tick is made.
LEMMA NewRequest ==
    ASSUME TypeOK, OneUpdatePerTick, NEW r \in Requests, r \notin Requested,
           ScheduleUpdate(r), UNCHANGED <<req, updated>>
    PROVE  /\ OneUpdatePerTick'
           /\ Held' = Held /\ Queued' = Queued \union {r}
           /\ Requested' = Requested \union {r}
<1>1. Held' = Held /\ Busy' = Busy
    BY DEF Held, Busy
<1>2. r \notin Queued \union Held \union updated
    BY DEF Requested
<1>3. /\ Queued' = Queued \union {r}
      /\ \A i, j \in DOMAIN queue' : queue'[i] = queue'[j] => i = j
    BY <1>2, Scheduled
<1>4. OneUpdatePerTick'
    BY <1>1, <1>2, <1>3 DEF OneUpdatePerTick
<1>5. QED
    BY <1>1, <1>3, <1>4 DEF Requested

\* A request goes from the queue into the hands of one worker.
LEMMA TakenRequest ==
    ASSUME TypeOK, Locals, OneUpdatePerTick, NEW w \in Workers, WorkerPop(w)
    PROVE  OneUpdatePerTick' /\ Requested' = Requested
<1> DEFINE h == Head(queue)
<1>1. /\ Queued = Queued' \union {h} /\ h \notin Queued'
      /\ Held' = Held \union {h} /\ Busy' = Busy \union {w} /\ w \notin Busy
      /\ req'[w] = h /\ \A v \in Workers \ {w} : req'[v] = req[v]
      /\ \A i, j \in DOMAIN queue' : queue'[i] = queue'[j] => i = j
    BY Popped
<1>2. updated' = updated
    BY DEF WorkerPop, tickVars
<1>3. h \notin Held \union updated
    BY <1>1 DEF OneUpdatePerTick
<1>4. \A v \in Busy : v \in Workers /\ req[v] # h
    BY <1>3 DEF Held, Busy
<1>5. \A u, v \in Busy' : req'[u] = req'[v] => u = v
    BY <1>1, <1>4 DEF OneUpdatePerTick
<1>6. OneUpdatePerTick'
    BY <1>1, <1>2, <1>3, <1>5 DEF OneUpdatePerTick
<1>7. QED
    BY <1>1, <1>2, <1>6 DEF Requested

\* A request goes from the hands of its worker to those of this tick's updates.
LEMMA DoneRequest ==
    ASSUME TypeOK, Locals, OneUpdatePerTick, NEW w \in Workers, WorkerFinish(w)
    PROVE  OneUpdatePerTick' /\ Requested' = Requested
<1>1. /\ Held = Held' \union {req[w]} /\ req[w] \notin Held'
      /\ Busy' = Busy \ {w} /\ Busy \subseteq Workers
      /\ \A v \in Workers \ {w} : req'[v] = req[v]
    BY Finished DEF Busy
<1>2. queue' = queue /\ Queued' = Queued /\ updated' = updated \union {req[w]}
    BY DEF WorkerFinish, queueVars, Queued
<1>3. \A u, v \in Busy' : req'[u] = req'[v] => u = v
    BY <1>1 DEF OneUpdatePerTick
<1>4. OneUpdatePerTick'
    BY <1>1, <1>2, <1>3 DEF OneUpdatePerTick
<1>5. QED
    BY <1>1, <1>2, <1>4 DEF Requested

\* A tick begins with one request.
LEMMA FirstRequest ==
    ASSUME TypeOK, Phases, Locals, PendingIsExact, BeginTick
    PROVE  OneUpdatePerTick' /\ Requested' = {LFG} /\ Queued' = {LFG}
<1>1. /\ queue = << >> /\ Queued = {} /\ Held = {} /\ Busy = {}
    BY Quiet DEF BeginTick
<1>2. queue' = <<LFG>> /\ updated' = {} /\ req' = req
    BY <1>1 DEF BeginTick, ScheduleUpdate, Q!Push, workerVars
<1>3. Held' = {} /\ Busy' = {}
    BY <1>1, <1>2 DEF Held, Busy
<1>4. DOMAIN queue' = {1} /\ queue'[1] = LFG
    BY <1>2
<1>5. Queued' = {LFG}
    BY <1>4 DEF Queued
<1>6. OneUpdatePerTick'
    BY <1>2, <1>3, <1>4 DEF OneUpdatePerTick
<1>7. QED
    BY <1>2, <1>3, <1>5, <1>6 DEF Requested

\* Every action preserves OneUpdatePerTick.
LEMMA OnceStep ==
    /\ TypeOK /\ Phases /\ Locals /\ PendingIsExact /\ OneUpdatePerTick /\ Fresh
    /\ [Next]_vars
    => OneUpdatePerTick'
<1> SUFFICES ASSUME TypeOK, Phases, Locals, PendingIsExact, OneUpdatePerTick,
                    Fresh, [Next]_vars
             PROVE  OneUpdatePerTick'
    OBVIOUS
<1> USE DEF workerVars, tickVars
<1>1. CASE BeginTick
    BY <1>1, FirstRequest
<1>2. ASSUME NEW m \in BaseMaps, ScheduleMap(m) PROVE OneUpdatePerTick'
    <2>1. /\ m \in Requests /\ m \notin Requested
          /\ ScheduleUpdate(m) /\ UNCHANGED <<req, updated>>
        BY <1>2 DEF ScheduleMap, Fresh, Requests
    <2>2. QED
        BY <2>1, NewRequest
<1>3. ASSUME NEW w \in Workers, NEW i \in Instances, WorkerScheduleInstance(w, i)
      PROVE  OneUpdatePerTick'
    <2>1. /\ i \in Requests /\ i \notin Requested
          /\ ScheduleUpdate(i) /\ UNCHANGED <<req, updated>>
        BY <1>3 DEF WorkerScheduleInstance, Fresh, Requests
    <2>2. QED
        BY <2>1, NewRequest
<1>4. ASSUME NEW w \in Workers, WorkerPop(w) \/ WorkerFinish(w)
      PROVE  OneUpdatePerTick'
    BY <1>4, TakenRequest, DoneRequest
<1>5. ASSUME UNCHANGED <<queue, req, updated, pending>> PROVE OneUpdatePerTick'
    BY <1>5, Unmoved DEF OneUpdatePerTick
<1>6. QED
    BY <1>1, <1>2, <1>3, <1>4, <1>5, OtherSteps

-----------------------------------------------------------------------------
(* The maps.                                                               *)

\* Besides OtherSteps: of those only WorkerCall brings a worker to instances.
LEMMA OtherLocals ==
    ASSUME TypeOK, [Next]_vars,
           ~ BeginTick,
           \A m \in BaseMaps : ~ ScheduleMap(m),
           \A w \in Workers :
              /\ ~ WorkerPop(w) /\ ~ WorkerCall(w) /\ ~ WorkerFinish(w)
              /\ \A i \in Instances : ~ WorkerScheduleInstance(w, i)
    PROVE  /\ toSchedule' = toSchedule
           /\ \A w \in Workers : /\ todo'[w] \subseteq todo[w]
                                 /\ pc[w] = "call" => pc'[w] = "call"
<1> DEFINE Goal == /\ toSchedule' = toSchedule
                   /\ \A w \in Workers : /\ todo'[w] \subseteq todo[w]
                                         /\ pc[w] = "call" => pc'[w] = "call"
<1> USE DEF queueVars, workerVars, mapVars, tickVars
<1>1. CASE MainStep \/ UnloadAll \/ WaitSpuriousWake \/ UNCHANGED vars
    BY <1>1 DEF MainStep, EndSchedule, WaitSleep, WaitReturn, DelayedUpdate,
                CancelQueue, Join, UnloadAll, WaitSpuriousWake, vars
<1>2. ASSUME NEW i \in Instances, CreateInstance(i) PROVE Goal
    BY <1>2 DEF CreateInstance
<1>3. ASSUME NEW w \in Workers,
             \/ WorkerWait(w) \/ WorkerSpuriousWake(w)
             \/ WorkerPopNothing(w) \/ WorkerExit(w)
      PROVE  Goal
    BY <1>3 DEF WorkerWait, WorkerSpuriousWake, WorkerPopNothing, WorkerExit,
                GoTo, TypeOK
<1>4. ASSUME NEW w \in Workers, NEW i \in Instances,
             WorkerDestroyInstance(w, i) \/ WorkerSkipInstance(w, i)
      PROVE  Goal
    BY <1>4 DEF WorkerDestroyInstance, WorkerSkipInstance, TypeOK
<1>5. QED
    BY <1>1, <1>2, <1>3, <1>4 DEF Next, WorkerStep, Stopped

\* Every action preserves Fresh: no map is requested twice in a tick, because
\* no base map is scheduled twice and no iterator returns to an instance.
LEMMA FreshStep ==
    /\ TypeOK /\ Phases /\ Locals /\ PendingIsExact /\ OneUpdatePerTick /\ Fresh
    /\ [Next]_vars
    => Fresh'
<1> SUFFICES ASSUME TypeOK, Phases, Locals, PendingIsExact, OneUpdatePerTick,
                    Fresh, [Next]_vars
             PROVE  Fresh'
    OBVIOUS
<1> USE DEF workerVars, tickVars
<1>1. CASE BeginTick
    <2>1. Requested' = {LFG} /\ todo' = todo /\ toSchedule' = BaseMaps
        BY <1>1, FirstRequest DEF BeginTick
    <2>2. \A w \in Workers : todo[w] = {}
        BY <1>1, Quiet DEF BeginTick
    <2>3. QED
        BY <2>1, <2>2, ConstantsAssumption DEF Fresh
<1>2. ASSUME NEW m \in BaseMaps, ScheduleMap(m) PROVE Fresh'
    <2>1. /\ m \in Requests /\ m \in toSchedule /\ m \notin Requested
          /\ ScheduleUpdate(m) /\ UNCHANGED <<pc, req, todo, updated>>
          /\ toSchedule' = toSchedule \ {m}
        BY <1>2 DEF ScheduleMap, Fresh, Requests
    <2>2. Requested' = Requested \union {m}
        BY <2>1, NewRequest
    <2>3. m \notin Instances /\ \A w \in Workers : todo[w] \subseteq Instances
        BY ConstantsAssumption DEF TypeOK
    <2>4. QED
        BY <2>1, <2>2, <2>3 DEF Fresh
<1>3. ASSUME NEW w \in Workers, NEW i \in Instances, WorkerScheduleInstance(w, i)
      PROVE  Fresh'
    <2>1. /\ i \in Requests /\ i \in todo[w] /\ i \notin Requested
          /\ ScheduleUpdate(i) /\ UNCHANGED <<pc, req, updated, toSchedule>>
          /\ pc[w] = "call" /\ req[w] # None /\ BaseOf[i] = req[w]
        BY <1>3 DEF WorkerScheduleInstance, Fresh, Requests, Locals, NoNullRequest
    <2>2. Requested' = Requested \union {i}
        BY <2>1, NewRequest
    <2>3. /\ todo'[w] = todo[w] \ {i}
          /\ \A v \in Workers \ {w} : todo'[v] = todo[v]
        BY <1>3 DEF WorkerScheduleInstance, TypeOK
    <2>4. ASSUME NEW v \in Workers \ {w} PROVE i \notin todo[v]
        <3>1. SUFFICES ASSUME i \in todo[v] PROVE FALSE
            OBVIOUS
        <3>2. req[v] = req[w]
            BY <2>1, <3>1 DEF Locals
        <3>3. QED
            BY <2>1, <3>2 DEF OneUpdatePerTick, Busy
    <2>5. i \notin toSchedule
        BY ConstantsAssumption DEF TypeOK
    <2>6. \A v \in Workers : todo'[v] \intersect Requested' = {}
        BY <2>2, <2>3, <2>4 DEF Fresh
    <2>7. QED
        BY <2>1, <2>2, <2>5, <2>6 DEF Fresh
<1>4. ASSUME NEW w \in Workers, WorkerPop(w) PROVE Fresh'
    <2>1. Requested' = Requested /\ pc[w] = "pop"
          /\ \A v \in Workers \ {w} : req'[v] = req[v] /\ pc'[v] = pc[v]
        BY <1>4, TakenRequest, Popped
    <2>2. UNCHANGED <<toSchedule, todo, updated>>
        BY <1>4 DEF WorkerPop
    <2>3. QED
        BY <2>1, <2>2 DEF Fresh
<1>5. ASSUME NEW w \in Workers, WorkerCall(w) PROVE Fresh'
    <2>1. /\ UNCHANGED <<queue, req, updated, toSchedule>>
          /\ pc[w] = "check" /\ req[w] # None
          /\ pc' = [pc EXCEPT ![w] = "call"]
          /\ todo' = [todo EXCEPT ![w] = {i \in live : BaseOf[i] = req[w]}]
        BY <1>5 DEF WorkerCall, GoTo, Locals, queueVars
    <2>2. /\ pc'[w] = "call" /\ todo'[w] = {i \in live : BaseOf[i] = req[w]}
          /\ \A v \in Workers \ {w} : pc'[v] = pc[v] /\ todo'[v] = todo[v]
        BY <2>1 DEF TypeOK
    <2>3. Requested' = Requested
        BY <2>1, Unmoved
    <2>4. req[w] \in Held /\ req[w] \notin updated
        BY <2>1 DEF Held, Busy, OneUpdatePerTick
    <2>5. ASSUME NEW i \in Instances \intersect Requested PROVE BaseOf[i] # req[w]
        <3>1. SUFFICES ASSUME BaseOf[i] = req[w] PROVE FALSE
            OBVIOUS
        <3>2. PICK v \in Workers : pc[v] = "call" /\ req[v] = req[w]
            BY <2>4, <3>1 DEF Fresh
        <3>3. QED
            BY <2>1, <3>2 DEF OneUpdatePerTick, Busy
    <2>6. todo'[w] \intersect Requested = {}
        BY <2>2, <2>5 DEF TypeOK
    <2>7. QED
        BY <2>1, <2>2, <2>3, <2>6 DEF Fresh
<1>6. ASSUME NEW w \in Workers, WorkerFinish(w) PROVE Fresh'
    <2>1. Requested' = Requested
          /\ \A v \in Workers \ {w} : req'[v] = req[v] /\ pc'[v] = pc[v]
        BY <1>6, DoneRequest, Finished
    <2>2. /\ UNCHANGED <<toSchedule, todo>>
          /\ updated' = updated \union {req[w]}
        BY <1>6 DEF WorkerFinish
    <2>3. QED
        BY <2>1, <2>2 DEF Fresh
<1>7. ASSUME UNCHANGED <<queue, req, updated, toSchedule>>,
             \A w \in Workers : /\ todo'[w] \subseteq todo[w]
                                /\ pc[w] = "call" => pc'[w] = "call"
      PROVE  Fresh'
    <2>1. Requested' = Requested
        BY <1>7, Unmoved
    <2>2. QED
        BY <1>7, <2>1 DEF Fresh
<1>8. QED
    BY <1>1, <1>2, <1>3, <1>4, <1>5, <1>6, <1>7, OtherSteps, OtherLocals

\* Every action preserves NoDanglingMap: an instance is deleted only by the
\* worker that updates its base map, before it would be requested, or when no
\* worker does anything.
LEMMA DanglingStep ==
    /\ TypeOK /\ Phases /\ Locals /\ PendingIsExact /\ OneUpdatePerTick /\ Fresh
    /\ NoDanglingMap /\ [Next]_vars
    => NoDanglingMap'
<1> SUFFICES ASSUME TypeOK, Phases, Locals, PendingIsExact, OneUpdatePerTick,
                    Fresh, NoDanglingMap, [Next]_vars
             PROVE  NoDanglingMap'
    OBVIOUS
<1> USE DEF queueVars, workerVars, mapVars, tickVars
<1>1. CASE BeginTick
    <2>1. Queued' = {LFG} /\ Held' = Held /\ UNCHANGED <<todo, live>>
        BY <1>1, FirstRequest DEF BeginTick, Held, Busy
    <2>2. LFG \notin Instances
        BY ConstantsAssumption
    <2>3. QED
        BY <2>1, <2>2 DEF NoDanglingMap
<1>2. ASSUME NEW m \in BaseMaps, ScheduleMap(m) PROVE NoDanglingMap'
    <2>1. m \in Requests /\ ScheduleUpdate(m) /\ UNCHANGED <<req, todo, live>>
        BY <1>2 DEF ScheduleMap, Requests
    <2>2. Queued' = Queued \union {m} /\ Held' = Held
        BY <2>1, Scheduled DEF Held, Busy
    <2>3. m \notin Instances
        BY ConstantsAssumption
    <2>4. QED
        BY <2>1, <2>2, <2>3 DEF NoDanglingMap
<1>3. ASSUME NEW w \in Workers, NEW i \in Instances, WorkerScheduleInstance(w, i)
      PROVE  NoDanglingMap'
    <2>1. /\ i \in Requests /\ i \in todo[w] /\ ScheduleUpdate(i)
          /\ UNCHANGED <<req, live>>
          /\ todo' = [todo EXCEPT ![w] = @ \ {i}]
        BY <1>3 DEF WorkerScheduleInstance, Requests
    <2>2. Queued' = Queued \union {i} /\ Held' = Held
        BY <2>1, Scheduled DEF Held, Busy
    <2>3. \A v \in Workers : todo'[v] \subseteq todo[v]
        BY <2>1 DEF TypeOK
    <2>4. QED
        BY <2>1, <2>2, <2>3 DEF NoDanglingMap
<1>4. ASSUME NEW w \in Workers, WorkerPop(w) PROVE NoDanglingMap'
    <2>1. Queued = Queued' \union {Head(queue)} /\ Held' = Held \union {Head(queue)}
        BY <1>4, Popped
    <2>2. UNCHANGED <<todo, live>>
        BY <1>4 DEF WorkerPop
    <2>3. QED
        BY <2>1, <2>2 DEF NoDanglingMap
<1>5. ASSUME NEW w \in Workers, WorkerFinish(w) PROVE NoDanglingMap'
    <2>1. Held' \subseteq Held
        BY <1>5, Finished
    <2>2. UNCHANGED <<queue, todo, live>>
        BY <1>5 DEF WorkerFinish
    <2>3. QED
        BY <2>1, <2>2 DEF NoDanglingMap, Queued
<1>6. ASSUME NEW w \in Workers, WorkerCall(w) PROVE NoDanglingMap'
    <2>1. Queued' = Queued /\ Held' = Held /\ live' = live
        BY <1>6, Unmoved DEF WorkerCall
    <2>2. \A v \in Workers : todo'[v] = todo[v] \/ todo'[v] \subseteq live
        BY <1>6 DEF WorkerCall, TypeOK
    <2>3. QED
        BY <2>1, <2>2 DEF NoDanglingMap
<1>7. ASSUME NEW w \in Workers, NEW i \in Instances, WorkerDestroyInstance(w, i)
      PROVE  NoDanglingMap'
    <2>1. /\ UNCHANGED <<queue, req, updated>> /\ live' = live \ {i}
          /\ todo' = [todo EXCEPT ![w] = @ \ {i}]
          /\ i \in todo[w] /\ pc[w] = "call" /\ req[w] # None
          /\ BaseOf[i] = req[w]
        BY <1>7 DEF WorkerDestroyInstance, Locals, NoNullRequest
    <2>2. Queued' = Queued /\ Held' = Held
        BY <2>1, Unmoved
    <2>3. i \notin Queued \union Held
        BY <2>1 DEF Fresh, Requested
    <2>4. ASSUME NEW v \in Workers \ {w} PROVE i \notin todo[v]
        <3>1. SUFFICES ASSUME i \in todo[v] PROVE FALSE
            OBVIOUS
        <3>2. req[v] = req[w]
            BY <2>1, <3>1 DEF Locals
        <3>3. QED
            BY <2>1, <3>2 DEF OneUpdatePerTick, Busy
    <2>5. /\ todo'[w] = todo[w] \ {i}
          /\ \A v \in Workers \ {w} : todo'[v] = todo[v]
        BY <2>1 DEF TypeOK
    <2>6. \A v \in Workers : todo'[v] \subseteq live'
        BY <2>1, <2>4, <2>5 DEF NoDanglingMap
    <2>7. QED
        BY <2>1, <2>2, <2>3, <2>6 DEF NoDanglingMap
<1>8. CASE UnloadAll
    <2>1. /\ Queued = {} /\ Held = {} /\ \A w \in Workers : todo[w] = {}
        BY <1>8, Quiet DEF UnloadAll
    <2>2. Queued' = Queued /\ Held' = Held /\ todo' = todo
        BY <1>8, Unmoved DEF UnloadAll
    <2>3. QED
        BY <2>1, <2>2 DEF NoDanglingMap
<1>9. ASSUME UNCHANGED <<queue, req, updated>>,
             \A w \in Workers : todo'[w] \subseteq todo[w],
             live \subseteq live'
      PROVE  NoDanglingMap'
    BY <1>9, Unmoved DEF NoDanglingMap
<1>10. ASSUME ~ UnloadAll,
              \A w \in Workers : \A i \in Instances : ~ WorkerDestroyInstance(w, i)
       PROVE  live \subseteq live'
    <2>1. CASE MainStep \/ WaitSpuriousWake \/ UNCHANGED vars
        BY <2>1 DEF MainStep, BeginTick, ScheduleMap, EndSchedule, WaitSleep,
                    WaitReturn, DelayedUpdate, CancelQueue, Join,
                    WaitSpuriousWake, vars
    <2>2. ASSUME NEW i \in Instances, CreateInstance(i) PROVE live \subseteq live'
        BY <2>2 DEF CreateInstance
    <2>3. ASSUME NEW w \in Workers, WorkerStep(w) \/ WorkerSpuriousWake(w)
          PROVE  live \subseteq live'
        BY <1>10, <2>3 DEF WorkerStep, WorkerWait, WorkerSpuriousWake, WorkerPop,
                    WorkerPopNothing, WorkerExit, WorkerCall, WorkerFinish,
                    WorkerScheduleInstance, WorkerSkipInstance
    <2>4. QED
        BY <1>10, <2>1, <2>2, <2>3 DEF Next, Stopped
<1>11. QED
    BY <1>1, <1>2, <1>3, <1>4, <1>5, <1>6, <1>7, <1>8, <1>9, <1>10,
       OtherSteps, OtherLocals

\* A step that leaves the live maps alone and takes nothing from what has been
\* requested, or remains to be, preserves NothingForgotten.
LEMMA StillRemembered ==
    ASSUME NothingForgotten,
           main' \in {"schedule", "wait", "delayed"}
              => main \in {"schedule", "wait", "delayed"},
           toSchedule \union Requested \subseteq toSchedule' \union Requested',
           Requested \subseteq Requested', skipped \subseteq skipped',
           live' \subseteq live, Unvisited \subseteq Unvisited',
           \A w \in Workers : \A i \in todo[w] :
              i \in Requested' \union skipped' \/ i \in todo'[w] \/ i \notin live'
    PROVE  NothingForgotten'
BY DEF NothingForgotten

\* What is left to visit depends on these variables.
LEMMA UnvisitedUnmoved ==
    ASSUME UNCHANGED <<toSchedule, queue, pc, req>>
    PROVE  Unvisited' = Unvisited
BY DEF Unvisited, Queued

\* Every action preserves NothingForgotten.
LEMMA ForgottenStep ==
    /\ TypeOK /\ Phases /\ Locals /\ PendingIsExact /\ OneUpdatePerTick /\ Fresh
    /\ NothingForgotten /\ [Next]_vars
    => NothingForgotten'
<1> SUFFICES ASSUME TypeOK, Phases, Locals, PendingIsExact, OneUpdatePerTick,
                    Fresh, NothingForgotten, [Next]_vars
             PROVE  NothingForgotten'
    OBVIOUS
<1> USE DEF queueVars, workerVars, mapVars, tickVars
<1>1. CASE BeginTick
    <2>1. /\ Requested' = {LFG} /\ toSchedule' = BaseMaps /\ live' = live
        BY <1>1, FirstRequest DEF BeginTick
    <2>2. \A i \in live : BaseOf[i] \in BaseMaps
        BY ConstantsAssumption DEF TypeOK
    <2>3. QED
        BY <2>1, <2>2 DEF NothingForgotten, Unvisited
<1>2. ASSUME NEW m \in BaseMaps, ScheduleMap(m) PROVE NothingForgotten'
    <2>1. /\ m \in Requests /\ m \notin Requested /\ ScheduleUpdate(m)
          /\ toSchedule' = toSchedule \ {m}
          /\ UNCHANGED <<main, live, pc, req, todo, updated, skipped>>
        BY <1>2 DEF ScheduleMap, Fresh, Requests
    <2>2. Requested' = Requested \union {m} /\ Queued' = Queued \union {m}
        BY <2>1, NewRequest
    <2>3. Unvisited \subseteq Unvisited'
        BY <2>1, <2>2 DEF Unvisited
    <2>4. toSchedule \union Requested \subseteq toSchedule' \union Requested'
        BY <2>1, <2>2
    <2>5. QED
        BY <2>1, <2>2, <2>3, <2>4, StillRemembered
<1>3. ASSUME NEW w \in Workers, NEW i \in Instances, WorkerScheduleInstance(w, i)
      PROVE  NothingForgotten'
    <2>1. /\ i \in Requests /\ i \notin Requested /\ ScheduleUpdate(i)
          /\ todo' = [todo EXCEPT ![w] = @ \ {i}]
          /\ UNCHANGED <<main, toSchedule, live, pc, req, updated, skipped>>
        BY <1>3 DEF WorkerScheduleInstance, Fresh, Requests
    <2>2. Requested' = Requested \union {i} /\ Queued' = Queued \union {i}
        BY <2>1, NewRequest
    <2>3. Unvisited \subseteq Unvisited'
        BY <2>1, <2>2 DEF Unvisited
    <2>4. \A v \in Workers : \A j \in todo[v] : j = i \/ j \in todo'[v]
        BY <2>1 DEF TypeOK
    <2>5. QED
        BY <2>1, <2>2, <2>3, <2>4, StillRemembered
<1>4. ASSUME NEW w \in Workers, WorkerPop(w) PROVE NothingForgotten'
    <2>1. /\ Requested' = Requested
          /\ UNCHANGED <<main, toSchedule, live, todo, skipped>>
        BY <1>4, TakenRequest DEF WorkerPop
    <2>2. /\ Queued = Queued' \union {Head(queue)}
          /\ pc[w] = "pop" /\ pc'[w] = "check" /\ req'[w] = Head(queue)
          /\ \A v \in Workers \ {w} : req'[v] = req[v] /\ pc'[v] = pc[v]
        BY <1>4, Popped
    <2>3. Unvisited \subseteq Unvisited'
        <3>1. Queued \subseteq Unvisited'
            BY <2>2 DEF Unvisited
        <3>2. \A v \in Workers : pc[v] = "check" => req[v] \in Unvisited'
            BY <2>2 DEF Unvisited
        <3>3. QED
            BY <2>1, <3>1, <3>2 DEF Unvisited
    <2>4. QED
        BY <2>1, <2>3, StillRemembered
<1>5. ASSUME NEW w \in Workers, WorkerCall(w) PROVE NothingForgotten'
    <2>1. /\ UNCHANGED <<queue, req, updated, toSchedule, main, live, skipped>>
          /\ pc[w] = "check"
          /\ pc' = [pc EXCEPT ![w] = "call"]
          /\ todo' = [todo EXCEPT ![w] = {i \in live : BaseOf[i] = req[w]}]
        BY <1>5 DEF WorkerCall, GoTo
    <2>2. /\ todo[w] = {} /\ todo'[w] = {i \in live : BaseOf[i] = req[w]}
          /\ \A v \in Workers \ {w} : pc'[v] = pc[v] /\ todo'[v] = todo[v]
        BY <2>1 DEF TypeOK, Locals
    <2>3. Requested' = Requested /\ Queued' = Queued
        BY <2>1, Unmoved
    <2>4. Unvisited \subseteq Unvisited' \union {req[w]}
        <3>1. \A v \in Workers \ {w} : pc[v] = "check" => req[v] \in Unvisited'
            BY <2>1, <2>2 DEF Unvisited
        <3>2. QED
            BY <2>1, <2>3, <3>1 DEF Unvisited
    <2>5. \A v \in Workers : todo[v] \subseteq todo'[v]
        BY <2>2
    <2>6. \A i \in live : BaseOf[i] \in Unvisited
                             => BaseOf[i] \in Unvisited' \/ i \in todo'[w]
        BY <2>2, <2>4
    <2>7. QED
        BY <2>1, <2>3, <2>5, <2>6 DEF NothingForgotten
<1>6. ASSUME NEW w \in Workers, NEW i \in Instances, WorkerDestroyInstance(w, i)
      PROVE  NothingForgotten'
    <2>1. /\ UNCHANGED <<queue, req, updated, toSchedule, pc, main, skipped>>
          /\ live' = live \ {i} /\ todo' = [todo EXCEPT ![w] = @ \ {i}]
        BY <1>6 DEF WorkerDestroyInstance
    <2>2. Requested' = Requested /\ Unvisited' = Unvisited
        BY <2>1, Unmoved, UnvisitedUnmoved
    <2>3. \A v \in Workers : \A j \in todo[v] : j \notin live' \/ j \in todo'[v]
        BY <2>1 DEF TypeOK
    <2>4. QED
        BY <2>1, <2>2, <2>3, StillRemembered
<1>7. ASSUME NEW w \in Workers, NEW i \in Instances, WorkerSkipInstance(w, i)
      PROVE  NothingForgotten'
    <2>1. /\ UNCHANGED <<queue, req, updated, toSchedule, pc, main, live>>
          /\ skipped' = skipped \union {i} /\ todo' = [todo EXCEPT ![w] = @ \ {i}]
        BY <1>7 DEF WorkerSkipInstance
    <2>2. Requested' = Requested /\ Unvisited' = Unvisited
        BY <2>1, Unmoved, UnvisitedUnmoved
    <2>3. \A v \in Workers : \A j \in todo[v] : j \in skipped' \/ j \in todo'[v]
        BY <2>1 DEF TypeOK
    <2>4. QED
        BY <2>1, <2>2, <2>3, StillRemembered
<1>8. ASSUME NEW w \in Workers, WorkerFinish(w) PROVE NothingForgotten'
    <2>1. /\ Requested' = Requested
          /\ UNCHANGED <<queue, toSchedule, main, live, todo, skipped>>
        BY <1>8, DoneRequest DEF WorkerFinish
    <2>2. /\ pc[w] = "call"
          /\ \A v \in Workers \ {w} : req'[v] = req[v] /\ pc'[v] = pc[v]
        BY <1>8, Finished
    <2>3. Unvisited \subseteq Unvisited'
        BY <2>1, <2>2 DEF Unvisited, Queued
    <2>4. QED
        BY <2>1, <2>3, StillRemembered
<1>9. ASSUME NEW w \in Workers, WorkerPopNothing(w) \/ WorkerExit(w)
      PROVE  NothingForgotten'
    BY <1>9 DEF WorkerPopNothing, Q!PopNothing, WorkerExit, Phases, NothingForgotten
<1>10. ASSUME UNCHANGED <<queue, req, updated, toSchedule, todo, pc, live, skipped>>,
              main' \in {"schedule", "wait", "delayed"}
                 => main \in {"schedule", "wait", "delayed"}
       PROVE  NothingForgotten'
    BY <1>10, Unmoved, UnvisitedUnmoved, StillRemembered
<1>11. ASSUME NEW w \in Workers, WorkerWait(w) \/ WorkerSpuriousWake(w)
       PROVE  NothingForgotten'
    BY <1>10, <1>11 DEF WorkerWait, WorkerSpuriousWake, Q!Wait, Q!SpuriousWake
<1>12. CASE \/ EndSchedule \/ WaitSleep \/ WaitReturn \/ WaitSpuriousWake
            \/ UNCHANGED vars
    BY <1>10, <1>12 DEF EndSchedule, WaitSleep, WaitReturn, WaitSpuriousWake, vars
<1>13. CASE DelayedUpdate \/ CancelQueue \/ Join \/ UnloadAll
    BY <1>13 DEF DelayedUpdate, CancelQueue, Join, UnloadAll, NothingForgotten
<1>14. ASSUME NEW i \in Instances, CreateInstance(i) PROVE NothingForgotten'
    BY <1>14 DEF CreateInstance, NothingForgotten
<1>15. QED
    BY <1>1, <1>2, <1>3, <1>4, <1>5, <1>6, <1>7, <1>8, <1>9, <1>11, <1>12,
       <1>13, <1>14
       DEF Next, MainStep, WorkerStep, Stopped

-----------------------------------------------------------------------------
(* The theorems.                                                           *)

\* The server starts in a state that satisfies the invariant.
LEMMA InitInv == Init => IInv
<1> SUFFICES ASSUME Init PROVE IInv
    OBVIOUS
<1>1. Queued = {} /\ Busy = {} /\ Held = {} /\ Requested = {}
    BY DEF Init, Q!Init, Queued, Busy, Held, Requested
<1>2. TypeOK
    <2>1. queue \in Seq(Requests)
        BY DEF Init, Q!Init
    <2>2. /\ pc \in [Workers -> {"pop", "check", "call", "exited"}]
          /\ req \in [Workers -> Requests \union {None}]
          /\ todo \in [Workers -> SUBSET Instances]
        BY DEF Init
    <2>3. /\ pending \in Nat /\ step \in 0 .. 3
          /\ main \in {"sessions", "schedule", "wait", "delayed", "deactivate",
                       "cancel", "join", "stopped"}
        BY DEF Init
    <2>4. QED
        BY <2>1, <2>2, <2>3 DEF Init, Q!Init, TypeOK
<1>3. Phases /\ Locals
    BY DEF Init, Q!Init, Phases, Locals, NoNullRequest
<1>4. PendingIsExact
    BY <1>1, FS_EmptySet DEF Init, Q!Init, PendingIsExact
<1>5. OneUpdatePerTick /\ Fresh /\ NoDanglingMap /\ NothingForgotten
    BY <1>1 DEF Init, Q!Init, OneUpdatePerTick, Fresh, NoDanglingMap, NothingForgotten
<1>6. QED
    BY <1>2, <1>3, <1>4, <1>5 DEF IInv

\* In every reachable state the invariant holds.
LEMMA Invariance == Spec => []IInv
<1>1. IInv /\ [Next]_vars => IInv'
    BY TypeStep, PhasesStep, LocalsStep, ExactStep, OnceStep, FreshStep,
       DanglingStep, ForgottenStep DEF IInv
<1>2. QED
    BY InitInv, <1>1, PTL DEF Spec

\* The variables keep their types; pending_requests, a size_t, never wraps.
THEOREM TypeCorrect == Spec => []TypeOK
<1>1. IInv => TypeOK
    BY DEF IInv
<1>2. QED
    BY Invariance, <1>1, PTL

\* The counter MapUpdater::wait tests is the number of requests not finished,
\* those that WorkerThreads schedule for instances included.
THEOREM PendingCorrect == Spec => []PendingIsExact
<1>1. IInv => PendingIsExact
    BY DEF IInv
<1>2. QED
    BY Invariance, <1>1, PTL

\* After MapUpdater::wait, and until the next tick, the world thread is the only
\* one that touches a map: DelayedUpdate, the sessions and UnloadAll need no lock.
THEOREM AloneCorrect == Spec => []WorldThreadAlone
<1>1. IInv => WorldThreadAlone
    BY Quiet DEF IInv, WorldThreadAlone
<1>2. QED
    BY Invariance, <1>1, PTL

\* No map is updated by two threads, or twice in a tick.
THEOREM OnceCorrect == Spec => []OneUpdatePerTick
<1>1. IInv => OneUpdatePerTick
    BY DEF IInv
<1>2. QED
    BY Invariance, <1>1, PTL

\* No request keeps the Map& of an instance that DestroyInstance has deleted.
THEOREM DanglingCorrect == Spec => []NoDanglingMap
<1>1. IInv => NoDanglingMap
    BY DEF IInv
<1>2. QED
    BY Invariance, <1>1, PTL

\* When MapUpdater::wait returns, the tick has updated everything it should.
THEOREM TickCorrect == Spec => []TickIsComplete
<1>1. ASSUME IInv, main = "delayed"
      PROVE  BaseMaps \union {LFG} \union (live \ skipped) \subseteq updated
    <2>1. /\ Queued = {} /\ Held = {} /\ toSchedule = {}
          /\ \A w \in Workers : req[w] = None /\ todo[w] = {}
        BY <1>1, Quiet DEF IInv, Phases
    <2>2. Requested = updated
        BY <2>1 DEF Requested
    <2>3. Unvisited \subseteq {None}
        BY <2>1 DEF Unvisited
    <2>4. \A i \in live : BaseOf[i] # None
        BY <1>1, ConstantsAssumption DEF IInv, TypeOK, Requests
    <2>5. QED
        BY <1>1, <2>1, <2>2, <2>3, <2>4 DEF IInv, NothingForgotten
<1>2. IInv => TickIsComplete
    BY <1>1 DEF TickIsComplete
<1>3. QED
    BY Invariance, <1>2, PTL

\* request->call() is never reached with the null pointer that WaitAndPop leaves.
THEOREM RequestCorrect == Spec => []NoNullRequest
<1>1. IInv => NoNullRequest
    BY DEF IInv, Locals
<1>2. QED
    BY Invariance, <1>1, PTL
=============================================================================

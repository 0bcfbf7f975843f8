----------------------------- MODULE MapUpdater -----------------------------
(***************************************************************************)
(* The parallel map update: once per world tick the world thread hands     *)
(* every base map (and the LFG manager) to a pool of MapUpdater threads,   *)
(* waits until all of them are updated, and goes on to use the maps alone. *)
(* A worker that updates a MapInstanced schedules one further request for  *)
(* each of its instances, or destroys the ones that have run empty, so     *)
(* requests are created by two kinds of thread while the barrier waits.    *)
(*                                                                         *)
(* schedule_update pushes while it holds _lock, so it is one action; the   *)
(* queue's own lock is inside it and nothing takes them the other way.     *)
(***************************************************************************)
EXTENDS Naturals, Sequences, FiniteSets

CONSTANTS
    Workers,        \* MapUpdater::_workerThreads
    BaseMaps,       \* the maps of MapMgr::i_maps
    Kind,           \* what the phases distinguish: 0 continent, 1 bg, 2 dungeon
    Instances,      \* the instances that may exist
    BaseOf,         \* the MapInstanced an instance belongs to
    LFG,            \* the request of schedule_lfg_update
    None            \* a request pointer that is null

Requests == BaseMaps \union Instances \union {LFG}

ASSUME ConstantsAssumption ==
    /\ IsFiniteSet(Workers) /\ Workers # {}
    /\ IsFiniteSet(Requests)
    /\ Kind \in [BaseMaps -> 0 .. 2]
    /\ BaseOf \in [Instances -> BaseMaps]
    /\ BaseMaps \intersect Instances = {}
    /\ LFG \notin BaseMaps \union Instances
    /\ None \notin Requests

VARIABLES
    queue, shutdown, waiting,  \* MapUpdater::_queue
    pending,    \* pending_requests
    asleep,     \* the world thread sleeps on MapUpdater::_condition
    cancel,     \* MapUpdater::_cancelationToken
    main,       \* where the world thread is
    toSchedule, \* the base maps its loop has not scheduled yet
    step,       \* MapMgr::mapUpdateStep
    live,       \* the instances that exist (m_InstancedMaps of their bases)
    pc,         \* where each worker is in WorkerThread
    req,        \* its local `request`
    todo,       \* the instances its MapInstanced::Update has not visited yet
    updated,    \* the requests whose update finished in this tick
    skipped     \* the instances that would not be destroyed in this tick

Q == INSTANCE PCQueue

queueVars == <<queue, shutdown, waiting>>
workerVars == <<pc, req, todo>>
mapVars == <<step, live>>
tickVars == <<updated, skipped>>
vars == <<queue, shutdown, waiting, pending, asleep, cancel, main, toSchedule,
          step, live, pc, req, todo, updated, skipped>>

Init ==
    /\ Q!Init
    /\ pending = 0
    /\ asleep = FALSE
    /\ cancel = FALSE
    /\ main = "sessions"
    /\ toSchedule = {}
    /\ step = 0
    /\ live = {}
    /\ pc = [w \in Workers |-> "pop"]
    /\ req = [w \in Workers |-> None]
    /\ todo = [w \in Workers |-> {}]
    /\ updated = {}
    /\ skipped = {}

\* The maps that get the accumulated time in this phase of the cycle; the
\* others are updated with a diff of 0.
Full(m) == step < 3 /\ Kind[m] = step

\* ScheduleUpdate that does not count the request.
ScheduleUncounted(r) ==
    /\ pending' = pending
    /\ Q!Push(r)

ScheduleUpdate(r) ==
    /\ pending' = pending + 1
    /\ Q!Push(r)

-----------------------------------------------------------------------------
(* The world thread.                                                       *)

\* A player's teleport creates the instance it enters.  The handlers that do
\* this run in World::UpdateSessions.
CreateInstance(i) ==
    /\ main = "sessions"
    /\ i \notin live
    /\ live' = live \union {i}
    /\ UNCHANGED <<queueVars, pending, asleep, cancel, main, toSchedule, step,
                   workerVars, tickVars>>

\* MapMgr::Update up to its loop over i_maps.
BeginTick ==
    /\ main = "sessions"
    /\ main' = "schedule"
    /\ toSchedule' = BaseMaps
    /\ updated' = {}
    /\ skipped' = {}
    /\ ScheduleUpdate(LFG)
    /\ UNCHANGED <<asleep, cancel, mapVars, workerVars>>

ScheduleMap(m) ==
    /\ main = "schedule"
    /\ m \in toSchedule
    /\ toSchedule' = toSchedule \ {m}
    /\ ScheduleUpdate(m)
    /\ UNCHANGED <<asleep, cancel, main, mapVars, workerVars, tickVars>>

EndSchedule ==
    /\ main = "schedule"
    /\ toSchedule = {}
    /\ main' = "wait"
    /\ UNCHANGED <<queueVars, pending, asleep, cancel, toSchedule, mapVars,
                   workerVars, tickVars>>

\* MapUpdater::wait: called by MapMgr::Update and by deactivate.
WaitSleep ==
    /\ main \in {"wait", "deactivate"}
    /\ ~ asleep
    /\ pending > 0
    /\ asleep' = TRUE
    /\ UNCHANGED <<queueVars, pending, cancel, main, toSchedule, mapVars,
                   workerVars, tickVars>>

\* WaitReturn after any wake-up, without testing pending_requests again.
WaitReturnOnce ==
    /\ main \in {"wait", "deactivate"}
    /\ ~ asleep
    /\ main' = IF main = "wait" THEN "delayed" ELSE "cancel"
    /\ UNCHANGED <<queueVars, pending, asleep, cancel, toSchedule, mapVars,
                   workerVars, tickVars>>

WaitReturn ==
    /\ main \in {"wait", "deactivate"}
    /\ ~ asleep
    /\ pending = 0
    /\ main' = IF main = "wait" THEN "delayed" ELSE "cancel"
    /\ UNCHANGED <<queueVars, pending, asleep, cancel, toSchedule, mapVars,
                   workerVars, tickVars>>

WaitSpuriousWake ==
    /\ asleep
    /\ asleep' = FALSE
    /\ UNCHANGED <<queueVars, pending, cancel, main, toSchedule, mapVars,
                   workerVars, tickVars>>

\* The rest of MapMgr::Update: DelayedUpdate of the maps of this phase, which
\* nothing else may be touching, and the step to the next phase.  The cycle
\* starts over when the fourth timer has passed.
DelayedUpdate ==
    /\ main = "delayed"
    /\ main' = "sessions"
    /\ LET next == IF step < 3 THEN step + 1 ELSE step
       IN  step' \in IF next = 3 THEN {0, 3} ELSE {next}
    /\ UNCHANGED <<queueVars, pending, asleep, cancel, toSchedule, live,
                   workerVars, tickVars>>

\* UnloadAll with a deactivate() that leaves the token for later.
UnloadAllNoToken ==
    /\ main = "sessions"
    /\ live' = {}
    /\ main' = "deactivate"
    /\ UNCHANGED <<queueVars, pending, asleep, cancel, toSchedule, step,
                   workerVars, tickVars>>

\* MapMgr::UnloadAll after the world loop has ended: every map is deleted, then
\* deactivate() sets the token.
UnloadAll ==
    /\ main = "sessions"
    /\ live' = {}
    /\ cancel' = TRUE
    /\ main' = "deactivate"
    /\ UNCHANGED <<queueVars, pending, asleep, toSchedule, step, workerVars,
                   tickVars>>

CancelQueue ==
    /\ main = "cancel"
    /\ Q!Cancel
    /\ main' = "join"
    /\ UNCHANGED <<pending, asleep, cancel, toSchedule, mapVars, workerVars,
                   tickVars>>

Join ==
    /\ main = "join"
    /\ \A w \in Workers : pc[w] = "exited"
    /\ main' = "stopped"
    /\ UNCHANGED <<queueVars, pending, asleep, cancel, toSchedule, mapVars,
                   workerVars, tickVars>>

MainStep ==
    \/ BeginTick
    \/ \E m \in BaseMaps : ScheduleMap(m)
    \/ EndSchedule
    \/ WaitSleep
    \/ WaitReturn
    \/ DelayedUpdate
    \/ CancelQueue
    \/ Join

-----------------------------------------------------------------------------
(* MapUpdater::WorkerThread.                                               *)

GoTo(w, label) == pc' = [pc EXCEPT ![w] = label]

WorkerWait(w) ==
    /\ pc[w] = "pop"
    /\ Q!Wait(w)
    /\ UNCHANGED <<pending, asleep, cancel, main, toSchedule, mapVars,
                   workerVars, tickVars>>

WorkerSpuriousWake(w) ==
    /\ Q!SpuriousWake(w)
    /\ UNCHANGED <<pending, asleep, cancel, main, toSchedule, mapVars,
                   workerVars, tickVars>>

WorkerPop(w) ==
    /\ pc[w] = "pop"
    /\ Q!PopFront(w)
    /\ req' = [req EXCEPT ![w] = Head(queue)]
    /\ GoTo(w, "check")
    /\ UNCHANGED <<pending, asleep, cancel, main, toSchedule, mapVars, todo,
                   tickVars>>

WorkerPopNothing(w) ==
    /\ pc[w] = "pop"
    /\ Q!PopNothing(w)
    /\ GoTo(w, "check")
    /\ UNCHANGED <<pending, asleep, cancel, main, toSchedule, mapVars, req,
                   todo, tickVars>>

WorkerExit(w) ==
    /\ pc[w] = "check"
    /\ cancel
    /\ GoTo(w, "exited")
    /\ UNCHANGED <<queueVars, pending, asleep, cancel, main, toSchedule,
                   mapVars, req, todo, tickVars>>

\* request->call() begins: the update of the map itself, up to the loop of
\* MapInstanced::Update over its instances.  There is no test of `request`.
WorkerCall(w) ==
    /\ pc[w] = "check"
    /\ ~ cancel
    /\ GoTo(w, "call")
    /\ todo' = [todo EXCEPT ![w] = {i \in live : BaseOf[i] = req[w]}]
    /\ UNCHANGED <<queueVars, pending, asleep, cancel, main, toSchedule,
                   mapVars, req, tickVars>>

\* WorkerScheduleInstance that does not advance the iterator.
WorkerScheduleAgain(w, i) ==
    /\ pc[w] = "call"
    /\ i \in todo[w]
    /\ ScheduleUpdate(i)
    /\ UNCHANGED <<asleep, cancel, main, toSchedule, mapVars, workerVars, tickVars>>

WorkerScheduleInstance(w, i) ==
    /\ pc[w] = "call"
    /\ i \in todo[w]
    /\ todo' = [todo EXCEPT ![w] = @ \ {i}]
    /\ ScheduleUpdate(i)
    /\ UNCHANGED <<asleep, cancel, main, toSchedule, mapVars, pc, req, tickVars>>

\* WorkerDestroyInstance that leaves the iterator at the deleted map.
WorkerDestroyAndVisit(w, i) ==
    /\ pc[w] = "call"
    /\ i \in todo[w]
    /\ Full(req[w])
    /\ live' = live \ {i}
    /\ UNCHANGED <<queueVars, pending, asleep, cancel, main, toSchedule, step,
                   workerVars, tickVars>>

\* CanUnload is true only of a map updated with a positive diff.
WorkerDestroyInstance(w, i) ==
    /\ pc[w] = "call"
    /\ i \in todo[w]
    /\ Full(req[w])
    /\ todo' = [todo EXCEPT ![w] = @ \ {i}]
    /\ live' = live \ {i}
    /\ UNCHANGED <<queueVars, pending, asleep, cancel, main, toSchedule, step,
                   pc, req, tickVars>>

\* DestroyInstance gives up on an instance that still has players in it: it
\* stays, and is not updated in this tick.
WorkerSkipInstance(w, i) ==
    /\ pc[w] = "call"
    /\ i \in todo[w]
    /\ Full(req[w])
    /\ todo' = [todo EXCEPT ![w] = @ \ {i}]
    /\ skipped' = skipped \union {i}
    /\ UNCHANGED <<queueVars, pending, asleep, cancel, main, toSchedule,
                   mapVars, pc, req, updated>>

\* WorkerFinish without notify_all.
WorkerFinishSilently(w) ==
    /\ pc[w] = "call"
    /\ todo[w] = {}
    /\ pending' = pending - 1
    /\ updated' = updated \union {req[w]}
    /\ req' = [req EXCEPT ![w] = None]
    /\ GoTo(w, "pop")
    /\ UNCHANGED <<queueVars, asleep, cancel, main, toSchedule, mapVars, todo,
                   skipped>>

\* Update returns and update_finished wakes the world thread.
WorkerFinish(w) ==
    /\ pc[w] = "call"
    /\ todo[w] = {}
    /\ pending' = pending - 1
    /\ asleep' = FALSE
    /\ updated' = updated \union {req[w]}
    /\ req' = [req EXCEPT ![w] = None]
    /\ GoTo(w, "pop")
    /\ UNCHANGED <<queueVars, cancel, main, toSchedule, mapVars, todo, skipped>>

WorkerStep(w) ==
    \/ WorkerWait(w)
    \/ WorkerPop(w)
    \/ WorkerPopNothing(w)
    \/ WorkerExit(w)
    \/ WorkerCall(w)
    \/ \E i \in Instances :
          \/ WorkerScheduleInstance(w, i)
          \/ WorkerDestroyInstance(w, i)
          \/ WorkerSkipInstance(w, i)
    \/ WorkerFinish(w)

Stopped == main = "stopped" /\ UNCHANGED vars

Next ==
    \/ MainStep
    \/ \E i \in Instances : CreateInstance(i)
    \/ UnloadAll
    \/ WaitSpuriousWake
    \/ \E w \in Workers : WorkerStep(w) \/ WorkerSpuriousWake(w)
    \/ Stopped

\* The threads are scheduled and every Map::Update returns.  Players need not
\* create instances, and the server need not stop.
Fairness ==
    /\ WF_vars(MainStep)
    /\ \A w \in Workers : WF_vars(WorkerStep(w))

Spec == Init /\ [][Next]_vars
FairSpec == Spec /\ Fairness

-----------------------------------------------------------------------------
(* Properties.                                                             *)

Queued == {queue[i] : i \in DOMAIN queue}
Busy == {w \in Workers : req[w] # None}
Held == {req[w] : w \in Busy}

TypeOK ==
    /\ queue \in Seq(Requests)
    /\ shutdown \in BOOLEAN
    /\ waiting \in SUBSET Workers
    /\ pending \in Nat
    /\ asleep \in BOOLEAN
    /\ cancel \in BOOLEAN
    /\ main \in {"sessions", "schedule", "wait", "delayed", "deactivate",
                 "cancel", "join", "stopped"}
    /\ toSchedule \in SUBSET BaseMaps
    /\ step \in 0 .. 3
    /\ live \in SUBSET Instances
    /\ pc \in [Workers -> {"pop", "check", "call", "exited"}]
    /\ req \in [Workers -> Requests \union {None}]
    /\ todo \in [Workers -> SUBSET Instances]
    /\ updated \in SUBSET Requests
    /\ skipped \in SUBSET Instances

\* The counter the barrier waits on is exact: one for each request queued and
\* one for each in a worker's hands, those scheduled by workers included.
PendingIsExact == pending = Len(queue) + Cardinality(Busy)

\* Outside MapMgr::Update's scheduling and waiting the world thread has the maps
\* to itself: no request is queued and no worker is inside Map::Update.
WorldThreadAlone ==
    main \notin {"schedule", "wait"} =>
        /\ queue = << >>
        /\ \A w \in Workers : req[w] = None /\ pc[w] # "call"

\* No map is updated by two threads at once, nor twice in one tick.
OneUpdatePerTick ==
    /\ \A i, j \in DOMAIN queue : queue[i] = queue[j] => i = j
    /\ \A v, w \in Busy : req[v] = req[w] => v = w
    /\ Queued \intersect (Held \union updated) = {}
    /\ Held \intersect updated = {}

\* No request refers to an instance that has been destroyed (the request keeps
\* a Map& that DestroyInstance's `delete` would leave dangling), and no worker
\* is about to visit one.
NoDanglingMap ==
    /\ (Queued \union Held) \intersect Instances \subseteq live
    /\ \A w \in Workers : todo[w] \subseteq live

\* When the barrier opens every base map, the LFG manager and every instance
\* that exists has been updated, but for the ones DestroyInstance gave up on.
TickIsComplete ==
    main = "delayed" => BaseMaps \union {LFG} \union (live \ skipped) \subseteq updated

\* A worker never calls through the null pointer that WaitAndPop leaves when
\* the queue is cancelled.
NoNullRequest == \A w \in Workers : pc[w] = "call" => req[w] # None

\* Every tick ends: MapUpdater::wait is always woken once the last request,
\* nested ones included, is done.
TickEnds == main = "schedule" ~> main = "sessions"

\* deactivate() returns: its wait() does not hang on the token it has already
\* set, and every thread can be joined.
ShutdownEnds == main = "deactivate" ~> main = "stopped"
=============================================================================

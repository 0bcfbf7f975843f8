# AzerothCore in TLA+

TLA+ models, TLC configurations and TLAPS proofs for the parts of the world
server whose correctness depends on the order in which threads, clients, the
database and the operator do things: the asynchronous SQL workers, transactions
and their retries, the parallel map update, the lock-free packet queue, a client's
connection and the packets it brings, the life of a world session, characters and
their cache, and trades. Paths below are those of the repository.

    tlc -config MCDatabaseWorker.cfg MCDatabaseWorker
    tlapm DatabaseWorkerProofs.tla

and likewise for every `MC*.cfg` (the module is the part of its name before
`Shutdown`, `Lost`, `Refused` or `Linger`) and every `*Proofs.tla`.

## 1. The system

The world server (`src/server/apps/worldserver`) is one process with these
threads:

| thread | what it does |
|---|---|
| world thread | `World::Update`: adds and updates sessions, waits for the map updates, runs timers |
| map update threads | `MapUpdater::WorkerThread`: update one map (or the dungeon finder) at a time |
| database workers | `DatabaseWorker::WorkerThread`, one for each asynchronous connection of three pools |
| network threads | read, write and close sockets; create the `WorldSession` of an authenticated client |
| others | console, remote access, SOAP, metrics, signal handling |

They meet in few places, which is where the models are:

* everybody pushes `SQLOperation`s on a pool's `ProducerConsumerQueue`; the
  workers take them; the answers come back as futures that the world thread
  polls in `ProcessQueryCallbacks`;
* the world thread pushes `UpdateRequest`s on another such queue, and so do map
  threads that update a `MapInstanced`; the world thread waits for a counter;
* any thread puts packets in a socket's `MPSCQueueIntrusive`, the socket's
  network thread takes them out and writes them;
* the network thread puts what it has read in the session's `LockedQueue`; the world
  thread and the map thread of the player take it out, by turns, each what its filter
  lets it; socket and session hold a pointer to each other;
* a network thread puts a new session in `World::_addSessQueue` and closes
  sockets at any time; all else in a session's life happens on the world thread;
* at shutdown `main` kicks everybody, runs one more `UpdateSessions`, stops the
  network, unloads the maps and closes the pools, in this order.

### Components

| component | its state | its operations | hard because of | correct when | model |
|---|---|---|---|---|---|
| `common/Threading/PCQueue.h` | a queue, a shutdown flag, a condition variable | `Push`, `WaitAndPop`, `Cancel` | lost or spurious wake-ups, cancellation while others sleep | FIFO, nobody sleeps that is needed, everybody leaves after `Cancel` | `PCQueue` |
| `DatabaseWorker`, `DatabaseWorkerPool` | the shared queue, each worker's token and operation | `Enqueue`, `WorkerThread`, `Close` | several workers on one queue, destructors that cancel it one by one | every operation executed or deleted once, in order; `Close` returns | `DatabaseWorker`, `AsyncExecutor` |
| `Transaction.cpp`, `MySQLConnection.cpp` | statements, connection, `_deadlockLock` | `ExecuteTransaction`, retries, `Cleanup`, reconnection | deadlocks, partial failure, lost connections | all or nothing, no connection handed back with an open transaction, every task ends | `SqlTransaction` |
| `MapUpdater`, `MapMgr::Update`, `MapInstanced` | request queue, `pending_requests`, `mapUpdateStep`, instances | schedule, wait, update, create and destroy instances, deactivate | requests that create requests, instances deleted in mid-update | the barrier is exact, one thread per map, no dangling `Map&` | `MapUpdater` |
| `common/Threading/MPSCQueue.h` | linked nodes, `_head`, `_tail`, a dummy | `Enqueue`, `Dequeue` | no locks | FIFO, no access to a node given away | `MPSCQueue`, `MessageFifo` |
| `World` sessions, `WorldSession`, login | `_sessions`, `_offlineSessions`, `_queuedPlayer`, `_disconnects`, flags of each session | `AddSession_`, `UpdateSessions`, login, logout, `KickAll` | clients that go and come back at any moment, late query answers, shutdown | no dangling session, exact login queue, one character per account, nobody left | `WorldSessions` |
| `WorldSocket`, `Socket.h`, `NetworkThread.h` | buffers, `_closed`, `_closing`, `_worldSession` | read, write, close, delayed close, authenticate, drop | two threads close, callbacks of queries, a session deleted by another thread | no pointer used after its session is gone, a closed connection ends | `WorldSocket`, `SessionIO` |
| `AsyncCallbackProcessor`, `QueryCallback` | list of pending callbacks, chain of each | add, `ProcessReadyCallbacks` | answers that come late, chains, sessions deleted while they wait | what a callback does still fits the state it finds | `Characters`, `SessionIO`, `WorldSessions` |
| `LockedQueue`, packet filters | receive queue of a session | `add`, `next(filter)`, `readd` | two threads take from one queue, packets too early or too late | handled in order, for the right player | `LockedQueue`, `SessionIO` |
| trade (`TradeHandler.cpp`, `TradeData`) | both sides' items, money, accepted flags | offer, accept, unaccept, cancel, exchange | changes after acceptance, items and money that go meanwhile | what is exchanged is what both accepted | `Trade` |
| characters, `CharacterCache` | rows, cache entries, names, callbacks | enumerate, create, rename, delete, load, save | queries and saves in one queue, three copies of one thing | no save undone, the limit holds, the cache is right | `Characters` |
| groups, dungeon finder, battleground queue | members, roles, proposals, invitations | join, leave, propose, answer, time out | answers after a time-out | a player in one place of the queue | candidate |
| `TaskScheduler`, `EventProcessor`, `EventMap` | ordered events | schedule, delay, update | events that schedule events | agrees with a reference definition | candidate |
| authserver (`AuthSession`) | status of a connection | logon challenge and proof, reconnect | query answers after the next packet | status respected | candidate |
| `InstanceSaveMgr` | binds, reset times | bind, reset | resets while inside | binds agree both ways | candidate |
| guilds, auctions, mail, calendar, petitions, tickets | tables in memory | handlers | book-keeping on one thread | memory agrees with what is saved | not modelled |
| entities, spells, combat, AI, movement, loot, grids | game objects | game rules | large data, one thread per map | game design | not modelled |
| content managers, DBC, vmaps, mmaps | tables | load, look up | read-only after start | | not modelled |
| scripts, hooks | | | content | | not modelled |
| consoles, start and stop, database updater | | | runs alone | | not modelled, but for the order of shutdown |
| logging, metrics, configuration, cryptography, tools, third-party code | | | support | | not modelled |

`PROJECT.json` lists the same components with their files, and the hazards: the
places in this code where a test would hardly find a mistake, each with the
properties that are there for it or the reason why there is none yet.

## 2. The modules

### PCQueue

The three methods that change a `ProducerConsumerQueue`. Each method body holds
the mutex from its first line to its last, so each is one action; `WaitAndPop`
is split into going to sleep (`Wait`), returning with an element (`PopFront`)
and returning without (`PopNothing`). `waiting` is the set of threads asleep on
the condition variable. `NotifyOne` wakes any one of them, `SpuriousWake` wakes
one nobody notified. There is no specification here: the modules that own such a
queue instantiate it and conjoin its actions with theirs.

### DatabaseWorker and AsyncExecutor

`Enqueue` is what every `Execute`, `AsyncQuery`, `DelayQueryHolder`,
`CommitTransaction` and `KeepAlive` ends in. A worker's `pc` is where it is in
`WorkerThread`: `pop` (in `WaitAndPop`), `check` (at the test of the token and
the pointer), `call`, `exited`. `Close` is the thread that runs
`_connections[IDX_ASYNC].clear()`: for one connection after the other `SetToken`,
`CancelQueue`, `Join`. Connections are taken in any order. `executed` and
`dropped` record what became of each operation.

`Enqueue` is possible only while the pool is open, which is what the comment at
`DatabaseWorkerPool.cpp:128` requires of the callers and `main` arranges.

`AsyncExecutor` says what the callers may rely on, with no threads: operations
are claimed in the order in which they were submitted, executed at most once,
and dropped only once the pool is closing. `DatabaseWorker!ImplementsExecutor` is
that specification under the mapping `backlog <- queue`, `claimed <- Held`.

### SqlTransaction

`MySQLConnection::ExecuteTransaction`, one action per request to the server, and
around it the two retry loops: `TransactionTask::Execute` (and its copy with a
result) under the one static `_deadlockLock`, for a minute, and
`DirectCommitTransaction`, five more times, without the lock. `Finish` is the end of a task, with `Cleanup` after a
failure. As in the code, only the first error decides whether there is a loop at
all (it must be a deadlock), and in the loop every error is retried.

The MySQL server is external and modelled from what the code relies on: a
statement locks a row until its transaction ends, a cycle of waits makes one of
the waiters the victim and rolls it back, any other error undoes the statement
only, `START TRANSACTION` commits a transaction still open, a statement outside a
transaction commits by itself, and losing the connection rolls back.
`LoseStatement` and `LoseAnswer` are the two moments at which a connection can be
lost; after both, `Execute` calls itself again on a new connection, in the same
place. What a connection has written is kept for each task (`written`), so that what
one transaction leaves open is seen to become another's. The rollback of a lost connection's transaction is immediate. Only a loss
makes `START TRANSACTION`, `COMMIT` and `ROLLBACK` fail. A reconnection that
fails five times aborts the process and is not modelled.

### MapUpdater

`main` is the world thread: in the handlers of `UpdateSessions` (where instances
are created), in `MapMgr::Update`'s loop over the base maps, in
`MapUpdater::wait`, in the loop of `DelayedUpdate`s, or, at the end, in
`UnloadAll` and `deactivate`. `schedule_update` counts and pushes under `_lock`
and is one action; the queue's own lock is taken inside it and never the other
way round. A worker updates a base map by visiting its instances one by one
(`todo`), each of which it schedules (`WorkerScheduleInstance`) or destroys
(`WorkerDestroyInstance`, `WorkerSkipInstance` when players do not leave).
`CanUnload` (`Map.h`) is true only of maps updated with a positive diff, hence
the guard `Full`. The maps' own contents are not modelled, so which instances
have run empty is open.

`_cancelationToken` is not initialised by the constructor; `MapMgr` is a static
object, so it is zero before the constructor runs.

### MPSCQueue and MessageFifo

Every access to an atomic that another thread can see is an action: `Exchange`
and `Link` of a producer, the loads, stores and exchange of `Dequeue`, including
its own `Enqueue(_dummyPtr)`. Merged are only accesses to memory nobody else can
reach. The code's orders (release stores, acquire loads, acquire-release
exchange) make what the models interleave as one step visible in that order; the
model does not show other weak-memory effects. `MessageFifo` is the abstract
queue: accepted in the order of the exchanges, delivered once and in that order.

### WorldSessions

The maps of `World` and the flags of each `WorldSession`. `UpdateSessions` is cut
into steps because sockets close (`Disconnect`) and sessions are added (`Connect`)
by other threads in between: `BeginUpdate`, one `AddSession_` or `RefuseSession`
for each new session, then for each session either `GoOffline` or `EnterUpdate`,
what its `Update` meets (`LoginFromDB`, `LoginToCharInWorld`, `LoginRefused`,
`KickPlayer`, the answers of its queries, `LogoutPlayer`) and `KeepSession` or
`RemoveSession`, and then `SweepOffline`. `KickAll` and one more round are the
shutdown. Time is open: an entry of `_disconnects`, an offline minute, a login
query or a logout timer may end or not between any two visits.

What a client may ask for is what the code lets it. `Authed` is the dispatch of a
`STATUS_AUTHED` packet (`WorldSession.cpp:390-411`): the session is not in the login
queue, and no more than that is asked. `LoginPacket` adds that the character is among
those that `HandleCharEnum` has listed (`legit`); any other gets the client kicked
(`KickPlayer`). `HandlePlayerLoginOpcode` goes on when the session has a Player or waits
for one, so `loads` counts the login queries of each session and character, the
callbacks of which may run in any order, and each answer calls `SetPlayer`, which
forgets the Player the session had. That Player stays in the world with no session that
would log it out: `stray`. `repeats` is a history of the accounts whose client asked in
this way. What becomes of a stray (it still points at its session, until that is
deleted) is not followed any further.

Assumed of the configuration: the realm allows logins.

### LockedQueue, WorldSocket and SessionIO

`WorldSocket` is a connection as its network thread has it. The thread runs one
handler at a time, each of which is an action, or two or three where it uses the
session in the middle: `Update` (what is queued becomes a buffer, `HandleQueue`
writes, then `net` stands before the callbacks), the callbacks of the address check
and of the authentication, `WriteHandler`, and the read handlers, which go through
the packets of one read. `CloseSocket` sets `_closed` with an atomic exchange and
only the first caller goes on to `OnClose`, so between the two there is a state
(`net = "closing"`, `inCloseSocket`). `LockedQueue` has the methods of a queue behind
a mutex.

`SessionIO` adds the session, and the client that sends it packets. What the game
does is one process, `game`: `UpdateSessions` on the world thread
(`worldPackets`, `callbacks`), `Map::Update` on the map's (`mapPackets`), and the
destructor (`delete`); `MapUpdater` has why these take turns. `_worldSessionLock` is
held from `ReadDataHandler` to `QueuePacket` (`net = "data"`), and `GameOnClose` waits
for it. `CreateSession` and `AddSession` are two steps, as in
`HandleAuthSessionCallback`, where the pointer is assigned without the lock. A
player's packets carry the stay in the world they belong to and a number in it.

Assumed of the client: it keeps to the protocol, and sends `CMSG_AUTH_SESSION` once.
`SendPacket`s of the session are left out (`MPSCQueue` has how they reach the network
thread).

### Characters

What an account's session does with its characters, over an `AsyncExecutor`: `queue`
holds the operations not yet executed, the first `Workers` of which are claimed. A
request pushes a query and leaves a callback behind, one of `Callbacks` (`stage`,
`request`); `Execute` sets the promise (`answer`); `InvokeIfReady` finds it. Nothing
makes a session wait for an answer before it makes the next request: it has as many
callbacks as it likes, they run in any order, and a login is accepted while the session
has a Player or awaits one, as in `WorldSessions` (`stray`). Creation is a chain of
three or four queries, the last of them (`CharCreateInfo`) if the configuration wants
it, and a transaction, and several may run side by side. The at-login flag that allows a
renaming is open. Saves, renamings and deletions are pushed and not waited for. Beside the rows there are the cache (`cache`, `byName`), which is changed at
once, and the `Player` in the world, whose save writes the name and the `version` it
has at that moment. The login database answers as it likes.

### Trade

All handlers of `TradeHandler.cpp` that change something, over the `TradeData` of
each trader: begin, cancel, gold, items, a spell on the item in the last slot, accept
with all its refusals, unaccept. `HandleAcceptTrade` is one disjunct for each way
out of the handler, in the order of its checks. The exchange removes all items,
stores them slot by slot (`MovedItems`), moves the money (`ModifyMoney` refuses
silently) and casts the spells. Between the handlers items and money come and go,
items get bound and players leave.

`agreed` and `casts` are history variables, as are `sent` and `handled` in `SessionIO`,
`tolerated` and `repeats` in `WorldSessions`, and in `Characters` `last` (the version a
character was last played to), `contended` (the characters that were asked for twice at
once: loaded while they were in memory, or renamed while they were being loaded or
created), `crowd` (the most creations an account had under way at once) and `overlaps`.

## 3. What is checked

| run | instance | states | shows |
|---|---|---|---|
| `database_worker` | 2 workers, 4 operations | 2 649 | safety, lost wake-ups, `Close` returns, refinement of `AsyncExecutor` |
| `map_updater` | 2 threads, a continent, a dungeon with 2 instances, the dungeon finder | 17 917 | the barrier, dangling maps, ticks and shutdown end |
| `mpsc_queue` | 2 producers, 4 messages | 26 421 | refinement of `MessageFifo`, no use after delete, delivery |
| `sql_transaction` | 2 asynchronous and 1 synchronous connection, 4 tasks, 2 rows, 1 loss | 162 572 | atomicity, clean connections, every task ends |
| `world_sessions` | 3 of 4 sessions of 3 accounts (1 exempt), 2 characters, limit 1 | 1 163 966 | login queue, offline sessions, one character, repeated logins, shutdown |
| `session_io` | one connection, 2 stays in the world, 3 packets in each | 704 042 | pointers between socket and session, order of packets, closed connections end |
| `characters` | 2 accounts of one character each, 2 callbacks, 2 guids, 2 names, 1 worker | 1 381 748 | saves and loads, the limit, the cache, requests side by side |
| `trade` | 3 players, 2 items, 1 traded slot and the last one, 1 spell | 336 328 | mutual trades, acceptances, fair exchanges |
| `shutdown`, `lost_connection`, `refused`, `linger` | the same | | where the code does not do what a comment or the configuration says (section 5) |

The properties worth a word:

* `OneOwner`, `NoOvertakingInQueue` (DatabaseWorker): where every operation is, and
  that none is executed ahead of an older one still queued. With several workers
  operations do overtake each other outside the queue.
* `NoWastedWorker`: one `notify_one` for each `Push` is enough, whatever the
  notified thread does first.
* `PendingIsExact`, `WorldThreadAlone`, `TickIsComplete` (MapUpdater): the counter
  is the number of requests in the queue and in workers' hands, so when `wait`
  returns all maps have been updated and no worker is in one.
* `NoNullRequest` (MapUpdater): `request->call()` is not tested for null; it is
  safe because the token is set before the queue is cancelled.
* `ImplementsFifo`, `NoUseAfterDelete` (MPSCQueue): the queue with its dummy is a
  FIFO, and nobody touches a node that `Dequeue` has given away.
* `AtomicUnlessLost`, `IdleConnectionIsClean` (SqlTransaction): also a connection
  replaced in mid-transaction goes back to its pool with nothing open.
* `NoDanglingSession`, `SlotsAreExact`, `OneCharacterInWorld`, `NobodyLeftInWorld`
  (WorldSessions): each holds only because several containers are changed
  together in four different places. A character never has two sessions and an account
  never two sessions with a character; the server does not keep a client from leaving a
  Player behind by asking for another (section 5), so the last two properties say that
  nothing else leaves one: not a takeover from an offline session, a late answer, a
  kick or the shutdown.
* `NoUseAfterDelete` (SessionIO): the world thread may refuse and delete a session
  while the network thread still has it in hand; what stands between them is that
  `AddSession` comes last, and the lock in `OnClose`.
* `HandledAsSent` (SessionIO): packets are taken by two threads with two filters,
  early ones are taken out and put back, late ones dropped by a flag that three
  places set: still each is handled once, in order and for the player it was sent to.
* `SocketEnds` (SessionIO): a refused connection whose refusal is never written, a
  connection closed by either thread at any point.
* `NothingIsUndone` (Characters): holds because of one worker, the default of
  `CharacterDatabase.WorkerThreads`. With two, a login's query can overtake the save
  of the last logout (the mutant `ClaimedByMore`); no test, log or assertion would
  tell. A character that is asked for while it is in memory is loaded from a row older
  than its Player whatever the number of workers; the property is about all others,
  those of the same session included.
* `RealmLimitHolds` (Characters): the count is taken up to two callbacks before the
  insert. Of creations that overlap all but one may exceed the limit; what the property
  says is that nothing else does: with `crowd` 1 it is the limit itself, and a queue that
  is executed in order keeps it true when the client reconnects while its old session's
  insertion is under way, or makes any number of creations one after the other.
* `CacheIsCurrent` (Characters): the cache is ahead of the database by what is queued,
  and exact about that: whose a character is and that nobody deletes it always, its name
  but for the contended. A save writes a name too, which is why a character in the
  world must not be renamed; and `LoadFromDB`'s refusal of a flagged character does not
  help one that is being loaded when it is flagged, or renamed twice.
* `TradesAreMutual`, `AcceptedAsSeen` (Trade): `GetTraderData()` is dereferenced
  unchecked; and although some refusals leave the accepted flag set, whoever has it
  set has accepted what is on the table.
* `ExchangeIsFair` (Trade): items are removed from both before any is stored, and the
  money may be refused without a word. With the checks before it neither happens.

Every property has a mutant in `PROJECT.json`: a plausible mistake in one
definition which the property's run then catches.

### Bounds

* `MaxOps = 4` with 2 workers: both hold an operation, one is queued behind
  another, and one more is pushed while the pool closes.
* 2 instances of one base map and 2 threads: the base map's update runs while its
  first instance is updated, destroyed or waiting. A battleground map differs from
  a dungeon only in the phase (`Kind`), so there is none.
* 4 messages: the dummy node goes round more than once while both producers stand
  between exchange and link.
* `MaxTries = 3` stands for the minute of retries, which the code does not count;
  `LoopBreaker` is 1 instead of 5; tasks that cross on two rows meet in the first try
  and again in the retries. `MaxLosses = 1` is a loss at any one place.
* `PlayerLimit = 1` with three accounts: somebody waits, somebody is exempt,
  somebody comes back within the tolerance. Two sessions of one account are the
  old and the new one; the run `refused` has three. `MaxConnects = 3`: of the four
  sessions any three connect, in any order. `MaxRepeats = 1`: each account asks once
  for one character more than it should, which leaves a stray; the second stray
  differs from the first in nothing that a property looks at.
* `MaxLogin = 2`, `MaxSent = 3`: a stay, a logout with a packet behind it, and a second
  stay with packets early and late; safe and unsafe ones in any order.
* `Workers = 1` is the default of the configuration. `RealmLimit = 1` with two accounts,
  two guids and two names: two accounts want one name, one account creates while its
  old creation is under way. Both `Callbacks` belong to one account: its session has two
  requests under way at once, of the same kind or not, two creations under one name
  included; the other account has no requests that wait, but a character that can be
  deleted, asked for and in the way. `MaxOverlaps = 1`: one request
  overlaps, which is enough to contend for a character or to exceed the limit.
  `MaxVersion = 1` tells an old row from a new one; `MaxQueue = 2` bounds the requests and
  periodic saves, not the operations that follow from them; `GuidsLeft` begins no more
  creations than there are guids.
* Three players: one of a pair may turn to a third. Two items in one traded slot and
  the last one, `Room` 1: an exchange fits only because both sides give.
  `MaxMoney = 2`: a payment that would reach the maximum. Two players, three items, two
  traded slots and room for two were checked once as well (2 855 492 states), so that
  the loop over the slots runs twice.

`Enqueue`, `Exchange`, `Connect` and the client's packets stop when their constants are
used up. Symmetry is used in `trade` (players, items) and `characters` (callbacks,
guids, names), which check no liveness and single out no element; nowhere else.

### Fairness

All of it is weak fairness of what a thread does next, once it may. Threads are
scheduled by the operating system, `call()` and `Map::Update` are assumed to
return, the MySQL server to answer. `CloseStep` is fair only once `Close` has
begun, `DatabaseWorker` has no fairness on callers, `MapUpdater` none on players and
none on the shutdown, `MPSCQueue` none on producers outside `Enqueue`,
`WorldSessions` none on clients: it says only that the world thread goes on, which
leaves open which packet, answer or time-out it meets. `SessionIO` has the game's
updates, the network thread and the workers of the login database go on, and nothing
of the client or of who closes a connection. That an outstanding write completes is
part of it: the peer reads, or its end fails. A peer that does neither is assumed
away. `Characters` and `Trade` state no fairness.

Deadlock is checked in all runs but two; `Closed`, `Stopped`, `AllDone` and `Halted` are
the ends the program really has. In `session_io` a connection that has ended does
nothing more, and in `characters` the bounds may stop everything.

## 4. What is proved

`DatabaseWorkerProofs.tla`, for every finite set of workers and every number of
operations (`ConstantsAssumption`). Its first lemmas say what `Append` and `Tail` do to
the elements of a queue:

| theorem | |
|---|---|
| `TypeCorrect` | `Spec => []TypeOK` |
| `OwnerCorrect` | `Spec => []OneOwner` |
| `OrderCorrect` | `Spec => []NoOvertakingInQueue` |
| `CallsCorrect` | `Spec => []CallsAreLive` |
| `NotifyCorrect` | `Spec => []NoWastedWorker` |
| `ExecutorCorrect` | `Spec => ImplementsExecutor` |

The inductive invariant is `IInv`. None of the properties is inductive alone.
`OneOwner` needs the queue to be sorted (`Ordered`), or a popped operation could
stand in the queue a second time; `NoOvertakingInQueue` needs the same, as what
is popped must be the least. `CallsAreLive` and `OneOwner` need what a thread's
position says of its local variable, that a sleeping thread is in `WaitAndPop`,
and that a cancelled queue is empty and stays so (`Coherent`): nobody pushes
after `Close` has begun. `NoWastedWorker` needs
no more than these, with a case on each action that wakes a thread or puts one to
sleep and an argument about cardinalities: a `Push` adds one to the queue and one
to the threads awake, or nobody was asleep.

The refinement is the fact that each action maps to one of the executor's (a
`WorkerExit` with an operation in hand is a `DropClaimed`, `SetToken` the `Close`) or
leaves the executor's variables as they are.

`MapUpdaterProofs.tla`, for every finite set of threads, maps and instances, every
`Kind` and every `BaseOf`:

| theorem | |
|---|---|
| `TypeCorrect` | `Spec => []TypeOK` |
| `PendingCorrect` | `Spec => []PendingIsExact` |
| `AloneCorrect` | `Spec => []WorldThreadAlone` |
| `OnceCorrect` | `Spec => []OneUpdatePerTick` |
| `DanglingCorrect` | `Spec => []NoDanglingMap` |
| `TickCorrect` | `Spec => []TickIsComplete` |
| `RequestCorrect` | `Spec => []NoNullRequest` |

The argument, with the parts of its `IInv`:

* `Phases`: outside the barrier the counter is 0. As the counter is exact, the
  queue is then empty and no worker holds a request (lemma `Quiet`), so no worker
  can schedule one. This is why `UnloadAll` and `DelayedUpdate` are safe, why
  `Cancel` finds an empty queue, and why the counter never goes below 0.
* `Locals`: a worker returns from `WaitAndPop` without a request only when the queue
  is shut down, hence the token set, hence it exits.
* `Fresh`: what has still to be scheduled has not been requested in this tick, and
  an instance is requested only after its base map's worker has come to it. With
  `OneUpdatePerTick`, one worker at most is at the instances of a base map, so it
  deletes nothing that another has scheduled or will visit. `OneUpdatePerTick`
  and `NoDanglingMap` are not inductive without it.
* `NothingForgotten`: a map not yet requested has still to be visited, by the
  world thread's loop or by the worker that has, or will have, its base map.
  `TickIsComplete` is this with nothing left to visit.

`MPSCQueueProofs.tla`, for any producers and messages:

| theorem | |
|---|---|
| `TypeCorrect` | `Spec => []TypeOK` |
| `NoUseAfterDeleteCorrect` | `Spec => []NoUseAfterDelete` |
| `ImplementsFifoCorrect` | `Spec => ImplementsFifo` |

The invariant exhibits the list: there is a sequence `ch` of nodes from `_tail` to
`_head`, and a place `d` in it for the dummy (0 when it is out), such that without the
dummy it is what has been accepted and not delivered (`Counts`, `Content`), every node
points to the next or to nothing yet (`Links`), and each nothing belongs to one thread
between its exchange and its store (`Adders`, `Consumer`). An exchange appends to `ch`, a
delivery takes its head, and the rest leaves it alone; so `Exchange` is the FIFO's
acceptance, the advance of `_tail` its delivery, and everything else a stutter.

`SqlTransactionProofs.tla`, for any connections, tasks, rows, refused statements,
retry limits and losses:

| theorem | |
|---|---|
| `TypeCorrect` | `Spec => []TypeOK` |
| `AtomicCorrect` | `Spec => []AtomicUnlessLost` |
| `CleanCorrect` | `Spec => []IdleConnectionIsClean` |
| `CleanedCorrect` | `Spec => []NeverRetriesCleaned` |

`Fresh`: a task that waits has one place and has done nothing. `Running`: a task that
is executed is on one connection and is undecided. `Opened`: a transaction is open
only inside `ExecuteTransaction`, and holds nothing of another task. `Progress`: an
undisturbed task has written exactly the statements before the one it is at, and
nothing of it is durable before the `COMMIT` has succeeded. `Decided`: what is
decided is durable as a whole or not at all. The rows' locks play no part: atomicity
does not depend on which waiter is the victim.

`WorldSessionsProofs.tla`, for any accounts, sessions, characters and configuration:

| theorem | |
|---|---|
| `TypeCorrect` | `Spec => []TypeOK` |
| `DanglingCorrect` | `Spec => []NoDanglingSession` |
| `WaitsCorrect` | `Spec => []QueuedSessionWaits` |
| `OneCharacterCorrect` | `Spec => []OneCharacterInWorld` |
| `NobodyLeftCorrect` | `Spec => []NobodyLeftInWorld` |
| `SlotsCorrect` | `Spec => []SlotsAreExact` |

`Places`: a session is in one of the add queue, the list and the offline list, or
deleted. `Pointers`: whatever points at a session points at one on a list. `Loading`,
`Playing`: a character is on its account's session or its offline session; if both have
one, or one is loading, the offline one is kicked and will be swept before the update
ends; a session's further logins only change what it has itself. `Strays`: a session of
an account that has never asked for one character too many waits for one answer at most,
and then has no Player that the answer could displace. `Ending`: after `KickAll` whoever
has not been visited again is closed, kicked or has not been told of any character. `SlotsCorrect` stands on these: it counts the sessions
that are on the list and not in the queue as a set, and follows that set's size
through the four ways in which a session leaves.

`TradeProofs.tla`, for any players, items, slots, spells, room and maximum of money:
`MutualCorrect` (`TradesAreMutual`) and `AcceptedCorrect` (`AcceptedAsSeen`). Together
with the types of trades and offers they are inductive: a step begins a trade, ends
it on both sides, or changes an offer and takes back both acceptances.

`SessionIOProofs.tla`, for any bounds: `NoUseAfterDeleteCorrect`
(`NoUseAfterDelete`). `OneAuth`: one authentication, during which nothing is read and
nobody closes the socket. `Before`: until `AddSession` the session belongs to the
network thread. `ClosedForgets`: a closed socket has forgotten its session or is just
about to, and only a session that has let go of its socket is deleted.

`CharactersProofs.tla`, for any accounts, guids, names, versions and limit, assuming
`Workers = 1`:

| theorem | |
|---|---|
| `CharactersInvariant` | `Spec => []IInv` |
| `TypeCorrect` | `Spec => []TypeOK` |
| `NothingUndone` | `Spec => []NothingIsUndone` |
| `LimitHolds` | `Spec => []RealmLimitHolds` |
| `CacheCurrent` | `Spec => []CacheIsCurrent` |

One worker is the default of `CharacterDatabase.WorkerThreads`, and the assumption is
needed: with two, TLC finds `NothingIsUndone` violated (`ClaimedByMore`). Nothing is
assumed of how many requests a session has under way. The proofs follow the queue by
places: an operation keeps its place when others are pushed and moves up by one when the
oldest has been executed, and every part of `IInv` says of a place what may still come
before or after it.

* `Awaiting`: an operation is awaited by one callback, which waits for nothing else, and
  is that of its stage. `Births`: a guid whose insertion is still queued, or that has
  not been generated, is nowhere else. `Offline`: an account with an offline session
  loads nothing.
* `Presence`: a character in memory is one that `ObjectAccessor` finds, in memory once,
  and its Player has the version last played. `Loading`: nothing that writes its row is
  queued behind a login's query, and the answer that has come back is the version last
  played. `Saved`: the last save in the queue writes the version last played, or the row
  has it. These are the heart of `NothingIsUndone`: a save is pushed while the Player is
  in memory, and the login's query after it. All three leave out the contended.
* `Renaming`, `Committed`: what an answer has said of a row is still so when the callback
  uses it. `Current`: the last queued operation that writes a name writes that of the
  cache, and every Player and every answer to a login has it (`Named`).
* `Counted`: the characters that an account has or is about to get (`Heirs`) and its
  creations that have been told that there is room (`Passed`) are fewer than
  `RealmLimit + crowd`. When a count is executed, no insertion of an abandoned callback is
  behind it, so whatever is about to be inserted beyond what it counts belongs to a
  creation under way at this moment, and those are `crowd` at most (lemma `Inserting`).
  A callback's own insertion takes it from `Passed` to `Heirs`.
* `Recorded`: the histories have taken in what is so at present.

None of it needs `_legitCharacters`: what keeps an account to its own rows is that
`LoadFromDB` compares the account of the row it has read.

Every property proved was first found by TLC to hold on the instance of section 3.
The type invariants of `DatabaseWorker` and `MapUpdater` are left to the proofs and no
run repeats them; those of `Trade`, `Characters` and `SessionIO`, of which the proofs use
a part or nothing, hold on the instances of their runs.

Left to TLC: liveness (`CloseReturns`, `EveryOpSettles`, `TickEnds`, `ShutdownEnds`,
`EverythingDelivered`, `EveryTaskEnds`, `DisconnectedIsRemoved`, `SocketEnds`), which
needs `ENABLED`; `ExchangeIsFair`, as `MovedItems` is defined by recursion over the
slots; and `HandledAsSent`, which would need the packets in flight, received and put
back as one sequence.

## 5. Where the code and its words differ

* `shutdown`: "save and kick all players" (`Main.cpp:362`). The saves are only
  enqueued, and the destructor of the first asynchronous connection deletes what
  is still in the queue.
* `lost_connection`: a transaction "will automatically rollback if not commited.
  (Autocommit=0)" (`DatabaseWorkerPool.h:183`). When the connection is lost in the
  middle, the rest of the statements is executed on a new connection and committed
  one by one.
* `refused`: "if character on old session is being loaded, then return"
  (`World.cpp:268`). The flag it looks at is also left set by refused logins.
* `linger`: characters stay in the world "even if the client connection was
  closed" (`worldserver.conf.dist:1019`). Not when the socket closes between the two
  places where it is looked at, or before the character is loaded by that update.

Met while modelling, with no run of their own:

* `WorldSession.cpp:733`: "each account can only have one online character at any given
  time". `HandlePlayerLoginOpcode` (`CharacterHandler.cpp:664-788`) goes on when its
  session has a Player or waits for one: `m_playerLoading` is set in line 666, so the
  test of `PlayerLoading()` and `GetPlayer()` in line 670 is always true, and all it does
  is to look whether the realm allows logins. The second answer's `SetPlayer` leaves the first
  Player in the world with no session to log it out, and a second Player of the same
  character is loaded from a row that the first has not been saved to.
  `OneCharacterInWorld`, `NobodyLeftInWorld` and `NothingIsUndone` are true with this
  exception only, and say what it is.
* `CharacterHandler.cpp:415-422`: creations of one session that overlap all count the
  characters before any of them is inserted, and together exceed the limit of the realm;
  the limit of the account (392-404) is asked in the same way. `RealmLimitHolds` says by
  how many.
* `CharacterHandler.cpp:1377`, `PlayerStorage.cpp:5357`: a character that must be renamed
  cannot be loaded, which keeps a login and a renaming apart; but not two renamings and a
  login between them, nor a login that is under way when the flag is set. The cache
  and the Player, and with its next save the row, then have different names.
* `TradeHandler.cpp:276`: a refused accept leaves the flag set after some refusals and
  not after others. `AcceptedAsSeen` holds all the same.
* `WorldSession.cpp:331` puts early packets back to "the bottom of the queue"; `readd`
  puts them at its front, which is what `HandledAsSent` needs (`ReaddAtBottom` is its
  mutant).
* `WorldSession.cpp:303`: "not process packets if socket already closed". The pointer is
  tested, not the socket, which may be closed.
* `CharacterHandler.cpp:1351-1352` makes sure that "there is no character with the
  desired new name" with a query. Two requests for one name may both be told that it is free, and
  `characters.name` is not unique.
* `CharacterHandler.cpp:582`: the cache gets its entry in the callback of the creation. If
  the session ends before it, the character exists and the server learns of it at its
  next start.
* `World.cpp:2879-2900`: `realmcharacters` is written only if the count has a row, so
  for an account whose last character is deleted it stays as it was.
* `WorldSession.cpp:178`: the old session's destructor may set `account.online` to 0 after
  the new one's constructor has set it to 1.
* `DelayedCloseSocket`: the socket is closed when some write completes. If an earlier
  buffer is the one, the refusal behind it is not sent.

## 6. What is not modelled, and the plan

Of the modelled components:

* opening a pool and synchronous queries, prepared statements and results;
* the contents of maps, enter checks and instance binding; the metric queue;
* timers, broadcasts and the shutdown countdown of `World`;
* of a connection: accepting it and giving it to a thread, the proxy header, pings,
  the login queue, a second session of the account and what becomes of an offline
  player (`WorldSessions` has these three), transfers between maps, packets processed
  in place, `AntiDOS`;
* of characters: customisation and race changes, the level, guild and mail count of
  a cache entry, `realmcharacters`; a Player without a session does nothing but save;
* of trades: stacks, bags and the places they take, spell reagents.

The hazards without a property are each explained in `PROJECT.json`.

Done: `PCQueue`, `DatabaseWorker` with `AsyncExecutor`, `MapUpdater`, `MPSCQueue` with
`MessageFifo`, `SqlTransaction`, `WorldSessions`, `Trade`, `Characters`, `LockedQueue`
with `WorldSocket` and `SessionIO`; the proofs of section 4.

Candidates, in this order:

1. `LFGQueue` or the invitations of `BattlegroundQueue`: several players, time-outs and
   answers after them.
2. The login database with `WorldSessions` (`account.online`), which needs a queue of
   operations beside the sessions.
3. `InstanceSaveMgr`: binds and resets.
4. `TaskScheduler` and `EventProcessor` as functions against a reference definition, and
   the status of `AuthSession` in the authserver.
5. Proofs: `HandledAsSent`, with the packets of a connection numbered from the client
   to the handler.

The rest of the server (entities, spells, combat, AI, movement, content) is left out on
purpose: large data and game rules on one thread, where a model would say what the
code says and nothing more.

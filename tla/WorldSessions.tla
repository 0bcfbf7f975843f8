---------------------------- MODULE WorldSessions ----------------------------
(***************************************************************************)
(* The life of a WorldSession, from the network thread that creates it to  *)
(* its destructor: the queue of World::AddSession, World::UpdateSessions   *)
(* with the login queue and the player limit, the logging in of a          *)
(* character, the 60 seconds a disconnected character stays in the world   *)
(* on an offline session, and World::KickAll at shutdown.                  *)
(*                                                                         *)
(* UpdateSessions runs on the world thread and is split where it matters   *)
(* what other threads do meanwhile: sockets open and close, sessions are   *)
(* added and database answers arrive between any two of its steps.  Time   *)
(* passes between any two steps too.                                       *)
(*                                                                         *)
(* A client may ask for a character whenever it is not in the login queue, *)
(* also while its session has one or waits for one: nothing in the server  *)
(* prevents it.  The Player that the session had is then left in the world *)
(* with no session that would ever log it out (a stray).                   *)
(***************************************************************************)
EXTENDS Naturals, FiniteSets, SequencesExt

CONSTANTS
    Accounts,
    Sessions,       \* the WorldSession objects that may be created
    AccountOf,      \* GetAccountId of each
    Characters,
    OwnerOf,        \* the account each character belongs to
    Grounded,       \* the characters that are in the world and on no taxi
    Exempt,         \* the accounts that are staff or skip the queue
    PlayerLimit,    \* GetPlayerAmountLimit(), 0 for none
    Tolerance,      \* is CONFIG_INTERVAL_DISCONNECT_TOLERANCE positive?
    LoginAfterDC,   \* CONFIG_ENABLE_LOGIN_AFTER_DC
    MaxConnects,    \* bound: how many of the Sessions are created
    MaxRepeats,     \* bound: how often an account asks for one more character
    None

ASSUME ConstantsAssumption ==
    /\ IsFiniteSet(Accounts)
    /\ AccountOf \in [Sessions -> Accounts]
    /\ OwnerOf \in [Characters -> Accounts]
    /\ Grounded \subseteq Characters
    /\ Exempt \subseteq Accounts
    /\ PlayerLimit \in Nat
    /\ Tolerance \in BOOLEAN /\ LoginAfterDC \in BOOLEAN
    /\ MaxConnects \in Nat /\ MaxRepeats \in Nat
    /\ None \notin Sessions \union Characters \union Accounts

VARIABLES
    unused,         \* the sessions not created yet
    addQueue,       \* _addSessQueue
    sessions,       \* _sessions
    offline,        \* _offlineSessions
    queued,         \* _queuedPlayer
    recent,         \* the accounts in _disconnects
    deleted,        \* the sessions whose destructor has run
    open,           \* the sessions whose socket IsOpen()
    kicked,         \* _kicked
    inQueue,        \* m_inQueue
    loading,        \* m_playerLoading
    player,         \* _player
    initializing,   \* InitializeSession's query is not answered
    legit,          \* _legitCharacters lists the characters of the account
    loads,          \* the callbacks in _queryHolderProcessor of each character
    stray,          \* characters whose Player is in the world without a session
    phase,          \* where the world thread is
    visit,          \* the accounts its loop over _sessions has still to visit
    cur,            \* the session it is at
    stopped,        \* World::IsStopped()
    final,          \* KickAll has run
    tolerated,      \* history: admitted because of _disconnects
    repeats         \* history: how often each account has done so

mapVars == <<addQueue, sessions, offline, queued, recent, deleted, tolerated>>
playerVars == <<stray, repeats>>
sessionVars == <<kicked, inQueue, loading, player, initializing, legit, loads>>
loopVars == <<phase, visit, cur>>
stopVars == <<stopped, final>>
vars == <<unused, mapVars, open, sessionVars, playerVars, loopVars, stopVars>>

\* Init with a constructor that leaves _player as it was.
InitGarbage ==
    /\ unused = Sessions
    /\ addQueue = << >>
    /\ sessions = [a \in Accounts |-> None]
    /\ offline = [a \in Accounts |-> None]
    /\ queued = << >>
    /\ recent = {}
    /\ deleted = {}
    /\ open = {}
    /\ kicked = {}
    /\ inQueue = {}
    /\ loading = {}
    /\ player = [s \in Sessions |-> s]
    /\ initializing = {}
    /\ legit = {}
    /\ loads = [s \in Sessions |-> [c \in Characters |-> 0]]
    /\ stray = {}
    /\ phase = "idle"
    /\ visit = {}
    /\ cur = None
    /\ stopped = FALSE
    /\ final = FALSE
    /\ tolerated = {}
    /\ repeats = [a \in Accounts |-> 0]

Init ==
    /\ unused = Sessions
    /\ addQueue = << >>
    /\ sessions = [a \in Accounts |-> None]
    /\ offline = [a \in Accounts |-> None]
    /\ queued = << >>
    /\ recent = {}
    /\ deleted = {}
    /\ open = {}
    /\ kicked = {}
    /\ inQueue = {}
    /\ loading = {}
    /\ player = [s \in Sessions |-> None]
    /\ initializing = {}
    /\ legit = {}
    /\ loads = [s \in Sessions |-> [c \in Characters |-> 0]]
    /\ stray = {}
    /\ phase = "idle"
    /\ visit = {}
    /\ cur = None
    /\ stopped = FALSE
    /\ final = FALSE
    /\ tolerated = {}
    /\ repeats = [a \in Accounts |-> 0]

Listed == {sessions[a] : a \in Accounts} \ {None}
Offline == {offline[a] : a \in Accounts} \ {None}
\* WorldSession::Update of cur: its packets, then the answers to its queries,
\* then a logout; any of them may be missing.
InUpdate == {"packets", "callbacks", "end"}

Entries(q) == {q[i] : i \in DOMAIN q}

NoLoads == [c \in Characters |-> 0]
Waits(s) == \E c \in Characters : loads[s][c] > 0

\* GetActiveSessionCount() for a list and a queue.
ActiveCount(list, q) == Cardinality({a \in Accounts : list[a] # None}) - Len(q)

-----------------------------------------------------------------------------
(* The network threads and the operator.                                   *)

\* HandleAuthSessionCallback has authenticated a client.  Which of the objects
\* not created yet an account is given does not matter.
Connect(s) ==
    /\ s \in unused
    /\ s = CHOOSE t \in unused : AccountOf[t] = AccountOf[s]
    /\ Cardinality(Sessions \ unused) < MaxConnects
    /\ unused' = unused \ {s}
    /\ open' = open \union {s}
    /\ addQueue' = Append(addQueue, s)
    /\ UNCHANGED <<sessions, offline, queued, recent, deleted, tolerated,
                   sessionVars, playerVars, loopVars, stopVars>>

\* The client goes away.
Disconnect(s) ==
    /\ s \in open
    /\ open' = open \ {s}
    /\ UNCHANGED <<unused, mapVars, sessionVars, playerVars, loopVars, stopVars>>

\* World::StopNow.
Stop ==
    /\ ~ stopped
    /\ stopped' = TRUE
    /\ UNCHANGED <<unused, mapVars, open, sessionVars, playerVars, loopVars, final>>

-----------------------------------------------------------------------------
(* Pieces of UpdateSessions and AddSession_.                               *)

\* ~WorldSession of the sessions D: a player still there is logged out and
\* saved, the socket is closed.  P is `player` at that moment.
Delete(D, P) ==
    /\ deleted' = deleted \union D
    /\ player' = [s \in Sessions |-> IF s \in D THEN None ELSE P[s]]
    /\ open' = open \ D

\* RemoveQueuedPlayer(s) finds s in the queue or frees the slot it had; in both
\* cases the first in the queue is admitted if there is room.
Found(s) == s \in Entries(queued)
Without(s) ==
    IF Found(s) THEN RemoveAt(queued, CHOOSE i \in DOMAIN queued : queued[i] = s)
                ELSE queued
\* Room that admits one too many.
RoomForOneMore(s) ==
    LET active == ActiveCount(sessions, queued) - (IF Found(s) THEN 0 ELSE 1)
    IN  PlayerLimit = 0 \/ active <= PlayerLimit

Room(s) ==
    LET active == ActiveCount(sessions, queued) - (IF Found(s) THEN 0 ELSE 1)
    IN  PlayerLimit = 0 \/ active < PlayerLimit
Admitted(s) == IF Room(s) /\ Without(s) # << >> THEN {Head(Without(s))} ELSE {}
QueueAfter(s) == IF Admitted(s) = {} THEN Without(s) ELSE Tail(Without(s))

\* The _disconnects entry of a session that was not queued.
RecentAfter(s) ==
    IF Tolerance /\ ~ Found(s) THEN recent \union {AccountOf[s]} ELSE recent

\* HandleSocketClosed() would keep the character in the world, given a closed
\* socket.
Lingers(s) ==
    /\ s \notin kicked
    /\ player[s] \in Grounded
    /\ ~ stopped

\* What the destructor takes with it of a session's own queries and flags.
Forget(D) ==
    /\ kicked' = kicked \ D
    /\ loading' = loading \ D
    /\ legit' = legit \ D
    /\ loads' = [s \in Sessions |-> IF s \in D THEN NoLoads ELSE loads[s]]

-----------------------------------------------------------------------------
(* World::UpdateSessions: adding.                                          *)

BeginUpdate ==
    /\ phase = "idle"
    /\ ~ stopped
    /\ phase' = "add"
    /\ UNCHANGED <<unused, mapVars, open, sessionVars, playerVars, visit, cur, stopVars>>

\* AddSession_ when KickSession returns false: the new session is deleted.
RefuseSession ==
    /\ phase = "add"
    /\ addQueue # << >>
    /\ LET s == Head(addQueue)
           old == sessions[AccountOf[s]]
       IN  /\ old \in loading
           /\ Delete({s}, player)
           /\ addQueue' = Tail(addQueue)
    /\ UNCHANGED <<unused, sessions, offline, queued, recent, tolerated, kicked,
                   inQueue, loading, initializing, legit, loads, playerVars,
                   loopVars, stopVars>>

\* AddSession_ otherwise.  The old session of the account has its socket closed
\* and leaves the queue; it becomes the offline session of the account, in the
\* place of any other, or is deleted.  HasRecentlyDisconnected, if it is asked,
\* drops the _disconnects entries that are older than the tolerance by now.
AddSession_(expired) ==
    /\ phase = "add"
    /\ addQueue # << >>
    /\ LET s == Head(addQueue)
           a == AccountOf[s]
           old == sessions[a]
           replaces == old # None
           stays == replaces /\ Lingers(old)
           gone == (IF replaces /\ ~ stays THEN {old} ELSE {})
                     \union (IF stays THEN {offline[a]} \ {None} ELSE {})
           admitted == IF replaces THEN Admitted(old) ELSE {}
           queue == IF replaces THEN QueueAfter(old) ELSE queued
           list == [sessions EXCEPT ![a] = s]
           fresh == IF replaces /\ Tolerance /\ ~ Found(old) THEN {a} ELSE {}
           inTime == (recent \ expired) \union fresh
           full == /\ PlayerLimit > 0
                   /\ Cardinality({b \in Accounts : list[b] # None}) - 1 >= PlayerLimit
                   /\ a \notin Exempt
           mustWait == full /\ a \notin inTime
       IN  /\ old \notin loading
           /\ addQueue' = Tail(addQueue)
           /\ sessions' = list
           /\ offline' = IF stays THEN [offline EXCEPT ![a] = old] ELSE offline
           /\ recent' = IF full THEN inTime ELSE recent \union fresh
           /\ deleted' = deleted \union gone
           /\ player' = [t \in Sessions |-> IF t \in gone THEN None ELSE player[t]]
           /\ open' = open \ {old}
           /\ queued' = IF mustWait THEN Append(queue, s) ELSE queue
           /\ inQueue' = (inQueue \ {old}) \union (IF mustWait THEN {s} ELSE {})
           /\ initializing' = (initializing \ gone) \union admitted
                                \union (IF mustWait THEN {} ELSE {s})
           /\ tolerated' = IF full /\ ~ mustWait THEN tolerated \union {s} ELSE tolerated
           /\ Forget(gone)
    /\ UNCHANGED <<unused, playerVars, loopVars, stopVars>>

EndAdd ==
    /\ phase = "add"
    /\ addQueue = << >>
    /\ phase' = "check"
    /\ visit' = {a \in Accounts : sessions[a] # None}
    /\ UNCHANGED <<unused, mapVars, open, sessionVars, playerVars, cur, stopVars>>

-----------------------------------------------------------------------------
(* World::UpdateSessions: one session after the other.                     *)

\* HandleSocketClosed() is true: the session goes offline with its character.
GoOffline(a) ==
    /\ phase = "check"
    /\ a \in visit
    /\ LET s == sessions[a]
           gone == {offline[a]} \ {None}
       IN  /\ s \notin open
           /\ Lingers(s)
           /\ queued' = QueueAfter(s)
           /\ recent' = RecentAfter(s)
           /\ initializing' = (initializing \ gone) \union Admitted(s)
           /\ inQueue' = inQueue \ {s}
           /\ sessions' = [sessions EXCEPT ![a] = None]
           /\ offline' = [offline EXCEPT ![a] = s]
           /\ Delete(gone, player)
           /\ Forget(gone)
    /\ visit' = visit \ {a}
    /\ UNCHANGED <<unused, addQueue, tolerated, playerVars, phase, cur, stopVars>>

\* HandleSocketClosed() is false: WorldSession::Update begins.
EnterUpdate(a) ==
    /\ phase = "check"
    /\ a \in visit
    /\ sessions[a] \in open \/ ~ Lingers(sessions[a])
    /\ visit' = visit \ {a}
    /\ cur' = sessions[a]
    /\ phase' = "packets"
    /\ UNCHANGED <<unused, mapVars, open, sessionVars, playerVars, stopVars>>

\* The dispatch of a STATUS_AUTHED packet without the test of m_inQueue.
AuthedWhenQueued(s) == s \in Sessions
\* The dispatch calls the handler of a STATUS_AUTHED packet.
Authed(s) == s \notin inQueue

\* CMSG_CHAR_ENUM is answered, with at least one character.
HandleCharEnum ==
    /\ phase \in {"packets", "callbacks"}
    /\ Authed(cur)
    /\ \E c \in Characters : OwnerOf[c] = AccountOf[cur]
    /\ legit' = legit \union {cur}
    /\ phase' = "callbacks"
    /\ UNCHANGED <<unused, mapVars, open, kicked, inQueue, loading, player,
                   initializing, loads, playerVars, visit, cur, stopVars>>

\* HandlePlayerLoginOpcode is reached with a character of the account.  It looks
\* at PlayerLoading() and GetPlayer() only for a realm that lets nobody in.
LoginPacket(c) ==
    /\ phase = "packets"
    /\ Authed(cur)
    /\ cur \in legit
    /\ OwnerOf[c] = AccountOf[cur]

\* SetPlayer of cur makes `player` P, whatever Player cur had.
SetPlayer(P) ==
    /\ player' = P
    /\ stray' = stray \union ({player[cur]} \ {None})

\* The session asks while it has a character or waits for one, or not.
NoteRepeat ==
    IF player[cur] # None \/ Waits(cur)
    THEN /\ repeats[AccountOf[cur]] < MaxRepeats
         /\ repeats' = [repeats EXCEPT ![AccountOf[cur]] = @ + 1]
    ELSE repeats' = repeats

\* The character is loaded from the database.  An offline session with another
\* character of the account is kicked.
LoginFromDB(c) ==
    /\ LoginPacket(c)
    /\ LET off == offline[OwnerOf[c]]
       IN  /\ off # None => off \notin kicked /\ player[off] \notin {None, c}
           /\ kicked' = kicked \union ({off} \ {None})
    /\ loading' = loading \union {cur}
    /\ loads' = [loads EXCEPT ![cur][c] = @ + 1]
    /\ NoteRepeat
    /\ UNCHANGED <<unused, mapVars, open, inQueue, player, initializing, legit,
                   stray, loopVars, stopVars>>
\* LoginToCharInWorld without sess->SetPlayer(nullptr).
LoginToCharKeptTwice(c) ==
    /\ LoginPacket(c)
    /\ LoginAfterDC
    /\ LET off == offline[OwnerOf[c]]
       IN  /\ off # None
           /\ off \notin kicked
           /\ player[off] = c
           /\ SetPlayer([player EXCEPT ![cur] = c])
    /\ NoteRepeat
    /\ loading' = loading \ {cur}
    /\ UNCHANGED <<unused, mapVars, open, kicked, inQueue, initializing, legit,
                   loads, loopVars, stopVars>>

\* The character is still in the world on the offline session and changes hands.
LoginToCharInWorld(c) ==
    /\ LoginPacket(c)
    /\ LoginAfterDC
    /\ LET off == offline[OwnerOf[c]]
       IN  /\ off # None
           /\ off \notin kicked
           /\ player[off] = c
           /\ SetPlayer([player EXCEPT ![off] = None, ![cur] = c])
    /\ NoteRepeat
    /\ loading' = loading \ {cur}
    /\ UNCHANGED <<unused, mapVars, open, kicked, inQueue, initializing, legit,
                   loads, loopVars, stopVars>>

\* CHAR_LOGIN_DUPLICATE_CHARACTER, with m_playerLoading set in the handler's
\* first line and not reset.  With LoginAfterDC the character may be on no map.
LoginRefused(c) ==
    /\ LoginPacket(c)
    /\ LET off == offline[OwnerOf[c]]
       IN  off # None /\ (off \in kicked \/ player[off] \in {None, c})
    /\ loading' = loading \union {cur}
    /\ UNCHANGED <<unused, mapVars, open, kicked, inQueue, player, initializing,
                   legit, loads, playerVars, loopVars, stopVars>>

\* A handler kicks the client; HandlePlayerLoginOpcode does, with m_playerLoading
\* set, when the character is not in _legitCharacters.
KickPlayer ==
    /\ phase = "packets"
    /\ Authed(cur)
    /\ kicked' = kicked \union {cur}
    /\ open' = open \ {cur}
    /\ loading' \in {loading, loading \union {cur}}
    /\ UNCHANGED <<unused, mapVars, inQueue, player, initializing, legit, loads,
                   playerVars, loopVars, stopVars>>

\* ProcessQueryCallbacks finds the answer to InitializeSession.
InitializeSessionCallback ==
    /\ phase \in {"packets", "callbacks"}
    /\ cur \in initializing
    /\ initializing' = initializing \ {cur}
    /\ inQueue' = inQueue \ {cur}
    /\ phase' = "callbacks"
    /\ UNCHANGED <<unused, mapVars, open, kicked, loading, player, legit, loads,
                   playerVars, visit, cur, stopVars>>

\* It finds one of the login queries answered, in whatever order they are.
LoginAnswered(c) ==
    /\ phase \in {"packets", "callbacks"}
    /\ loads[cur][c] > 0
    /\ loads' = [loads EXCEPT ![cur][c] = @ - 1]
    /\ loading' = loading \ {cur}
    /\ phase' = "callbacks"

\* LoadFromDB makes the new Player the session's.
HandlePlayerLoginFromDB(c) ==
    /\ LoginAnswered(c)
    /\ SetPlayer([player EXCEPT ![cur] = c])
    /\ UNCHANGED <<unused, mapVars, open, kicked, inQueue, initializing, legit,
                   repeats, visit, cur, stopVars>>

\* LoadFromDB fails.
LoadFails(c) ==
    /\ LoginAnswered(c)
    /\ SetPlayer([player EXCEPT ![cur] = None])
    /\ kicked' = kicked \union {cur}
    /\ open' = open \ {cur}
    /\ UNCHANGED <<unused, mapVars, inQueue, initializing, legit, repeats,
                   visit, cur, stopVars>>

\* ShouldLogOut, twenty seconds after the client asked for it.
LogoutPlayer ==
    /\ phase \in {"packets", "callbacks"}
    /\ player[cur] # None
    /\ cur \notin loading
    /\ player' = [player EXCEPT ![cur] = None]
    /\ phase' = "end"
    /\ UNCHANGED <<unused, mapVars, open, kicked, inQueue, loading, initializing,
                   legit, loads, playerVars, visit, cur, stopVars>>

\* KeepSession without the test of the socket.
KeepSessionAnyway ==
    /\ phase \in InUpdate
    /\ phase' = "check"
    /\ cur' = None
    /\ UNCHANGED <<unused, mapVars, open, sessionVars, playerVars, visit, stopVars>>

\* Update returns true.
KeepSession ==
    /\ phase \in InUpdate
    /\ cur \in open
    /\ phase' = "check"
    /\ cur' = None
    /\ UNCHANGED <<unused, mapVars, open, sessionVars, playerVars, visit, stopVars>>

\* RemoveSession without RemoveQueuedPlayer.
RemoveSessionStillQueued ==
    /\ phase \in InUpdate
    /\ cur \notin open
    /\ recent' = RecentAfter(cur)
    /\ initializing' = initializing \ {cur}
    /\ inQueue' = inQueue \ {cur}
    /\ sessions' = [sessions EXCEPT ![AccountOf[cur]] = None]
    /\ Delete({cur}, player)
    /\ Forget({cur})
    /\ phase' = "check"
    /\ cur' = None
    /\ UNCHANGED <<unused, addQueue, offline, queued, tolerated, playerVars, visit,
                   stopVars>>

\* Update returns false because the socket is closed: the session is deleted,
\* and a character still on it is logged out.
RemoveSession ==
    /\ phase \in InUpdate
    /\ cur \notin open
    /\ queued' = QueueAfter(cur)
    /\ recent' = RecentAfter(cur)
    /\ initializing' = (initializing \ {cur}) \union Admitted(cur)
    /\ inQueue' = inQueue \ {cur}
    /\ sessions' = [sessions EXCEPT ![AccountOf[cur]] = None]
    /\ Delete({cur}, player)
    /\ Forget({cur})
    /\ phase' = "check"
    /\ cur' = None
    /\ UNCHANGED <<unused, addQueue, offline, tolerated, playerVars, visit, stopVars>>

-----------------------------------------------------------------------------
(* World::UpdateSessions: the offline sessions.                            *)

Swept(s) == player[s] = None \/ s \in kicked

\* The sessions D: those that must go, and any that have been offline for more
\* than 60 seconds.
SweepOffline(D) ==
    /\ phase = "check"
    /\ visit = {}
    /\ {s \in Offline : Swept(s)} \subseteq D
    /\ D \subseteq Offline
    /\ offline' = [a \in Accounts |-> IF offline[a] \in D THEN None ELSE offline[a]]
    /\ Delete(D, player)
    /\ Forget(D)
    /\ initializing' = initializing \ D
    /\ inQueue' = inQueue \ D
    /\ phase' = IF final THEN "halted" ELSE "idle"
    /\ UNCHANGED <<unused, addQueue, sessions, queued, recent, tolerated,
                   playerVars, visit, cur, stopVars>>

-----------------------------------------------------------------------------
(* The end of the world loop: KickAll and one more UpdateSessions.         *)

\* KickAll without the offline sessions.
KickAllOnline ==
    /\ phase = "idle"
    /\ stopped
    /\ final' = TRUE
    /\ queued' = << >>
    /\ kicked' = kicked \union Listed
    /\ open' = open \ Listed
    /\ phase' = "add"
    /\ UNCHANGED <<unused, addQueue, sessions, offline, recent, deleted,
                   tolerated, inQueue, loading, player, initializing, legit,
                   loads, playerVars, visit, cur, stopped>>

KickAll ==
    /\ phase = "idle"
    /\ stopped
    /\ final' = TRUE
    /\ queued' = << >>
    /\ kicked' = kicked \union Listed \union Offline
    /\ open' = open \ Listed
    /\ phase' = "add"
    /\ UNCHANGED <<unused, addQueue, sessions, offline, recent, deleted,
                   tolerated, inQueue, loading, player, initializing, legit,
                   loads, playerVars, visit, cur, stopped>>

-----------------------------------------------------------------------------
WorldThread ==
    \/ BeginUpdate \/ RefuseSession \/ EndAdd
    \/ \E expired \in SUBSET recent : AddSession_(expired)
    \/ \E a \in Accounts : GoOffline(a) \/ EnterUpdate(a)
    \/ \E c \in Characters :
          \/ LoginFromDB(c) \/ LoginToCharInWorld(c) \/ LoginRefused(c)
          \/ HandlePlayerLoginFromDB(c) \/ LoadFails(c)
    \/ KickPlayer \/ InitializeSessionCallback \/ HandleCharEnum
    \/ LogoutPlayer
    \/ KeepSession \/ RemoveSession
    \/ \E D \in SUBSET Offline : SweepOffline(D)
    \/ KickAll

Halted == phase = "halted" /\ UNCHANGED vars

Next ==
    \/ \E s \in Sessions : Connect(s) \/ Disconnect(s)
    \/ Stop
    \/ WorldThread
    \/ Halted

\* The world thread runs on; which packets, answers and timeouts it meets on
\* its way, and what clients do, is left open.
Fairness == WF_vars(WorldThread)

Spec == Init /\ [][Next]_vars
FairSpec == Spec /\ Fairness

-----------------------------------------------------------------------------
(* Properties.                                                             *)

TypeOK ==
    /\ unused \in SUBSET Sessions
    /\ addQueue \in Seq(Sessions)
    /\ sessions \in [Accounts -> Sessions \union {None}]
    /\ offline \in [Accounts -> Sessions \union {None}]
    /\ queued \in Seq(Sessions)
    /\ recent \in SUBSET Accounts
    /\ {deleted, open, kicked, inQueue, loading, initializing, legit, tolerated}
          \subseteq SUBSET Sessions
    /\ player \in [Sessions -> Characters \union {None}]
    /\ loads \in [Sessions -> [Characters -> Nat]]
    /\ stray \in SUBSET Characters
    /\ repeats \in [Accounts -> Nat]
    /\ phase \in {"idle", "add", "check", "packets", "callbacks", "end", "halted"}
    /\ visit \in SUBSET Accounts
    /\ cur \in Sessions \union {None}
    /\ stopped \in BOOLEAN /\ final \in BOOLEAN

\* Every session created and not deleted is in exactly one of the three lists,
\* under its own account; the login queue, the loop of UpdateSessions and the
\* pending callbacks point at no session that has been deleted.  RemoveQueued-
\* Player's ASSERT(sessions > 0) holds because of it.
NoDanglingSession ==
    /\ Sessions \ (unused \union deleted)
         = Entries(addQueue) \union Listed \union Offline
    /\ Listed \intersect Offline = {}
    /\ Entries(addQueue) \intersect (Listed \union Offline) = {}
    /\ \A a \in Accounts :
         \A s \in {sessions[a], offline[a]} \ {None} : AccountOf[s] = a
    /\ \A i, j \in DOMAIN queued : queued[i] = queued[j] => i = j
    /\ Entries(queued) \subseteq Listed
    /\ phase \in InUpdate => cur \in Listed
    /\ initializing \union {s \in Sessions : Waits(s)} \subseteq Listed \union Offline

\* A session in the login queue is not in the game: it has no character, loads
\* none, has not been told what characters there are, and is admitted once.
QueuedSessionWaits ==
    \A s \in Entries(queued) :
        /\ s \in inQueue
        /\ player[s] = None
        /\ ~ Waits(s)
        /\ s \notin initializing \union legit

\* The login queue lets in as many as there is room for and no more: nobody
\* waits while there is a free slot, and not counting those that are exempt or
\* came back within the tolerance there are never more than PlayerLimit in.
\* (KickAll forgets the queue for the one update that is left.)
SlotsAreExact ==
    /\ queued # << >> => ActiveCount(sessions, queued) >= PlayerLimit
    /\ PlayerLimit > 0 /\ ~ final =>
         Cardinality({a \in Accounts \ Exempt :
             sessions[a] \notin Entries(queued) \union tolerated \union {None}})
           <= PlayerLimit

\* WorldSession.cpp: "each account can only have one online character at any
\* given time".  No two sessions have the same character, and whenever the maps
\* are updated an account has one session with a character, the offline one
\* included.  A Player that no session has is only ever one of an account whose
\* client asked for a character while its session had one or waited for one.
OneCharacterInWorld ==
    /\ \A s, t \in Sessions : player[s] = player[t] /\ player[s] # None => s = t
    /\ phase = "idle" =>
         \A s, t \in Sessions :
             player[s] # None /\ player[t] # None /\ AccountOf[s] = AccountOf[t] => s = t
    /\ \A c \in stray : repeats[OwnerOf[c]] > 0

\* "Kick (and save) all players": when the update after KickAll is over no
\* session has a character, whatever logins and disconnects were under way, and
\* no Player is left but those OneCharacterInWorld lets an account leave behind.
NobodyLeftInWorld ==
    phase = "halted" =>
        /\ \A s \in Sessions : player[s] = None
        /\ \A c \in stray : repeats[OwnerOf[c]] > 0

\* A session whose socket is closed leaves _sessions, and with it frees its
\* slot.  As only so many clients ever connect, that is to say that from some
\* moment on every session of the list is connected.
DisconnectedIsRemoved == <>[](Listed \subseteq open \/ phase = "halted")

\* World.cpp:268 says of the early return of AddSession_ "if character on old
\* session is being loaded, then return": a client that comes back is turned
\* away only while its account's session waits for a character to be loaded.
RefusedOnlyWhileLoading ==
    [][\A s \in Entries(addQueue) :
          s \in deleted' => LET old == sessions[AccountOf[s]]
                            IN  old # None /\ Waits(old)]_vars

\* worldserver.conf.dist:1019-1022: "After not logging out properly (clicking
\* Logout and waiting 20 seconds), characters stay in game world for a full
\* minute, even if the client connection was closed."  The session of such a
\* character is not deleted from the list because its client went away, unless
\* it was kicked or the server stops.
DisconnectedStaysInWorld ==
    [][\A s \in Listed :
          s \in deleted' /\ player[s] \in Grounded => s \in kicked \/ stopped]_vars
=============================================================================

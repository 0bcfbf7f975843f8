------------------------------ MODULE SessionIO ------------------------------
(***************************************************************************)
(* A connection and its session: WorldSocket has the network thread's      *)
(* part, LockedQueue the packets received, and this module what the game   *)
(* does with them in WorldSession::Update, together with the client that   *)
(* sends them.                                                             *)
(*                                                                         *)
(* The session is updated by the world thread (World::UpdateSessions) and, *)
(* while its player is in the world, by the map's (Map::Update), never at  *)
(* the same time: MapUpdater has why.  So they are one process here, which *)
(* takes turns, and `game' is where it is.                                 *)
(*                                                                         *)
(* The client keeps to the protocol: it asks for its characters, enters    *)
(* the world with one, plays and logs out, and what it still sends after a *)
(* logout request may come late.  Its packets are numbered within a stay   *)
(* in the world (`login'); number 0 is the login itself.                   *)
(*                                                                         *)
(* Left out: the login queue, a second session of the account and what     *)
(* becomes of a player whose connection broke (WorldSessions), transfers   *)
(* between maps, packets that are answered in place or dropped by AntiDOS. *)
(***************************************************************************)
EXTENDS WorldSocket

CONSTANTS
    MaxLogin,   \* bound: stays in the world
    MaxSent     \* bound: packets sent during a stay

ASSUME BoundsAssumption == MaxLogin \in Nat /\ MaxSent \in Nat

VARIABLES
    session,        \* "none", "new", "queued", "live", "offline" or "deleted"
    socketPtr,      \* m_Socket # nullptr
    recv,           \* _recvQueue
    requeuePackets, \* the local of WorldSession::Update
    kicked,         \* _kicked
    loading,        \* the login whose query is under way (m_playerLoading), or 0
    player,         \* the login whose player is _player, or 0
    leaving,        \* _logoutTime # 0
    recentlyLogout, \* m_playerRecentlyLogout
    game,           \* where the game is in its update of the session
    inCloseSocket,  \* the game is in CloseSocket, before OnClose
    stage,          \* where the client is in the protocol
    login,          \* its stays in the world so far
    number,         \* the number of its last packet in this one
    handled         \* history: the last packet of a player that was handled

game_vars == <<session, socketPtr, kicked, game, inCloseSocket>>
character == <<loading, player, leaving, recentlyLogout, handled>>
protocol == <<stage, login, number>>
vars == <<socketVars, game_vars, recv, requeuePackets, character, protocol>>

RecvQueue == INSTANCE LockedQueue WITH queue <- recv

Packets == [kind : {"auth", "enum", "login", "safe", "unsafe", "logout"},
            login : 0..MaxLogin, number : 0..MaxSent]

TypeOK ==
    /\ SocketTypeOK
    /\ inflight \in Seq(Packets)
    /\ session \in {"none", "new", "queued", "live", "offline", "deleted"}
    /\ {socketPtr, kicked, leaving, recentlyLogout, inCloseSocket} \subseteq BOOLEAN
    /\ recv \in Seq(Packets) /\ requeuePackets \in Seq(Packets)
    /\ loading \in 0..MaxLogin /\ player \in 0..MaxLogin
    /\ game \in {"world", "worldPackets", "callbacks", "mapPackets", "delete"}
    /\ stage \in {"start", "authed", "characters", "playing", "leaving"}
    /\ login \in 0..MaxLogin /\ number \in 0..MaxSent
    /\ handled \in [login : 0..MaxLogin, number : 0..MaxSent]

Init ==
    /\ SocketInit
    /\ session = "none" /\ socketPtr = FALSE
    /\ recv = << >> /\ requeuePackets = << >>
    /\ kicked = FALSE
    /\ loading = 0 /\ player = 0
    /\ leaving = FALSE /\ recentlyLogout = FALSE
    /\ game = "world" /\ inCloseSocket = FALSE
    /\ stage = "start" /\ login = 0 /\ number = 0
    /\ handled = [login |-> 0, number |-> 0]

-----------------------------------------------------------------------------
(* The client                                                              *)

Send(kind, l, n) ==
    /\ clientOpen
    /\ inflight' = Append(inflight, [kind |-> kind, login |-> l, number |-> n])
    /\ login' = l /\ number' = n
    /\ UNCHANGED <<clientOpen, flags, reading, writes, queries, pointer, removed, net,
                   game_vars, recv, requeuePackets, character>>

ClientAuth ==
    /\ stage = "start" /\ "challenge" \in sent
    /\ stage' = "authed"
    /\ Send("auth", login, number)

\* Once it is told that it is in, or that it has been logged out.
ClientEnum ==
    /\ \/ stage = "authed" /\ session = "live"
       \/ stage = "leaving" /\ handled.login = login /\ loading = 0 /\ player = 0
    /\ stage' = "characters"
    /\ Send("enum", login, number)

ClientLogin ==
    /\ stage = "characters" /\ login < MaxLogin
    /\ stage' = "playing"
    /\ Send("login", login + 1, 0)

\* What the client still sends after a logout request may come late.
ClientPlay(kind) ==
    /\ stage \in {"playing", "leaving"} /\ number < MaxSent
    /\ UNCHANGED stage
    /\ Send(kind, login, number + 1)

ClientLogout ==
    /\ stage = "playing" /\ number < MaxSent
    /\ stage' = "leaving"
    /\ Send("logout", login, number + 1)

ClientClose ==
    /\ clientOpen
    /\ clientOpen' = FALSE
    /\ UNCHANGED <<inflight, flags, reading, writes, queries, pointer, removed, net,
                   game_vars, recv, requeuePackets, character, protocol>>

-----------------------------------------------------------------------------
(* The network thread, where it uses the session                           *)

\* HandleAuthSessionCallback: the session is created with the socket.
NewSession ==
    /\ CreateSession
    /\ session' = "new" /\ socketPtr' = TRUE
    /\ UNCHANGED <<kicked, game, inCloseSocket, recv, requeuePackets, character, protocol>>

\* ReadAddonsInfo, InitWarden and sWorld->AddSession.
AddSession ==
    /\ net = "created"
    /\ session' = "queued"
    /\ net' = "added"
    /\ UNCHANGED <<client, flags, reading, writes, queries, pointer, removed, socketPtr,
                   kicked, game, inCloseSocket, recv, requeuePackets, character, protocol>>

\* QueuePacket, and on with what the same read brought or with the next read.
QueuePacket ==
    /\ net = "data"
    /\ RecvQueue!Add(Head(inflight))
    /\ inflight' = Tail(inflight)
    /\ \/ net' = "reading" /\ inflight' # << >> /\ UNCHANGED reading
       \/ net' = "idle" /\ AsyncRead
    /\ UNCHANGED <<clientOpen, flags, writes, queries, pointer, removed, game_vars,
                   requeuePackets, character, protocol>>

Network ==
    \/ SocketStep
       /\ UNCHANGED <<game_vars, recv, requeuePackets, character, protocol>>
    \/ NewSession \/ AddSession \/ QueuePacket

LoginDatabase ==
    QueryAnswered /\ UNCHANGED <<game_vars, recv, requeuePackets, character, protocol>>

-----------------------------------------------------------------------------
(* The game                                                                *)

\* A step of the game that leaves the connection alone.
At(place) ==
    /\ game = place
    /\ ~inCloseSocket
    /\ UNCHANGED <<client, reading, writes, queries, removed, net, closing, protocol>>

\* CloseSocket, as far as OnClose.
GameCloseSocket ==
    /\ closed' = TRUE
    /\ inCloseSocket' = ~closed

\* OnClose without _worldSessionLock.
GameOnCloseUnlocked ==
    /\ inCloseSocket
    /\ inCloseSocket' = FALSE /\ pointer' = FALSE
    /\ UNCHANGED <<client, flags, reading, writes, queries, removed, net, session,
                   socketPtr, kicked, game, recv, requeuePackets, character, protocol>>

\* OnClose waits while the network thread has _worldSessionLock.
GameOnClose ==
    /\ inCloseSocket
    /\ net # "data"
    /\ inCloseSocket' = FALSE /\ pointer' = FALSE
    /\ UNCHANGED <<client, flags, reading, writes, queries, removed, net, session,
                   socketPtr, kicked, game, recv, requeuePackets, character, protocol>>

\* World::UpdateSessions: a new session is taken in or, the realm being full, the
\* account connected twice or the world closed, deleted.
TakeSession ==
    /\ At("world")
    /\ session = "queued"
    /\ \/ session' = "live" /\ UNCHANGED game
       \/ game' = "delete" /\ UNCHANGED session
    /\ UNCHANGED <<closed, pointer, inCloseSocket, socketPtr, kicked, recv,
                   requeuePackets, character>>

\* HandleSocketClosed: the player stays for a while without a connection.
HandleSocketClosed ==
    /\ At("world")
    /\ session = "live" /\ socketPtr /\ ~IsOpen /\ ~kicked /\ player # 0
    /\ socketPtr' = FALSE
    /\ session' = "offline"
    /\ UNCHANGED <<closed, pointer, inCloseSocket, kicked, game, recv, requeuePackets,
                   character>>

\* The session is updated; a flight keeps a broken connection's session here.
UpdateSession ==
    /\ At("world")
    /\ session = "live"
    /\ game' = "worldPackets"
    /\ UNCHANGED <<closed, pointer, inCloseSocket, session, socketPtr, kicked, recv,
                   requeuePackets, character>>

\* The while is over, or the player has come back with another session.
OfflineSessionEnds ==
    /\ At("world")
    /\ session = "offline"
    /\ game' = "delete"
    /\ UNCHANGED <<closed, pointer, inCloseSocket, session, socketPtr, kicked, recv,
                   requeuePackets, character>>

\* An idle connection is closed, or a handler or a game master kicks the player.
CloseConnection(kick) ==
    /\ \E place \in {"worldPackets", "mapPackets"} : At(place)
    /\ socketPtr
    /\ (kick /\ ~kicked) \/ ~closed
    /\ GameCloseSocket
    /\ kicked' = (kicked \/ kick)
    /\ UNCHANGED <<pointer, session, socketPtr, game, recv, requeuePackets, character>>

\* What Process lets the world's update take, and the map's.
WorldSessionFilter == {p \in Packets : p.kind # "safe" \/ player = 0}
MapSessionFilter == {p \in Packets : p.kind = "safe" /\ player # 0}

\* LogoutPlayer without what it remembers of it.
LogoutPlayerForgotten ==
    /\ player' = 0 /\ leaving' = FALSE
    /\ UNCHANGED recentlyLogout

LogoutPlayer ==
    /\ player' = 0 /\ leaving' = FALSE
    /\ recentlyLogout' = TRUE

\* STATUS_AUTHED.  A login waits for its query or takes over the player that a
\* broken connection left.
HandleAuthed(p) ==
    /\ UNCHANGED <<requeuePackets, leaving>>
    /\ \/ /\ p.kind = "enum"
          /\ recentlyLogout' = FALSE
          /\ UNCHANGED <<loading, player, handled>>
       \/ /\ p.kind = "login"
          /\ handled' = [login |-> p.login, number |-> 0]
          /\ \/ loading' = p.login /\ UNCHANGED player
             \/ loading' = 0 /\ player' = p.login
          /\ UNCHANGED recentlyLogout

\* STATUS_LOGGEDIN without a player: after a logout the packet is late, before one
\* it is early and is kept.
HandleWithoutPlayer(p) ==
    /\ player = 0
    /\ requeuePackets' = IF recentlyLogout THEN requeuePackets
                                           ELSE Append(requeuePackets, p)
    /\ UNCHANGED character

\* STATUS_LOGGEDIN with one.
HandleLoggedIn(p) ==
    /\ player # 0
    /\ handled' = [login |-> p.login, number |-> p.number]
    /\ \/ /\ p.kind = "logout"      \* at once
          /\ LogoutPlayer
       \/ /\ leaving' \in IF p.kind = "logout" THEN BOOLEAN ELSE {leaving}
          /\ UNCHANGED <<player, recentlyLogout>>
    /\ UNCHANGED <<loading, requeuePackets>>

\* One turn of the loop over the packets, in the world's update or the map's.
HandlePacket ==
    /\ \/ At("worldPackets") /\ RecvQueue!Next(WorldSessionFilter)
       \/ At("mapPackets") /\ RecvQueue!Next(MapSessionFilter)
    /\ socketPtr
    /\ LET p == Head(recv)
       IN IF p.kind \in {"enum", "login"}
          THEN HandleAuthed(p)
          ELSE HandleWithoutPlayer(p) \/ HandleLoggedIn(p)
    /\ UNCHANGED <<closed, pointer, game_vars>>

\* The loop ends for want of a packet that may be handled here, or after 150.
EndOfPackets ==
    /\ At("worldPackets")
    /\ RecvQueue!Readd(requeuePackets)
    /\ requeuePackets' = << >>
    /\ game' = "callbacks"
    /\ UNCHANGED <<closed, pointer, session, socketPtr, kicked, inCloseSocket, character>>

\* ProcessQueryCallbacks: HandlePlayerLoginFromDB.
HandlePlayerLoginFromDB ==
    /\ At("callbacks")
    /\ loading # 0
    /\ loading' = 0
    /\ \/ player' = loading /\ UNCHANGED <<closed, inCloseSocket, kicked>>
       \/ /\ kicked' = TRUE /\ UNCHANGED player
          /\ IF socketPtr THEN GameCloseSocket ELSE UNCHANGED <<closed, inCloseSocket>>
    /\ UNCHANGED <<pointer, session, socketPtr, game, recv, requeuePackets, leaving,
                   recentlyLogout, handled>>

\* The rest of the update: the logout that is due, and a session that has lost its
\* socket goes.
EndOfUpdate ==
    /\ At("callbacks")
    /\ \/ UNCHANGED <<player, leaving, recentlyLogout>>
       \/ leaving /\ loading = 0 /\ LogoutPlayer
    /\ socketPtr' = (socketPtr /\ IsOpen)
    /\ game' = IF ~socketPtr' THEN "delete"
               ELSE IF player' # 0 THEN "mapPackets" ELSE "world"
    /\ UNCHANGED <<closed, pointer, inCloseSocket, session, kicked, recv, requeuePackets,
                   loading, handled>>

\* The map's update of the session is over.
EndOfMapUpdate ==
    /\ At("mapPackets")
    /\ game' = "world"
    /\ UNCHANGED <<closed, pointer, inCloseSocket, session, socketPtr, kicked, recv,
                   requeuePackets, character>>

\* ~WorldSession: the player is logged out and the socket closed ...
CloseOnDelete ==
    /\ At("delete")
    /\ socketPtr
    /\ socketPtr' = FALSE
    /\ GameCloseSocket
    /\ player' = 0
    /\ UNCHANGED <<pointer, session, kicked, game, recv, requeuePackets, loading,
                   leaving, recentlyLogout, handled>>

\* ... and the memory is free.
Delete ==
    /\ At("delete")
    /\ ~socketPtr
    /\ session' = "deleted" /\ game' = "world"
    /\ recv' = << >> /\ player' = 0 /\ loading' = 0
    /\ UNCHANGED <<closed, pointer, inCloseSocket, socketPtr, kicked, requeuePackets,
                   leaving, recentlyLogout, handled>>

Game ==
    \/ GameOnClose
    \/ TakeSession \/ HandleSocketClosed \/ UpdateSession \/ OfflineSessionEnds
    \/ HandlePacket \/ EndOfPackets \/ HandlePlayerLoginFromDB \/ EndOfUpdate
    \/ EndOfMapUpdate \/ CloseOnDelete \/ Delete

Next ==
    \/ ClientAuth \/ ClientEnum \/ ClientLogin \/ ClientLogout \/ ClientClose
    \/ \E kind \in {"safe", "unsafe"} : ClientPlay(kind)
    \/ Network \/ LoginDatabase \/ Game
    \/ \E kick \in BOOLEAN : CloseConnection(kick)

Spec == Init /\ [][Next]_vars

\* The threads run: the game's updates, the network thread (whose socket becomes
\* writable in the end, or fails), and the workers of the login database.
FairSpec == Spec /\ WF_vars(Game) /\ WF_vars(Network) /\ WF_vars(LoginDatabase)

-----------------------------------------------------------------------------
(* Properties                                                              *)

\* The network thread uses a session (WorldSocket.cpp:703-717, 437-470) only while it
\* is there, and no pointer to a deleted one is left for it to find.
NoUseAfterDelete ==
    session = "deleted" => /\ net \notin {"created", "data"}
                           /\ pointer => net = "closing"

\* A player's packets are handled in the order they were sent, none twice and none
\* left out before another, and each for the player it was sent for
\* (WorldSession.cpp:287-523), whichever of the two threads takes it and though the
\* early ones are taken out of the queue and put back.
HandledAsSent ==
    [][handled' # handled =>
           \/ handled' = [login |-> handled.login + 1, number |-> 0]
           \/ handled' = [login |-> player, number |-> handled.number + 1]
              /\ handled.login = player]_vars

\* A connection that was closed, or is to be closed after a refusal
\* (Socket.h:156-172, WorldSocket.cpp:550-708), is given up by every party.
SocketEnds ==
    closed \/ closing ~> /\ closed /\ removed /\ ~pointer
                         /\ session \in {"none", "deleted"}
=============================================================================

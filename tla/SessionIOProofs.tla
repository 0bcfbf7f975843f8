--------------------------- MODULE SessionIOProofs ---------------------------
(***************************************************************************)
(* Proofs about SessionIO, whatever the bounds: neither side of a          *)
(* connection uses a session that the other has deleted.  The session and  *)
(* the socket hold a pointer to each other, and each is let go on its own  *)
(* thread; the invariant says who has to let go of which pointer first.    *)
(***************************************************************************)
EXTENDS SessionIO, TLAPS

-----------------------------------------------------------------------------
(* The inductive invariant.                                                *)

\* The types the argument needs.
IOTypeOK ==
    /\ inflight \in Seq(Packets)
    /\ closed \in BOOLEAN /\ closing \in BOOLEAN /\ reading \in BOOLEAN
    /\ pointer \in BOOLEAN /\ socketPtr \in BOOLEAN /\ inCloseSocket \in BOOLEAN
    /\ session \in {"none", "new", "queued", "live", "offline", "deleted"}
    /\ game \in {"world", "worldPackets", "callbacks", "mapPackets", "delete"}
    /\ net \in {"idle", "callbacks", "closing", "created", "added", "data", "reading"}
    /\ query \in {"none", "ip", "auth"}
    /\ login \in 0..MaxLogin /\ number \in 0..MaxSent

\* The client authenticates once, and until then has sent nothing else; while its
\* answer is awaited, nothing is read and the socket is open.
OneAuth ==
    /\ stage = "start" => inflight = << >> /\ session = "none" /\ query # "auth"
    /\ \A i \in DOMAIN inflight :
          inflight[i].kind = "auth" => i = 1 /\ query # "auth" /\ session = "none"
    /\ query # "none" => session = "none"
    /\ query = "auth" => ~reading /\ ~closed /\ ~closing /\ stage # "start"
    /\ closing => session = "none" /\ query = "none"
    /\ net = "data" => inflight # << >>

\* What there is before the session and when it has just been created.
Before ==
    /\ session = "none" =>
          /\ ~pointer /\ ~socketPtr
          /\ net \notin {"created", "added", "data", "reading"}
    /\ session = "new" <=> net = "created"
    /\ session = "new" => pointer /\ socketPtr /\ ~closed
    /\ game # "world" \/ inCloseSocket => session \in {"queued", "live", "offline"}

\* A socket that is closed is about to forget its session, or has: the session may
\* go once it has closed the socket and OnClose is over.
ClosedForgets ==
    /\ inCloseSocket => closed
    /\ session # "none" /\ ~socketPtr => closed
    /\ session \in {"offline", "deleted"} => ~socketPtr
    /\ session = "deleted" => game = "world" /\ ~inCloseSocket
    /\ closed /\ ~inCloseSocket /\ net # "closing" => ~pointer
    /\ net = "data" => pointer

IInv ==
    /\ IOTypeOK
    /\ OneAuth
    /\ Before
    /\ ClosedForgets

LEMMA Safe == IInv => NoUseAfterDelete
BY DEF IInv, IOTypeOK, Before, ClosedForgets, NoUseAfterDelete

LEMMA InitIInv == Init => IInv
<1>1. SUFFICES ASSUME Init PROVE IInv
    OBVIOUS
<1>2. 0 \in 0..MaxLogin /\ 0 \in 0..MaxSent
    BY BoundsAssumption
<1>3. IOTypeOK
    <2>1. inflight \in Seq(Packets)
        BY <1>1 DEF Init, SocketInit
    <2>2. login \in 0..MaxLogin /\ number \in 0..MaxSent
        BY <1>1, <1>2 DEF Init
    <2>3. QED
        BY <1>1, <2>1, <2>2 DEF Init, SocketInit, IOTypeOK
<1>4. OneAuth
    BY <1>1 DEF Init, SocketInit, OneAuth
<1>5. Before /\ ClosedForgets
    BY <1>1 DEF Init, SocketInit, Before, ClosedForgets
<1>6. QED
    BY <1>3, <1>4, <1>5 DEF IInv

-----------------------------------------------------------------------------
(* The packets on their way.                                               *)

\* The oldest is taken.
LEMMA Taken ==
    ASSUME inflight \in Seq(Packets), inflight # << >>
    PROVE  /\ Head(inflight) \in Packets /\ Head(inflight) = inflight[1]
           /\ 1 \in DOMAIN inflight
           /\ Tail(inflight) \in Seq(Packets)
           /\ \A i \in DOMAIN Tail(inflight) :
                 /\ i + 1 \in DOMAIN inflight /\ i + 1 # 1
                 /\ Tail(inflight)[i] = inflight[i + 1]
OBVIOUS

\* One more is sent.
LEMMA Sent ==
    ASSUME inflight \in Seq(Packets), NEW p \in Packets
    PROVE  /\ Append(inflight, p) \in Seq(Packets)
           /\ Append(inflight, p) # << >>
           /\ \A i \in DOMAIN Append(inflight, p) :
                 \/ i \in DOMAIN inflight /\ Append(inflight, p)[i] = inflight[i]
                 \/ Append(inflight, p)[i] = p /\ (inflight = << >> => i = 1)
OBVIOUS

-----------------------------------------------------------------------------
(* The client.                                                             *)

\* Any packet but CMSG_AUTH_SESSION.
LEMMA SendStep ==
    ASSUME IInv, NEW kind \in {"enum", "login", "safe", "unsafe", "logout"},
           NEW l \in 0..MaxLogin, NEW n \in 0..MaxSent,
           Send(kind, l, n), stage # "start", stage' # "start"
    PROVE  IInv'
<1> DEFINE p == [kind |-> kind, login |-> l, number |-> n]
<1>1. p \in Packets /\ p.kind # "auth"
    BY DEF Packets
<1>2. inflight' = Append(inflight, p)
    BY DEF Send
<1> HIDE DEF p
<1>3. /\ inflight' \in Seq(Packets) /\ inflight' # << >>
      /\ \A i \in DOMAIN inflight' :
            \/ i \in DOMAIN inflight /\ inflight'[i] = inflight[i]
            \/ inflight'[i] = p
    BY <1>2, <1>1, Sent DEF IInv, IOTypeOK
<1>4. IOTypeOK'
    BY <1>3 DEF IInv, IOTypeOK, Send, flags, writes, queries, game_vars, character
<1>5. OneAuth'
    BY <1>1, <1>3 DEF IInv, OneAuth, Send, flags, writes, queries, game_vars, character
<1>6. Before' /\ ClosedForgets'
    BY DEF IInv, Before, ClosedForgets, Send, flags, writes, queries, game_vars, character
<1>7. QED
    BY <1>4, <1>5, <1>6 DEF IInv

LEMMA AuthStep ==
    ASSUME IInv, ClientAuth
    PROVE  IInv'
<1> DEFINE p == [kind |-> "auth", login |-> login, number |-> number]
<1>1. p \in Packets
    BY DEF Packets, IInv, IOTypeOK
<1>2. /\ inflight' = Append(inflight, p) /\ inflight = << >>
      /\ session = "none" /\ query # "auth"
      /\ stage' = "authed"
      /\ UNCHANGED <<clientOpen, flags, reading, writes, queries, pointer, removed, net,
                     game_vars, recv, requeuePackets, character, login, number>>
    BY DEF ClientAuth, Send, IInv, OneAuth
<1> HIDE DEF p
<1>3. /\ inflight' \in Seq(Packets) /\ inflight' # << >>
      /\ \A i \in DOMAIN inflight' : i = 1
    BY <1>1, <1>2, Sent DEF IInv, IOTypeOK
<1>4. IOTypeOK'
    BY <1>2, <1>3 DEF IInv, IOTypeOK, flags, writes, queries, game_vars, character
<1>5. OneAuth'
    BY <1>2, <1>3 DEF IInv, OneAuth, flags, writes, queries, game_vars, character
<1>6. Before' /\ ClosedForgets'
    BY <1>2 DEF IInv, Before, ClosedForgets, flags, writes, queries, game_vars, character
<1>7. QED
    BY <1>4, <1>5, <1>6 DEF IInv

LEMMA ClientSteps ==
    ASSUME IInv,
           \/ ClientAuth \/ ClientEnum \/ ClientLogin \/ ClientLogout \/ ClientClose
           \/ \E kind \in {"safe", "unsafe"} : ClientPlay(kind)
    PROVE  IInv'
<1>1. /\ login \in 0..MaxLogin /\ number \in 0..MaxSent
      /\ login < MaxLogin => login + 1 \in 0..MaxLogin
      /\ number < MaxSent => number + 1 \in 0..MaxSent
      /\ 0 \in 0..MaxSent
    BY BoundsAssumption DEF IInv, IOTypeOK
<1>2. CASE ClientEnum
    BY <1>1, <1>2, SendStep DEF ClientEnum
<1>3. CASE ClientLogin
    BY <1>1, <1>3, SendStep DEF ClientLogin
<1>4. CASE ClientLogout
    BY <1>1, <1>4, SendStep DEF ClientLogout
<1>5. CASE \E kind \in {"safe", "unsafe"} : ClientPlay(kind)
    <2>1. PICK kind \in {"safe", "unsafe"} : ClientPlay(kind)
        BY <1>5
    <2>2. /\ stage # "start" /\ stage' # "start" /\ number < MaxSent
          /\ Send(kind, login, number + 1)
        BY <2>1 DEF ClientPlay
    <2>3. QED
        BY <1>1, <2>2, SendStep
<1>6. CASE ClientClose
    BY <1>6 DEF ClientClose, IInv, IOTypeOK, OneAuth, Before, ClosedForgets, flags, writes,
           queries, game_vars, character, protocol
<1>7. QED
    BY <1>2, <1>3, <1>4, <1>5, <1>6, AuthStep

-----------------------------------------------------------------------------
(* The network thread.                                                     *)

\* What a step does to the invariant when it takes nothing from the client.
LEMMA SocketSteps ==
    ASSUME IInv, SocketStep,
           UNCHANGED <<game_vars, recv, requeuePackets, character, protocol>>
    PROVE  IInv'
<1> USE DEF IInv, IOTypeOK, OneAuth, Before, ClosedForgets, game_vars, protocol,
            client, flags, writes, queries
<1>1. CASE NetOnClose
    BY <1>1 DEF NetOnClose
<1>2. CASE Update
    <2>1. /\ net = "idle" /\ ~closed
          /\ \/ net' = "callbacks" /\ UNCHANGED closed
             \/ net' = "closing" /\ closed' = TRUE /\ closing
          /\ UNCHANGED <<client, closing, reading, queries, pointer, removed>>
        BY <1>2 DEF Update, CloseIfDone, NetCloseSocket, HandleQueue
    <2>2. OneAuth'
        BY <2>1
    <2>3. Before'
        BY <2>1
    <2>4. ClosedForgets'
        BY <2>1
    <2>5. IOTypeOK'
        BY <2>1
    <2>6. QED
        BY <2>2, <2>3, <2>4, <2>5
<1>3. CASE RemoveSocket
    BY <1>3 DEF RemoveSocket
<1>4. CASE WriteHandler
    <2>1. /\ net = "idle"
          /\ \/ net' = "idle" /\ UNCHANGED closed
             \/ net' = "closing" /\ ~closed /\ closed' = TRUE /\ closing
             \/ net' = "idle" /\ closed /\ closed' = TRUE
          /\ UNCHANGED <<client, closing, reading, queries, pointer, removed>>
        BY <1>4 DEF WriteHandler, CloseIfDone, NetCloseSocket
    <2>2. OneAuth'
        BY <2>1
    <2>3. Before'
        BY <2>1
    <2>4. ClosedForgets'
        BY <2>1
    <2>5. IOTypeOK'
        BY <2>1
    <2>6. QED
        BY <2>2, <2>3, <2>4, <2>5
<1>5. CASE ReadError
    BY <1>5 DEF ReadError, NetCloseSocket
<1>6. CASE ReadTooLate
    BY <1>6 DEF ReadTooLate
<1>7. CASE HandleAuthSession
    <2>1. /\ inflight # << >> /\ inflight' = Tail(inflight)
          /\ Head(inflight).kind = "auth"
          /\ net = "idle" /\ reading /\ ~closed /\ ~closing
          /\ ~reading' /\ reading' \in BOOLEAN /\ query' = "auth"
          /\ UNCHANGED <<clientOpen, flags, writes, answered, pointer, removed, net>>
        BY <1>7 DEF HandleAuthSession, IsOpen
    <2>2. session = "none" /\ stage # "start"
        BY <2>1, Taken
    <2>3. /\ inflight' \in Seq(Packets)
          /\ \A i \in DOMAIN inflight' : inflight'[i].kind # "auth"
        BY <2>1, Taken
    <2>4. QED
        BY <2>1, <2>2, <2>3
<1>8. CASE ReadDataHandler
    BY <1>8 DEF ReadDataHandler, NetCloseSocket, IsOpen
<1>9. CASE NoCallback
    BY <1>9 DEF NoCallback
<1>10. CASE CheckIpCallback
    BY <1>10 DEF CheckIpCallback, Answer, Refuse, AsyncRead, IsOpen
<1>11. CASE AuthFails
    BY <1>11 DEF AuthFails, Answer, Refuse
<1>12. CASE ReadOn
    BY <1>12 DEF ReadOn, AsyncRead, IsOpen
<1>13. QED
    BY <1>1, <1>2, <1>3, <1>4, <1>5, <1>6, <1>7, <1>8, <1>9, <1>10, <1>11, <1>12
    DEF SocketStep

LEMMA NetworkSteps ==
    ASSUME IInv, Network \/ LoginDatabase
    PROVE  IInv'
<1> USE DEF IInv, IOTypeOK, OneAuth, Before, ClosedForgets, game_vars, protocol,
            client, flags, writes, queries
<1>1. CASE NewSession
    BY <1>1 DEF NewSession, CreateSession, Answer
<1>2. CASE AddSession
    BY <1>2 DEF AddSession
<1>3. CASE QueuePacket
    <2>1. /\ net = "data" /\ pointer
          /\ net' \in {"reading", "idle"}
          /\ inflight' = Tail(inflight)
          /\ reading' \in BOOLEAN
          /\ UNCHANGED <<clientOpen, flags, writes, queries, pointer, removed, game_vars,
                         character, protocol>>
        BY <1>3 DEF QueuePacket, AsyncRead, IsOpen
    <2>2. /\ inflight' \in Seq(Packets)
          /\ \A i \in DOMAIN inflight' : inflight'[i].kind # "auth"
        BY <2>1, Taken
    <2>3. IOTypeOK'
        BY <2>1, <2>2
    <2>4. OneAuth'
        BY <2>1, <2>2
    <2>5. Before' /\ ClosedForgets'
        BY <2>1
    <2>6. QED
        BY <2>3, <2>4, <2>5
<1>4. CASE LoginDatabase
    BY <1>4 DEF LoginDatabase, QueryAnswered
<1>5. QED
    BY <1>1, <1>2, <1>3, <1>4, SocketSteps DEF Network

-----------------------------------------------------------------------------
(* The game.                                                               *)

LEMMA GameSteps ==
    ASSUME IInv, Game \/ \E kick \in BOOLEAN : CloseConnection(kick)
    PROVE  IInv'
<1> USE DEF IInv, IOTypeOK, OneAuth, Before, ClosedForgets, game_vars, protocol,
            client, writes, queries
<1>1. CASE GameOnClose
    BY <1>1 DEF GameOnClose, flags
<1>2. CASE TakeSession
    BY <1>2 DEF TakeSession, At
<1>3. CASE HandleSocketClosed
    BY <1>3 DEF HandleSocketClosed, At, IsOpen
<1>4. CASE UpdateSession
    BY <1>4 DEF UpdateSession, At
<1>5. CASE OfflineSessionEnds
    BY <1>5 DEF OfflineSessionEnds, At
<1>6. CASE HandlePacket
    BY <1>6 DEF HandlePacket, At
<1>7. CASE EndOfPackets
    BY <1>7 DEF EndOfPackets, At
<1>8. CASE HandlePlayerLoginFromDB
    <2>1. /\ \/ UNCHANGED <<closed, inCloseSocket>>
             \/ ~closed /\ closed' = TRUE /\ inCloseSocket' = TRUE
          /\ game = "callbacks" /\ ~inCloseSocket
          /\ UNCHANGED <<inflight, reading, query, net, closing, protocol,
                         pointer, session, socketPtr, game>>
        BY <1>8 DEF HandlePlayerLoginFromDB, At, GameCloseSocket
    <2>2. IOTypeOK' /\ OneAuth'
        BY <2>1
    <2>3. Before' /\ ClosedForgets'
        BY <2>1
    <2>4. QED
        BY <2>2, <2>3
<1>9. CASE EndOfUpdate
    BY <1>9 DEF EndOfUpdate, At, IsOpen
<1>10. CASE EndOfMapUpdate
    BY <1>10 DEF EndOfMapUpdate, At
<1>11. CASE CloseOnDelete
    BY <1>11 DEF CloseOnDelete, At, GameCloseSocket
<1>12. CASE Delete
    BY <1>12 DEF Delete, At
<1>13. CASE \E kick \in BOOLEAN : CloseConnection(kick)
    BY <1>13 DEF CloseConnection, At, GameCloseSocket
<1>14. QED
    BY <1>1, <1>2, <1>3, <1>4, <1>5, <1>6, <1>7,
       <1>8, <1>9, <1>10, <1>11, <1>12, <1>13
    DEF Game

LEMMA Inductive == IInv /\ [Next]_vars => IInv'
<1>1. SUFFICES ASSUME IInv, [Next]_vars
               PROVE  IInv'
    OBVIOUS
<1>2. CASE UNCHANGED vars
    BY <1>1, <1>2 DEF IInv, IOTypeOK, OneAuth, Before, ClosedForgets, vars, socketVars,
       game_vars, protocol, client, flags, writes, queries
<1>3. QED
    BY <1>1, <1>2, ClientSteps, NetworkSteps, GameSteps DEF Next

-----------------------------------------------------------------------------
(* The theorem.                                                            *)

\* The network thread, which keeps a raw pointer to the session, never uses it once
\* the game has deleted the session, however reading, closing and the deletion of
\* sessions interleave (WorldSocket.cpp:228-234 and 437-470, WorldSession.cpp:168-190).
THEOREM NoUseAfterDeleteCorrect == Spec => []NoUseAfterDelete
<1>1. Spec => []IInv
    BY InitIInv, Inductive, PTL DEF Spec
<1>2. QED
    BY <1>1, Safe, PTL
=============================================================================

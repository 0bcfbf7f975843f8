----------------------------- MODULE WorldSocket -----------------------------
(***************************************************************************)
(* One client's connection as its network thread sees it: Socket.h,        *)
(* WorldSocket.cpp and NetworkThread::Update.  The thread runs one handler *)
(* at a time: an update of the socket, the completion of a read or of a    *)
(* write.  Other threads may call CloseSocket at any time.                 *)
(*                                                                         *)
(* The client's TCP end is the environment: what it has sent and the       *)
(* server not read is in `inflight', and it may go away.  What is written  *)
(* to it are the packets this module sends itself; those of a session are  *)
(* left out (MPSCQueue has how they come to the network thread).           *)
(*                                                                         *)
(* SessionIO adds the session, and with it the threads that handle what    *)
(* the socket has received.                                                *)
(***************************************************************************)
EXTENDS Naturals, Sequences, SequencesExt

VARIABLES
    clientOpen, \* the client's end is there
    inflight,   \* sent by the client and not read, oldest first
    sent,       \* history: what the client can have received
    closed,     \* _closed
    closing,    \* _closing
    reading,    \* an async_read_some is outstanding
    writing,    \* _isWritingAsync
    outgoing,   \* _bufferQueue
    buffers,    \* _writeQueue: each buffer a sequence of packets
    query,      \* what _queryProcessor waits for: "none", "ip" or "auth"
    answered,   \* its future is ready
    pointer,    \* _worldSession # nullptr
    removed,    \* NetworkThread has dropped the socket
    net         \* where the network thread is in a handler, or "idle"

client == <<clientOpen, inflight>>
flags == <<closed, closing>>
writes == <<writing, outgoing, buffers, sent>>
queries == <<query, answered>>
socketVars == <<client, flags, reading, writes, queries, pointer, removed, net>>

IsOpen == ~closed /\ ~closing

SocketTypeOK ==
    /\ {clientOpen, closed, closing, reading, writing, answered, pointer, removed}
           \subseteq BOOLEAN
    /\ sent \subseteq {"challenge", "refusal"}
    /\ outgoing \in Seq({"challenge", "refusal"})
    /\ buffers \in Seq(Seq({"challenge", "refusal"}) \ {<< >>})
    /\ query \in {"none", "ip", "auth"}
    /\ net \in {"idle", "callbacks", "closing", "created", "added",
              "data", "reading"}

\* Start: the address is looked up before anything is read.
SocketInit ==
    /\ clientOpen = TRUE /\ inflight = << >> /\ sent = {}
    /\ closed = FALSE /\ closing = FALSE
    /\ reading = FALSE /\ writing = FALSE
    /\ outgoing = << >> /\ buffers = << >>
    /\ query = "ip" /\ answered = FALSE
    /\ pointer = FALSE /\ removed = FALSE
    /\ net = "idle"

-----------------------------------------------------------------------------
(* Closing                                                                 *)

\* CloseSocket, called by the network thread at the end of a handler; OnClose
\* follows, unless the socket is closed already.
NetCloseSocket ==
    /\ closed' = TRUE
    /\ net' = IF closed THEN "idle" ELSE "closing"

NetOnClose ==
    /\ net = "closing"
    /\ pointer' = FALSE
    /\ net' = "idle"
    /\ UNCHANGED <<client, flags, reading, writes, queries, removed>>

\* DelayedCloseSocket before the refusal is sent: SendPacket then drops it.
RefuseTooLate == closing' = TRUE /\ UNCHANGED outgoing

\* SendAuthResponseError, then DelayedCloseSocket.
Refuse ==
    /\ outgoing' = Append(outgoing, "refusal")
    /\ closing' = TRUE

-----------------------------------------------------------------------------
(* Writing                                                                 *)

\* HandleQueue writes the first n of the buffers w.  Then nothing is left, or the
\* next buffer would block, or it is given up because the connection is broken.
HandleQueue(w, n) ==
    LET rest == SubSeq(w, n + 1, Len(w))
    IN /\ sent' = sent \union UNION {ToSet(w[i]) : i \in 1..n}
       /\ \/ rest = << >> /\ buffers' = << >> /\ writing' = FALSE
          \/ rest # << >> /\ clientOpen /\ buffers' = rest /\ writing' = TRUE
          \/ rest # << >> /\ ~clientOpen /\ buffers' = Tail(rest) /\ writing' = FALSE

\* The socket is closed when the last buffer has gone, if it is to be closed.
CloseIfDone(next) ==
    IF closing /\ buffers' = << >> THEN NetCloseSocket
                                   ELSE net' = next /\ UNCHANGED closed

\* WorldSocket::Update of a socket that is still there: what is queued becomes a
\* buffer, and the buffers are written unless a write is under way.  An update
\* with nothing to do is left out.
Update ==
    /\ net = "idle"
    /\ ~removed /\ ~closed
    /\ outgoing # << >> \/ (buffers # << >> /\ ~writing) \/ answered
    /\ LET w == IF outgoing = << >> THEN buffers ELSE Append(buffers, outgoing)
       IN IF writing \/ w = << >>
          THEN /\ buffers' = w
               /\ net' = "callbacks"
               /\ UNCHANGED <<closed, writing, sent>>
          ELSE \E n \in 0..Len(w) : HandleQueue(w, n) /\ CloseIfDone("callbacks")
    /\ outgoing' = << >>
    /\ UNCHANGED <<client, closing, reading, queries, pointer, removed>>

\* Update returns false, and the network thread drops the socket.
RemoveSocket ==
    /\ net = "idle"
    /\ ~removed /\ closed
    /\ removed' = TRUE
    /\ UNCHANGED <<client, flags, reading, writes, queries, pointer, net>>

\* WriteHandlerWrapper, which writes one buffer.  A socket that would block again
\* waits again.
WriteHandler ==
    /\ net = "idle"
    /\ writing
    /\ \/ /\ ~closed
          /\ sent' = sent \union ToSet(Head(buffers))
       \/ /\ closed \/ ~clientOpen
          /\ UNCHANGED sent
    /\ writing' = FALSE
    /\ buffers' = Tail(buffers)
    /\ CloseIfDone("idle")
    /\ UNCHANGED <<client, closing, reading, outgoing, queries, pointer, removed>>

-----------------------------------------------------------------------------
(* Reading and the callbacks of the socket's own queries                   *)

AsyncRead == reading' = IsOpen

\* ReadHandlerInternal with an error: the client has gone.
ReadError ==
    /\ net = "idle"
    /\ reading
    /\ ~clientOpen /\ inflight = << >>
    /\ reading' = FALSE
    /\ NetCloseSocket
    /\ UNCHANGED <<client, closing, writes, queries, pointer, removed>>

\* ReadHandler when the socket has been closed meanwhile.
ReadTooLate ==
    /\ net = "idle"
    /\ reading /\ inflight # << >>
    /\ ~IsOpen
    /\ reading' = FALSE
    /\ UNCHANGED <<client, flags, writes, queries, pointer, removed, net>>

\* CMSG_AUTH_SESSION: no more is read until the account is known.
HandleAuthSession ==
    /\ net = "idle"
    /\ reading /\ inflight # << >> /\ IsOpen
    /\ Head(inflight).kind = "auth"
    /\ inflight' = Tail(inflight)
    /\ reading' = FALSE
    /\ query' = "auth"
    /\ UNCHANGED <<clientOpen, flags, writes, answered, pointer, removed, net>>

\* Any other packet: _worldSessionLock is taken, and there has to be a session.  The
\* packets of one read are taken in one loop, which does not ask again whether the
\* socket is open.
ReadDataHandler ==
    /\ inflight # << >>
    /\ Head(inflight).kind # "auth"
    /\ \/ net = "idle" /\ reading /\ IsOpen
       \/ net = "reading"
    /\ reading' = FALSE
    /\ IF pointer THEN net' = "data" /\ UNCHANGED closed
                  ELSE NetCloseSocket
    /\ UNCHANGED <<client, closing, writes, queries, pointer, removed>>

\* A worker of the login database sets the promise.
QueryAnswered ==
    /\ query # "none" /\ ~answered
    /\ answered' = TRUE
    /\ UNCHANGED <<client, flags, reading, writes, query, pointer, removed, net>>

NoCallback ==
    /\ net = "callbacks"
    /\ ~answered
    /\ net' = "idle"
    /\ UNCHANGED <<client, flags, reading, writes, queries, pointer, removed>>

\* InvokeIfReady of the query that is answered.
Answer(of) ==
    /\ net = "callbacks"
    /\ answered /\ query = of
    /\ query' = "none" /\ answered' = FALSE

CheckIpCallback ==
    /\ Answer("ip")
    /\ net' = "idle"
    /\ \/ Refuse /\ UNCHANGED reading
       \/ AsyncRead /\ outgoing' = Append(outgoing, "challenge") /\ UNCHANGED closing
    /\ UNCHANGED <<client, closed, writing, buffers, sent, pointer, removed>>

\* HandleAuthSessionCallback, when one of its checks fails.
AuthFails ==
    /\ Answer("auth")
    /\ net' = "idle"
    /\ Refuse
    /\ UNCHANGED <<client, closed, reading, writing, buffers, sent, pointer, removed>>

\* When none does; _worldSession is assigned without the lock.
CreateSession ==
    /\ Answer("auth")
    /\ pointer' = TRUE
    /\ net' = "created"
    /\ UNCHANGED <<client, flags, reading, writes, removed>>

\* AddSession has been called, and the thread goes on with the socket.
ReadOn ==
    /\ net = "added"
    /\ AsyncRead
    /\ net' = "idle"
    /\ UNCHANGED <<client, flags, writes, queries, pointer, removed>>

\* What the network thread does without touching a session.
SocketStep ==
    \/ NetOnClose \/ Update \/ RemoveSocket \/ WriteHandler
    \/ ReadError \/ ReadTooLate \/ HandleAuthSession \/ ReadDataHandler
    \/ NoCallback \/ CheckIpCallback \/ AuthFails \/ ReadOn
=============================================================================

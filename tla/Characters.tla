----------------------------- MODULE Characters -----------------------------
(***************************************************************************)
(* The characters of accounts in three places: the characters database,    *)
(* the CharacterCache of the world server, and the Player objects in the   *)
(* world.  Creating, renaming, deleting, loading and saving a character    *)
(* are asynchronous SQL operations and, for all but the last, callbacks of *)
(* the session that wait for their answers.                                *)
(*                                                                         *)
(* The database is an AsyncExecutor (DatabaseWorker implements it): one    *)
(* queue, from which the workers claim in order, so what is being executed *)
(* is always among the oldest `Workers' operations.  The login database    *)
(* answers whether the account has room left; the answer is open.          *)
(*                                                                         *)
(* Nothing makes a session wait for the answer to one request before it    *)
(* makes the next: each of its requests has a callback of its own, and the *)
(* callbacks of a session run in any order.  So a character can be asked   *)
(* for again while it is loaded, renamed or in the world, and two          *)
(* creations can run side by side; `contended' and `crowd' record it.      *)
(***************************************************************************)
EXTENDS Naturals, FiniteSets, SequencesExt

CONSTANTS
    Accounts,
    Guids,
    Names,
    Callbacks,      \* bound: the callbacks that sessions can have pending
    AccountOf,      \* the account whose session a callback belongs to
    Workers,        \* CharacterDatabase.WorkerThreads
    RealmLimit,     \* CONFIG_CHARACTERS_PER_REALM
    MaxVersion,     \* bound: how often a character changes in the world
    MaxQueue,       \* bound: no request or periodic save when so much is queued
    MaxOverlaps,    \* bound: how often a session does not wait for an answer
    None

ASSUME ConstantsAssumption ==
    /\ IsFiniteSet(Guids) /\ IsFiniteSet(Callbacks)
    /\ AccountOf \in [Callbacks -> Accounts]
    /\ Workers \in Nat \ {0}
    /\ RealmLimit \in Nat
    /\ MaxVersion \in Nat
    /\ MaxOverlaps \in Nat
    /\ None \notin Guids \union Names \union Accounts \union Callbacks

VARIABLES
    db,         \* the rows of `characters' that belong to an account
    queue,      \* the operations not finished, oldest first
    cache,      \* _characterCacheStore
    byName,     \* _characterCacheByNameStore: a pointer into the store
    generated,  \* what the guid generator has given out
    connected,  \* the accounts with a session
    stage,      \* what a callback waits for, if it is in use
    request,    \* what the session has asked for: the data the callback holds
    answer,     \* the future the callback waits for: empty or with its value
    legit,      \* _legitCharacters
    player,     \* the Player of the account's session, or of its offline session
    offline,    \* the accounts whose Player is in an offline session
    stray,      \* the account's Players that no session points at any more
    accessor,   \* the characters that ObjectAccessor finds
    last,       \* history: the latest version of a character
    contended,  \* history: the characters asked for by two requests at once
    crowd,      \* history: how many creations an account had under way at once
    overlaps    \* history: the requests made by a session that was busy

memory == <<cache, byName, generated>>
callbacks == <<stage, request, answer>>
session == <<connected, callbacks, legit>>
world == <<player, offline, stray, accessor, last>>
vars == <<db, queue, memory, session, world, contended, crowd, overlaps>>

NoRequest == [guid |-> None, name |-> None]
Creating == {"checkName", "sumRealm", "sumChars", "createInfo", "commit"}
Waiting == Creating \union {"enum", "rename", "login"}

Row == [account : Accounts, name : Names, version : 0..MaxVersion]
Entry == [account : Accounts, name : Names]
Player == [guid : Guids, name : Names, version : 0..MaxVersion]

ASSUME NoneAssumption == None \notin Row \union Entry \union Player

\* An operation of an account: who waits for its answer, and on what is it.
Operation ==
    [kind : {"enum", "checkName", "sumChars", "createInfo", "insert", "freeName",
             "setName", "delete", "load", "save"},
     account : Accounts,
     waiter : Callbacks \union {None},
     guid : Guids \union {None},
     name : Names \union {None},
     version : 0..MaxVersion]

TypeOK ==
    /\ db \in [Guids -> Row \union {None}]
    /\ queue \in Seq(Operation)
    /\ cache \in [Guids -> Entry \union {None}]
    /\ byName \in [Names -> Guids \union {None}]
    /\ generated \subseteq Guids
    /\ connected \subseteq Accounts
    /\ stage \in [Callbacks -> Waiting \union {"free"}]
    /\ request \in [Callbacks -> [guid : Guids \union {None}, name : Names \union {None}]]
    /\ DOMAIN answer = Callbacks
    /\ legit \in [Accounts -> SUBSET Guids]
    /\ player \in [Accounts -> Player \union {None}]
    /\ offline \subseteq Accounts
    /\ stray \in [Accounts -> SUBSET Player]
    /\ accessor \subseteq Guids
    /\ last \in [Guids -> 0..MaxVersion]
    /\ contended \subseteq Guids
    /\ crowd \in [Accounts -> Nat]
    /\ overlaps \in Nat

Stored == {g \in Guids : db[g] # None}
Cached == {g \in Guids : cache[g] # None}
Of(a) == {g \in Stored : db[g].account = a}

\* LoadCharacterCacheStorage: the cache is what the database has.
Init ==
    /\ db \in [Guids -> [account : Accounts, name : Names, version : {0}] \union {None}]
    /\ \A g, h \in Stored : db[g].name = db[h].name => g = h
    /\ \A a \in Accounts : Cardinality(Of(a)) <= RealmLimit
    /\ queue = << >>
    /\ cache = [g \in Guids |-> IF g \in Stored
                    THEN [account |-> db[g].account, name |-> db[g].name] ELSE None]
    /\ byName = [n \in Names |-> IF \E g \in Stored : db[g].name = n
                    THEN CHOOSE g \in Stored : db[g].name = n ELSE None]
    /\ generated = Stored
    /\ connected = {}
    /\ stage = [c \in Callbacks |-> "free"]
    /\ request = [c \in Callbacks |-> NoRequest]
    /\ answer = [c \in Callbacks |-> << >>]
    /\ legit = [a \in Accounts |-> {}]
    /\ player = [a \in Accounts |-> None]
    /\ offline = {}
    /\ stray = [a \in Accounts |-> {}]
    /\ accessor = {}
    /\ last = [g \in Guids |-> 0]
    /\ contended = {}
    /\ crowd = [a \in Accounts |-> 1]
    /\ overlaps = 0

-----------------------------------------------------------------------------
(* The database                                                            *)

Query(kind, c, guid, name) ==
    [kind |-> kind, account |-> AccountOf[c], waiter |-> c,
     guid |-> guid, name |-> name, version |-> 0]

Command(kind, a, guid, name, version) ==
    [kind |-> kind, account |-> a, waiter |-> None,
     guid |-> guid, name |-> name, version |-> version]

\* Player::SaveToDB writes what the Player is at this moment.
SaveToDB(a, p) == Command("save", a, p.guid, p.name, p.version)

\* The same, counted in the cache.
SumCached(a) == {g \in Cached : cache[g].account = a}

\* CHAR_SEL_SUM_CHARS
SumChars(a) == Of(a)

\* The rows a query returns, a set: none is the null result of the code.  An
\* insertion answers with its guid if it succeeds.
Answers(op) ==
    CASE op.kind = "enum" -> {Of(op.account)}
      [] op.kind = "checkName" -> {{g \in Stored : db[g].name = op.name}}
      [] op.kind = "sumChars" -> {SumChars(op.account)}
      [] op.kind = "freeName" ->
            {{g \in Of(op.account) \intersect {op.guid} :
                 \A h \in Stored : db[h].name # op.name}}
      [] op.kind = "load" -> {{db[op.guid]} \ {None}}
      [] op.kind = "insert" -> SUBSET {op.guid}
      [] OTHER -> {{}}

\* What it writes.  A deleted character's row is removed, or it is unlinked from
\* its account and loses its name.
Written(op, result) ==
    CASE op.kind = "insert" /\ result # {} ->
            [db EXCEPT ![op.guid] =
                [account |-> op.account, name |-> op.name, version |-> 0]]
      [] op.kind = "delete" -> [db EXCEPT ![op.guid] = None]
      [] op.kind = "setName" /\ op.guid \in Stored ->
            [db EXCEPT ![op.guid].name = op.name]
      [] op.kind = "save" /\ op.guid \in Stored ->
            [db EXCEPT ![op.guid].name = op.name, ![op.guid].version = op.version]
      [] OTHER -> db

\* The same with one worker more.
ClaimedByMore == {i \in DOMAIN queue : i <= Workers + 1}

\* The operations that workers are executing: the oldest ones.
Claimed == {i \in DOMAIN queue : i <= Workers}

\* A worker executes the operation at i and sets its promise, if someone still
\* holds the future.
Execute(i) ==
    /\ i \in Claimed
    /\ queue' = RemoveAt(queue, i)
    /\ LET op == queue[i]
       IN \E result \in Answers(op) :
            /\ db' = Written(op, result)
            /\ answer' = IF op.waiter = None THEN answer
                         ELSE [answer EXCEPT ![op.waiter] = <<result>>]
    /\ UNCHANGED <<memory, connected, stage, request, legit, world>>

-----------------------------------------------------------------------------
(* Sessions: requests and the callbacks of their answers                   *)

\* A packet of the account is handled.  Bound: not while MaxQueue operations are
\* queued.
Packet(a) == a \in connected /\ Len(queue) < MaxQueue

\* A request that c is to answer once op is executed.
Ask(c, waiting, data, op) ==
    /\ Packet(AccountOf[c])
    /\ stage[c] = "free"
    /\ stage' = [stage EXCEPT ![c] = waiting]
    /\ request' = [request EXCEPT ![c] = data]
    /\ queue' = Append(queue, op)
    /\ UNCHANGED answer

\* The next query of the same chain (SetNextQuery).
AskNext(c, waiting, op) ==
    /\ stage' = [stage EXCEPT ![c] = waiting]
    /\ answer' = [answer EXCEPT ![c] = << >>]
    /\ queue' = Append(queue, op)
    /\ UNCHANGED request

\* InvokeIfReady: c has the answer for which it waits.
Ready(c, waiting) == stage[c] = waiting /\ answer[c] # << >>
Result(c) == answer[c][1]

\* The callback ends the request.
Done(c) ==
    /\ stage' = [stage EXCEPT ![c] = "free"]
    /\ request' = [request EXCEPT ![c] = NoRequest]
    /\ answer' = [answer EXCEPT ![c] = << >>]

\* The request is answered with a refusal.
Refuse(c) == Done(c) /\ UNCHANGED <<queue, memory, legit, world>>

HandleCharEnumOpcode(c) ==
    /\ Ask(c, "enum", NoRequest, Query("enum", c, None, None))
    /\ UNCHANGED <<db, memory, connected, legit, world>>

HandleCharEnum(c) ==
    /\ Ready(c, "enum")
    /\ legit' = [legit EXCEPT ![AccountOf[c]] = Result(c)]
    /\ Done(c)
    /\ UNCHANGED <<db, queue, memory, connected, world>>

\* Bound: no more creations are begun than there are guids left.
Begun == {c \in Callbacks : stage[c] \in Creating \ {"commit"}}
GuidsLeft == Cardinality(generated) + Cardinality(Begun) < Cardinality(Guids)

\* HandleCharCreateOpcode and the chain of its callbacks.
HandleCharCreateOpcode(c, name) ==
    /\ GuidsLeft
    /\ Ask(c, "checkName", [guid |-> None, name |-> name], Query("checkName", c, None, name))
    /\ UNCHANGED <<db, memory, connected, legit, world>>

CheckName(c) ==
    /\ Ready(c, "checkName")
    /\ IF Result(c) # {} THEN Refuse(c)
       ELSE /\ stage' = [stage EXCEPT ![c] = "sumRealm"]
            /\ answer' = [answer EXCEPT ![c] = << >>]
            /\ UNCHANGED <<queue, memory, request, legit, world>>
    /\ UNCHANGED <<db, connected>>

\* The login database's answer: the account has room, or it is full.
SumRealmCharacters(c) ==
    /\ stage[c] = "sumRealm"
    /\ \/ Refuse(c)
       \/ /\ AskNext(c, "sumChars", Query("sumChars", c, None, None))
          /\ UNCHANGED <<memory, legit, world>>
    /\ UNCHANGED <<db, connected>>

\* The race or the class may be refused.  The name is checked again against the
\* cache, "in the same step as saving".
FinalizeCharacterCreation(c) ==
    \/ Refuse(c)
    \/ /\ byName[request[c].name] = None
       /\ \E guid \in Guids \ generated :
            /\ generated' = generated \union {guid}
            /\ stage' = [stage EXCEPT ![c] = "commit"]
            /\ request' = [request EXCEPT ![c].guid = guid]
            /\ answer' = [answer EXCEPT ![c] = << >>]
            /\ queue' = Append(queue, Query("insert", c, guid, request[c].name))
       /\ UNCHANGED <<cache, byName, legit, world>>

\* The configuration decides whether the characters are looked at once more.
SumCharacters(c) ==
    /\ Ready(c, "sumChars")
    /\ \/ Cardinality(Result(c)) >= RealmLimit /\ Refuse(c)
       \/ /\ Cardinality(Result(c)) < RealmLimit
          /\ \/ FinalizeCharacterCreation(c)
             \/ /\ AskNext(c, "createInfo", Query("createInfo", c, None, None))
                /\ UNCHANGED <<memory, legit, world>>
    /\ UNCHANGED <<db, connected>>

CharCreateInfo(c) ==
    /\ Ready(c, "createInfo")
    /\ FinalizeCharacterCreation(c)
    /\ UNCHANGED <<db, connected>>

\* AddCharacterCacheEntry, of a new guid.
AddCharacterCacheEntry(guid, entry) ==
    /\ cache' = [cache EXCEPT ![guid] = entry]
    /\ byName' = [byName EXCEPT ![entry.name] = guid]

CreationComplete(c) ==
    /\ Ready(c, "commit")
    /\ IF Result(c) # {}
       THEN AddCharacterCacheEntry(request[c].guid,
                                   [account |-> AccountOf[c], name |-> request[c].name])
       ELSE UNCHANGED <<cache, byName>>
    /\ Done(c)
    /\ UNCHANGED <<db, queue, generated, connected, legit, world>>

HandleCharDeleteOpcode(a, guid) ==
    /\ Packet(a)
    /\ guid \notin accessor
    /\ guid \in Cached /\ cache[guid].account = a
    /\ queue' = Append(queue, Command("delete", a, guid, None, 0))
    /\ byName' = [byName EXCEPT ![cache[guid].name] = None]
    /\ cache' = [cache EXCEPT ![guid] = None]
    /\ UNCHANGED <<db, generated, session, world>>

HandleCharRenameOpcode(c, guid, name) ==
    /\ Ask(c, "rename", [guid |-> guid, name |-> name], Query("freeName", c, guid, name))
    /\ UNCHANGED <<db, memory, connected, legit, world>>

\* UpdateCharacterData
Renamed(guid, name) ==
    IF guid \in Cached
    THEN /\ cache' = [cache EXCEPT ![guid].name = name]
         /\ byName' = [byName EXCEPT ![cache[guid].name] = None, ![name] = guid]
    ELSE UNCHANGED <<cache, byName>>

\* Whether or not the character is in the world.
RenameRefusedIfTaken(c) == Result(c) = {}

RenameRefused(c) == Result(c) = {} \/ request[c].guid \in accessor

\* Only a character that is flagged for it is renamed; which ones is open.
HandleCharRenameCallBack(c) ==
    /\ Ready(c, "rename")
    /\ \/ Refuse(c)
       \/ LET r == request[c]
          IN /\ ~RenameRefused(c)
             /\ queue' = Append(queue, Command("setName", AccountOf[c], r.guid, r.name, 0))
             /\ Renamed(r.guid, r.name)
             /\ Done(c)
             /\ UNCHANGED <<generated, legit, world>>
    /\ UNCHANGED <<db, connected>>

-----------------------------------------------------------------------------
(* Characters in the world                                                 *)

InWorld(a) == player[a] # None
InSession(a) == InWorld(a) /\ a \notin offline

\* The account's Players in the world, whether or not a session points at them.
Players(a) == stray[a] \union ({player[a]} \ {None})

\* The session takes over the Player of the account's offline session.
LoginToCharInWorld(a, guid) ==
    /\ Packet(a)
    /\ guid \in legit[a]
    /\ a \in offline /\ player[a].guid = guid
    /\ offline' = offline \ {a}
    /\ UNCHANGED <<db, queue, memory, session, player, stray, accessor, last>>

\* The rest of HandlePlayerLoginOpcode, whether or not the session has a Player or
\* loads one.  An offline session with another character is kicked: it logs out
\* later in the same UpdateSessions.
HandlePlayerLoginOpcode(c, guid) ==
    LET a == AccountOf[c]
    IN /\ Packet(a)
       /\ stage[c] = "free"
       /\ guid \in legit[a]
       /\ a \in offline => player[a].guid # guid
       /\ stage' = [stage EXCEPT ![c] = "login"]
       /\ request' = [request EXCEPT ![c].guid = guid]
       /\ LET load == Append(queue, Query("load", c, guid, None))
          IN IF a \in offline
             THEN /\ queue' = Append(load, SaveToDB(a, player[a]))
                  /\ player' = [player EXCEPT ![a] = None]
                  /\ accessor' = accessor \ {player[a].guid}
             ELSE queue' = load /\ UNCHANGED <<player, accessor>>
       /\ offline' = offline \ {a}
       /\ UNCHANGED <<db, memory, connected, answer, legit, stray, last>>

\* HandlePlayerLoginFromDB and LoadFromDB, which fails for a character that is
\* gone, another account's, banned or flagged for a rename; then the client is
\* kicked.  Both call SetPlayer: the session loses the Player that it had.
HandlePlayerLoginFromDB(c) ==
    LET a == AccountOf[c]
    IN /\ Ready(c, "login")
       /\ \/ \E row \in Result(c) :
               /\ row.account = a
               /\ player' = [player EXCEPT ![a] =
                     [guid |-> request[c].guid, name |-> row.name, version |-> row.version]]
               /\ accessor' = accessor \union {request[c].guid}
          \/ player' = [player EXCEPT ![a] = None] /\ UNCHANGED accessor
       /\ stray' = [stray EXCEPT ![a] = @ \union ({player[a]} \ {None})]
       /\ Done(c)
       /\ UNCHANGED <<db, queue, memory, connected, legit, offline, last>>

Play(a) ==
    /\ InWorld(a)
    /\ player[a].version < MaxVersion
    /\ player' = [player EXCEPT ![a].version = @ + 1]
    /\ last' = [last EXCEPT ![player[a].guid] = player[a].version + 1]
    /\ UNCHANGED <<db, queue, memory, session, offline, stray, accessor>>

\* The periodic save of Player::Update.
PeriodicSave(a) ==
    /\ Len(queue) < MaxQueue
    /\ \E p \in Players(a) : queue' = Append(queue, SaveToDB(a, p))
    /\ UNCHANGED <<db, memory, session, world>>

\* LogoutPlayer(true): the Player is saved and leaves the world.
Logout(a) ==
    /\ player' = [player EXCEPT ![a] = None]
    /\ accessor' = accessor \ {player[a].guid}

LogoutPlayer(a) ==
    /\ InWorld(a)
    /\ queue' = Append(queue, SaveToDB(a, player[a]))
    /\ Logout(a)
    /\ offline' = offline \ {a}
    /\ UNCHANGED <<db, memory, session, stray, last>>

-----------------------------------------------------------------------------
(* Connections                                                             *)

Connect(a) ==
    /\ a \notin connected
    /\ connected' = connected \union {a}
    /\ UNCHANGED <<db, queue, memory, callbacks, legit, world>>

\* The session is deleted with its callbacks.  What it has queued is executed all
\* the same.
Abandoned(a) ==
    [i \in DOMAIN queue |->
        [queue[i] EXCEPT !.waiter = IF queue[i].account = a THEN None ELSE @]]

Forget(f, a, nothing) == [c \in Callbacks |-> IF AccountOf[c] = a THEN nothing ELSE f[c]]

\* Its Player logs out, or stays in an offline session.
Disconnect(a) ==
    /\ a \in connected
    /\ connected' = connected \ {a}
    /\ stage' = Forget(stage, a, "free")
    /\ request' = Forget(request, a, NoRequest)
    /\ answer' = Forget(answer, a, << >>)
    /\ legit' = [legit EXCEPT ![a] = {}]
    /\ IF InSession(a)
       THEN \/ /\ queue' = Append(Abandoned(a), SaveToDB(a, player[a]))
               /\ Logout(a)
               /\ UNCHANGED offline
            \/ /\ offline' = offline \union {a}
               /\ queue' = Abandoned(a)
               /\ UNCHANGED <<player, accessor>>
       ELSE queue' = Abandoned(a) /\ UNCHANGED <<player, accessor, offline>>
    /\ UNCHANGED <<db, memory, stray, last>>

-----------------------------------------------------------------------------
(* History                                                                 *)

Asking(guid, waiting) == {c \in Callbacks : stage[c] = waiting /\ request[c].guid = guid}

InMemory(guid) == \E a \in Accounts : \E p \in Players(a) : p.guid = guid

\* A character is asked for twice at once: it is loaded while it is in memory, or
\* renamed while it is loaded or still being created.
Contended ==
    {g \in Guids :
        \/ Asking(g, "login") # {} /\ InMemory(g)
        \/ Asking(g, "rename") # {} /\ Asking(g, "login") \union Asking(g, "commit") # {}}

\* The creations of an account that are under way.
Creations(a) == {c \in Callbacks : AccountOf[c] = a /\ stage[c] \in Creating}

Remember ==
    /\ contended' = contended \union Contended'
    /\ crowd' = [a \in Accounts |->
          IF Cardinality(Creations(a)') > crowd[a] THEN Cardinality(Creations(a)') ELSE crowd[a]]

\* Bound: what a session asks for while it waits for an answer or has a Player.
Busy(a) == InSession(a) \/ \E c \in Callbacks : AccountOf[c] = a /\ stage[c] # "free"

Overlap(a) ==
    IF Busy(a) THEN overlaps < MaxOverlaps /\ overlaps' = overlaps + 1
    ELSE UNCHANGED overlaps

-----------------------------------------------------------------------------
Request(c) ==
    \/ HandleCharEnumOpcode(c)
    \/ \E name \in Names : HandleCharCreateOpcode(c, name)
    \/ \E guid \in Guids, name \in Names : HandleCharRenameOpcode(c, guid, name)
    \/ \E guid \in Guids : HandlePlayerLoginOpcode(c, guid)

Callback(c) ==
    \/ HandleCharEnum(c)
    \/ CheckName(c)
    \/ SumRealmCharacters(c)
    \/ SumCharacters(c)
    \/ CharCreateInfo(c)
    \/ CreationComplete(c)
    \/ HandleCharRenameCallBack(c)
    \/ HandlePlayerLoginFromDB(c)

Account(a) ==
    \/ \E guid \in Guids : HandleCharDeleteOpcode(a, guid) \/ LoginToCharInWorld(a, guid)
    \/ Play(a)
    \/ PeriodicSave(a)
    \/ LogoutPlayer(a)
    \/ Connect(a)
    \/ Disconnect(a)

Next ==
    /\ \/ \E c \in Callbacks : Request(c) /\ Overlap(AccountOf[c])
       \/ /\ \/ \E i \in Claimed : Execute(i)
             \/ \E c \in Callbacks : Callback(c)
             \/ \E a \in Accounts : Account(a)
          /\ UNCHANGED overlaps
    /\ Remember

Spec == Init /\ [][Next]_vars

-----------------------------------------------------------------------------
(* Properties                                                              *)

\* A character that was never loaded or asked for twice at once is in the world as
\* it last was there: no login reads the database before the last save has
\* reached it (CharacterHandler.cpp:784).
NothingIsUndone ==
    \A a \in Accounts : InWorld(a) /\ player[a].guid \notin contended =>
        player[a].version = last[player[a].guid]

\* No account gets more characters than the realm allows, but for the creations
\* that overlap: of those that an account has under way at once, all but one can
\* exceed the limit, for each counts before the others insert
\* (CharacterHandler.cpp:415-422).  One at a time never does, although a client
\* that comes back counts while its old session's insertion is under way.
RealmLimitHolds ==
    \A a \in Accounts : Cardinality(Of(a)) < RealmLimit + crowd[a]

\* The cache, which the world server asks instead of the database, is what the
\* database will be when it has executed what is queued: each entry is a row of
\* that account that nobody deletes and has its name, unless the character was
\* asked for twice at once; and a name leads to an entry that has it.
PendingOn(g) == {i \in DOMAIN queue :
                    queue[i].guid = g /\ queue[i].kind \in {"setName", "save"}}

FinalName(g) ==
    IF PendingOn(g) = {} THEN db[g].name
    ELSE LET i == CHOOSE i \in PendingOn(g) : \A j \in PendingOn(g) : j <= i
         IN queue[i].name

CacheIsCurrent ==
    /\ \A g \in Cached :
          /\ g \in Stored
          /\ cache[g].account = db[g].account
          /\ g \notin contended => cache[g].name = FinalName(g)
          /\ \A i \in DOMAIN queue : ~(queue[i].kind = "delete" /\ queue[i].guid = g)
    /\ \A n \in Names : byName[n] # None =>
          byName[n] \in Cached /\ cache[byName[n]].name = n
=============================================================================

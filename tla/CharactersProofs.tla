-------------------------- MODULE CharactersProofs --------------------------
(***************************************************************************)
(* Proofs about Characters, for every set of accounts, guids, names and    *)
(* callbacks and every limit: with one worker, the default of              *)
(* CharacterDatabase.WorkerThreads, nothing a Player has done is undone by *)
(* a login that reads too early, an account exceeds the limit of the realm *)
(* by no more than the creations it had under way at once, and the cache   *)
(* is what the database will be.                                           *)
(***************************************************************************)
EXTENDS Characters, FiniteSetTheorems, TLAPS

-----------------------------------------------------------------------------
(* The inductive invariant.  Workers = 1, so the queue is a queue.         *)

\* What the operation at i does to a character.
Inserts(i, g) == queue[i].kind = "insert" /\ queue[i].guid = g
Saves(i, g) == queue[i].kind = "save" /\ queue[i].guid = g
Deletes(i, g) == queue[i].kind = "delete" /\ queue[i].guid = g
SetsName(i, g) == queue[i].kind \in {"setName", "save"} /\ queue[i].guid = g
Changes(i, g) == queue[i].kind \in {"setName", "save", "delete"} /\ queue[i].guid = g

Plays(a, g) == InWorld(a) /\ player[a].guid = g
Strays(a, g) == \E p \in stray[a] : p.guid = g
Owns(a, g) == db[g] # None /\ db[g].account = a
Answered(c, waiting) == stage[c] = waiting /\ answer[c] # << >>

\* The stage at which a callback waits for an operation.
StageOf(kind) ==
    CASE kind = "insert" -> "commit"
      [] kind = "freeName" -> "rename"
      [] kind = "load" -> "login"
      [] OTHER -> kind

Typed ==
    /\ TypeOK
    /\ \A i \in DOMAIN queue :
          /\ queue[i].kind \in {"insert", "setName", "delete", "load", "save"} =>
                queue[i].guid \in Guids
          /\ queue[i].kind \in {"insert", "setName", "save"} => queue[i].name \in Names
    /\ \A c \in Callbacks :
          /\ stage[c] \in {"commit", "rename", "login"} => request[c].guid \in Guids
          /\ stage[c] \in Creating \union {"rename"} => request[c].name \in Names
          /\ answer[c] # << >> =>
                Result(c) \subseteq IF stage[c] = "login" THEN Row ELSE Guids

\* At most one operation is awaited by a callback, and the one that it waits for.
Awaiting ==
    /\ \A i \in DOMAIN queue : queue[i].waiter # None =>
          LET c == queue[i].waiter
          IN /\ answer[c] = << >>
             /\ queue[i].kind \notin {"setName", "delete", "save"}
             /\ stage[c] = StageOf(queue[i].kind)
             /\ queue[i].account = AccountOf[c]
             /\ queue[i].kind \in {"insert", "freeName", "load"} =>
                   queue[i].guid = request[c].guid
             /\ queue[i].kind = "insert" => queue[i].name = request[c].name
    /\ \A i, j \in DOMAIN queue :
          queue[i].waiter # None /\ queue[i].waiter = queue[j].waiter => i = j
    /\ \A c \in Callbacks : answer[c] # << >> => stage[c] \in Waiting \ {"sumRealm"}

Unborn(g) == g \notin generated \/ \E i \in DOMAIN queue : Inserts(i, g)

Births ==
    /\ \A g \in Guids : Unborn(g) =>
          /\ db[g] = None /\ cache[g] = None /\ last[g] = 0
          /\ ~InMemory(g)
          /\ \A i \in DOMAIN queue : ~Changes(i, g)
          /\ \A c \in Callbacks : Answered(c, "login") /\ request[c].guid = g => Result(c) = {}
    /\ \A i \in DOMAIN queue : queue[i].kind = "insert" => queue[i].guid \in generated
    /\ \A i, j \in DOMAIN queue :
          queue[i].kind = "insert" /\ queue[j].kind = "insert" /\ queue[i].guid = queue[j].guid
          => i = j
    /\ \A c \in Callbacks : stage[c] = "commit" => request[c].guid \in generated
    /\ \A c, d \in Callbacks :
          stage[c] = "commit" /\ stage[d] = "commit" /\ request[c].guid = request[d].guid
          => c = d

Offline ==
    \A a \in offline :
        /\ InWorld(a)
        /\ \A c \in Callbacks : AccountOf[c] = a => stage[c] # "login"

\* A character that was never asked for twice at once is in memory once at most.
Presence ==
    \A g \in Guids \ contended :
        /\ InMemory(g) => g \in accessor
        /\ \A a \in Accounts : Plays(a, g) =>
              /\ player[a].version = last[g]
              /\ \A b \in Accounts : ~Strays(b, g) /\ (Plays(b, g) => b = a)

Loading ==
    \A c \in Callbacks : stage[c] = "login" /\ request[c].guid \notin contended =>
        LET g == request[c].guid
        IN /\ answer[c] # << >> => \A row \in Result(c) : row.version = last[g]
           /\ \A i, j \in DOMAIN queue :
                 queue[i].waiter = c /\ i < j => ~SetsName(j, g)

Renaming ==
    \A c \in Callbacks : Answered(c, "rename") /\ Result(c) # {} => ~Unborn(request[c].guid)

VersionToCome(g) ==
    \/ db[g].version = last[g] /\ \A i \in DOMAIN queue : ~Saves(i, g)
    \/ \E i \in DOMAIN queue :
          /\ Saves(i, g) /\ queue[i].version = last[g]
          /\ \A j \in DOMAIN queue : Saves(j, g) => j <= i

Saved ==
    \A g \in Guids \ contended : db[g] # None /\ ~InMemory(g) => VersionToCome(g)

NameToCome(g, n) ==
    \/ db[g].name = n /\ \A i \in DOMAIN queue : ~SetsName(i, g)
    \/ \E i \in DOMAIN queue :
          /\ SetsName(i, g) /\ queue[i].name = n
          /\ \A j \in DOMAIN queue : SetsName(j, g) => j <= i

NameInMemory(g, n) ==
    /\ \A a \in Accounts : \A p \in Players(a) : p.guid = g => p.name = n
    /\ \A c \in Callbacks : Answered(c, "login") /\ request[c].guid = g =>
          \A row \in Result(c) : row.name = n

\* Everybody agrees that n is, or will be, the name of the character.
Named(g, n) == NameToCome(g, n) /\ NameInMemory(g, n)

Committed ==
    \A c \in Callbacks : Answered(c, "commit") /\ Result(c) # {} =>
        LET g == request[c].guid
        IN /\ Owns(AccountOf[c], g) /\ cache[g] = None
           /\ \A i \in DOMAIN queue : ~Deletes(i, g)
           /\ g \notin contended => Named(g, request[c].name)

Current ==
    /\ \A g \in Guids : cache[g] # None =>
          /\ Owns(cache[g].account, g)
          /\ \A i \in DOMAIN queue : ~Deletes(i, g)
          /\ g \notin contended => Named(g, cache[g].name)
    /\ \A n \in Names : byName[n] # None =>
          cache[byName[n]] # None /\ cache[byName[n]].name = n

\* The characters that an account has or is about to get, and its creations that
\* have been counted and have no guid yet.
Heirs(a) == Of(a) \union {g \in Guids : \E i \in DOMAIN queue :
                              Inserts(i, g) /\ queue[i].account = a}

Passed(a) ==
    {c \in Callbacks :
        /\ AccountOf[c] = a
        /\ \/ stage[c] = "createInfo"
           \/ Answered(c, "sumChars") /\ Cardinality(Result(c)) < RealmLimit}

Counted ==
    /\ \A a \in Accounts : Cardinality(Heirs(a)) + Cardinality(Passed(a)) < RealmLimit + crowd[a]
    /\ \A i, j \in DOMAIN queue :
          /\ queue[i].kind = "sumChars" /\ queue[i].waiter # None
          /\ queue[j].kind = "insert" /\ queue[j].account = queue[i].account
          /\ i < j
          => queue[j].waiter # None

Recorded ==
    /\ Contended \subseteq contended
    /\ \A a \in Accounts : Cardinality(Creations(a)) <= crowd[a]

IInv ==
    /\ Typed /\ Awaiting /\ Births /\ Offline /\ Presence /\ Loading
    /\ Renaming /\ Committed /\ Counted /\ Saved /\ Current /\ Recorded

-----------------------------------------------------------------------------
(* The queue.                                                              *)

\* Append: every operation keeps its place and the new one comes last.
LEMMA Pushed ==
    ASSUME NEW q \in Seq(Operation), NEW op \in Operation
    PROVE  /\ Append(q, op) \in Seq(Operation)
           /\ Len(q) \in Nat /\ DOMAIN q = 1 .. Len(q)
           /\ DOMAIN Append(q, op) = 1 .. Len(q) + 1
           /\ \A i \in DOMAIN q : Append(q, op)[i] = q[i]
           /\ Append(q, op)[Len(q) + 1] = op
OBVIOUS

\* The only worker removes the oldest operation: the others move up by one place.
LEMMA Popped ==
    ASSUME NEW q \in Seq(Operation), 1 \in DOMAIN q
    PROVE  /\ RemoveAt(q, 1) \in Seq(Operation)
           /\ Len(q) \in Nat /\ DOMAIN q = 1 .. Len(q)
           /\ DOMAIN RemoveAt(q, 1) = 1 .. Len(q) - 1
           /\ \A i \in DOMAIN RemoveAt(q, 1) : RemoveAt(q, 1)[i] = q[i + 1]
<1>1. Len(q) \in Nat \ {0} /\ DOMAIN q = 1 .. Len(q)
    OBVIOUS
<1>2. RemoveAt(q, 1) = SubSeq(q, 1, 0) \o SubSeq(q, 2, Len(q))
    BY DEF RemoveAt
<1>3. /\ SubSeq(q, 2, Len(q)) \in Seq(Operation)
      /\ DOMAIN SubSeq(q, 2, Len(q)) = 1 .. Len(q) - 1
      /\ \A i \in 1 .. Len(q) - 1 : SubSeq(q, 2, Len(q))[i] = q[i + 1]
    BY <1>1
<1>4. SubSeq(q, 1, 0) = << >>
    BY <1>1
<1>5. RemoveAt(q, 1) = SubSeq(q, 2, Len(q))
    BY <1>2, <1>3, <1>4
<1>6. QED
    BY <1>1, <1>3, <1>5

LEMMA QueuedOperations ==
    ASSUME Typed, NEW i \in DOMAIN queue
    PROVE  /\ queue[i] \in Operation
           /\ queue[i].account \in Accounts
           /\ queue[i].waiter \in Callbacks \union {None}
           /\ queue[i].kind \in {"enum", "checkName", "sumChars", "createInfo", "insert",
                                 "freeName", "setName", "delete", "load", "save"}
<1>1. queue[i] \in Operation
    BY DEF Typed, TypeOK
<1>2. QED
    BY <1>1 DEF Operation

LEMMA PlayersInMemory ==
    ASSUME Typed, NEW a \in Accounts, NEW p \in Players(a)
    PROVE  /\ p \in Player
           /\ p.guid \in Guids /\ p.name \in Names /\ p.version \in 0..MaxVersion
           /\ InMemory(p.guid)
<1>1. p \in Player
    BY DEF Typed, TypeOK, Players
<1>2. QED
    BY <1>1 DEF Player, InMemory

LEMMA MemoryOf ==
    ASSUME NEW g
    PROVE  InMemory(g) <=> \E a \in Accounts : Plays(a, g) \/ Strays(a, g)
BY DEF InMemory, Players, Plays, Strays, InWorld

\* What the world thread does to the queue: what is there keeps its place, at most
\* with nobody who waits for it any more, and what is new comes last.
New(i) == i \in DOMAIN queue' /\ i \notin DOMAIN queue

Kept ==
    /\ queue' \in Seq(Operation)
    /\ DOMAIN queue \subseteq DOMAIN queue'
    /\ \A i \in DOMAIN queue' : i \in Nat
    /\ \A i \in DOMAIN queue :
          /\ \A j \in DOMAIN queue' : New(j) => i < j
          /\ queue'[i].waiter \in {queue[i].waiter, None}
          /\ queue'[i].kind = queue[i].kind
          /\ queue'[i].account = queue[i].account
          /\ queue'[i].guid = queue[i].guid
          /\ queue'[i].name = queue[i].name
          /\ queue'[i].version = queue[i].version
    /\ \A i, j \in DOMAIN queue :
          queue[i].account = queue[j].account /\ queue'[i].waiter # None =>
              queue'[j].waiter = queue[j].waiter
    /\ \A i, j \in DOMAIN queue' :
          /\ New(i) /\ queue'[i].kind \in {"setName", "save", "delete"}
          /\ New(j) /\ queue'[j].kind \in {"setName", "save", "delete"}
          => i = j

LEMMA KeptEffects ==
    ASSUME Kept
    PROVE  \A g : \A i \in DOMAIN queue :
              /\ Inserts(i, g)' <=> Inserts(i, g)
              /\ Saves(i, g)' <=> Saves(i, g)
              /\ Deletes(i, g)' <=> Deletes(i, g)
              /\ SetsName(i, g)' <=> SetsName(i, g)
              /\ Changes(i, g)' <=> Changes(i, g)
BY DEF Kept, Inserts, Saves, Deletes, SetsName, Changes

\* The world thread leaves the queue as it is, or appends to it.
LEMMA QueueStays ==
    ASSUME Typed, UNCHANGED queue
    PROVE  Kept /\ \A i : ~New(i)
<1>1. queue \in Seq(Operation) /\ DOMAIN queue = 1 .. Len(queue) /\ Len(queue) \in Nat
    BY DEF Typed, TypeOK
<1>2. QED
    BY <1>1 DEF Kept, New

LEMMA QueuePushed ==
    ASSUME Typed, NEW op \in Operation, queue' = Append(queue, op)
    PROVE  /\ Kept
           /\ \A i : New(i) => queue'[i] = op
           /\ \A i \in DOMAIN queue : queue'[i] = queue[i]
           /\ \E i : New(i)
           /\ \A i, j : New(i) /\ New(j) => i = j
<1>1. queue \in Seq(Operation)
    BY DEF Typed, TypeOK
<1>2. /\ queue' \in Seq(Operation)
      /\ Len(queue) \in Nat /\ DOMAIN queue = 1 .. Len(queue)
      /\ DOMAIN queue' = 1 .. Len(queue) + 1
      /\ \A i \in DOMAIN queue : queue'[i] = queue[i]
      /\ queue'[Len(queue) + 1] = op
    BY <1>1, Pushed
<1>3. \A i : New(i) <=> i = Len(queue) + 1
    BY <1>2 DEF New
<1>4. QED
    BY <1>2, <1>3 DEF Kept

-----------------------------------------------------------------------------
(* What the world thread leaves as it is, a part of the invariant at a      *)
(* time.                                                                    *)

Same(c) == stage'[c] = stage[c] /\ request'[c] = request[c] /\ answer'[c] = answer[c]

\* Callbacks lose the operations they wait for only when they are freed, and a new
\* operation is awaited by a callback that waits for no other.
LEMMA AwaitingKept ==
    ASSUME Typed, Awaiting, Kept,
           \A i \in DOMAIN queue : queue'[i].waiter # None => Same(queue[i].waiter),
           \A c \in Callbacks : Same(c) \/ answer'[c] = << >>,
           \A i : New(i) /\ queue'[i].waiter # None =>
              LET c == queue'[i].waiter
              IN /\ answer'[c] = << >>
                 /\ queue'[i].kind \notin {"setName", "delete", "save"}
                 /\ stage'[c] = StageOf(queue'[i].kind)
                 /\ queue'[i].account = AccountOf[c]
                 /\ queue'[i].kind \in {"insert", "freeName", "load"} =>
                       queue'[i].guid = request'[c].guid
                 /\ queue'[i].kind = "insert" => queue'[i].name = request'[c].name
                 /\ \A j \in DOMAIN queue : queue'[j].waiter # c
                 /\ \A j : New(j) /\ queue'[j].waiter = c => i = j
    PROVE  Awaiting'
<1>1. ASSUME NEW i \in DOMAIN queue', queue'[i].waiter # None
      PROVE  LET c == queue'[i].waiter
             IN /\ answer'[c] = << >>
                /\ queue'[i].kind \notin {"setName", "delete", "save"}
                /\ stage'[c] = StageOf(queue'[i].kind)
                /\ queue'[i].account = AccountOf[c]
                /\ queue'[i].kind \in {"insert", "freeName", "load"} =>
                      queue'[i].guid = request'[c].guid
                /\ queue'[i].kind = "insert" => queue'[i].name = request'[c].name
    <2>1. CASE i \in DOMAIN queue
        <3>1. /\ queue'[i].waiter = queue[i].waiter /\ queue'[i].kind = queue[i].kind
              /\ queue'[i].account = queue[i].account
              /\ queue'[i].guid = queue[i].guid /\ queue'[i].name = queue[i].name
            BY <1>1, <2>1 DEF Kept
        <3>2. Same(queue[i].waiter)
            BY <1>1, <2>1
        <3>3. QED
            BY <1>1, <2>1, <3>1, <3>2 DEF Awaiting, Same
    <2>2. CASE New(i)
        BY <1>1, <2>2
    <2>3. QED
        BY <2>1, <2>2 DEF New
<1>2. ASSUME NEW i \in DOMAIN queue', NEW j \in DOMAIN queue',
             queue'[i].waiter # None, queue'[i].waiter = queue'[j].waiter
      PROVE  i = j
    <2>1. CASE i \in DOMAIN queue /\ j \in DOMAIN queue
        BY <1>2, <2>1 DEF Kept, Awaiting
    <2>2. CASE New(i) \/ New(j)
        BY <1>2, <2>2 DEF New
    <2>3. QED
        BY <2>1, <2>2 DEF New
<1>3. \A c \in Callbacks : answer'[c] # << >> => stage'[c] \in Waiting \ {"sumRealm"}
    BY DEF Awaiting, Same
<1>4. QED
    BY <1>1, <1>2, <1>3 DEF Awaiting

LEMMA BirthsKept ==
    ASSUME IInv, Kept, UNCHANGED <<db, generated>>,
           \A c \in Callbacks : Same(c) \/ (answer'[c] = << >> /\ stage'[c] # "commit"),
           \A g \in Guids : cache'[g] # None \/ InMemory(g)' => ~Unborn(g),
           \A g \in Guids : last'[g] = last[g] \/ InMemory(g),
           \A i : New(i) => queue'[i].kind # "insert",
           \A i, g : New(i) /\ Changes(i, g)' => ~Unborn(g)
    PROVE  Births' /\ \A g : Unborn(g)' <=> Unborn(g)
<1> USE DEF IInv
<1>1. \A i \in DOMAIN queue' : queue'[i].kind = "insert" =>
        i \in DOMAIN queue /\ queue[i].kind = "insert" /\ queue[i].guid = queue'[i].guid
    BY DEF Kept, New
<1>2. \A g : Unborn(g)' <=> Unborn(g)
    BY <1>1, KeptEffects DEF Unborn, Inserts, Kept
<1>3. ASSUME NEW g \in Guids, Unborn(g)
      PROVE  /\ db'[g] = None /\ cache'[g] = None /\ last'[g] = 0 /\ ~InMemory(g)'
             /\ \A i \in DOMAIN queue' : ~Changes(i, g)'
             /\ \A c \in Callbacks : Answered(c, "login")' /\ request'[c].guid = g =>
                   Result(c)' = {}
    <2>1. db'[g] = None /\ cache'[g] = None /\ last'[g] = 0 /\ ~InMemory(g)'
        BY <1>3 DEF Births
    <2>2. \A i \in DOMAIN queue' : ~Changes(i, g)'
        BY <1>3, KeptEffects DEF Births, New
    <2>3. \A c \in Callbacks : Answered(c, "login")' /\ request'[c].guid = g => Result(c)' = {}
        BY <1>3 DEF Births, Answered, Same, Result
    <2>4. QED
        BY <2>1, <2>2, <2>3
<1>4. \A c \in Callbacks : stage'[c] = "commit" =>
        stage[c] = "commit" /\ request'[c].guid = request[c].guid
    BY DEF Same
<1>5. QED
    BY <1>1, <1>2, <1>3, <1>4 DEF Births

LEMMA VersionKept ==
    ASSUME Kept, UNCHANGED db, NEW g, last'[g] = last[g], VersionToCome(g),
           \A i : New(i) => ~Saves(i, g)'
    PROVE  VersionToCome(g)'
<1>1. \A i \in DOMAIN queue' : Saves(i, g)' => i \in DOMAIN queue /\ Saves(i, g)
    BY KeptEffects DEF New
<1>2. \A i \in DOMAIN queue : Saves(i, g) =>
        i \in DOMAIN queue' /\ Saves(i, g)' /\ queue'[i].version = queue[i].version
    BY KeptEffects DEF Kept
<1>3. QED
    BY <1>1, <1>2 DEF VersionToCome

\* The save of a Player that leaves the world is the last one.
LEMMA VersionSaved ==
    ASSUME Kept, NEW g, NEW i, New(i), Saves(i, g)', queue'[i].version = last'[g]
    PROVE  VersionToCome(g)'
<1>1. \A j \in DOMAIN queue' : Saves(j, g)' => j <= i
    BY DEF Kept, New, Saves
<1>2. QED
    BY <1>1 DEF VersionToCome, New

LEMMA NameKept ==
    ASSUME Kept, UNCHANGED db, NEW g, NEW n, NameToCome(g, n),
           \A i : New(i) /\ SetsName(i, g)' => queue'[i].name = n
    PROVE  NameToCome(g, n)'
<1>1. \A i \in DOMAIN queue : SetsName(i, g) =>
        i \in DOMAIN queue' /\ SetsName(i, g)' /\ queue'[i].name = queue[i].name
    BY KeptEffects DEF Kept
<1>2. CASE \E i : New(i) /\ SetsName(i, g)'
    <2>1. PICK i : New(i) /\ SetsName(i, g)'
        BY <1>2
    <2>2. \A j \in DOMAIN queue' : SetsName(j, g)' => j <= i
        BY <2>1 DEF Kept, New, SetsName
    <2>3. QED
        BY <2>1, <2>2 DEF NameToCome, New
<1>3. CASE \A i : New(i) => ~SetsName(i, g)'
    <2>1. \A i \in DOMAIN queue' : SetsName(i, g)' => i \in DOMAIN queue /\ SetsName(i, g)
        BY <1>3, KeptEffects DEF New
    <2>2. QED
        BY <1>1, <2>1 DEF NameToCome
<1>4. QED
    BY <1>2, <1>3

\* The Players in memory keep their names, and no callback gets a row.
LEMMA NamesInMemory ==
    ASSUME NEW g, NEW n, NameInMemory(g, n),
           \A c \in Callbacks : Same(c) \/ answer'[c] = << >>,
           \A a \in Accounts : \A p \in Players(a)' : p.guid = g =>
              \E b \in Accounts : \E q \in Players(b) : q.guid = g /\ q.name = p.name
    PROVE  NameInMemory(g, n)'
<1>1. \A a \in Accounts : \A p \in Players(a)' : p.guid = g => p.name = n
    BY DEF NameInMemory
<1>2. \A c \in Callbacks : Answered(c, "login")' /\ request'[c].guid = g =>
        \A row \in Result(c)' : row.name = n
    BY DEF NameInMemory, Answered, Same, Result
<1>3. QED
    BY <1>1, <1>2 DEF NameInMemory

LEMMA CommittedKept ==
    ASSUME IInv, Kept, Remember, UNCHANGED db, Typed',
           \A c \in Callbacks : Same(c) \/ answer'[c] = << >>,
           \A i, g : New(i) /\ Deletes(i, g)' => cache[g] # None,
           \A c \in Callbacks : Answered(c, "commit")' /\ Result(c)' # {} =>
              cache'[request[c].guid] = cache[request[c].guid],
           \A g \in Guids \ contended' : \A n \in Names :
              Named(g, n) /\ Asking(g, "rename") = {} => Named(g, n)'
    PROVE  Committed'
<1> SUFFICES ASSUME NEW c \in Callbacks, Answered(c, "commit")', Result(c)' # {}
             PROVE  (LET g == request[c].guid
                     IN /\ Owns(AccountOf[c], g) /\ cache[g] = None
                        /\ \A i \in DOMAIN queue : ~Deletes(i, g)
                        /\ g \notin contended => Named(g, request[c].name))'
    BY DEF Committed
<1> USE DEF IInv
<1>1. Same(c) /\ Answered(c, "commit") /\ Result(c) # {}
    BY DEF Answered, Same, Result
<1>2. PICK g, n : g = request[c].guid /\ n = request[c].name
    OBVIOUS
<1>3. g \in Guids /\ n \in Names /\ request'[c].guid = g /\ request'[c].name = n
    BY <1>1, <1>2 DEF Typed, Answered, Same, Creating
<1>4. /\ Owns(AccountOf[c], g) /\ cache[g] = None
      /\ \A i \in DOMAIN queue : ~Deletes(i, g)
      /\ g \notin contended => Named(g, n)
    BY <1>1, <1>2 DEF Committed
<1>5. Owns(AccountOf[c], g)' /\ cache'[g] = None
    BY <1>2, <1>4 DEF Owns
<1>6. \A i \in DOMAIN queue' : ~Deletes(i, g)'
    BY <1>4, KeptEffects DEF New
<1>7. ASSUME g \notin contended' PROVE Named(g, n)'
    <2>1. g \notin contended
        BY <1>7 DEF Remember
    <2>2. Asking(g, "rename") = {}
        BY <1>1, <1>2, <1>3, <2>1 DEF Recorded, Contended, Asking, Answered
    <2>3. QED
        BY <1>3, <1>4, <1>7, <2>1, <2>2
<1>8. QED
    BY <1>3, <1>5, <1>6, <1>7

LEMMA CurrentKept ==
    ASSUME IInv, Kept, Remember, UNCHANGED <<db, cache, byName>>,
           \A i, g : New(i) => ~Deletes(i, g)',
           \A g \in Guids \ contended' : \A n \in Names : Named(g, n) => Named(g, n)'
    PROVE  Current'
<1> USE DEF IInv
<1>1. ASSUME NEW g \in Guids, cache[g] # None
      PROVE  /\ Owns(cache[g].account, g)'
             /\ \A i \in DOMAIN queue' : ~Deletes(i, g)'
             /\ g \notin contended' => Named(g, cache[g].name)'
    <2>1. cache[g].name \in Names
        BY <1>1 DEF Typed, TypeOK, Entry
    <2>2. g \notin contended' => g \notin contended
        BY DEF Remember
    <2>3. Owns(cache[g].account, g)'
        BY <1>1 DEF Current, Owns
    <2>4. \A i \in DOMAIN queue' : ~Deletes(i, g)'
        BY <1>1, KeptEffects DEF Current, New
    <2>5. QED
        BY <1>1, <2>1, <2>2, <2>3, <2>4 DEF Current
<1>3. QED
    BY <1>1 DEF Current

LEMMA Sizes ==
    ASSUME ConstantsAssumption
    PROVE  /\ \A S \in SUBSET Guids : IsFiniteSet(S) /\ Cardinality(S) \in Nat
           /\ \A S \in SUBSET Callbacks : IsFiniteSet(S) /\ Cardinality(S) \in Nat
BY FS_Subset, FS_CardinalityType DEF ConstantsAssumption

\* The histories keep what they have and take in what happens now.
LEMMA Recording ==
    ASSUME ConstantsAssumption, Typed, Remember
    PROVE  /\ Recorded'
           /\ contended \subseteq contended' /\ contended' \subseteq Guids
           /\ crowd' \in [Accounts -> Nat]
           /\ \A a \in Accounts : crowd[a] \in Nat /\ crowd'[a] \in Nat /\ crowd[a] <= crowd'[a]
<1>1. \A a \in Accounts : Cardinality(Creations(a)') \in Nat
    <2>1. \A a \in Accounts : Creations(a)' \in SUBSET Callbacks
        BY DEF Creations
    <2>2. QED
        BY <2>1, Sizes
<1>2. /\ crowd \in [Accounts -> Nat] /\ contended \subseteq Guids
      /\ crowd' = [a \in Accounts |->
            IF Cardinality(Creations(a)') > crowd[a] THEN Cardinality(Creations(a)')
            ELSE crowd[a]]
      /\ contended' = contended \union Contended'
    BY DEF Typed, TypeOK, Remember
<1>3. /\ crowd' \in [Accounts -> Nat]
      /\ \A a \in Accounts : /\ crowd[a] \in Nat /\ crowd'[a] \in Nat
                             /\ crowd[a] <= crowd'[a]
                             /\ Cardinality(Creations(a)') <= crowd'[a]
    BY <1>1, <1>2
<1>4. Contended' \subseteq Guids
    BY DEF Contended
<1>5. Recorded'
    <2>1. \A a \in Accounts : Cardinality(Creations(a))' <= crowd'[a]
        BY <1>3
    <2>2. QED
        BY <2>1, <1>2 DEF Recorded
<1>6. QED
    BY <1>2, <1>3, <1>4, <1>5

LEMMA CountedKept ==
    ASSUME ConstantsAssumption, IInv, Kept, Remember, UNCHANGED db,
           \A i : New(i) => queue'[i].kind # "insert",
           \A a \in Accounts : Passed(a)' \subseteq Passed(a)
    PROVE  Counted'
<1> USE DEF IInv
<1>1. ASSUME NEW a \in Accounts
      PROVE  (Cardinality(Heirs(a)) + Cardinality(Passed(a)) < RealmLimit + crowd[a])'
    <2>1. Heirs(a)' = Heirs(a)
        <3>1. Of(a)' = Of(a)
            BY DEF Of, Stored
        <3>2. \A g : \A i \in DOMAIN queue' :
                Inserts(i, g)' /\ queue'[i].account = a <=>
                i \in DOMAIN queue /\ Inserts(i, g) /\ queue[i].account = a
            BY KeptEffects DEF Kept, New, Inserts
        <3>3. QED
            BY <3>1, <3>2 DEF Heirs, Kept
    <2>2. /\ Passed(a) \in SUBSET Callbacks /\ Passed(a)' \in SUBSET Callbacks
          /\ Heirs(a) \in SUBSET Guids
        BY DEF Passed, Heirs, Of, Stored
    <2>3. Cardinality(Passed(a)') <= Cardinality(Passed(a))
        BY <2>2, Sizes, FS_Subset
    <2>4. /\ Cardinality(Heirs(a)) \in Nat
          /\ Cardinality(Passed(a)) \in Nat /\ Cardinality(Passed(a)') \in Nat
        BY <2>2, Sizes
    <2>5. Cardinality(Heirs(a)) + Cardinality(Passed(a)) < RealmLimit + crowd[a]
        BY DEF Counted
    <2>6. crowd[a] \in Nat /\ crowd'[a] \in Nat /\ crowd[a] <= crowd'[a] /\ RealmLimit \in Nat
        BY Recording DEF ConstantsAssumption
    <2>7. Cardinality(Heirs(a)) + Cardinality(Passed(a)') < RealmLimit + crowd'[a]
        BY <2>3, <2>4, <2>5, <2>6
    <2>8. QED
        BY <2>1, <2>7
<1>2. ASSUME NEW i \in DOMAIN queue', NEW j \in DOMAIN queue',
             queue'[i].kind = "sumChars", queue'[i].waiter # None,
             queue'[j].kind = "insert", queue'[j].account = queue'[i].account, i < j
      PROVE  queue'[j].waiter # None
    <2>1. j \in DOMAIN queue
        BY <1>2 DEF New
    <2>2. i \in DOMAIN queue
        BY <1>2, <2>1 DEF Kept, New
    <2>3. /\ queue[i].kind = "sumChars" /\ queue[i].waiter # None
          /\ queue[j].kind = "insert" /\ queue[j].account = queue[i].account
        BY <1>2, <2>1, <2>2 DEF Kept
    <2>4. queue[j].waiter # None
        BY <1>2, <2>1, <2>2, <2>3 DEF Counted
    <2>5. QED
        BY <1>2, <2>1, <2>2, <2>3, <2>4 DEF Kept
<1>3. QED
    BY <1>1, <1>2 DEF Counted

\* Logins and renames that are under way, and saves.
LEMMA LoginsKept ==
    ASSUME ConstantsAssumption, IInv, Kept, Remember, UNCHANGED db,
           \A g : Unborn(g)' => Unborn(g),
           \A c \in Callbacks : Same(c) \/ answer'[c] = << >>,
           \A c \in Callbacks : stage'[c] = "login" =>
              Same(c) \/ \A i \in DOMAIN queue' : queue'[i].waiter = c =>
                            \A j \in DOMAIN queue' : i < j => ~SetsName(j, request[c].guid)',
           \A g \in Guids : last'[g] = last[g] \/ InMemory(g),
           \A i, g : New(i) /\ SetsName(i, g)' =>
              g \in contended \/ Asking(g, "login") = {},
           \A i, g : New(i) /\ Saves(i, g)' => InMemory(g),
           \A g \in Guids \ contended' : InMemory(g) /\ ~InMemory(g)' => VersionToCome(g)'
    PROVE  Loading' /\ Renaming' /\ Saved'
<1> USE DEF IInv
<1>1. contended \subseteq contended'
    BY Recording
<1>2. ASSUME NEW c \in Callbacks, stage'[c] = "login", request'[c].guid \notin contended'
      PROVE  /\ answer'[c] # << >> => \A row \in Result(c)' : row.version = last'[request'[c].guid]
             /\ \A i, j \in DOMAIN queue' :
                   queue'[i].waiter = c /\ i < j => ~SetsName(j, request[c].guid)'
    <2>1. CASE Same(c)
        <3>1. PICK g : g = request[c].guid /\ g = request'[c].guid
            BY <2>1 DEF Same
        <3>2. stage[c] = "login" /\ g \in Guids /\ g \notin contended /\ g \notin contended'
            BY <1>1, <1>2, <2>1, <3>1 DEF Same, Typed
        <3>3. c \in Asking(g, "login") /\ ~InMemory(g)
            BY <3>1, <3>2 DEF Asking, Recorded, Contended
        <3>4. answer'[c] # << >> => \A row \in Result(c)' : row.version = last'[g]
            BY <2>1, <3>1, <3>2, <3>3 DEF Loading, Same, Result
        <3>5. ASSUME NEW i \in DOMAIN queue', NEW j \in DOMAIN queue',
                     queue'[i].waiter = c, i < j
              PROVE  ~SetsName(j, g)'
            <4>1. CASE New(j)
                BY <4>1, <3>2, <3>3
            <4>2. CASE j \in DOMAIN queue
                <5>1. i \in DOMAIN queue /\ i < j
                    BY <3>5, <4>2 DEF Kept, New
                <5>2. queue[i].waiter = c
                    BY <3>5, <5>1, NoneAssumption DEF Kept, ConstantsAssumption
                <5>3. \A k, l \in DOMAIN queue :
                        queue[k].waiter = c /\ k < l => ~SetsName(l, g)
                    <6>1. Loading
                        OBVIOUS
                    <6> HIDE DEF IInv
                    <6>2. QED
                        BY <3>1, <3>2, <6>1, Zenon DEF Loading
                <5>4. ~SetsName(j, g)
                    BY <4>2, <5>1, <5>2, <5>3
                <5>5. QED
                    BY <4>2, <5>4, KeptEffects
            <4>3. QED
                BY <4>1, <4>2 DEF New
        <3>6. QED
            BY <3>1, <3>4, <3>5
    <2>2. CASE ~Same(c)
        BY <1>2, <2>2
    <2>3. QED
        BY <2>1, <2>2
<1>3. Loading'
    BY <1>2 DEF Loading
<1>4. Renaming'
    BY DEF Renaming, Answered, Same, Result
<1>5. ASSUME NEW g \in Guids \ contended', db'[g] # None, ~InMemory(g)'
      PROVE  VersionToCome(g)'
    <2>1. CASE InMemory(g)
        BY <1>5, <2>1
    <2>2. CASE ~InMemory(g)
        <3>1. VersionToCome(g) /\ last'[g] = last[g]
            BY <1>1, <1>5, <2>2 DEF Saved
        <3>2. \A i : New(i) => ~Saves(i, g)'
            BY <2>2
        <3>3. QED
            BY <3>1, <3>2, VersionKept
    <2>3. QED
        BY <2>1, <2>2
<1>6. Saved'
    BY <1>5 DEF Saved
<1>7. QED
    BY <1>3, <1>4, <1>6

-----------------------------------------------------------------------------
(* Requests and refusals.                                                  *)

\* A callback takes up a request, goes on or ends, and nothing else changes: what it
\* queues, if anything, is a query that it awaits.
LEMMA CallbackStep ==
    ASSUME ConstantsAssumption, IInv, Remember, NEW c \in Callbacks,
           UNCHANGED <<db, memory, world>>,
           \A d \in Callbacks \ {c} : Same(d),
           answer'[c] = << >>, stage'[c] # "commit",
           stage'[c] = "createInfo" => c \in Passed(AccountOf[c]),
           stage'[c] = "login" => AccountOf[c] \notin offline,
           Kept, Typed',
           \A i \in DOMAIN queue : queue[i].waiter # c /\ queue'[i].waiter = queue[i].waiter,
           \A i, j : New(i) /\ New(j) => i = j,
           \A i : New(i) =>
              /\ queue'[i].waiter = c /\ queue'[i].account = AccountOf[c]
              /\ queue'[i].kind \in {"enum", "checkName", "sumChars", "createInfo",
                                     "freeName", "load"}
              /\ stage'[c] = StageOf(queue'[i].kind)
              /\ queue'[i].kind \in {"freeName", "load"} => queue'[i].guid = request'[c].guid
    PROVE  IInv'
<1> USE DEF IInv
<1>1. \A i \in DOMAIN queue : queue[i].waiter # c /\ queue'[i].waiter = queue[i].waiter
    OBVIOUS
<1>2. UNCHANGED <<cache, byName, generated, player, offline, stray, accessor, last>>
    BY DEF memory, world
<1>3. /\ \A g : InMemory(g)' <=> InMemory(g)
      /\ \A a, g : (Plays(a, g)' <=> Plays(a, g)) /\ (Strays(a, g)' <=> Strays(a, g))
      /\ \A a : Players(a)' = Players(a) /\ (InWorld(a)' <=> InWorld(a))
    BY <1>2 DEF InMemory, Players, Plays, Strays, InWorld
<1>4. \A i, g : New(i) => ~Changes(i, g)' /\ ~SetsName(i, g)' /\ ~Saves(i, g)' /\ ~Deletes(i, g)'
    BY DEF Changes, SetsName, Saves, Deletes
<1>5. \A d \in Callbacks : Same(d) \/ answer'[d] = << >>
    OBVIOUS
<1>6. Awaiting'
    <2>1. \A i \in DOMAIN queue : queue'[i].waiter # None => Same(queue[i].waiter)
        BY <1>1, QueuedOperations
    <2>2. QED
        BY <1>1, <1>5, <2>1, AwaitingKept
<1>7. Births' /\ \A g : Unborn(g)' <=> Unborn(g)
    <2>1. \A g \in Guids : cache'[g] # None \/ InMemory(g)' => ~Unborn(g)
        BY <1>2, <1>3 DEF Births
    <2>2. QED
        BY <1>2, <1>4, <1>5, <2>1, BirthsKept
<1>8. Offline'
    BY <1>2, <1>3 DEF Offline, Same
<1>9. contended \subseteq contended' /\ Recorded'
    BY Recording
<1>10. Presence'
    BY <1>2, <1>3, <1>9 DEF Presence
<1>11. Loading' /\ Renaming' /\ Saved'
    <2>1. \A d \in Callbacks : stage'[d] = "login" =>
            Same(d) \/ \A i \in DOMAIN queue' : queue'[i].waiter = d =>
                          \A j \in DOMAIN queue' : i < j => ~SetsName(j, request[d].guid)'
        BY <1>1, <1>4 DEF Kept, New
    <2>2. QED
        BY <1>2, <1>3, <1>4, <1>5, <1>7, <2>1, LoginsKept
<1>12. ASSUME NEW g \in Guids \ contended', NEW n \in Names, Named(g, n)
       PROVE  Named(g, n)'
    <2>1. NameToCome(g, n)'
        BY <1>4, <1>12, NameKept DEF Named
    <2>2. NameInMemory(g, n)'
        BY <1>3, <1>5, <1>12, NamesInMemory DEF Named
    <2>3. QED
        BY <2>1, <2>2 DEF Named
<1>13. Committed'
    BY <1>2, <1>4, <1>5, <1>12, CommittedKept
<1>14. Current'
    BY <1>2, <1>4, <1>12, CurrentKept
<1>15. Counted'
    <2>1. \A a \in Accounts : Passed(a)' \subseteq Passed(a)
        BY DEF Passed, Same, Answered, Result
    <2>2. QED
        BY <2>1, CountedKept
<1>16. QED
    BY <1>6, <1>7, <1>8, <1>9, <1>10, <1>11, <1>13, <1>14, <1>15

\* A callback that has its answer, or asks for nothing, waits for no operation.
LEMMA NothingAwaited ==
    ASSUME Typed, Awaiting, NEW c \in Callbacks,
           stage[c] \in {"free", "sumRealm"} \/ answer[c] # << >>
    PROVE  /\ stage[c] \in {"free", "sumRealm"} => answer[c] = << >>
           /\ \A i \in DOMAIN queue : queue[i].waiter # c
<1>1. stage[c] \in {"free", "sumRealm"} => answer[c] = << >>
    BY DEF Awaiting, Waiting, Creating
<1>2. c # None
    BY ConstantsAssumption DEF ConstantsAssumption
<1>3. ASSUME NEW i \in DOMAIN queue, queue[i].waiter = c
      PROVE  FALSE
    <2>1. stage[c] = StageOf(queue[i].kind) /\ answer[c] = << >>
        BY <1>2, <1>3 DEF Awaiting
    <2>2. queue[i].kind \notin {"free", "sumRealm"}
        BY QueuedOperations
    <2>3. QED
        BY <2>1, <2>2 DEF StageOf
<1>4. QED
    BY <1>1, <1>3

Requests == [guid : Guids \union {None}, name : Names \union {None}]

\* A query is queued for a callback that waits for nothing else.
LEMMA AskStep ==
    ASSUME ConstantsAssumption, IInv, Remember, NEW c \in Callbacks, NEW op \in Operation,
           op.kind \in {"enum", "checkName", "sumChars", "createInfo", "freeName", "load"},
           op.account = AccountOf[c], op.waiter = c,
           stage[c] \in {"free", "sumRealm"} \/ answer[c] # << >>,
           stage' = [stage EXCEPT ![c] = StageOf(op.kind)],
           request' \in [Callbacks -> Requests],
           \A d \in Callbacks \ {c} : request'[d] = request[d],
           op.kind \in {"freeName", "load"} => op.guid = request'[c].guid /\ op.guid \in Guids,
           op.kind \in {"checkName", "sumChars", "createInfo", "freeName"} =>
              request'[c].name \in Names,
           op.kind = "createInfo" => c \in Passed(AccountOf[c]),
           op.kind = "load" => AccountOf[c] \notin offline,
           DOMAIN answer' = Callbacks, answer'[c] = << >>,
           \A d \in Callbacks \ {c} : answer'[d] = answer[d],
           queue' = Append(queue, op), overlaps' \in Nat,
           UNCHANGED <<db, memory, connected, legit, world>>
    PROVE  IInv'
<1>1. /\ Kept
      /\ \A i : New(i) => queue'[i] = op
      /\ \A i \in DOMAIN queue : queue'[i] = queue[i]
      /\ \A i, j : New(i) /\ New(j) => i = j
    BY QueuePushed DEF IInv
<1>2. \A i \in DOMAIN queue : queue[i].waiter # c /\ queue'[i].waiter = queue[i].waiter
    BY <1>1, NothingAwaited DEF IInv
<1>3. stage \in [Callbacks -> Waiting \union {"free"}]
    BY DEF IInv, Typed, TypeOK
<1>4. /\ stage' \in [Callbacks -> Waiting \union {"free"}]
      /\ stage'[c] = StageOf(op.kind) /\ \A d \in Callbacks \ {c} : stage'[d] = stage[d]
    BY <1>3 DEF StageOf, Waiting, Creating
<1>5. \A d \in Callbacks \ {c} : Same(d)
    BY <1>4 DEF Same
<1>6. Typed'
    <2>1. UNCHANGED <<db, cache, byName, generated, player, offline, stray, accessor, last>>
        BY DEF memory, world
    <2>2. TypeOK'
        BY <1>1, <1>4, <2>1, Recording DEF IInv, Typed, TypeOK, Kept, Requests
    <2>3. \A i \in DOMAIN queue' :
            /\ queue'[i].kind \in {"insert", "setName", "delete", "load", "save"} =>
                  queue'[i].guid \in Guids
            /\ queue'[i].kind \in {"insert", "setName", "save"} => queue'[i].name \in Names
        BY <1>1 DEF IInv, Typed, New
    <2>4. \A d \in Callbacks :
            /\ stage'[d] \in {"commit", "rename", "login"} => request'[d].guid \in Guids
            /\ stage'[d] \in Creating \union {"rename"} => request'[d].name \in Names
            /\ answer'[d] # << >> =>
                  Result(d)' \subseteq IF stage'[d] = "login" THEN Row ELSE Guids
        BY <1>4 DEF IInv, Typed, Result, StageOf, Creating
    <2>5. QED
        BY <2>2, <2>3, <2>4 DEF Typed
<1>7. /\ stage'[c] # "commit"
      /\ stage'[c] = "createInfo" => op.kind = "createInfo"
      /\ stage'[c] = "login" => op.kind = "load"
    BY <1>4 DEF StageOf
<1>8. \A i : New(i) =>
        /\ queue'[i].waiter = c /\ queue'[i].account = AccountOf[c]
        /\ queue'[i].kind \in {"enum", "checkName", "sumChars", "createInfo",
                               "freeName", "load"}
        /\ stage'[c] = StageOf(queue'[i].kind)
        /\ queue'[i].kind \in {"freeName", "load"} => queue'[i].guid = request'[c].guid
    BY <1>1, <1>4
<1> HIDE DEF IInv
<1>9. QED
    BY <1>1, <1>2, <1>5, <1>6, <1>7, <1>8, CallbackStep, ZenonT(40)

\* A request that is refused or over, or that asks the login database next.
LEMMA EndStep ==
    ASSUME ConstantsAssumption, IInv, Remember, NEW c \in Callbacks,
           NEW s \in {"free", "sumRealm"},
           stage[c] = "sumRealm" \/ answer[c] # << >>,
           s = "sumRealm" => stage[c] = "checkName" /\ request' = request,
           stage' = [stage EXCEPT ![c] = s],
           request' \in [Callbacks -> Requests],
           \A d \in Callbacks \ {c} : request'[d] = request[d],
           DOMAIN answer' = Callbacks, answer'[c] = << >>,
           \A d \in Callbacks \ {c} : answer'[d] = answer[d],
           legit' \in [Accounts -> SUBSET Guids], overlaps' \in Nat,
           UNCHANGED <<db, queue, memory, connected, world>>
    PROVE  IInv'
<1>1. Kept /\ \A i : ~New(i)
    BY QueueStays DEF IInv
<1>2. \A i \in DOMAIN queue : queue[i].waiter # c /\ queue'[i].waiter = queue[i].waiter
    BY NothingAwaited DEF IInv
<1>3. stage \in [Callbacks -> Waiting \union {"free"}]
    BY DEF IInv, Typed, TypeOK
<1>4. /\ stage' \in [Callbacks -> Waiting \union {"free"}]
      /\ stage'[c] = s /\ \A d \in Callbacks \ {c} : stage'[d] = stage[d]
    BY <1>3 DEF Waiting, Creating
<1>5. \A d \in Callbacks \ {c} : Same(d)
    BY <1>4 DEF Same
<1>6. Typed'
    <2>1. UNCHANGED <<db, cache, byName, generated, player, offline, stray, accessor, last>>
        BY DEF memory, world
    <2>2. TypeOK'
        BY <1>4, <2>1, Recording DEF IInv, Typed, TypeOK, Requests
    <2>3. \A d \in Callbacks :
            /\ stage'[d] \in {"commit", "rename", "login"} => request'[d].guid \in Guids
            /\ stage'[d] \in Creating \union {"rename"} => request'[d].name \in Names
            /\ answer'[d] # << >> =>
                  Result(d)' \subseteq IF stage'[d] = "login" THEN Row ELSE Guids
        BY <1>4 DEF IInv, Typed, Result, Creating
    <2>4. QED
        BY <2>2, <2>3 DEF IInv, Typed
<1>7. stage'[c] \notin {"commit", "createInfo", "login"}
    BY <1>4
<1>8. QED
    BY <1>1, <1>2, <1>5, <1>6, <1>7, CallbackStep

LEMMA RefuseStep ==
    ASSUME ConstantsAssumption, IInv, Remember, NEW c \in Callbacks,
           stage[c] = "sumRealm" \/ answer[c] # << >>,
           Refuse(c), overlaps' \in Nat, UNCHANGED <<db, connected>>
    PROVE  IInv'
<1>1. /\ request \in [Callbacks -> Requests] /\ DOMAIN answer = Callbacks
      /\ legit \in [Accounts -> SUBSET Guids]
    BY DEF IInv, Typed, TypeOK, Requests
<1>2. NoRequest \in Requests
    BY DEF NoRequest, Requests
<1>3. /\ request' \in [Callbacks -> Requests] /\ DOMAIN answer' = Callbacks
      /\ answer'[c] = << >>
      /\ \A d \in Callbacks \ {c} : request'[d] = request[d] /\ answer'[d] = answer[d]
    BY <1>1, <1>2 DEF Refuse, Done
<1>4. /\ stage' = [stage EXCEPT ![c] = "free"]
      /\ UNCHANGED <<queue, memory, legit, world>>
    BY DEF Refuse, Done
<1>5. QED
    BY <1>1, <1>3, <1>4, EndStep

\* The queries of the model are operations.
LEMMA Queries ==
    ASSUME ConstantsAssumption, NEW c \in Callbacks,
           NEW guid \in Guids \union {None}, NEW name \in Names \union {None},
           NEW kind \in {"enum", "checkName", "sumChars", "createInfo", "insert",
                         "freeName", "load"}
    PROVE  LET op == Query(kind, c, guid, name)
           IN /\ op \in Operation /\ op.kind = kind /\ op.account = AccountOf[c]
              /\ op.waiter = c /\ op.guid = guid /\ op.name = name
<1>1. AccountOf[c] \in Accounts /\ 0 \in 0..MaxVersion
    BY DEF ConstantsAssumption
<1>2. QED
    BY <1>1 DEF Query, Operation

LEMMA Commands ==
    ASSUME ConstantsAssumption, NEW a \in Accounts, NEW version \in 0..MaxVersion,
           NEW guid \in Guids \union {None}, NEW name \in Names \union {None},
           NEW kind \in {"setName", "delete", "save"}
    PROVE  LET op == Command(kind, a, guid, name, version)
           IN /\ op \in Operation /\ op.kind = kind /\ op.account = a /\ op.waiter = None
              /\ op.guid = guid /\ op.name = name /\ op.version = version
BY DEF Command, Operation

LEMMA EnumStep ==
    ASSUME ConstantsAssumption, IInv, Remember, NEW c \in Callbacks, overlaps' \in Nat,
           HandleCharEnumOpcode(c) \/ HandleCharEnum(c)
    PROVE  IInv'
<1>1. /\ request \in [Callbacks -> Requests] /\ DOMAIN answer = Callbacks
      /\ legit \in [Accounts -> SUBSET Guids] /\ AccountOf[c] \in Accounts
    BY DEF IInv, Typed, TypeOK, Requests, ConstantsAssumption
<1>2. NoRequest \in Requests
    BY DEF NoRequest, Requests
<1>3. CASE HandleCharEnumOpcode(c)
    <2>1. PICK op \in Operation : op = Query("enum", c, None, None) /\ op.kind = "enum"
                /\ op.account = AccountOf[c] /\ op.waiter = c
        BY Queries
    <2>2. /\ stage[c] = "free" /\ stage' = [stage EXCEPT ![c] = "enum"]
          /\ request' = [request EXCEPT ![c] = NoRequest]
          /\ queue' = Append(queue, op)
          /\ UNCHANGED <<answer, db, memory, connected, legit, world>>
        BY <1>3, <2>1 DEF HandleCharEnumOpcode, Ask
    <2>3. /\ request' \in [Callbacks -> Requests]
          /\ \A d \in Callbacks \ {c} : request'[d] = request[d]
          /\ answer'[c] = << >> /\ DOMAIN answer' = Callbacks
        BY <1>1, <1>2, <2>2, NothingAwaited DEF IInv
    <2>4. StageOf(op.kind) = "enum"
        BY <2>1 DEF StageOf
    <2>5. QED
        BY <2>1, <2>2, <2>3, <2>4, AskStep
<1>4. CASE HandleCharEnum(c)
    <2>1. /\ stage[c] = "enum" /\ answer[c] # << >>
          /\ legit' = [legit EXCEPT ![AccountOf[c]] = Result(c)]
          /\ stage' = [stage EXCEPT ![c] = "free"]
          /\ request' = [request EXCEPT ![c] = NoRequest]
          /\ answer' = [answer EXCEPT ![c] = << >>]
          /\ UNCHANGED <<db, queue, memory, connected, world>>
        BY <1>4 DEF HandleCharEnum, Ready, Done
    <2>2. Result(c) \subseteq Guids
        BY <2>1 DEF IInv, Typed
    <2>3. /\ legit' \in [Accounts -> SUBSET Guids]
          /\ request' \in [Callbacks -> Requests] /\ DOMAIN answer' = Callbacks
          /\ answer'[c] = << >>
          /\ \A d \in Callbacks \ {c} : request'[d] = request[d] /\ answer'[d] = answer[d]
        BY <1>1, <1>2, <2>1, <2>2
    <2>4. QED
        BY <2>1, <2>3, EndStep
<1>5. QED
    BY <1>3, <1>4

-----------------------------------------------------------------------------
(* Creations.                                                              *)

\* The insertion: the guid is new, and the creation has been counted.
LEMMA InsertStep ==
    ASSUME ConstantsAssumption, NoneAssumption, IInv, Remember,
           NEW c \in Callbacks, NEW guid \in Guids \ generated,
           c \in Passed(AccountOf[c]), answer[c] # << >>,
           generated' = generated \union {guid},
           stage' = [stage EXCEPT ![c] = "commit"],
           request' = [request EXCEPT ![c].guid = guid],
           answer' = [answer EXCEPT ![c] = << >>],
           queue' = Append(queue, Query("insert", c, guid, request[c].name)),
           overlaps' \in Nat,
           UNCHANGED <<db, cache, byName, connected, legit, world>>
    PROVE  IInv'
<1> USE DEF IInv
<1> DEFINE a == AccountOf[c]
<1>1. /\ request \in [Callbacks -> Requests] /\ DOMAIN answer = Callbacks
      /\ stage \in [Callbacks -> Waiting \union {"free"}]
      /\ a \in Accounts /\ generated \subseteq Guids
      /\ stage[c] \in {"sumChars", "createInfo"} /\ request[c].name \in Names
    BY DEF Typed, TypeOK, Requests, ConstantsAssumption, Passed, Answered, Creating
<1>2. PICK op \in Operation :
        /\ queue' = Append(queue, op)
        /\ op.kind = "insert" /\ op.account = a /\ op.waiter = c
        /\ op.guid = guid /\ op.name = request[c].name
    BY <1>1, Queries
<1>3. /\ Kept
      /\ \A i : New(i) => queue'[i] = op
      /\ \A i \in DOMAIN queue : queue'[i] = queue[i] /\ queue[i].waiter # c
      /\ \A i, j : New(i) /\ New(j) => i = j
      /\ \E i : New(i)
    BY <1>2, QueuePushed, NothingAwaited
<1>4. /\ stage'[c] = "commit" /\ answer'[c] = << >>
      /\ request'[c].guid = guid /\ request'[c].name = request[c].name
      /\ request' \in [Callbacks -> Requests] /\ DOMAIN answer' = Callbacks
      /\ stage' \in [Callbacks -> Waiting \union {"free"}]
      /\ \A d \in Callbacks \ {c} : Same(d)
    BY <1>1 DEF Same, Waiting, Creating, Requests
<1>5. UNCHANGED <<player, offline, stray, accessor, last>>
    BY DEF world
<1>6. /\ \A g : InMemory(g)' <=> InMemory(g)
      /\ \A b, g : (Plays(b, g)' <=> Plays(b, g)) /\ (Strays(b, g)' <=> Strays(b, g))
      /\ \A b : Players(b)' = Players(b) /\ (InWorld(b)' <=> InWorld(b))
    BY <1>5 DEF InMemory, Players, Plays, Strays, InWorld
<1>7. \A i, g : New(i) => ~Changes(i, g)' /\ ~SetsName(i, g)' /\ ~Saves(i, g)' /\ ~Deletes(i, g)'
    BY <1>2, <1>3 DEF Changes, SetsName, Saves, Deletes
<1>8. \A d \in Callbacks : Same(d) \/ answer'[d] = << >>
    BY <1>4
<1>9. contended \subseteq contended' /\ Recorded'
    BY Recording
<1> HIDE DEF a
<1>10. Typed'
    <2>1. TypeOK'
        BY <1>1, <1>3, <1>4, <1>5, Recording DEF Typed, TypeOK, Kept, Requests
    <2>2. \A i \in DOMAIN queue' :
            /\ queue'[i].kind \in {"insert", "setName", "delete", "load", "save"} =>
                  queue'[i].guid \in Guids
            /\ queue'[i].kind \in {"insert", "setName", "save"} => queue'[i].name \in Names
        BY <1>1, <1>2, <1>3 DEF Typed, New
    <2>3. \A d \in Callbacks :
            /\ stage'[d] \in {"commit", "rename", "login"} => request'[d].guid \in Guids
            /\ stage'[d] \in Creating \union {"rename"} => request'[d].name \in Names
            /\ answer'[d] # << >> =>
                  Result(d)' \subseteq IF stage'[d] = "login" THEN Row ELSE Guids
        BY <1>1, <1>4 DEF Typed, Result, Creating, Same
    <2>4. QED
        BY <2>1, <2>2, <2>3 DEF Typed
<1>11. Awaiting'
    <2>1. \A i \in DOMAIN queue : queue'[i].waiter # None => Same(queue[i].waiter)
        BY <1>3, <1>4, QueuedOperations
    <2>2. stage'[c] = StageOf("insert")
        BY <1>4 DEF StageOf
    <2>3. \A i : New(i) /\ queue'[i].waiter # None =>
            LET d == queue'[i].waiter
            IN /\ answer'[d] = << >>
               /\ queue'[i].kind \notin {"setName", "delete", "save"}
               /\ stage'[d] = StageOf(queue'[i].kind)
               /\ queue'[i].account = AccountOf[d]
               /\ queue'[i].kind \in {"insert", "freeName", "load"} =>
                     queue'[i].guid = request'[d].guid
               /\ queue'[i].kind = "insert" => queue'[i].name = request'[d].name
               /\ \A j \in DOMAIN queue : queue'[j].waiter # d
               /\ \A j : New(j) /\ queue'[j].waiter = d => i = j
        BY <1>2, <1>3, <1>4, <2>2, ZenonT(40) DEF a
    <2>4. QED
        BY <1>3, <1>8, <2>1, <2>3, AwaitingKept
<1>12. \A g : Unborn(g)' <=> Unborn(g)
    <2>1. \A g : (\E i \in DOMAIN queue' : Inserts(i, g)') <=>
                 g = guid \/ \E i \in DOMAIN queue : Inserts(i, g)
        BY <1>2, <1>3, KeptEffects DEF Inserts, New, Kept
    <2>2. QED
        BY <2>1 DEF Unborn
<1>13. Births'
    <2>1. ASSUME NEW g \in Guids, Unborn(g)
          PROVE  /\ db'[g] = None /\ cache'[g] = None /\ last'[g] = 0 /\ ~InMemory(g)'
                 /\ \A i \in DOMAIN queue' : ~Changes(i, g)'
                 /\ \A d \in Callbacks : Answered(d, "login")' /\ request'[d].guid = g =>
                       Result(d)' = {}
        <3>1. /\ db[g] = None /\ cache[g] = None /\ last[g] = 0 /\ ~InMemory(g)
              /\ \A i \in DOMAIN queue : ~Changes(i, g)
              /\ \A d \in Callbacks : Answered(d, "login") /\ request[d].guid = g =>
                    Result(d) = {}
            BY <2>1 DEF Births
        <3> HIDE DEF IInv
        <3>2. \A i \in DOMAIN queue' : ~Changes(i, g)'
            BY <1>3, <1>7, <3>1, KeptEffects DEF New
        <3>3. \A d \in Callbacks : Answered(d, "login")' /\ request'[d].guid = g =>
                Result(d)' = {}
            BY <1>8, <3>1 DEF Answered, Same, Result
        <3>4. QED
            BY <1>5, <1>6, <3>1, <3>2, <3>3
    <2>2. \A i \in DOMAIN queue' : queue'[i].kind = "insert" => queue'[i].guid \in generated'
        BY <1>2, <1>3 DEF Births, New
    <2>3. \A i, j \in DOMAIN queue' :
            queue'[i].kind = "insert" /\ queue'[j].kind = "insert"
            /\ queue'[i].guid = queue'[j].guid => i = j
        BY <1>2, <1>3 DEF Births, New
    <2>4. \A d \in Callbacks : stage'[d] = "commit" =>
            \/ d = c /\ request'[d].guid = guid
            \/ d # c /\ stage[d] = "commit" /\ request'[d].guid = request[d].guid
        BY <1>4 DEF Same
    <2>5. \A d \in Callbacks : stage'[d] = "commit" => request'[d].guid \in generated'
        BY <2>4 DEF Births
    <2>6. \A d, e \in Callbacks :
            stage'[d] = "commit" /\ stage'[e] = "commit" /\ request'[d].guid = request'[e].guid
            => d = e
        BY <2>4 DEF Births
    <2>7. QED
        BY <1>12, <2>1, <2>2, <2>3, <2>5, <2>6 DEF Births
<1>14. Offline'
    BY <1>4, <1>5, <1>6 DEF Offline, Same
<1>15. Presence'
    BY <1>5, <1>6, <1>9 DEF Presence
<1>16. Loading' /\ Renaming' /\ Saved'
    <2>1. \A d \in Callbacks : stage'[d] = "login" => Same(d)
        BY <1>4
    <2>2. QED
        BY <1>3, <1>5, <1>6, <1>7, <1>8, <1>12, <2>1, LoginsKept
<1>17. ASSUME NEW g \in Guids \ contended', NEW n \in Names, Named(g, n)
       PROVE  Named(g, n)'
    <2>1. NameToCome(g, n)'
        BY <1>3, <1>7, <1>17, NameKept DEF Named
    <2>2. NameInMemory(g, n)'
        BY <1>6, <1>8, <1>17, NamesInMemory DEF Named
    <2>3. QED
        BY <2>1, <2>2 DEF Named
<1>18. Committed'
    BY <1>3, <1>7, <1>8, <1>10, <1>17, CommittedKept
<1>19. Current'
    BY <1>3, <1>7, <1>17, CurrentKept
<1>20. Counted'
    <2>1. ASSUME NEW b \in Accounts
          PROVE  (Cardinality(Heirs(b)) + Cardinality(Passed(b)) < RealmLimit + crowd[b])'
        <3>1. /\ Passed(b) \in SUBSET Callbacks /\ Passed(b)' \in SUBSET Callbacks
              /\ Heirs(b) \in SUBSET Guids
            BY DEF Passed, Heirs, Of, Stored
        <3>2. /\ IsFiniteSet(Heirs(b)) /\ Cardinality(Heirs(b)) \in Nat
              /\ IsFiniteSet(Passed(b)) /\ Cardinality(Passed(b)) \in Nat
            BY <3>1, Sizes
        <3>3. Cardinality(Heirs(b)) + Cardinality(Passed(b)) < RealmLimit + crowd[b]
            BY DEF Counted
        <3>4. crowd[b] \in Nat /\ crowd'[b] \in Nat /\ crowd[b] <= crowd'[b] /\ RealmLimit \in Nat
            BY Recording DEF ConstantsAssumption
        <3>5. Of(b)' = Of(b)
            BY DEF Of, Stored
        <3>6. \A g : (\E i \in DOMAIN queue' : Inserts(i, g)' /\ queue'[i].account = b) <=>
                \/ g = guid /\ b = a
                \/ \E i \in DOMAIN queue : Inserts(i, g) /\ queue[i].account = b
            BY <1>2, <1>3, KeptEffects DEF Inserts, New, Kept
        <3>7. CASE b = a
            <4>1. Heirs(b)' = Heirs(b) \union {guid}
                BY <3>5, <3>6, <3>7 DEF Heirs
            <4>2. Passed(b)' = Passed(b) \ {c} /\ c \in Passed(b)
                BY <1>4, <3>7 DEF Passed, Same, Answered, Result, a
            <4>3. guid \notin Heirs(b)
                <5>1. Unborn(guid)
                    BY DEF Unborn
                <5>2. db[guid] = None
                    BY <5>1 DEF Births
                <5>3. \A i \in DOMAIN queue : ~Inserts(i, guid)
                    BY DEF Births, Inserts
                <5>4. QED
                    BY <5>2, <5>3 DEF Heirs, Of, Stored
            <4>4. Cardinality(Heirs(b)') = Cardinality(Heirs(b)) + 1
                BY <3>2, <4>1, <4>3, FS_AddElement
            <4> HIDE DEF IInv
            <4>5. Cardinality(Passed(b)') = Cardinality(Passed(b)) - 1
                BY <3>2, <4>2, FS_RemoveElement, ZenonT(40)
            <4>6. QED
                BY <3>2, <3>3, <3>4, <4>4, <4>5
        <3>8. CASE b # a
            <4>1. Heirs(b)' = Heirs(b)
                BY <3>5, <3>6, <3>8 DEF Heirs
            <4>2. Passed(b)' = Passed(b)
                BY <1>4, <3>8 DEF Passed, Same, Answered, Result, a
            <4>3. QED
                BY <3>2, <3>3, <3>4, <4>1, <4>2
        <3>9. QED
            BY <3>7, <3>8
    <2>2. ASSUME NEW i \in DOMAIN queue', NEW j \in DOMAIN queue',
                 queue'[i].kind = "sumChars", queue'[i].waiter # None,
                 queue'[j].kind = "insert", queue'[j].account = queue'[i].account, i < j
          PROVE  queue'[j].waiter # None
        <3>1. i \in DOMAIN queue
            BY <1>2, <1>3, <2>2 DEF New
        <3>2. CASE j \in DOMAIN queue
            <4>1. /\ queue[i].kind = "sumChars" /\ queue[i].waiter # None
                  /\ queue[j].kind = "insert" /\ queue[j].account = queue[i].account
                BY <1>3, <2>2, <3>1, <3>2
            <4>2. queue[j].waiter # None
                BY <2>2, <3>1, <3>2, <4>1 DEF Counted
            <4>3. QED
                BY <1>3, <3>2, <4>2
        <3>3. CASE New(j)
            BY <1>2, <1>3, <3>3 DEF ConstantsAssumption
        <3>4. QED
            BY <3>2, <3>3 DEF New
    <2>3. QED
        BY <2>1, <2>2 DEF Counted
<1>21. QED
    BY <1>9, <1>10, <1>11, <1>13, <1>14, <1>15, <1>16, <1>18, <1>19, <1>20

LEMMA FinalizeStep ==
    ASSUME ConstantsAssumption, NoneAssumption, IInv, Remember, NEW c \in Callbacks,
           c \in Passed(AccountOf[c]), answer[c] # << >>,
           FinalizeCharacterCreation(c), overlaps' \in Nat, UNCHANGED <<db, connected>>
    PROVE  IInv'
<1>1. CASE Refuse(c)
    BY <1>1, RefuseStep
<1>2. CASE \E guid \in Guids \ generated :
              /\ generated' = generated \union {guid}
              /\ stage' = [stage EXCEPT ![c] = "commit"]
              /\ request' = [request EXCEPT ![c].guid = guid]
              /\ answer' = [answer EXCEPT ![c] = << >>]
              /\ queue' = Append(queue, Query("insert", c, guid, request[c].name))
              /\ UNCHANGED <<cache, byName, legit, world>>
    BY <1>2, InsertStep
<1>3. QED
    BY <1>1, <1>2 DEF FinalizeCharacterCreation

\* A creation begins, asks on, or is decided.
LEMMA CreationStep ==
    ASSUME ConstantsAssumption, NoneAssumption, IInv, Remember, NEW c \in Callbacks,
           overlaps' \in Nat,
           \/ \E name \in Names : HandleCharCreateOpcode(c, name)
           \/ CheckName(c) \/ SumRealmCharacters(c) \/ SumCharacters(c) \/ CharCreateInfo(c)
    PROVE  IInv'
<1>1. /\ request \in [Callbacks -> Requests] /\ DOMAIN answer = Callbacks
      /\ legit \in [Accounts -> SUBSET Guids]
    BY DEF IInv, Typed, TypeOK, Requests
<1>2. ASSUME NEW name \in Names, HandleCharCreateOpcode(c, name)
      PROVE  IInv'
    <2>1. PICK op \in Operation : op = Query("checkName", c, None, name)
                /\ op.kind = "checkName" /\ op.account = AccountOf[c] /\ op.waiter = c
        BY Queries
    <2>2. /\ stage[c] = "free" /\ stage' = [stage EXCEPT ![c] = "checkName"]
          /\ request' = [request EXCEPT ![c] = [guid |-> None, name |-> name]]
          /\ queue' = Append(queue, op)
          /\ UNCHANGED <<answer, db, memory, connected, legit, world>>
        BY <1>2, <2>1 DEF HandleCharCreateOpcode, Ask
    <2>3. [guid |-> None, name |-> name] \in Requests
        BY DEF Requests
    <2>4. /\ request' \in [Callbacks -> Requests] /\ request'[c].name \in Names
          /\ \A d \in Callbacks \ {c} : request'[d] = request[d]
          /\ answer'[c] = << >> /\ DOMAIN answer' = Callbacks
        BY <1>1, <2>2, <2>3, NothingAwaited DEF IInv
    <2>5. StageOf(op.kind) = "checkName"
        BY <2>1 DEF StageOf
    <2>6. QED
        BY <2>1, <2>2, <2>4, <2>5, AskStep
<1>3. ASSUME NEW kind \in {"sumChars", "createInfo"},
             AskNext(c, kind, Query(kind, c, None, None)),
             stage[c] = "sumRealm" \/ answer[c] # << >>, stage[c] \in Creating,
             kind = "createInfo" => c \in Passed(AccountOf[c]),
             UNCHANGED <<db, memory, connected, legit, world>>
      PROVE  IInv'
    <2>1. PICK op \in Operation : op = Query(kind, c, None, None) /\ op.kind = kind
                /\ op.account = AccountOf[c] /\ op.waiter = c
        BY Queries
    <2>2. /\ stage' = [stage EXCEPT ![c] = kind] /\ answer' = [answer EXCEPT ![c] = << >>]
          /\ queue' = Append(queue, op) /\ request' = request
        BY <1>3, <2>1 DEF AskNext
    <2>3. request[c].name \in Names
        BY <1>3 DEF IInv, Typed
    <2>4. StageOf(op.kind) = kind
        BY <2>1 DEF StageOf
    <2>5. /\ DOMAIN answer' = Callbacks /\ answer'[c] = << >>
          /\ \A d \in Callbacks \ {c} : answer'[d] = answer[d] /\ request'[d] = request[d]
          /\ request' \in [Callbacks -> Requests] /\ request'[c].name \in Names
        BY <1>1, <2>2, <2>3
    <2>6. QED
        BY <1>3, <2>1, <2>2, <2>4, <2>5, AskStep
<1>4. CASE CheckName(c)
    <2>1. stage[c] = "checkName" /\ answer[c] # << >> /\ UNCHANGED <<db, connected>>
        BY <1>4 DEF CheckName, Ready
    <2>2. CASE Refuse(c)
        BY <2>1, <2>2, RefuseStep
    <2>3. CASE /\ stage' = [stage EXCEPT ![c] = "sumRealm"]
               /\ answer' = [answer EXCEPT ![c] = << >>]
               /\ UNCHANGED <<queue, memory, request, legit, world>>
        <3>1. /\ DOMAIN answer' = Callbacks /\ answer'[c] = << >>
              /\ \A d \in Callbacks \ {c} : answer'[d] = answer[d] /\ request'[d] = request[d]
              /\ request' \in [Callbacks -> Requests]
              /\ legit' \in [Accounts -> SUBSET Guids]
            BY <1>1, <2>3
        <3>2. QED
            BY <2>1, <2>3, <3>1, EndStep
    <2>4. QED
        BY <1>4, <2>2, <2>3 DEF CheckName
<1>5. CASE SumRealmCharacters(c)
    <2>1. stage[c] = "sumRealm" /\ stage[c] \in Creating /\ UNCHANGED <<db, connected>>
        BY <1>5 DEF SumRealmCharacters, Creating
    <2>2. CASE Refuse(c)
        BY <2>1, <2>2, RefuseStep
    <2>3. CASE /\ AskNext(c, "sumChars", Query("sumChars", c, None, None))
               /\ UNCHANGED <<memory, legit, world>>
        BY <1>3, <2>1, <2>3
    <2>4. QED
        BY <1>5, <2>2, <2>3 DEF SumRealmCharacters
<1>6. CASE SumCharacters(c)
    <2>1. /\ stage[c] = "sumChars" /\ answer[c] # << >> /\ stage[c] \in Creating
          /\ UNCHANGED <<db, connected>>
        BY <1>6 DEF SumCharacters, Ready, Creating
    <2>2. CASE Refuse(c)
        BY <2>1, <2>2, RefuseStep
    <2>3. CASE Cardinality(Result(c)) < RealmLimit
        <3>1. c \in Passed(AccountOf[c])
            BY <2>1, <2>3 DEF Passed, Answered
        <3>2. CASE FinalizeCharacterCreation(c)
            BY <2>1, <3>1, <3>2, FinalizeStep
        <3>3. CASE /\ AskNext(c, "createInfo", Query("createInfo", c, None, None))
                   /\ UNCHANGED <<memory, legit, world>>
            BY <1>3, <2>1, <3>1, <3>3
        <3>4. CASE Refuse(c)
            BY <2>2, <3>4
        <3>5. QED
            BY <1>6, <3>2, <3>3, <3>4 DEF SumCharacters
    <2>4. QED
        BY <1>6, <2>2, <2>3 DEF SumCharacters
<1>7. CASE CharCreateInfo(c)
    <2>1. /\ stage[c] = "createInfo" /\ answer[c] # << >> /\ FinalizeCharacterCreation(c)
          /\ UNCHANGED <<db, connected>>
        BY <1>7 DEF CharCreateInfo, Ready
    <2>2. c \in Passed(AccountOf[c])
        BY <2>1 DEF Passed
    <2>3. QED
        BY <2>1, <2>2, FinalizeStep
<1>8. QED
    BY <1>2, <1>4, <1>5, <1>6, <1>7

\* The cache learns of a character that has been created.
LEMMA CompleteStep ==
    ASSUME ConstantsAssumption, NoneAssumption, IInv, Remember, NEW c \in Callbacks,
           overlaps' \in Nat, CreationComplete(c)
    PROVE  IInv'
<1> USE DEF IInv
<1>1. /\ stage[c] = "commit" /\ answer[c] # << >>
      /\ stage' = [stage EXCEPT ![c] = "free"]
      /\ request' = [request EXCEPT ![c] = NoRequest]
      /\ answer' = [answer EXCEPT ![c] = << >>]
      /\ UNCHANGED <<db, queue, generated, connected, legit, world>>
    BY DEF CreationComplete, Ready, Done
<1>2. /\ request \in [Callbacks -> Requests] /\ DOMAIN answer = Callbacks
      /\ stage \in [Callbacks -> Waiting \union {"free"}]
      /\ legit \in [Accounts -> SUBSET Guids]
      /\ AccountOf[c] \in Accounts
    BY DEF Typed, TypeOK, Requests, ConstantsAssumption
<1>3. NoRequest \in Requests
    BY DEF NoRequest, Requests
<1>4. /\ request' \in [Callbacks -> Requests] /\ DOMAIN answer' = Callbacks
      /\ stage' \in [Callbacks -> Waiting \union {"free"}]
      /\ answer'[c] = << >> /\ stage'[c] = "free"
      /\ \A d \in Callbacks \ {c} : Same(d)
    BY <1>1, <1>2, <1>3 DEF Same
<1>5. CASE UNCHANGED <<cache, byName>>
    <2>1. /\ \A d \in Callbacks \ {c} : request'[d] = request[d] /\ answer'[d] = answer[d]
          /\ UNCHANGED memory
        BY <1>1, <1>4, <1>5 DEF Same, memory
    <2>2. QED
        BY <1>1, <1>2, <1>4, <2>1, EndStep
<1>6. CASE /\ Result(c) # {}
           /\ AddCharacterCacheEntry(request[c].guid,
                   [account |-> AccountOf[c], name |-> request[c].name])
    <2>1. PICK g, n : g = request[c].guid /\ n = request[c].name
        OBVIOUS
    <2>2. g \in Guids /\ n \in Names
        BY <1>1, <2>1 DEF Typed, Creating
    <2>3. /\ cache \in [Guids -> Entry \union {None}] /\ byName \in [Names -> Guids \union {None}]
        BY DEF Typed, TypeOK
    <2>31. [account |-> AccountOf[c], name |-> n] \in Entry
        BY <1>2, <2>2 DEF Entry
    <2>4. PICK entry \in Entry : entry = [account |-> AccountOf[c], name |-> n]
                /\ entry.account = AccountOf[c] /\ entry.name = n
        BY <2>31
    <2>5. cache' = [cache EXCEPT ![g] = entry] /\ byName' = [byName EXCEPT ![n] = g]
        BY <1>6, <2>1, <2>4 DEF AddCharacterCacheEntry
    <2>6. /\ cache' \in [Guids -> Entry \union {None}] /\ byName' \in [Names -> Guids \union {None}]
          /\ cache'[g] = entry /\ byName'[n] = g
          /\ \A h \in Guids \ {g} : cache'[h] = cache[h]
          /\ \A m \in Names \ {n} : byName'[m] = byName[m]
        BY <2>2, <2>3, <2>5
    <2>7. entry # None
        BY NoneAssumption
    <2>8. /\ Owns(AccountOf[c], g) /\ cache[g] = None
          /\ \A i \in DOMAIN queue : ~Deletes(i, g)
          /\ g \notin contended => Named(g, n)
        BY <1>1, <1>6, <2>1 DEF Committed, Answered
    <2>9. Kept /\ \A i : ~New(i)
        BY <1>1, QueueStays
    <2>10. UNCHANGED <<player, offline, stray, accessor, last>>
        BY <1>1 DEF world
    <2>11. /\ \A h : InMemory(h)' <=> InMemory(h)
           /\ \A b, h : (Plays(b, h)' <=> Plays(b, h)) /\ (Strays(b, h)' <=> Strays(b, h))
           /\ \A b : Players(b)' = Players(b) /\ (InWorld(b)' <=> InWorld(b))
        BY <2>10 DEF InMemory, Players, Plays, Strays, InWorld
    <2>12. \A d \in Callbacks : Same(d) \/ answer'[d] = << >>
        BY <1>4
    <2>13. contended \subseteq contended' /\ Recorded'
        BY Recording
    <2>14. Typed'
        <3>1. TypeOK'
            BY <1>1, <1>2, <1>4, <2>6, <2>10, Recording DEF Typed, TypeOK, Requests
        <3>2. \A d \in Callbacks :
                /\ stage'[d] \in {"commit", "rename", "login"} => request'[d].guid \in Guids
                /\ stage'[d] \in Creating \union {"rename"} => request'[d].name \in Names
                /\ answer'[d] # << >> =>
                      Result(d)' \subseteq IF stage'[d] = "login" THEN Row ELSE Guids
            BY <1>4 DEF Typed, Result, Creating, Same
        <3>3. QED
            BY <1>1, <3>1, <3>2 DEF Typed
    <2>15. Awaiting'
        <3>1. \A i \in DOMAIN queue : queue[i].waiter # c
            BY <1>1, NothingAwaited
        <3>2. \A i \in DOMAIN queue : queue'[i].waiter # None => Same(queue[i].waiter)
            BY <1>1, <1>4, <3>1, QueuedOperations
        <3>3. QED
            BY <2>9, <2>12, <3>2, AwaitingKept
    <2>16. Births' /\ \A h : Unborn(h)' <=> Unborn(h)
        <3>1. ~Unborn(g)
            BY <2>2, <2>8 DEF Births, Owns
        <3>2. \A h \in Guids : cache'[h] # None \/ InMemory(h)' => ~Unborn(h)
            BY <2>6, <2>11, <3>1 DEF Births
        <3>3. \A d \in Callbacks : Same(d) \/ (answer'[d] = << >> /\ stage'[d] # "commit")
            BY <1>4
        <3>4. QED
            BY <1>1, <2>9, <2>10, <3>2, <3>3, BirthsKept
    <2>17. Offline'
        BY <1>4, <2>10, <2>11 DEF Offline, Same
    <2>18. Presence'
        BY <2>10, <2>11, <2>13 DEF Presence
    <2>19. Loading' /\ Renaming' /\ Saved'
        <3>1. \A d \in Callbacks : stage'[d] = "login" => Same(d)
            BY <1>4
        <3>2. QED
            BY <1>1, <2>9, <2>10, <2>11, <2>12, <2>16, <3>1, LoginsKept
    <2>20. ASSUME NEW h \in Guids \ contended', NEW m \in Names, Named(h, m)
           PROVE  Named(h, m)'
        <3>1. NameToCome(h, m)'
            BY <1>1, <2>9, <2>20, NameKept DEF Named
        <3>2. NameInMemory(h, m)'
            BY <2>11, <2>12, <2>20, NamesInMemory DEF Named
        <3>3. QED
            BY <3>1, <3>2 DEF Named
    <2>21. Committed'
        <3>1. ASSUME NEW d \in Callbacks, Answered(d, "commit")'
              PROVE  cache'[request[d].guid] = cache[request[d].guid]
            <4>1. d # c /\ Same(d) /\ stage[d] = "commit"
                BY <1>4, <3>1 DEF Answered, Same
            <4>2. request[d].guid # g /\ request[d].guid \in Guids
                BY <1>1, <2>1, <4>1 DEF Births, Typed
            <4>3. QED
                BY <2>6, <4>2
        <3>2. QED
            BY <1>1, <2>9, <2>12, <2>14, <2>20, <3>1, CommittedKept
    <2>22. Current'
        <3>1. ASSUME NEW h \in Guids, cache'[h] # None
              PROVE  /\ Owns(cache[h].account, h)'
                     /\ \A i \in DOMAIN queue' : ~Deletes(i, h)'
                     /\ h \notin contended' => Named(h, cache[h].name)'
            <4>1. \A i \in DOMAIN queue' : Deletes(i, h)' => Deletes(i, h) /\ i \in DOMAIN queue
                BY <1>1 DEF Deletes
            <4>2. PICK e : e = cache'[h]
                OBVIOUS
            <4>3. /\ Owns(e.account, h) /\ e.name \in Names
                  /\ \A i \in DOMAIN queue : ~Deletes(i, h)
                  /\ h \notin contended => Named(h, e.name)
                <5>1. CASE h = g
                    BY <2>2, <2>4, <2>6, <2>8, <4>2, <5>1
                <5>2. CASE h # g
                    BY <2>3, <2>6, <3>1, <4>2, <5>2 DEF Current, Entry
                <5>3. QED
                    BY <5>1, <5>2
            <4>4. Owns(e.account, h)'
                BY <1>1, <4>3 DEF Owns
            <4>5. h \notin contended' => Named(h, e.name)'
                BY <2>13, <2>20, <4>3
            <4> HIDE DEF IInv
            <4>6. QED
                BY <4>1, <4>2, <4>3, <4>4, <4>5
        <3>2. ASSUME NEW m \in Names, byName'[m] # None
              PROVE  cache'[byName'[m]] # None /\ cache'[byName'[m]].name = m
            <4>1. CASE m = n
                BY <2>4, <2>6, <2>7, <4>1
            <4>2. CASE m # n
                <5>1. byName'[m] = byName[m] /\ byName[m] \in Guids
                    BY <2>3, <2>6, <3>2, <4>2
                <5>2. cache[byName[m]] # None /\ cache[byName[m]].name = m
                    BY <3>2, <5>1 DEF Current
                <5>3. byName[m] # g
                    BY <2>8, <5>2
                <5>4. QED
                    BY <2>6, <5>1, <5>2, <5>3
            <4>3. QED
                BY <4>1, <4>2
        <3>3. QED
            BY <3>1, <3>2 DEF Current
    <2>23. Counted'
        <3>1. \A a \in Accounts : Passed(a)' \subseteq Passed(a)
            BY <1>4 DEF Passed, Same, Answered, Result
        <3>2. QED
            BY <1>1, <2>9, <3>1, CountedKept
    <2>24. QED
        BY <2>13, <2>14, <2>15, <2>16, <2>17, <2>18, <2>19, <2>21, <2>22, <2>23
<1>7. QED
    BY <1>5, <1>6 DEF CreationComplete

LEMMA WorldStays ==
    ASSUME UNCHANGED world
    PROVE  /\ UNCHANGED <<player, offline, stray, accessor, last>>
           /\ \A g : InMemory(g)' <=> InMemory(g)
           /\ \A a, g : (Plays(a, g)' <=> Plays(a, g)) /\ (Strays(a, g)' <=> Strays(a, g))
           /\ \A a : Players(a)' = Players(a) /\ (InWorld(a)' <=> InWorld(a))
<1>1. UNCHANGED <<player, offline, stray, accessor, last>>
    BY DEF world
<1>2. QED
    BY <1>1 DEF InMemory, Players, Plays, Strays, InWorld

-----------------------------------------------------------------------------
(* Deleting and renaming.                                                  *)

LEMMA DeleteStep ==
    ASSUME ConstantsAssumption, NoneAssumption, IInv, Remember, overlaps' \in Nat,
           NEW a \in Accounts, NEW guid \in Guids, HandleCharDeleteOpcode(a, guid)
    PROVE  IInv'
<1> USE DEF IInv
<1>1. /\ cache[guid] # None
      /\ byName' = [byName EXCEPT ![cache[guid].name] = None]
      /\ cache' = [cache EXCEPT ![guid] = None]
      /\ UNCHANGED <<db, generated, connected, stage, request, answer, legit, world>>
    BY DEF HandleCharDeleteOpcode, session, callbacks, Cached
<1>2. PICK op \in Operation : /\ queue' = Append(queue, op)
                              /\ op.kind = "delete" /\ op.guid = guid /\ op.waiter = None
    <2>1. 0 \in 0..MaxVersion
        BY DEF ConstantsAssumption
    <2>2. QED
        BY <2>1, Commands DEF HandleCharDeleteOpcode
<1>3. Kept /\ \A i : New(i) => queue'[i] = op
    BY <1>2, QueuePushed
<1>4. \A c \in Callbacks : Same(c)
    BY <1>1 DEF Same
<1>5. \A i, g : New(i) => /\ ~SetsName(i, g)' /\ ~Saves(i, g)'
                          /\ Changes(i, g)' \/ Deletes(i, g)' => g = guid
    BY <1>2, <1>3 DEF Changes, SetsName, Saves, Deletes
<1>6. /\ cache \in [Guids -> Entry \union {None}] /\ byName \in [Names -> Guids \union {None}]
      /\ cache[guid].name \in Names
    BY <1>1 DEF Typed, TypeOK, Entry
<1>7. /\ cache' \in [Guids -> Entry \union {None}] /\ byName' \in [Names -> Guids \union {None}]
      /\ cache'[guid] = None /\ \A g \in Guids \ {guid} : cache'[g] = cache[g]
      /\ \A n \in Names : byName'[n] # None => n # cache[guid].name /\ byName'[n] = byName[n]
    BY <1>1, <1>6
<1>8. contended \subseteq contended' /\ Recorded'
    BY Recording
<1>9. Typed'
    <2>1. TypeOK'
        BY <1>1, <1>3, <1>7, Recording, WorldStays DEF Typed, TypeOK, Kept
    <2>2. \A i \in DOMAIN queue' :
            /\ queue'[i].kind \in {"insert", "setName", "delete", "load", "save"} =>
                  queue'[i].guid \in Guids
            /\ queue'[i].kind \in {"insert", "setName", "save"} => queue'[i].name \in Names
        BY <1>2, <1>3 DEF Typed, New, Kept
    <2>3. QED
        BY <1>1, <2>1, <2>2 DEF Typed, Result
<1>10. Awaiting'
    <2>1. \A i \in DOMAIN queue : queue'[i].waiter # None => Same(queue[i].waiter)
        BY <1>4, <1>3, QueuedOperations DEF Kept
    <2>2. \A i : New(i) => queue'[i].waiter = None
        BY <1>2, <1>3
    <2>3. QED
        BY <1>3, <1>4, <2>1, <2>2, AwaitingKept
<1>11. Births' /\ \A g : Unborn(g)' <=> Unborn(g)
    <2>1. ~Unborn(guid)
        BY <1>1 DEF Births
    <2>2. \A g \in Guids : cache'[g] # None \/ InMemory(g)' => ~Unborn(g)
        BY <1>1, <1>7, WorldStays DEF Births
    <2>3. \A i : New(i) => queue'[i].kind # "insert"
        BY <1>2, <1>3
    <2>4. QED
        BY <1>1, <1>3, <1>4, <1>5, <2>1, <2>2, <2>3, BirthsKept, WorldStays
<1>12. Offline' /\ Presence'
    BY <1>1, <1>8, WorldStays DEF Offline, Presence
<1>13. Loading' /\ Renaming' /\ Saved'
    BY <1>1, <1>3, <1>4, <1>5, <1>11, WorldStays, LoginsKept
<1>14. ASSUME NEW g \in Guids \ contended', NEW n \in Names, Named(g, n)
       PROVE  Named(g, n)'
    <2>1. NameToCome(g, n)'
        BY <1>1, <1>3, <1>5, <1>14, NameKept DEF Named
    <2>2. NameInMemory(g, n)'
        BY <1>1, <1>4, <1>14, WorldStays, NamesInMemory DEF Named
    <2>3. QED
        BY <2>1, <2>2 DEF Named
<1>15. Committed'
    <2>1. ASSUME NEW c \in Callbacks, Answered(c, "commit")', Result(c)' # {}
          PROVE  cache'[request[c].guid] = cache[request[c].guid]
        <3>1. /\ Answered(c, "commit") /\ Result(c) # {} /\ request[c].guid \in Guids
            BY <1>1, <2>1 DEF Answered, Result, Typed
        <3>2. request[c].guid # guid
            BY <1>1, <3>1 DEF Committed
        <3>3. QED
            BY <1>7, <3>1, <3>2
    <2>2. QED
        BY <1>1, <1>3, <1>4, <1>5, <1>9, <1>14, <2>1, CommittedKept
<1>16. Current'
    <2>1. ASSUME NEW g \in Guids, cache'[g] # None
          PROVE  /\ Owns(cache[g].account, g)'
                 /\ \A i \in DOMAIN queue' : ~Deletes(i, g)'
                 /\ g \notin contended' => Named(g, cache[g].name)'
        <3>1. PICK e : e = cache[g] /\ e = cache'[g]
            BY <1>7, <2>1
        <3>2. /\ Owns(e.account, g) /\ e.name \in Names /\ g # guid
              /\ \A i \in DOMAIN queue : ~Deletes(i, g)
              /\ g \notin contended => Named(g, e.name)
            BY <1>6, <1>7, <2>1, <3>1 DEF Current, Entry
        <3>3. Owns(e.account, g)'
            BY <1>1, <3>2 DEF Owns
        <3>4. g \notin contended' => Named(g, e.name)'
            BY <1>8, <1>14, <3>2
        <3>5. \A i \in DOMAIN queue' : ~Deletes(i, g)'
            BY <1>3, <1>5, <3>2, KeptEffects DEF New
        <3> HIDE DEF IInv
        <3>6. QED
            BY <3>1, <3>3, <3>4, <3>5
    <2>2. ASSUME NEW n \in Names, byName'[n] # None
          PROVE  cache'[byName'[n]] # None /\ cache'[byName'[n]].name = n
        <3>1. byName'[n] = byName[n] /\ n # cache[guid].name
            BY <1>7, <2>2
        <3>2. /\ byName[n] \in Guids
              /\ cache[byName[n]] # None /\ cache[byName[n]].name = n
            BY <1>6, <2>2, <3>1 DEF Current
        <3>3. QED
            BY <1>7, <3>1, <3>2
    <2>3. QED
        BY <2>1, <2>2 DEF Current
<1>17. Counted'
    <2>1. \A b \in Accounts : Passed(b)' \subseteq Passed(b)
        BY <1>1 DEF Passed, Answered, Result
    <2>2. \A i : New(i) => queue'[i].kind # "insert"
        BY <1>2, <1>3
    <2>3. QED
        BY <1>1, <1>3, <2>1, <2>2, CountedKept
<1>18. QED
    BY <1>8, <1>9, <1>10, <1>11, <1>12, <1>13, <1>15, <1>16, <1>17

\* A rename is decided: nobody has the character in memory or loads it, unless it was
\* asked for twice at once.
LEMMA RenamedStep ==
    ASSUME ConstantsAssumption, NoneAssumption, IInv, Remember, overlaps' \in Nat,
           NEW c \in Callbacks, Ready(c, "rename"), ~RenameRefused(c),
           queue' = Append(queue, Command("setName", AccountOf[c], request[c].guid,
                                          request[c].name, 0)),
           Renamed(request[c].guid, request[c].name), Done(c),
           UNCHANGED <<db, generated, connected, legit, world>>
    PROVE  IInv'
<1> USE DEF IInv
<1>1. PICK guid, name : guid = request[c].guid /\ name = request[c].name
    OBVIOUS
<1>2. /\ stage[c] = "rename" /\ answer[c] # << >> /\ Result(c) # {} /\ guid \notin accessor
      /\ stage' = [stage EXCEPT ![c] = "free"]
      /\ request' = [request EXCEPT ![c] = NoRequest]
      /\ answer' = [answer EXCEPT ![c] = << >>]
    BY <1>1 DEF Ready, RenameRefused, Done
<1>3. guid \in Guids /\ name \in Names /\ AccountOf[c] \in Accounts /\ 0 \in 0..MaxVersion
    BY <1>1, <1>2 DEF Typed, ConstantsAssumption
<1>4. PICK op \in Operation :
        /\ queue' = Append(queue, op)
        /\ op.kind = "setName" /\ op.guid = guid /\ op.name = name /\ op.waiter = None
    BY <1>1, <1>3, Commands
<1>5. Kept /\ (\A i : New(i) => queue'[i] = op) /\ (\E i : New(i))
    BY <1>4, QueuePushed
<1>6. /\ request \in [Callbacks -> Requests] /\ DOMAIN answer = Callbacks
      /\ stage \in [Callbacks -> Waiting \union {"free"}]
      /\ NoRequest \in Requests
    BY DEF Typed, TypeOK, Requests, NoRequest
<1>7. /\ request' \in [Callbacks -> Requests] /\ DOMAIN answer' = Callbacks
      /\ stage' \in [Callbacks -> Waiting \union {"free"}]
      /\ answer'[c] = << >> /\ stage'[c] = "free"
      /\ \A d \in Callbacks \ {c} : Same(d)
    BY <1>2, <1>6 DEF Same
<1>8. \A i, g : New(i) => /\ ~Saves(i, g)' /\ ~Deletes(i, g)'
                          /\ Changes(i, g)' \/ SetsName(i, g)' => g = guid
    BY <1>4, <1>5 DEF Changes, SetsName, Saves, Deletes
<1>9. ~Unborn(guid)
    BY <1>1, <1>2 DEF Renaming, Answered
<1>10. contended \subseteq contended' /\ Recorded'
    BY Recording
<1>11. c \in Asking(guid, "rename")
    BY <1>1, <1>2 DEF Asking
<1>12. guid \notin contended =>
        /\ ~InMemory(guid) /\ Asking(guid, "login") = {} /\ Asking(guid, "commit") = {}
    BY <1>2, <1>3, <1>11 DEF Recorded, Contended, Presence
<1>13. /\ cache \in [Guids -> Entry \union {None}] /\ byName \in [Names -> Guids \union {None}]
    BY DEF Typed, TypeOK
<1>14. ASSUME cache[guid] # None
       PROVE  /\ cache' \in [Guids -> Entry \union {None}]
              /\ byName' \in [Names -> Guids \union {None}]
              /\ cache'[guid].account = cache[guid].account /\ cache'[guid].name = name
              /\ \A g \in Guids \ {guid} : cache'[g] = cache[g]
              /\ \A g \in Guids : cache'[g] # None <=> cache[g] # None
              /\ \A n \in Names : byName'[n] # None =>
                    cache'[byName'[n]] # None /\ cache'[byName'[n]].name = n
    <2>1. PICK e \in Entry : /\ e.account = cache[guid].account /\ e.name = name
                             /\ cache' = [cache EXCEPT ![guid] = e] /\ e # None
        <3>1. cache[guid] \in Entry
            BY <1>3, <1>13, <1>14
        <3>2. cache' = [cache EXCEPT ![guid].name = name]
            BY <1>1, <1>3, <1>14 DEF Renamed, Cached
        <3>3. PICK e : e = [cache[guid] EXCEPT !.name = name]
            OBVIOUS
        <3>4. e \in Entry /\ e.account = cache[guid].account /\ e.name = name
            BY <1>3, <3>1, <3>3 DEF Entry
        <3>5. cache' = [cache EXCEPT ![guid] = e]
            BY <3>2, <3>3
        <3>6. QED
            BY <3>4, <3>5, NoneAssumption
    <2>2. byName' = [byName EXCEPT ![cache[guid].name] = None, ![name] = guid]
        BY <1>1, <1>3, <1>14 DEF Renamed, Cached
    <2>3. cache[guid].name \in Names
        BY <1>3, <1>13, <1>14 DEF Entry
    <2>4. /\ cache' \in [Guids -> Entry \union {None}]
          /\ byName' \in [Names -> Guids \union {None}]
          /\ cache'[guid].account = cache[guid].account /\ cache'[guid].name = name
          /\ \A g \in Guids \ {guid} : cache'[g] = cache[g]
          /\ \A g \in Guids : cache'[g] # None <=> cache[g] # None
          /\ \A n \in Names : byName'[n] # None =>
                \/ n = name /\ byName'[n] = guid
                \/ byName'[n] = byName[n] /\ n # cache[guid].name
        BY <1>3, <1>13, <1>14, <2>1, <2>2, <2>3
    <2>5. \A n \in Names : byName'[n] # None =>
            cache'[byName'[n]] # None /\ cache'[byName'[n]].name = n
        <3>1. ASSUME NEW n \in Names, byName'[n] # None, byName'[n] = byName[n],
                     n # cache[guid].name
              PROVE  cache'[byName'[n]] # None /\ cache'[byName'[n]].name = n
            <4>1. /\ byName[n] \in Guids
                  /\ cache[byName[n]] # None /\ cache[byName[n]].name = n
                BY <1>13, <3>1 DEF Current
            <4>2. QED
                BY <2>4, <3>1, <4>1
        <3>2. QED
            BY <1>3, <1>14, <2>4, <3>1
    <2>6. QED
        BY <2>4, <2>5
<1>15. /\ cache' \in [Guids -> Entry \union {None}]
       /\ byName' \in [Names -> Guids \union {None}]
       /\ \A g \in Guids \ {guid} : cache'[g] = cache[g]
       /\ \A g \in Guids : cache'[g] # None <=> cache[g] # None
       /\ cache[guid] # None =>
             cache'[guid].account = cache[guid].account /\ cache'[guid].name = name
       /\ \A n \in Names : byName'[n] # None =>
             cache'[byName'[n]] # None /\ cache'[byName'[n]].name = n
    <2>1. CASE cache[guid] = None
        <3>1. UNCHANGED <<cache, byName>>
            BY <1>1, <2>1 DEF Renamed, Cached
        <3>2. QED
            BY <1>13, <2>1, <3>1 DEF Current
    <2>2. CASE cache[guid] # None
        <3>1. /\ cache' \in [Guids -> Entry \union {None}]
              /\ byName' \in [Names -> Guids \union {None}]
              /\ cache'[guid].account = cache[guid].account /\ cache'[guid].name = name
              /\ \A g \in Guids \ {guid} : cache'[g] = cache[g]
              /\ \A g \in Guids : cache'[g] # None <=> cache[g] # None
              /\ \A n \in Names : byName'[n] # None =>
                    cache'[byName'[n]] # None /\ cache'[byName'[n]].name = n
            BY <1>14, <2>2
        <3>2. QED
            BY <3>1
    <2>3. QED
        BY <2>1, <2>2
<1>16. Typed'
    <2>1. TypeOK'
        BY <1>5, <1>7, <1>15, Recording, WorldStays DEF Typed, TypeOK, Kept, Requests
    <2>2. \A i \in DOMAIN queue' :
            /\ queue'[i].kind \in {"insert", "setName", "delete", "load", "save"} =>
                  queue'[i].guid \in Guids
            /\ queue'[i].kind \in {"insert", "setName", "save"} => queue'[i].name \in Names
        BY <1>3, <1>4, <1>5 DEF Typed, New, Kept
    <2>3. \A d \in Callbacks :
            /\ stage'[d] \in {"commit", "rename", "login"} => request'[d].guid \in Guids
            /\ stage'[d] \in Creating \union {"rename"} => request'[d].name \in Names
            /\ answer'[d] # << >> =>
                  Result(d)' \subseteq IF stage'[d] = "login" THEN Row ELSE Guids
        BY <1>7 DEF Typed, Result, Creating, Same
    <2>4. QED
        BY <2>1, <2>2, <2>3 DEF Typed
<1>17. \A d \in Callbacks : Same(d) \/ answer'[d] = << >>
    BY <1>7
<1>18. Awaiting'
    <2>1. \A i \in DOMAIN queue : queue[i].waiter # c
        BY <1>2, NothingAwaited
    <2>2. \A i \in DOMAIN queue : queue'[i].waiter # None => Same(queue[i].waiter)
        BY <1>5, <1>7, <2>1, QueuedOperations DEF Kept
    <2>3. \A i : New(i) => queue'[i].waiter = None
        BY <1>4, <1>5
    <2>4. QED
        BY <1>5, <1>17, <2>2, <2>3, AwaitingKept
<1>19. \A i : New(i) => queue'[i].kind # "insert"
    BY <1>4, <1>5
<1>20. Births' /\ \A g : Unborn(g)' <=> Unborn(g)
    <2>1. \A g \in Guids : cache'[g] # None \/ InMemory(g)' => ~Unborn(g)
        BY <1>15, WorldStays DEF Births
    <2>2. \A d \in Callbacks : Same(d) \/ (answer'[d] = << >> /\ stage'[d] # "commit")
        BY <1>7
    <2>3. QED
        BY <1>5, <1>8, <1>9, <1>19, <2>1, <2>2, BirthsKept, WorldStays
<1>21. Offline' /\ Presence'
    BY <1>7, <1>10, WorldStays DEF Offline, Presence, Same
<1>22. Loading' /\ Renaming' /\ Saved'
    <2>1. \A d \in Callbacks : stage'[d] = "login" => Same(d)
        BY <1>7
    <2>2. \A i, g : New(i) /\ SetsName(i, g)' => g \in contended \/ Asking(g, "login") = {}
        BY <1>8, <1>12
    <2>3. QED
        BY <1>5, <1>8, <1>17, <1>20, <2>1, <2>2, WorldStays, LoginsKept
<1>23. ASSUME NEW g \in Guids \ contended', NEW n \in Names, Named(g, n), g # guid
       PROVE  Named(g, n)'
    <2>1. NameToCome(g, n)'
        BY <1>5, <1>8, <1>23, NameKept DEF Named
    <2>2. NameInMemory(g, n)'
        BY <1>17, <1>23, WorldStays, NamesInMemory DEF Named
    <2>3. QED
        BY <2>1, <2>2 DEF Named
<1>24. Committed'
    <2>1. ASSUME NEW d \in Callbacks, Answered(d, "commit")', Result(d)' # {}
          PROVE  cache'[request[d].guid] = cache[request[d].guid]
        <3>1. /\ Answered(d, "commit") /\ Result(d) # {} /\ request[d].guid \in Guids
            BY <1>7, <2>1 DEF Answered, Result, Typed, Same
        <3>2. cache[request[d].guid] = None
            BY <3>1 DEF Committed
        <3>3. QED
            BY <1>15, <3>1, <3>2
    <2>2. \A g \in Guids \ contended' : \A n \in Names :
            Named(g, n) /\ Asking(g, "rename") = {} => Named(g, n)'
        BY <1>11, <1>23
    <2>3. QED
        BY <1>5, <1>8, <1>16, <1>17, <2>1, <2>2, CommittedKept
<1>25. guid \notin contended' => Named(guid, name)'
    <2>1. SUFFICES ASSUME guid \notin contended'
                   PROVE  Named(guid, name)'
        OBVIOUS
    <2>2. ~InMemory(guid) /\ Asking(guid, "login") = {}
        BY <1>10, <1>12, <2>1
    <2>3. PICK i : New(i) /\ SetsName(i, guid)' /\ queue'[i].name = name
        BY <1>4, <1>5 DEF SetsName
    <2>4. NameToCome(guid, name)'
        <3>1. \A j \in DOMAIN queue' : SetsName(j, guid)' => j <= i
            BY <1>5, <2>3 DEF Kept, New, SetsName
        <3>2. QED
            BY <2>3, <3>1 DEF NameToCome, New
    <2>5. \A a \in Accounts : \A p \in Players(a)' : p.guid # guid
        BY <2>2, WorldStays DEF InMemory
    <2>6. \A d \in Callbacks : Answered(d, "login")' => request'[d].guid # guid
        BY <1>7, <2>2 DEF Answered, Asking, Same
    <2>7. QED
        BY <2>4, <2>5, <2>6 DEF Named, NameInMemory
<1>26. Current'
    <2>1. ASSUME NEW g \in Guids, cache'[g] # None
          PROVE  /\ Owns(cache[g].account, g)'
                 /\ \A i \in DOMAIN queue' : ~Deletes(i, g)'
                 /\ g \notin contended' => Named(g, cache[g].name)'
        <3>1. PICK e : e = cache'[g]
            OBVIOUS
        <3>2. /\ cache[g] # None /\ e.account = cache[g].account
              /\ g # guid => e.name = cache[g].name
              /\ g = guid => e.name = name
            BY <1>15, <2>1, <3>1
        <3>3. /\ Owns(e.account, g) /\ cache[g].name \in Names
              /\ \A i \in DOMAIN queue : ~Deletes(i, g)
              /\ g \notin contended => Named(g, cache[g].name)
            BY <1>13, <3>2 DEF Current, Entry
        <3>4. Owns(e.account, g)'
            BY <3>3 DEF Owns
        <3>5. g \notin contended' => Named(g, e.name)'
            <4>1. CASE g = guid
                BY <1>25, <3>2, <4>1
            <4>2. CASE g # guid
                BY <1>10, <1>23, <3>2, <3>3, <4>2
            <4>3. QED
                BY <4>1, <4>2
        <3>6. \A i \in DOMAIN queue' : ~Deletes(i, g)'
            BY <1>5, <1>8, <3>3, KeptEffects DEF New
        <3> HIDE DEF IInv
        <3>7. QED
            BY <3>1, <3>4, <3>5, <3>6
    <2>2. QED
        BY <1>15, <2>1 DEF Current
<1>27. Counted'
    <2>1. \A b \in Accounts : Passed(b)' \subseteq Passed(b)
        BY <1>7 DEF Passed, Answered, Result, Same
    <2>2. QED
        BY <1>5, <1>19, <2>1, CountedKept
<1>28. QED
    BY <1>10, <1>16, <1>18, <1>20, <1>21, <1>22, <1>24, <1>26, <1>27

LEMMA RenameStep ==
    ASSUME ConstantsAssumption, NoneAssumption, IInv, Remember, overlaps' \in Nat,
           NEW c \in Callbacks,
           \/ \E guid \in Guids, name \in Names : HandleCharRenameOpcode(c, guid, name)
           \/ HandleCharRenameCallBack(c)
    PROVE  IInv'
<1>1. ASSUME NEW guid \in Guids, NEW name \in Names, HandleCharRenameOpcode(c, guid, name)
      PROVE  IInv'
    <2>1. PICK op \in Operation : op = Query("freeName", c, guid, name)
                /\ op.kind = "freeName" /\ op.account = AccountOf[c] /\ op.waiter = c
                /\ op.guid = guid
        BY Queries
    <2>2. /\ stage[c] = "free" /\ stage' = [stage EXCEPT ![c] = "rename"]
          /\ request' = [request EXCEPT ![c] = [guid |-> guid, name |-> name]]
          /\ queue' = Append(queue, op)
          /\ UNCHANGED <<answer, db, memory, connected, legit, world>>
        BY <1>1, <2>1 DEF HandleCharRenameOpcode, Ask
    <2>3. /\ [guid |-> guid, name |-> name] \in Requests
          /\ request \in [Callbacks -> Requests] /\ DOMAIN answer = Callbacks
        BY DEF Requests, IInv, Typed, TypeOK
    <2>4. /\ request' \in [Callbacks -> Requests]
          /\ request'[c].name \in Names /\ request'[c].guid = guid
          /\ \A d \in Callbacks \ {c} : request'[d] = request[d]
          /\ answer'[c] = << >> /\ DOMAIN answer' = Callbacks
        BY <2>2, <2>3, NothingAwaited DEF IInv
    <2>5. StageOf(op.kind) = "rename"
        BY <2>1 DEF StageOf
    <2>6. QED
        BY <2>1, <2>2, <2>4, <2>5, AskStep
<1>2. CASE HandleCharRenameCallBack(c)
    <2>1. Ready(c, "rename") /\ answer[c] # << >> /\ UNCHANGED <<db, connected>>
        BY <1>2 DEF HandleCharRenameCallBack, Ready
    <2>2. CASE Refuse(c)
        BY <2>1, <2>2, RefuseStep
    <2>3. CASE /\ ~RenameRefused(c)
               /\ queue' = Append(queue, Command("setName", AccountOf[c], request[c].guid,
                                                 request[c].name, 0))
               /\ Renamed(request[c].guid, request[c].name)
               /\ Done(c)
               /\ UNCHANGED <<generated, legit, world>>
        BY <2>1, <2>3, RenamedStep
    <2>4. QED
        BY <1>2, <2>2, <2>3 DEF HandleCharRenameCallBack
<1>3. QED
    BY <1>1, <1>2

-----------------------------------------------------------------------------
(* Characters in the world, and connections.                               *)

\* Players stay in the world or are saved and leave it, other saves may be queued,
\* and sessions may forget what they asked for or ask for a login.
LEMMA WorldStep ==
    ASSUME ConstantsAssumption, IInv, Remember, Kept, Typed', Awaiting', Offline',
           UNCHANGED <<db, memory, stray, last>>,
           \A b \in Accounts : player'[b] \in {player[b], None},
           \A g : g \in accessor /\ g \notin accessor' =>
              \E b \in Accounts : Plays(b, g) /\ ~Plays(b, g)',
           \A b \in Accounts, g \in Guids : Plays(b, g) /\ ~Plays(b, g)' =>
              \E i : New(i) /\ Saves(i, g)' /\ queue'[i].version = player[b].version,
           \A i : New(i) => queue'[i].kind \in {"save", "load"},
           \A i, g : New(i) /\ Saves(i, g)' =>
              \E b \in Accounts : \E p \in Players(b) : p.guid = g /\ queue'[i].name = p.name,
           \A c \in Callbacks : Same(c) \/ (answer'[c] = << >> /\ stage'[c] \in {"free", "login"}),
           \A c \in Callbacks : stage'[c] = "login" /\ ~Same(c) =>
              \A i \in DOMAIN queue' : queue'[i].waiter = c =>
                 \A j \in DOMAIN queue' : i < j => ~SetsName(j, request[c].guid)'
    PROVE  IInv'
<1> USE DEF IInv
<1>1. UNCHANGED <<cache, byName, generated>>
    BY DEF memory
<1>2. \A c \in Callbacks : Same(c) \/ answer'[c] = << >>
    OBVIOUS
<1>3. \A b \in Accounts : Players(b)' \subseteq Players(b)
    BY DEF Players
<1>4. \A g : InMemory(g)' => InMemory(g)
    BY <1>3 DEF InMemory
<1>5. /\ \A b \in Accounts : \A g : Plays(b, g)' => Plays(b, g) /\ player'[b] = player[b]
      /\ \A b, g : Strays(b, g)' <=> Strays(b, g)
    BY DEF Plays, InWorld, Strays
<1>6. \A i, g : New(i) => ~Deletes(i, g)'
    BY DEF Deletes
<1>7. \A i, g : New(i) /\ (Changes(i, g)' \/ SetsName(i, g)') => Saves(i, g)'
    BY DEF Saves, SetsName, Changes
<1>8. \A i, g : New(i) /\ Saves(i, g)' => InMemory(g)
    BY DEF InMemory
<1>9. contended \subseteq contended' /\ contended' \subseteq Guids /\ Recorded'
    BY Recording
<1>10. \A i : New(i) => queue'[i].kind # "insert"
    OBVIOUS
<1>11. Births' /\ \A g : Unborn(g)' <=> Unborn(g)
    <2>1. \A g \in Guids : InMemory(g) => ~Unborn(g)
        BY DEF Births
    <2>2. \A g \in Guids : cache'[g] # None \/ InMemory(g)' => ~Unborn(g)
        BY <1>1, <1>4 DEF Births
    <2>3. \A i, g : New(i) /\ Changes(i, g)' => ~Unborn(g)
        <3>1. \A g : InMemory(g) => g \in Guids
            BY PlayersInMemory DEF InMemory
        <3>2. QED
            BY <1>7, <1>8, <2>1, <3>1
    <2>4. \A c \in Callbacks : Same(c) \/ (answer'[c] = << >> /\ stage'[c] # "commit")
        OBVIOUS
    <2>5. QED
        BY <1>1, <1>10, <2>2, <2>3, <2>4, BirthsKept
<1>12. Presence'
    <2>1. ASSUME NEW g \in Guids \ contended', InMemory(g)'
          PROVE  g \in accessor'
        <3>1. g \in accessor /\ InMemory(g) /\ g \notin contended
            BY <1>4, <1>9, <2>1 DEF Presence
        <3>2. SUFFICES ASSUME NEW b \in Accounts, Plays(b, g), ~Plays(b, g)'
                       PROVE  FALSE
            BY <3>1
        <3>3. \A d \in Accounts : ~Strays(d, g) /\ (Plays(d, g) => d = b)
            BY <2>1, <3>1, <3>2 DEF Presence
        <3>4. \A d \in Accounts : ~Strays(d, g)' /\ ~Plays(d, g)'
            BY <1>5, <3>2, <3>3
        <3>5. InMemory(g)' <=> \E d \in Accounts : Plays(d, g)' \/ Strays(d, g)'
            BY DEF InMemory, Players, Plays, Strays, InWorld
        <3>6. QED
            BY <2>1, <3>4, <3>5
    <2>2. ASSUME NEW g \in Guids \ contended', NEW b \in Accounts, Plays(b, g)'
          PROVE  /\ player'[b].version = last'[g]
                 /\ \A d \in Accounts : ~Strays(d, g)' /\ (Plays(d, g)' => d = b)
        <3>1. Plays(b, g) /\ player'[b] = player[b] /\ g \notin contended
            BY <1>5, <1>9, <2>2
        <3>2. /\ player[b].version = last[g]
              /\ \A d \in Accounts : ~Strays(d, g) /\ (Plays(d, g) => d = b)
            BY <2>2, <3>1 DEF Presence
        <3>3. QED
            BY <1>5, <3>1, <3>2
    <2>3. QED
        BY <2>1, <2>2 DEF Presence
<1>13. Loading' /\ Renaming' /\ Saved'
    <2>1. \A i, g : New(i) /\ SetsName(i, g)' => g \in contended \/ Asking(g, "login") = {}
        <3>1. \A g : InMemory(g) => g \in Guids
            BY PlayersInMemory DEF InMemory
        <3>2. QED
            BY <1>7, <1>8, <3>1 DEF Recorded, Contended
    <2>2. ASSUME NEW g \in Guids \ contended', InMemory(g), ~InMemory(g)'
          PROVE  VersionToCome(g)'
        <3>1. /\ InMemory(g) <=> \E b \in Accounts : Plays(b, g) \/ Strays(b, g)
              /\ InMemory(g)' <=> \E b \in Accounts : Plays(b, g)' \/ Strays(b, g)'
            BY DEF InMemory, Players, Plays, Strays, InWorld
        <3>2. PICK b \in Accounts : Plays(b, g) /\ ~Plays(b, g)'
            BY <1>5, <2>2, <3>1
        <3>3. player[b].version = last[g]
            BY <1>9, <2>2, <3>2 DEF Presence
        <3>4. PICK i : New(i) /\ Saves(i, g)' /\ queue'[i].version = last'[g]
            BY <2>2, <3>2, <3>3
        <3>5. QED
            BY <3>4, VersionSaved
    <2>3. \A c \in Callbacks : stage'[c] = "login" =>
            Same(c) \/ \A i \in DOMAIN queue' : queue'[i].waiter = c =>
                          \A j \in DOMAIN queue' : i < j => ~SetsName(j, request[c].guid)'
        OBVIOUS
    <2>4. QED
        BY <1>2, <1>8, <1>11, <2>1, <2>2, <2>3, LoginsKept
<1>14. ASSUME NEW g \in Guids \ contended', NEW n \in Names, Named(g, n)
       PROVE  Named(g, n)'
    <2>1. \A i : New(i) /\ SetsName(i, g)' => queue'[i].name = n
        BY <1>7, <1>14 DEF Named, NameInMemory
    <2>2. NameToCome(g, n)'
        BY <1>14, <2>1, NameKept DEF Named
    <2>3. NameInMemory(g, n)'
        BY <1>2, <1>3, <1>14, NamesInMemory DEF Named
    <2>4. QED
        BY <2>2, <2>3 DEF Named
<1>15. Committed'
    BY <1>1, <1>2, <1>6, <1>14, CommittedKept
<1>16. Current'
    BY <1>1, <1>6, <1>14, CurrentKept
<1>17. Counted'
    <2>1. \A b \in Accounts : Passed(b)' \subseteq Passed(b)
        BY DEF Passed, Answered, Result, Same
    <2>2. QED
        BY <1>10, <2>1, CountedKept
<1>18. QED
    BY <1>9, <1>11, <1>12, <1>13, <1>15, <1>16, <1>17

\* The save of a Player.
LEMMA Saving ==
    ASSUME ConstantsAssumption, Typed, NEW a \in Accounts, NEW p \in Players(a)
    PROVE  LET op == SaveToDB(a, p)
           IN /\ op \in Operation /\ op.kind = "save" /\ op.waiter = None
              /\ op.account = a
              /\ op.guid = p.guid /\ op.name = p.name /\ op.version = p.version
BY PlayersInMemory, Commands DEF SaveToDB

LEMMA SaveStep ==
    ASSUME ConstantsAssumption, IInv, Remember, overlaps' \in Nat,
           NEW a \in Accounts, PeriodicSave(a)
    PROVE  IInv'
<1> USE DEF IInv
<1>1. PICK p \in Players(a) : queue' = Append(queue, SaveToDB(a, p))
    BY DEF PeriodicSave
<1>2. PICK op \in Operation :
        /\ queue' = Append(queue, op) /\ op.kind = "save" /\ op.waiter = None
        /\ op.guid = p.guid /\ op.name = p.name
    BY <1>1, Saving
<1>3. Kept /\ \A i : New(i) => queue'[i] = op
    BY <1>2, QueuePushed
<1>4. UNCHANGED <<db, cache, byName, generated, connected, stage, request, answer, legit, world>>
    BY DEF PeriodicSave, memory, session, callbacks
<1>5. \A c \in Callbacks : Same(c)
    BY <1>4 DEF Same
<1>6. p.guid \in Guids /\ p.name \in Names
    BY PlayersInMemory
<1>7. Typed'
    <2>1. TypeOK'
        BY <1>3, <1>4, Recording, WorldStays DEF Typed, TypeOK, Kept
    <2>2. \A i \in DOMAIN queue' :
            /\ queue'[i].kind \in {"insert", "setName", "delete", "load", "save"} =>
                  queue'[i].guid \in Guids
            /\ queue'[i].kind \in {"insert", "setName", "save"} => queue'[i].name \in Names
        BY <1>2, <1>3, <1>6 DEF Typed, New, Kept
    <2>3. QED
        BY <1>4, <2>1, <2>2 DEF Typed, Result
<1>8. Awaiting'
    <2>1. \A i \in DOMAIN queue : queue'[i].waiter # None => Same(queue[i].waiter)
        BY <1>3, <1>5, QueuedOperations DEF Kept
    <2>2. \A i : New(i) => queue'[i].waiter = None
        BY <1>2, <1>3
    <2>3. QED
        BY <1>3, <1>5, <2>1, <2>2, AwaitingKept
<1>9. Offline'
    BY <1>4, WorldStays DEF Offline
<1>10. \A i, g : New(i) /\ Saves(i, g)' => p.guid = g /\ queue'[i].name = p.name
    BY <1>2, <1>3 DEF Saves
<1>11. UNCHANGED memory
    BY <1>4 DEF memory
<1>12. \A i : New(i) => queue'[i].kind \in {"save", "load"}
    BY <1>2, <1>3
<1>13. QED
    BY <1>3, <1>4, <1>5, <1>7, <1>8, <1>9, <1>10, <1>11, <1>12, WorldStays, WorldStep DEF Plays, InWorld

LEMMA ConnectStep ==
    ASSUME ConstantsAssumption, IInv, Remember, overlaps' \in Nat,
           NEW a \in Accounts, Connect(a)
    PROVE  IInv'
<1> USE DEF IInv
<1>1. /\ connected' = connected \union {a}
      /\ UNCHANGED <<db, queue, memory, cache, byName, generated, stage, request, answer,
                     legit, world>>
    BY DEF Connect, memory, callbacks
<1>2. Kept /\ \A i : ~New(i)
    BY <1>1, QueueStays
<1>3. \A c \in Callbacks : Same(c)
    BY <1>1 DEF Same
<1>4. Typed'
    <2>1. TypeOK'
        BY <1>1, Recording, WorldStays DEF Typed, TypeOK
    <2>2. QED
        BY <1>1, <2>1 DEF Typed, Result
<1>5. Awaiting' /\ Offline'
    BY <1>1, WorldStays DEF Awaiting, Offline
<1>6. QED
    BY <1>1, <1>2, <1>3, <1>4, <1>5, WorldStays, WorldStep DEF Plays, InWorld

\* The session takes over the Player of the offline session.
LEMMA TakeOverStep ==
    ASSUME ConstantsAssumption, IInv, Remember, overlaps' \in Nat,
           NEW a \in Accounts, NEW guid \in Guids, LoginToCharInWorld(a, guid)
    PROVE  IInv'
<1> USE DEF IInv
<1>1. /\ offline' = offline \ {a}
      /\ UNCHANGED <<db, queue, memory, cache, byName, generated, connected, stage, request,
                     answer, legit, player, stray, accessor, last>>
    BY DEF LoginToCharInWorld, memory, session, callbacks
<1>2. Kept /\ \A i : ~New(i)
    BY <1>1, QueueStays
<1>3. \A c \in Callbacks : Same(c)
    BY <1>1 DEF Same
<1>4. Typed'
    <2>1. TypeOK'
        BY <1>1, Recording DEF Typed, TypeOK
    <2>2. QED
        BY <1>1, <2>1 DEF Typed, Result
<1>5. Awaiting' /\ Offline'
    BY <1>1 DEF Awaiting, Offline, InWorld
<1>6. QED
    BY <1>1, <1>2, <1>3, <1>4, <1>5, WorldStep DEF Plays, InWorld

\* A Player leaves the world: what WorldStep asks of it.
LEMMA Leaving ==
    ASSUME ConstantsAssumption, NoneAssumption, Typed, Kept,
           NEW a \in Accounts, player[a] # None, NEW k, New(k),
           queue'[k] = SaveToDB(a, player[a]),
           player' = [player EXCEPT ![a] = None],
           accessor' = accessor \ {player[a].guid}
    PROVE  /\ player[a] \in Player /\ player[a] \in Players(a)
           /\ player' \in [Accounts -> Player \union {None}] /\ accessor' \subseteq Guids
           /\ \A b \in Accounts : player'[b] \in {player[b], None}
           /\ \A g : g \in accessor /\ g \notin accessor' =>
                 \E b \in Accounts : Plays(b, g) /\ ~Plays(b, g)'
           /\ \A b \in Accounts, g \in Guids : Plays(b, g) /\ ~Plays(b, g)' =>
                 \E i : New(i) /\ Saves(i, g)' /\ queue'[i].version = player[b].version
<1>1. /\ player \in [Accounts -> Player \union {None}] /\ accessor \subseteq Guids
    BY DEF Typed, TypeOK
<1>2. player[a] \in Player /\ player[a] \in Players(a)
    BY <1>1 DEF Players
<1>3. /\ player' \in [Accounts -> Player \union {None}]
      /\ player'[a] = None /\ \A b \in Accounts \ {a} : player'[b] = player[b]
    BY <1>1
<1>4. \A b \in Accounts, g \in Guids : Plays(b, g) /\ ~Plays(b, g)' => b = a
    BY <1>3 DEF Plays, InWorld
<1>5. Plays(a, player[a].guid) /\ \A g : ~Plays(a, g)'
    BY <1>3 DEF Plays, InWorld
<1>6. /\ queue'[k].kind = "save" /\ queue'[k].guid = player[a].guid
      /\ queue'[k].version = player[a].version
    BY <1>2, Saving
<1>7. ASSUME NEW b \in Accounts, NEW g \in Guids, Plays(b, g), ~Plays(b, g)'
      PROVE  \E i : New(i) /\ Saves(i, g)' /\ queue'[i].version = player[b].version
    <2>1. b = a /\ player[a].guid = g
        BY <1>4, <1>7 DEF Plays
    <2>2. Saves(k, g)'
        BY <1>6, <2>1 DEF Saves
    <2>3. QED
        BY <1>6, <2>1, <2>2
<1>8. QED
    BY <1>1, <1>2, <1>3, <1>5, <1>7

LEMMA LogoutStep ==
    ASSUME ConstantsAssumption, NoneAssumption, IInv, Remember, overlaps' \in Nat,
           NEW a \in Accounts, LogoutPlayer(a)
    PROVE  IInv'
<1> USE DEF IInv
<1>1. /\ player[a] # None
      /\ player' = [player EXCEPT ![a] = None]
      /\ accessor' = accessor \ {player[a].guid}
      /\ offline' = offline \ {a}
      /\ UNCHANGED <<db, memory, cache, byName, generated, connected, stage, request, answer,
                     legit, stray, last>>
    BY DEF LogoutPlayer, Logout, InWorld, memory, session, callbacks
<1>2. player[a] \in Players(a)
    BY <1>1 DEF Players
<1>3. PICK op \in Operation :
        /\ queue' = Append(queue, op) /\ op.kind = "save" /\ op.waiter = None
        /\ op.guid = player[a].guid /\ op.name = player[a].name
        /\ op = SaveToDB(a, player[a])
    BY <1>2, Saving DEF LogoutPlayer
<1>4. Kept /\ (\A i : New(i) => queue'[i] = op) /\ \E i : New(i)
    BY <1>3, QueuePushed
<1>5. PICK k : New(k) /\ queue'[k] = SaveToDB(a, player[a])
    BY <1>3, <1>4
<1>6. /\ player' \in [Accounts -> Player \union {None}] /\ accessor' \subseteq Guids
      /\ \A b \in Accounts : player'[b] \in {player[b], None}
      /\ \A g : g \in accessor /\ g \notin accessor' =>
            \E b \in Accounts : Plays(b, g) /\ ~Plays(b, g)'
      /\ \A b \in Accounts, g \in Guids : Plays(b, g) /\ ~Plays(b, g)' =>
            \E i : New(i) /\ Saves(i, g)' /\ queue'[i].version = player[b].version
    BY <1>1, <1>4, <1>5, Leaving
<1>7. \A c \in Callbacks : Same(c)
    BY <1>1 DEF Same
<1>8. player[a].guid \in Guids /\ player[a].name \in Names
    BY <1>2, PlayersInMemory
<1>9. Typed'
    <2>1. TypeOK'
        BY <1>1, <1>4, <1>6, Recording DEF Typed, TypeOK, Kept
    <2>2. \A i \in DOMAIN queue' :
            /\ queue'[i].kind \in {"insert", "setName", "delete", "load", "save"} =>
                  queue'[i].guid \in Guids
            /\ queue'[i].kind \in {"insert", "setName", "save"} => queue'[i].name \in Names
        BY <1>3, <1>4, <1>8 DEF Typed, New, Kept
    <2>3. QED
        BY <1>1, <2>1, <2>2 DEF Typed, Result
<1>10. Awaiting'
    <2>1. \A i \in DOMAIN queue : queue'[i].waiter # None => Same(queue[i].waiter)
        BY <1>4, <1>7, QueuedOperations DEF Kept
    <2>2. \A i : New(i) => queue'[i].waiter = None
        BY <1>3, <1>4
    <2>3. QED
        BY <1>4, <1>7, <2>1, <2>2, AwaitingKept
<1>11. Offline'
    <2>1. player \in [Accounts -> Player \union {None}] /\ offline \subseteq Accounts
        BY DEF Typed, TypeOK
    <2>2. QED
        BY <1>1, <2>1 DEF Offline, InWorld
<1>12. \A i, g : New(i) /\ Saves(i, g)' =>
        \E b \in Accounts : \E p \in Players(b) : p.guid = g /\ queue'[i].name = p.name
    BY <1>2, <1>3, <1>4, ZenonT(40) DEF Saves
<1>13. \A i : New(i) => queue'[i].kind \in {"save", "load"}
    BY <1>3, <1>4
<1>14. QED
    BY <1>1, <1>4, <1>6, <1>7, <1>9, <1>10, <1>11, <1>12, <1>13, WorldStep

\* A login asks for the character, and kicks the Player of the offline session.
LEMMA LoginStep ==
    ASSUME ConstantsAssumption, NoneAssumption, IInv, Remember, overlaps' \in Nat,
           NEW c \in Callbacks, NEW guid \in Guids, HandlePlayerLoginOpcode(c, guid)
    PROVE  IInv'
<1> USE DEF IInv
<1>1. PICK a \in Accounts : a = AccountOf[c]
    BY DEF ConstantsAssumption
<1>2. /\ stage[c] = "free"
      /\ a \in offline => player[a].guid # guid
      /\ stage' = [stage EXCEPT ![c] = "login"]
      /\ request' = [request EXCEPT ![c].guid = guid]
      /\ offline' = offline \ {a}
      /\ UNCHANGED <<db, memory, cache, byName, generated, connected, answer, legit, stray, last>>
    BY <1>1 DEF HandlePlayerLoginOpcode, memory
<1>3. PICK op \in Operation :
        /\ op = Query("load", c, guid, None) /\ op.kind = "load" /\ op.account = a
        /\ op.waiter = c /\ op.guid = guid
    BY <1>1, Queries
<1>4. /\ request \in [Callbacks -> Requests] /\ DOMAIN answer = Callbacks
      /\ stage \in [Callbacks -> Waiting \union {"free"}]
    BY DEF Typed, TypeOK, Requests
<1>5. /\ request' \in [Callbacks -> Requests] /\ request'[c].guid = guid
      /\ stage' \in [Callbacks -> Waiting \union {"free"}] /\ stage'[c] = "login"
      /\ \A d \in Callbacks \ {c} : request'[d] = request[d] /\ Same(d)
    BY <1>2, <1>4 DEF Requests, Waiting, Same
<1>6. answer'[c] = << >> /\ \A i \in DOMAIN queue : queue[i].waiter # c
    BY <1>2, NothingAwaited
<1>7. StageOf("load") = "login"
    BY DEF StageOf
<1>8. CASE a \notin offline
    <2>1. UNCHANGED world /\ queue' = Append(queue, op)
        BY <1>1, <1>2, <1>3, <1>8 DEF HandlePlayerLoginOpcode, world
    <2> HIDE DEF IInv
    <2>2. QED
        BY <1>1, <1>2, <1>3, <1>4, <1>5, <1>6, <1>7, <1>8, <2>1, AskStep, ZenonT(40)
<1>9. CASE a \in offline
    <2>1. /\ player[a] # None
          /\ player' = [player EXCEPT ![a] = None]
          /\ accessor' = accessor \ {player[a].guid}
          /\ queue' = Append(Append(queue, op), SaveToDB(a, player[a]))
        BY <1>1, <1>3, <1>9 DEF HandlePlayerLoginOpcode, Offline, InWorld
    <2>2. player[a] \in Players(a)
        BY <2>1 DEF Players
    <2>3. PICK save \in Operation :
            /\ save = SaveToDB(a, player[a]) /\ save.kind = "save" /\ save.waiter = None
            /\ save.guid = player[a].guid /\ save.name = player[a].name
        BY <2>2, Saving
    <2>4. /\ queue \in Seq(Operation) /\ Append(queue, op) \in Seq(Operation)
          /\ Len(Append(queue, op)) = Len(queue) + 1
          /\ Len(queue) \in Nat /\ DOMAIN queue = 1 .. Len(queue)
        BY DEF Typed, TypeOK
    <2>5. /\ \A i \in DOMAIN queue : Append(queue, op)[i] = queue[i]
          /\ Append(queue, op)[Len(queue) + 1] = op
          /\ DOMAIN Append(queue, op) = 1 .. Len(queue) + 1
        BY <2>4, Pushed
    <2>6. /\ queue' \in Seq(Operation) /\ DOMAIN queue' = 1 .. Len(queue) + 2
          /\ \A i \in DOMAIN Append(queue, op) : queue'[i] = Append(queue, op)[i]
          /\ queue'[Len(queue) + 2] = save
        <3>1. queue' = Append(Append(queue, op), save)
            BY <2>1, <2>3
        <3>2. Len(Append(queue, op)) + 1 = Len(queue) + 2
            BY <2>4
        <3>3. QED
            BY <2>4, <3>1, <3>2, Pushed
    <2>7. /\ \A i \in DOMAIN queue : queue'[i] = queue[i] /\ i < Len(queue) + 1
          /\ queue'[Len(queue) + 1] = op
          /\ \A i : New(i) <=> i \in {Len(queue) + 1, Len(queue) + 2}
        BY <2>4, <2>5, <2>6 DEF New
    <2>8. Kept
        BY <1>3, <2>3, <2>4, <2>6, <2>7 DEF Kept
    <2>9. \A i : New(i) => \/ i = Len(queue) + 1 /\ queue'[i] = op
                           \/ i = Len(queue) + 2 /\ queue'[i] = save
        BY <2>6, <2>7
    <2>10. /\ player' \in [Accounts -> Player \union {None}] /\ accessor' \subseteq Guids
           /\ \A b \in Accounts : player'[b] \in {player[b], None}
           /\ \A g : g \in accessor /\ g \notin accessor' =>
                 \E b \in Accounts : Plays(b, g) /\ ~Plays(b, g)'
           /\ \A b \in Accounts, g \in Guids : Plays(b, g) /\ ~Plays(b, g)' =>
                 \E i : New(i) /\ Saves(i, g)' /\ queue'[i].version = player[b].version
        <3>1. New(Len(queue) + 2) /\ queue'[Len(queue) + 2] = SaveToDB(a, player[a])
            BY <2>3, <2>6, <2>7
        <3>2. QED
            BY <2>1, <2>8, <3>1, Leaving
    <2>11. player[a].guid \in Guids /\ player[a].name \in Names
        BY <2>2, PlayersInMemory
    <2>12. Typed'
        <3>1. TypeOK'
            BY <1>2, <1>4, <1>5, <2>6, <2>10, Recording DEF Typed, TypeOK, Requests
        <3>2. \A i \in DOMAIN queue' :
                /\ queue'[i].kind \in {"insert", "setName", "delete", "load", "save"} =>
                      queue'[i].guid \in Guids
                /\ queue'[i].kind \in {"insert", "setName", "save"} => queue'[i].name \in Names
            BY <1>3, <2>3, <2>7, <2>9, <2>11 DEF Typed, New
        <3>3. \A d \in Callbacks :
                /\ stage'[d] \in {"commit", "rename", "login"} => request'[d].guid \in Guids
                /\ stage'[d] \in Creating \union {"rename"} => request'[d].name \in Names
                /\ answer'[d] # << >> =>
                      Result(d)' \subseteq IF stage'[d] = "login" THEN Row ELSE Guids
            BY <1>5, <1>6 DEF Typed, Result, Creating, Same
        <3>4. QED
            BY <3>1, <3>2, <3>3 DEF Typed
    <2>13. Awaiting'
        <3>1. \A i \in DOMAIN queue : queue'[i].waiter # None => Same(queue[i].waiter)
            BY <1>5, <1>6, <2>7, QueuedOperations
        <3>2. \A d \in Callbacks : Same(d) \/ answer'[d] = << >>
            BY <1>5, <1>6
        <3>3. \A i : New(i) /\ queue'[i].waiter # None =>
                i = Len(queue) + 1 /\ queue'[i] = op
            BY <2>3, <2>9
        <3>4. \A i : New(i) /\ queue'[i].waiter # None =>
                LET d == queue'[i].waiter
                IN /\ answer'[d] = << >>
                   /\ queue'[i].kind \notin {"setName", "delete", "save"}
                   /\ stage'[d] = StageOf(queue'[i].kind)
                   /\ queue'[i].account = AccountOf[d]
                   /\ queue'[i].kind \in {"insert", "freeName", "load"} =>
                         queue'[i].guid = request'[d].guid
                   /\ queue'[i].kind = "insert" => queue'[i].name = request'[d].name
                   /\ \A j \in DOMAIN queue : queue'[j].waiter # d
                   /\ \A j : New(j) /\ queue'[j].waiter = d => i = j
            <4>1. \A j : New(j) /\ queue'[j].waiter = c => j = Len(queue) + 1
                BY <2>3, <2>9, <3>3 DEF ConstantsAssumption
            <4>2. QED
                BY <1>1, <1>3, <1>5, <1>6, <1>7, <2>7, <3>3, <4>1
        <3>5. QED
            BY <2>8, <3>1, <3>2, <3>4, AwaitingKept
    <2>14. Offline'
        <3>1. player \in [Accounts -> Player \union {None}] /\ offline \subseteq Accounts
            BY DEF Typed, TypeOK
        <3>2. QED
            BY <1>1, <1>2, <1>5, <2>1, <3>1 DEF Offline, InWorld, Same
    <2>15. \A i, g : New(i) /\ Saves(i, g)' =>
            \E b \in Accounts : \E p \in Players(b) : p.guid = g /\ queue'[i].name = p.name
        BY <1>3, <2>2, <2>3, <2>9 DEF Saves
    <2>16. \A i : New(i) => queue'[i].kind \in {"save", "load"}
        BY <1>3, <2>3, <2>9
    <2>17. \A d \in Callbacks :
            Same(d) \/ (answer'[d] = << >> /\ stage'[d] \in {"free", "login"})
        BY <1>5, <1>6
    <2>18. ASSUME NEW i \in DOMAIN queue', queue'[i].waiter = c,
                  NEW j \in DOMAIN queue', i < j
           PROVE  ~SetsName(j, request[c].guid)'
        <3>1. i = Len(queue) + 1
            BY <1>6, <2>3, <2>7, <2>9, <2>18 DEF New, ConstantsAssumption
        <3>2. j = Len(queue) + 2
            BY <2>4, <2>6, <2>18, <3>1
        <3>3. queue'[j].guid # guid
            BY <1>2, <1>9, <2>3, <2>6, <3>2
        <3>4. QED
            BY <1>5, <3>3 DEF SetsName
    <2>19. \A d \in Callbacks : stage'[d] = "login" /\ ~Same(d) =>
            \A i \in DOMAIN queue' : queue'[i].waiter = d =>
               \A j \in DOMAIN queue' : i < j => ~SetsName(j, request[d].guid)'
        BY <1>5, <2>18
    <2>20. QED
        BY <1>2, <2>8, <2>10, <2>12, <2>13, <2>14, <2>15, <2>16, <2>17, <2>19, WorldStep
<1>10. QED
    BY <1>8, <1>9

LEMMA AbandonedQueue ==
    ASSUME ConstantsAssumption, Typed, NEW a \in Accounts
    PROVE  /\ Abandoned(a) \in Seq(Operation) /\ DOMAIN Abandoned(a) = DOMAIN queue
           /\ \A i \in DOMAIN queue :
                 LET op == Abandoned(a)[i]
                 IN /\ op.waiter = IF queue[i].account = a THEN None ELSE queue[i].waiter
                    /\ op.kind = queue[i].kind /\ op.account = queue[i].account
                    /\ op.guid = queue[i].guid /\ op.name = queue[i].name
                    /\ op.version = queue[i].version
<1>1. queue \in Seq(Operation) /\ DOMAIN queue = 1 .. Len(queue) /\ Len(queue) \in Nat
    BY DEF Typed, TypeOK
<1>2. DOMAIN Abandoned(a) = 1 .. Len(queue)
    BY <1>1 DEF Abandoned
<1>3. ASSUME NEW i \in DOMAIN queue
      PROVE  LET op == Abandoned(a)[i]
             IN /\ op \in Operation
                /\ op.waiter = IF queue[i].account = a THEN None ELSE queue[i].waiter
                /\ op.kind = queue[i].kind /\ op.account = queue[i].account
                /\ op.guid = queue[i].guid /\ op.name = queue[i].name
                /\ op.version = queue[i].version
    <2>1. PICK w \in Callbacks \union {None} :
            w = IF queue[i].account = a THEN None ELSE queue[i].waiter
        BY <1>3, QueuedOperations
    <2>2. Abandoned(a)[i] = [queue[i] EXCEPT !.waiter = w]
        BY <1>3, <2>1 DEF Abandoned
    <2>3. queue[i] \in Operation
        BY <1>1, <1>3
    <2>4. QED
        BY <2>1, <2>2, <2>3 DEF Operation
<1>4. Abandoned(a) \in [1 .. Len(queue) -> Operation]
    BY <1>1, <1>2, <1>3 DEF Abandoned
<1>5. Abandoned(a) \in Seq(Operation)
    BY <1>1, <1>4
<1>6. QED
    BY <1>1, <1>2, <1>3, <1>5

LEMMA DisconnectStep ==
    ASSUME ConstantsAssumption, NoneAssumption, IInv, Remember, overlaps' \in Nat,
           NEW a \in Accounts, Disconnect(a)
    PROVE  IInv'
<1> USE DEF IInv
<1>1. /\ connected' = connected \ {a}
      /\ stage' = Forget(stage, a, "free")
      /\ request' = Forget(request, a, NoRequest)
      /\ answer' = Forget(answer, a, << >>)
      /\ legit' = [legit EXCEPT ![a] = {}]
      /\ UNCHANGED <<db, memory, cache, byName, generated, stray, last>>
    BY DEF Disconnect, memory
<1>2. /\ request \in [Callbacks -> Requests] /\ NoRequest \in Requests
      /\ DOMAIN answer = Callbacks /\ stage \in [Callbacks -> Waiting \union {"free"}]
      /\ legit \in [Accounts -> SUBSET Guids] /\ connected \subseteq Accounts
      /\ player \in [Accounts -> Player \union {None}]
      /\ offline \subseteq Accounts /\ accessor \subseteq Guids
    BY DEF Typed, TypeOK, Requests, NoRequest
<1>3. /\ request' \in [Callbacks -> Requests] /\ DOMAIN answer' = Callbacks
      /\ stage' \in [Callbacks -> Waiting \union {"free"}]
      /\ legit' \in [Accounts -> SUBSET Guids] /\ connected' \subseteq Accounts
      /\ \A c \in Callbacks : AccountOf[c] = a => answer'[c] = << >> /\ stage'[c] = "free"
      /\ \A c \in Callbacks : AccountOf[c] # a => Same(c)
    BY <1>1, <1>2 DEF Forget, Same
<1>4. /\ Abandoned(a) \in Seq(Operation) /\ DOMAIN Abandoned(a) = DOMAIN queue
      /\ \A i \in DOMAIN queue :
            LET op == Abandoned(a)[i]
            IN /\ op.waiter = IF queue[i].account = a THEN None ELSE queue[i].waiter
               /\ op.kind = queue[i].kind /\ op.account = queue[i].account
               /\ op.guid = queue[i].guid /\ op.name = queue[i].name
               /\ op.version = queue[i].version
    BY AbandonedQueue
<1>5. queue \in Seq(Operation) /\ DOMAIN queue = 1 .. Len(queue) /\ Len(queue) \in Nat
    BY DEF Typed, TypeOK
<1>6. Len(Abandoned(a)) = Len(queue)
    BY <1>4, <1>5
\* Whatever becomes of the Player.
<1>7. ASSUME queue' \in Seq(Operation), DOMAIN queue \subseteq DOMAIN queue',
             \A i \in DOMAIN queue' : i \in Nat,
             \A i \in DOMAIN queue : queue'[i] = Abandoned(a)[i],
             \A i : New(i) => /\ i = Len(queue) + 1 /\ player[a] # None
                              /\ queue'[i] = SaveToDB(a, player[a]),
             \A b \in Accounts : player'[b] \in {player[b], None},
             player' \in [Accounts -> Player \union {None}], accessor' \subseteq Guids,
             offline' \subseteq Accounts, Offline',
             Kept => \A g : g \in accessor /\ g \notin accessor' =>
                \E b \in Accounts : Plays(b, g) /\ ~Plays(b, g)',
             Kept => \A b \in Accounts, g \in Guids : Plays(b, g) /\ ~Plays(b, g)' =>
                \E i : New(i) /\ Saves(i, g)' /\ queue'[i].version = player[b].version
      PROVE  IInv'
    <2>1. \A i \in DOMAIN queue :
            /\ queue'[i].waiter = IF queue[i].account = a THEN None ELSE queue[i].waiter
            /\ queue'[i].kind = queue[i].kind /\ queue'[i].account = queue[i].account
            /\ queue'[i].guid = queue[i].guid /\ queue'[i].name = queue[i].name
            /\ queue'[i].version = queue[i].version
        BY <1>4, <1>7
    <2>2. Kept
        <3>1. \A i \in DOMAIN queue : \A j \in DOMAIN queue' : New(j) => i < j
            BY <1>5, <1>7
        <3>2. \A i, j \in DOMAIN queue :
                queue[i].account = queue[j].account /\ queue'[i].waiter # None =>
                    queue'[j].waiter = queue[j].waiter
            BY <2>1
        <3>3. \A i, j : New(i) /\ New(j) => i = j
            BY <1>7
        <3>4. QED
            BY <1>7, <2>1, <3>1, <3>2, <3>3 DEF Kept
    <2>3. \A i : New(i) =>
            LET p == player[a]
            IN /\ p \in Players(a) /\ p.guid \in Guids /\ p.name \in Names
               /\ queue'[i].kind = "save" /\ queue'[i].waiter = None
               /\ queue'[i].guid = p.guid /\ queue'[i].name = p.name
        <3>1. SUFFICES ASSUME NEW i, New(i)
                       PROVE  LET p == player[a]
                              IN /\ p \in Players(a) /\ p.guid \in Guids /\ p.name \in Names
                                 /\ queue'[i].kind = "save" /\ queue'[i].waiter = None
                                 /\ queue'[i].guid = p.guid /\ queue'[i].name = p.name
            OBVIOUS
        <3>2. player[a] \in Players(a) /\ queue'[i] = SaveToDB(a, player[a])
            BY <1>7, <3>1 DEF Players
        <3>3. QED
            BY <3>2, Saving, PlayersInMemory
    <2>4. Typed'
        <3>1. TypeOK'
            BY <1>1, <1>3, <1>7, Recording DEF Typed, TypeOK, Requests
        <3>2. \A i \in DOMAIN queue' :
                /\ queue'[i].kind \in {"insert", "setName", "delete", "load", "save"} =>
                      queue'[i].guid \in Guids
                /\ queue'[i].kind \in {"insert", "setName", "save"} => queue'[i].name \in Names
            BY <2>1, <2>3 DEF Typed, New
        <3>3. \A c \in Callbacks :
                /\ stage'[c] \in {"commit", "rename", "login"} => request'[c].guid \in Guids
                /\ stage'[c] \in Creating \union {"rename"} => request'[c].name \in Names
                /\ answer'[c] # << >> =>
                      Result(c)' \subseteq IF stage'[c] = "login" THEN Row ELSE Guids
            BY <1>3 DEF Typed, Result, Creating, Same
        <3>4. QED
            BY <3>1, <3>2, <3>3 DEF Typed
    <2>5. \A c \in Callbacks :
            Same(c) \/ (answer'[c] = << >> /\ stage'[c] \in {"free", "login"})
        BY <1>3
    <2>6. Awaiting'
        <3>1. \A i \in DOMAIN queue : queue'[i].waiter # None => Same(queue[i].waiter)
            <4>1. \A i \in DOMAIN queue : queue[i].waiter # None =>
                    AccountOf[queue[i].waiter] = queue[i].account
                BY DEF Awaiting
            <4>2. QED
                BY <1>3, <2>1, <4>1, QueuedOperations
        <3>2. \A c \in Callbacks : Same(c) \/ answer'[c] = << >>
            BY <2>5
        <3>3. QED
            BY <2>2, <2>3, <3>1, <3>2, AwaitingKept
    <2>7. \A i, g : New(i) /\ Saves(i, g)' =>
            \E b \in Accounts : \E p \in Players(b) : p.guid = g /\ queue'[i].name = p.name
        BY <2>3 DEF Saves
    <2>8. \A i : New(i) => queue'[i].kind \in {"save", "load"}
        BY <2>3
    <2>9. \A c \in Callbacks : stage'[c] = "login" => Same(c)
        BY <1>3
    <2>10. QED
        BY <1>1, <1>7, <2>2, <2>4, <2>5, <2>6, <2>7, <2>8, <2>9, WorldStep
<1>8. \A b \in offline : b # a => InWorld(b)
    BY DEF Offline
<1>9. \A c \in Callbacks : AccountOf[c] \in offline \/ AccountOf[c] = a => stage'[c] # "login"
    BY <1>3 DEF Offline, Same
<1>10. CASE /\ queue' = Abandoned(a) /\ UNCHANGED <<player, accessor>>
            /\ \/ InSession(a) /\ offline' = offline \union {a}
               \/ UNCHANGED offline
    <2>1. \A i : ~New(i)
        BY <1>4, <1>10 DEF New
    <2>2. UNCHANGED <<player, accessor>> /\ offline' \subseteq offline \union {a}
          /\ \A b \in offline' : InWorld(b)
        BY <1>10 DEF InSession, Offline
    <2>3. Offline'
        BY <1>9, <2>2 DEF Offline, InWorld
    <2>4. \A b \in Accounts, g \in Guids : Plays(b, g)' <=> Plays(b, g)
        BY <2>2 DEF Plays, InWorld
    <2>5. QED
        BY <1>2, <1>4, <1>5, <1>7, <1>10, <2>1, <2>2, <2>3, <2>4
<1>11. CASE /\ InSession(a)
            /\ queue' = Append(Abandoned(a), SaveToDB(a, player[a]))
            /\ Logout(a)
            /\ UNCHANGED offline
    <2>1. /\ player[a] # None /\ a \notin offline
          /\ player' = [player EXCEPT ![a] = None]
          /\ accessor' = accessor \ {player[a].guid}
        BY <1>11 DEF InSession, InWorld, Logout
    <2>2. SaveToDB(a, player[a]) \in Operation
        <3>1. player[a] \in Players(a)
            BY <2>1 DEF Players
        <3>2. QED
            BY <3>1, Saving
    <2>3. /\ queue' \in Seq(Operation) /\ DOMAIN queue' = 1 .. Len(queue) + 1
          /\ \A i \in DOMAIN queue : queue'[i] = Abandoned(a)[i]
          /\ queue'[Len(queue) + 1] = SaveToDB(a, player[a])
        BY <1>4, <1>6, <1>11, <2>2, Pushed
    <2>4. \A i : New(i) <=> i = Len(queue) + 1
        BY <1>5, <2>3 DEF New
    <2>5. Kept =>
            /\ \A g : g \in accessor /\ g \notin accessor' =>
                  \E b \in Accounts : Plays(b, g) /\ ~Plays(b, g)'
            /\ \A b \in Accounts, g \in Guids : Plays(b, g) /\ ~Plays(b, g)' =>
                  \E i : New(i) /\ Saves(i, g)' /\ queue'[i].version = player[b].version
        BY <2>1, <2>3, <2>4, Leaving
    <2>6. /\ player' \in [Accounts -> Player \union {None}] /\ accessor' \subseteq Guids
          /\ \A b \in Accounts : player'[b] \in {player[b], None}
        BY <1>2, <2>1
    <2>7. Offline'
        BY <1>2, <1>8, <1>9, <1>11, <2>1 DEF Offline, InWorld
    <2>8. /\ DOMAIN queue \subseteq DOMAIN queue' /\ \A i \in DOMAIN queue' : i \in Nat
          /\ offline' \subseteq Accounts
        BY <1>2, <1>5, <1>11, <2>3
    <2>9. QED
        BY <1>7, <2>1, <2>3, <2>4, <2>5, <2>6, <2>7, <2>8
<1>12. QED
    BY <1>10, <1>11 DEF Disconnect

\* A Player changes.
LEMMA PlayStep ==
    ASSUME ConstantsAssumption, NoneAssumption, IInv, Remember, overlaps' \in Nat,
           NEW a \in Accounts, Play(a)
    PROVE  IInv'
<1> USE DEF IInv
<1>1. /\ player[a] # None /\ player[a].version < MaxVersion
      /\ player' = [player EXCEPT ![a].version = @ + 1]
      /\ last' = [last EXCEPT ![player[a].guid] = player[a].version + 1]
      /\ UNCHANGED <<db, queue, memory, cache, byName, generated, connected, stage, request,
                     answer, legit, offline, stray, accessor>>
    BY DEF Play, InWorld, memory, session, callbacks
<1>2. /\ player \in [Accounts -> Player \union {None}] /\ last \in [Guids -> 0..MaxVersion]
      /\ MaxVersion \in Nat
    BY DEF Typed, TypeOK, ConstantsAssumption
<1>3. PICK g, v : g = player[a].guid /\ v = player[a].version
    OBVIOUS
<1>4. player[a] \in Player /\ g \in Guids /\ v \in 0..MaxVersion /\ v + 1 \in 0..MaxVersion
    BY <1>1, <1>2, <1>3 DEF Player
<1>5. PICK p \in Player : /\ p.guid = g /\ p.name = player[a].name /\ p.version = v + 1
                          /\ player' = [player EXCEPT ![a] = p] /\ p # None
    <2>1. PICK p : p = [player[a] EXCEPT !.version = v + 1]
        OBVIOUS
    <2>2. p \in Player /\ p.guid = g /\ p.name = player[a].name /\ p.version = v + 1
        BY <1>3, <1>4, <2>1 DEF Player
    <2>3. player' = [player EXCEPT ![a] = p]
        BY <1>1, <1>3, <2>1
    <2>4. QED
        BY <2>2, <2>3, NoneAssumption
<1>6. /\ player' \in [Accounts -> Player \union {None}] /\ player'[a] = p
      /\ \A b \in Accounts \ {a} : player'[b] = player[b]
      /\ last' \in [Guids -> 0..MaxVersion] /\ last'[g] = v + 1
      /\ \A h \in Guids \ {g} : last'[h] = last[h]
    BY <1>1, <1>2, <1>3, <1>4, <1>5
<1>7. /\ \A b, h : (Strays(b, h)' <=> Strays(b, h))
      /\ \A b \in Accounts, h \in Guids : Plays(b, h)' <=> Plays(b, h)
      /\ \A b \in Accounts : InWorld(b)' <=> InWorld(b)
    BY <1>1, <1>3, <1>5, <1>6 DEF Strays, Plays, InWorld
<1>8. \A b \in Accounts : \A q \in Players(b)' :
        \E r \in Players(b) : r.guid = q.guid /\ r.name = q.name
    BY <1>1, <1>3, <1>5, <1>6 DEF Players
<1>9. \A b \in Accounts : \A q \in Players(b) :
        \E r \in Players(b)' : r.guid = q.guid
    BY <1>1, <1>3, <1>5, <1>6 DEF Players
<1>10. \A h : InMemory(h)' <=> InMemory(h)
    BY <1>8, <1>9 DEF InMemory
<1>11. InMemory(g)
    <2>1. player[a] \in Players(a)
        BY <1>1 DEF Players
    <2>2. QED
        BY <1>3, <2>1 DEF InMemory
<1>12. \A c \in Callbacks : Same(c)
    BY <1>1 DEF Same
<1>13. Kept /\ \A i : ~New(i)
    BY <1>1, QueueStays
<1>14. contended \subseteq contended' /\ contended' \subseteq Guids /\ Recorded'
    BY Recording
<1>15. \A h \in Guids : last'[h] = last[h] \/ InMemory(h)
    BY <1>6, <1>11
<1>16. Typed'
    <2>1. TypeOK'
        BY <1>1, <1>6, Recording DEF Typed, TypeOK
    <2>2. QED
        BY <1>1, <2>1 DEF Typed, Result
<1>17. Awaiting' /\ Offline'
    BY <1>1, <1>7 DEF Awaiting, Offline, Typed, TypeOK
<1>18. Births' /\ \A h : Unborn(h)' <=> Unborn(h)
    <2>1. \A h \in Guids : cache'[h] # None \/ InMemory(h)' => ~Unborn(h)
        BY <1>1, <1>10 DEF Births
    <2>2. QED
        BY <1>1, <1>12, <1>13, <1>15, <2>1, BirthsKept
<1>19. Presence'
    <2>1. \A h \in Guids \ contended' : InMemory(h)' => h \in accessor'
        BY <1>1, <1>10, <1>14 DEF Presence
    <2>2. ASSUME NEW h \in Guids \ contended', NEW b \in Accounts, Plays(b, h)'
          PROVE  /\ player'[b].version = last'[h]
                 /\ \A d \in Accounts : ~Strays(d, h)' /\ (Plays(d, h)' => d = b)
        <3>1. /\ player[b].version = last[h]
              /\ \A d \in Accounts : ~Strays(d, h) /\ (Plays(d, h) => d = b)
            BY <1>7, <1>14, <2>2 DEF Presence
        <3>2. player'[b].version = last'[h]
            <4>1. CASE b = a
                BY <1>5, <1>6, <2>2, <4>1 DEF Plays
            <4>2. CASE b # a
                <5>1. Plays(a, g)
                    BY <1>1, <1>3 DEF Plays, InWorld
                <5>2. h # g
                    BY <3>1, <4>2, <5>1
                <5>3. QED
                    BY <1>6, <3>1, <4>2, <5>2
            <4>3. QED
                BY <4>1, <4>2
        <3>3. QED
            BY <1>7, <3>1, <3>2
    <2>3. QED
        BY <2>1, <2>2 DEF Presence
<1>20. Loading' /\ Renaming' /\ Saved'
    BY <1>1, <1>10, <1>12, <1>13, <1>15, <1>18, LoginsKept
<1>21. ASSUME NEW h \in Guids \ contended', NEW n \in Names, Named(h, n)
       PROVE  Named(h, n)'
    <2>1. NameToCome(h, n)'
        BY <1>1, <1>13, <1>21, NameKept DEF Named
    <2>2. NameInMemory(h, n)'
        BY <1>8, <1>12, <1>21, NamesInMemory DEF Named
    <2>3. QED
        BY <2>1, <2>2 DEF Named
<1>22. Committed'
    BY <1>1, <1>12, <1>13, <1>16, <1>21, CommittedKept
<1>23. Current'
    BY <1>1, <1>13, <1>21, CurrentKept
<1>24. Counted'
    <2>1. \A b \in Accounts : Passed(b)' \subseteq Passed(b)
        BY <1>1 DEF Passed, Answered, Result
    <2>2. QED
        BY <1>1, <1>13, <2>1, CountedKept
<1>25. QED
    BY <1>14, <1>16, <1>17, <1>18, <1>19, <1>20, <1>22, <1>23, <1>24

\* A character that has been loaded enters the world, or its session has none.
LEMMA EnterStep ==
    ASSUME ConstantsAssumption, NoneAssumption, IInv, Remember, overlaps' \in Nat,
           NEW c \in Callbacks, HandlePlayerLoginFromDB(c)
    PROVE  IInv'
<1> USE DEF IInv
<1>1. PICK a, g : a = AccountOf[c] /\ g = request[c].guid
    OBVIOUS
<1>2. /\ stage[c] = "login" /\ answer[c] # << >>
      /\ stray' = [stray EXCEPT ![a] = @ \union ({player[a]} \ {None})]
      /\ stage' = [stage EXCEPT ![c] = "free"]
      /\ request' = [request EXCEPT ![c] = NoRequest]
      /\ answer' = [answer EXCEPT ![c] = << >>]
      /\ UNCHANGED <<db, queue, memory, cache, byName, generated, connected, legit, offline, last>>
    BY <1>1 DEF HandlePlayerLoginFromDB, Ready, Done, memory
<1>3. a \in Accounts /\ g \in Guids /\ Result(c) \subseteq Row
    BY <1>1, <1>2 DEF Typed, ConstantsAssumption
<1>4. /\ player \in [Accounts -> Player \union {None}] /\ stray \in [Accounts -> SUBSET Player]
      /\ request \in [Callbacks -> Requests] /\ NoRequest \in Requests
      /\ DOMAIN answer = Callbacks /\ stage \in [Callbacks -> Waiting \union {"free"}]
      /\ accessor \subseteq Guids
    BY DEF Typed, TypeOK, Requests, NoRequest
\* What the session's Player is now.
<1>5. PICK p : /\ player' = [player EXCEPT ![a] = p]
               /\ \/ p = None /\ accessor' = accessor
                  \/ /\ accessor' = accessor \union {g}
                     /\ p \in Player /\ p # None /\ p.guid = g
                     /\ \E row \in Result(c) : p.name = row.name /\ p.version = row.version
    <2>1. CASE player' = [player EXCEPT ![a] = None] /\ UNCHANGED accessor
        BY <2>1
    <2>2. ASSUME NEW row \in Result(c),
                 player' = [player EXCEPT ![a] =
                    [guid |-> g, name |-> row.name, version |-> row.version]],
                 accessor' = accessor \union {g}
          PROVE  \E p : /\ player' = [player EXCEPT ![a] = p]
                        /\ accessor' = accessor \union {g}
                        /\ p \in Player /\ p # None /\ p.guid = g
                        /\ \E r \in Result(c) : p.name = r.name /\ p.version = r.version
        <3>1. PICK p : p = [guid |-> g, name |-> row.name, version |-> row.version]
            OBVIOUS
        <3>2. /\ p \in Player /\ p.guid = g
              /\ p.name = row.name /\ p.version = row.version
            BY <1>3, <3>1 DEF Row, Player
        <3>3. QED
            BY <2>2, <3>1, <3>2, NoneAssumption
    <2>3. QED
        BY <1>1, <2>1, <2>2 DEF HandlePlayerLoginFromDB
<1>6. /\ player' \in [Accounts -> Player \union {None}] /\ player'[a] = p
      /\ \A b \in Accounts \ {a} : player'[b] = player[b] /\ stray'[b] = stray[b]
      /\ stray' \in [Accounts -> SUBSET Player]
      /\ stray'[a] = stray[a] \union ({player[a]} \ {None})
      /\ accessor' \subseteq Guids /\ accessor \subseteq accessor'
    BY <1>2, <1>3, <1>4, <1>5
<1>7. /\ request' \in [Callbacks -> Requests] /\ DOMAIN answer' = Callbacks
      /\ stage' \in [Callbacks -> Waiting \union {"free"}]
      /\ answer'[c] = << >> /\ stage'[c] = "free"
      /\ \A d \in Callbacks \ {c} : Same(d)
    BY <1>2, <1>4 DEF Same
<1>8. /\ \A b \in Accounts \ {a} : Players(b)' = Players(b)
      /\ Players(a)' = Players(a) \union ({p} \ {None})
    BY <1>6 DEF Players
<1>9. /\ \A h : InMemory(h) => InMemory(h)'
      /\ \A h : InMemory(h)' => InMemory(h) \/ (h = g /\ p # None)
    <2>1. \A b \in Accounts : Players(b) \subseteq Players(b)'
        BY <1>8
    <2>2. \A b \in Accounts : \A q \in Players(b)' : q \in Players(b) \/ (q = p /\ p # None)
        BY <1>8
    <2>3. p # None => p.guid = g
        BY <1>5
    <2>4. QED
        BY <2>1, <2>2, <2>3 DEF InMemory
<1>10. \A d \in Callbacks : Same(d) \/ answer'[d] = << >>
    BY <1>7
<1>11. Kept /\ \A i : ~New(i)
    BY <1>2, QueueStays
<1>12. contended \subseteq contended' /\ contended' \subseteq Guids /\ Recorded'
    BY Recording
<1>13. g \notin contended => ~InMemory(g)
    <2>1. c \in Asking(g, "login")
        BY <1>1, <1>2 DEF Asking
    <2>2. QED
        BY <1>3, <2>1 DEF Recorded, Contended
<1>14. p # None => ~Unborn(g)
    BY <1>1, <1>2, <1>3, <1>5 DEF Births, Answered
<1>15. Typed'
    <2>1. TypeOK'
        BY <1>2, <1>6, <1>7, Recording DEF Typed, TypeOK, Requests
    <2>2. \A d \in Callbacks :
            /\ stage'[d] \in {"commit", "rename", "login"} => request'[d].guid \in Guids
            /\ stage'[d] \in Creating \union {"rename"} => request'[d].name \in Names
            /\ answer'[d] # << >> =>
                  Result(d)' \subseteq IF stage'[d] = "login" THEN Row ELSE Guids
        BY <1>7 DEF Typed, Result, Creating, Same
    <2>3. QED
        BY <1>2, <2>1, <2>2 DEF Typed
<1>16. Awaiting'
    <2>1. \A i \in DOMAIN queue : queue[i].waiter # c
        BY <1>2, NothingAwaited
    <2>2. \A i \in DOMAIN queue : queue'[i].waiter # None => Same(queue[i].waiter)
        BY <1>2, <1>7, <2>1, QueuedOperations
    <2>3. QED
        BY <1>10, <1>11, <2>2, AwaitingKept
<1>17. Births' /\ \A h : Unborn(h)' <=> Unborn(h)
    <2>1. \A h \in Guids : cache'[h] # None \/ InMemory(h)' => ~Unborn(h)
        BY <1>2, <1>9, <1>14 DEF Births
    <2>2. \A d \in Callbacks : Same(d) \/ (answer'[d] = << >> /\ stage'[d] # "commit")
        BY <1>7
    <2>3. QED
        BY <1>2, <1>11, <2>1, <2>2, BirthsKept
<1>18. Offline'
    <2>1. a \notin offline /\ offline \subseteq Accounts
        BY <1>1, <1>2 DEF Offline, Typed, TypeOK
    <2>2. QED
        BY <1>2, <1>6, <1>7, <2>1 DEF Offline, InWorld, Same
<1>19. Presence'
    <2>1. ASSUME NEW h \in Guids \ contended', InMemory(h)'
          PROVE  h \in accessor'
        BY <1>5, <1>6, <1>9, <1>12, <2>1 DEF Presence
    <2>2. ASSUME NEW h \in Guids \ contended', NEW b \in Accounts, Plays(b, h)'
          PROVE  /\ player'[b].version = last'[h]
                 /\ \A d \in Accounts : ~Strays(d, h)' /\ (Plays(d, h)' => d = b)
        <3>1. CASE b = a
            <4>1. h = g /\ p # None
                BY <1>5, <1>6, <2>2, <3>1 DEF Plays, InWorld
            <4>2. g \notin contended /\ ~InMemory(g)
                BY <1>12, <1>13, <2>2, <4>1
            <4>3. \A d \in Accounts : ~Strays(d, g) /\ ~Plays(d, g)
                BY <4>2, MemoryOf
            <4>4. \A d \in Accounts : ~Strays(d, g)' /\ (Plays(d, g)' => d = a)
                BY <1>6, <4>3 DEF Strays, Plays, InWorld
            <4>5. \A row \in Result(c) : row.version = last[g]
                BY <1>1, <1>2, <4>2 DEF Loading
            <4>6. player'[a].version = last'[g]
                BY <1>2, <1>5, <1>6, <4>1, <4>5
            <4>7. QED
                BY <3>1, <4>1, <4>4, <4>6
        <3>2. CASE b # a
            <4>1. Plays(b, h) /\ player'[b] = player[b] /\ h \notin contended
                BY <1>6, <1>12, <2>2, <3>2 DEF Plays, InWorld
            <4>2. /\ player[b].version = last[h]
                  /\ \A d \in Accounts : ~Strays(d, h) /\ (Plays(d, h) => d = b)
                BY <2>2, <4>1 DEF Presence
            <4>3. InMemory(h)
                BY <4>1, MemoryOf
            <4>4. ~Plays(a, h)'
                <5>1. Plays(a, h)' => h = g
                    BY <1>5, <1>6 DEF Plays, InWorld
                <5>2. QED
                    BY <1>13, <4>1, <4>3, <5>1
            <4>5. \A d \in Accounts : ~Strays(d, h)'
                <5>1. ~Plays(a, h) /\ ~Strays(a, h)
                    BY <1>3, <3>2, <4>2
                <5>2. ~Strays(a, h)'
                    BY <1>6, <5>1 DEF Strays, Plays, InWorld
                <5>3. QED
                    BY <1>6, <4>2, <5>2 DEF Strays
            <4>6. \A d \in Accounts : Plays(d, h)' => d = b
                BY <1>6, <4>2, <4>4 DEF Plays, InWorld
            <4>7. QED
                BY <1>2, <4>1, <4>2, <4>5, <4>6
        <3>3. QED
            BY <3>1, <3>2
    <2>3. QED
        BY <2>1, <2>2 DEF Presence
<1>20. Loading' /\ Renaming' /\ Saved'
    <2>1. \A d \in Callbacks : stage'[d] = "login" => Same(d)
        BY <1>7
    <2>2. QED
        BY <1>2, <1>9, <1>10, <1>11, <1>17, <2>1, LoginsKept
<1>21. ASSUME NEW h \in Guids \ contended', NEW n \in Names, Named(h, n)
       PROVE  Named(h, n)'
    <2>1. NameToCome(h, n)'
        BY <1>2, <1>11, <1>21, NameKept DEF Named
    <2>2. NameInMemory(h, n)'
        <3>1. \A b \in Accounts : \A q \in Players(b) : q.guid = h => q.name = n
            BY <1>21 DEF Named, NameInMemory
        <3>2. \A d \in Callbacks : Answered(d, "login") /\ request[d].guid = h =>
                \A row \in Result(d) : row.name = n
            BY <1>21 DEF Named, NameInMemory
        <3>3. p # None /\ h = g => p.name = n
            BY <1>1, <1>2, <1>5, <3>2 DEF Answered
        <3>4. \A b \in Accounts : \A q \in Players(b)' : q.guid = h => q.name = n
            BY <1>5, <1>8, <3>1, <3>3
        <3>5. \A d \in Callbacks : Answered(d, "login")' /\ request'[d].guid = h =>
                \A row \in Result(d)' : row.name = n
            BY <1>7, <3>2 DEF Answered, Same, Result
        <3>6. QED
            BY <3>4, <3>5 DEF NameInMemory
    <2>3. QED
        BY <2>1, <2>2 DEF Named
<1>22. Committed'
    BY <1>2, <1>10, <1>11, <1>15, <1>21, CommittedKept
<1>23. Current'
    BY <1>2, <1>11, <1>21, CurrentKept
<1>24. Counted'
    <2>1. \A b \in Accounts : Passed(b)' \subseteq Passed(b)
        BY <1>7 DEF Passed, Answered, Result, Same
    <2>2. QED
        BY <1>2, <1>11, <2>1, CountedKept
<1>25. QED
    BY <1>12, <1>15, <1>16, <1>17, <1>18, <1>19, <1>20, <1>22, <1>23, <1>24

-----------------------------------------------------------------------------
(* The worker.                                                             *)

\* What executing an operation writes: an insertion fails or makes the row, a deletion
\* removes it, and the others change a row that is there and leave it to its account.
LEMMA WrittenRows ==
    ASSUME ConstantsAssumption, NoneAssumption, Typed, NEW i \in DOMAIN queue,
           NEW result \in Answers(queue[i]), db' = Written(queue[i], result)
    PROVE  /\ db' \in [Guids -> Row \union {None}]
           /\ \A g \in Guids : g # queue[i].guid => db'[g] = db[g]
           /\ \A g \in Guids : ~Changes(i, g) /\ ~Inserts(i, g) => db'[g] = db[g]
           /\ \A g \in Guids : Deletes(i, g) => db'[g] = None
           /\ \A g \in Guids : Inserts(i, g) =>
                 \/ result = {} /\ db'[g] = db[g]
                 \/ /\ result = {g} /\ db'[g] # None
                    /\ db'[g] = [account |-> queue[i].account, name |-> queue[i].name,
                                 version |-> 0]
           /\ \A g \in Guids : SetsName(i, g) =>
                 \/ db[g] = None /\ db'[g] = None
                 \/ /\ db[g] # None /\ db'[g] # None
                    /\ db'[g].account = db[g].account /\ db'[g].name = queue[i].name
                    /\ db'[g].version = IF Saves(i, g) THEN queue[i].version ELSE db[g].version
<1> DEFINE op == queue[i]
<1>1. /\ db \in [Guids -> Row \union {None}]
      /\ op.kind \in {"insert", "setName", "delete", "load", "save"} => op.guid \in Guids
      /\ op.kind \in {"insert", "setName", "save"} => op.name \in Names
      /\ op.account \in Accounts /\ op.version \in 0..MaxVersion
    BY QueuedOperations DEF Typed, TypeOK, Operation
<1> HIDE DEF op
<1>2. \A g : /\ Inserts(i, g) <=> op.kind = "insert" /\ op.guid = g
             /\ Saves(i, g) <=> op.kind = "save" /\ op.guid = g
             /\ Deletes(i, g) <=> op.kind = "delete" /\ op.guid = g
             /\ SetsName(i, g) <=> op.kind \in {"setName", "save"} /\ op.guid = g
             /\ Changes(i, g) <=> op.kind \in {"setName", "save", "delete"} /\ op.guid = g
    BY DEF op, Inserts, Saves, Deletes, SetsName, Changes
<1>3. result \in Answers(op) /\ db' = Written(op, result)
    BY DEF op
<1>4. CASE op.kind = "insert"
    <2>1. result = {} \/ result = {op.guid}
        BY <1>3, <1>4 DEF Answers
    <2>2. CASE result = {}
        <3>1. db' = db
            BY <1>3, <1>4, <2>2 DEF Written
        <3>2. QED
            BY <3>1, <2>2, <1>1, <1>2, <1>4 DEF op
    <2>3. CASE result = {op.guid}
        <3>1. db' = [db EXCEPT ![op.guid] =
                        [account |-> op.account, name |-> op.name, version |-> 0]]
            BY <1>3, <1>4, <2>3 DEF Written
        <3>2. [account |-> op.account, name |-> op.name, version |-> 0] \in Row
            BY <1>1, <1>4 DEF Row, ConstantsAssumption
        <3>3. /\ db' \in [Guids -> Row \union {None}]
              /\ db'[op.guid] = [account |-> op.account, name |-> op.name, version |-> 0]
              /\ db'[op.guid] # None
              /\ \A g \in Guids : g # op.guid => db'[g] = db[g]
            BY <3>1, <3>2, <1>1, <1>4 DEF NoneAssumption
        <3>4. QED
            BY <3>3, <2>3, <1>2, <1>4 DEF op
    <2>4. QED
        BY <2>1, <2>2, <2>3
<1>5. CASE op.kind = "delete"
    <2>1. db' = [db EXCEPT ![op.guid] = None]
        BY <1>3, <1>5 DEF Written
    <2>2. /\ db' \in [Guids -> Row \union {None}]
          /\ db'[op.guid] = None
          /\ \A g \in Guids : g # op.guid => db'[g] = db[g]
        BY <2>1, <1>1, <1>5
    <2>3. QED
        BY <2>2, <1>2, <1>5 DEF op
<1>6. CASE op.kind \in {"setName", "save"} /\ db[op.guid] # None
    <2>1. /\ db[op.guid] \in [account : Accounts, name : Names, version : 0..MaxVersion]
          /\ op.guid \in Guids /\ op.name \in Names
        BY <1>1, <1>6 DEF Row
    <2>2. PICK row \in Row : /\ db' = [db EXCEPT ![op.guid] = row]
                             /\ row.account = db[op.guid].account /\ row.name = op.name
                             /\ row.version = IF op.kind = "save" THEN op.version
                                              ELSE db[op.guid].version
        <3>1. CASE op.kind = "setName"
            <4>1. db' = [db EXCEPT ![op.guid].name = op.name]
                BY <3>1, <1>3, <1>6, <2>1 DEF Written, Stored
            <4>2. [db[op.guid] EXCEPT !.name = op.name] \in Row
                BY <2>1 DEF Row
            <4>3. QED
                BY <4>1, <4>2, <3>1, <2>1
        <3>2. CASE op.kind = "save"
            <4>1. db' = [db EXCEPT ![op.guid].name = op.name, ![op.guid].version = op.version]
                BY <3>2, <1>3, <1>6, <2>1 DEF Written, Stored
            <4>2. [db[op.guid] EXCEPT !.name = op.name, !.version = op.version] \in Row
                BY <2>1, <1>1 DEF Row
            <4>3. db' = [db EXCEPT ![op.guid] =
                            [db[op.guid] EXCEPT !.name = op.name, !.version = op.version]]
                BY <4>1, <1>1, <2>1
            <4>4. QED
                BY <4>2, <4>3, <3>2, <2>1
        <3>3. QED
            BY <3>1, <3>2, <1>6
    <2>3. /\ db' \in [Guids -> Row \union {None}]
          /\ db'[op.guid] = row /\ row # None
          /\ \A g \in Guids : g # op.guid => db'[g] = db[g]
        BY <2>1, <2>2, <1>1 DEF NoneAssumption
    <2>4. QED
        BY <2>2, <2>3, <1>2, <1>6 DEF op
<1>7. CASE op.kind \in {"setName", "save"} /\ db[op.guid] = None
    <2>1. db' = db
        BY <1>3, <1>7 DEF Written, Stored
    <2>2. QED
        BY <2>1, <1>1, <1>2, <1>7 DEF op
<1>8. CASE op.kind \notin {"insert", "delete", "setName", "save"}
    <2>1. db' = db
        BY <1>3, <1>8 DEF Written
    <2>2. QED
        BY <2>1, <1>1, <1>2, <1>8 DEF op
<1>9. QED
    BY <1>4, <1>5, <1>6, <1>7, <1>8

\* What a query answers.
LEMMA QueryAnswers ==
    ASSUME Typed, NEW i \in DOMAIN queue, NEW result \in Answers(queue[i])
    PROVE  /\ result \subseteq IF queue[i].kind = "load" THEN Row ELSE Guids
           /\ queue[i].kind = "load" => \A row \in result : row = db[queue[i].guid] /\ row # None
           /\ queue[i].kind = "sumChars" => result = Of(queue[i].account)
           /\ queue[i].kind = "freeName" /\ result # {} =>
                 Owns(queue[i].account, queue[i].guid)
<1> DEFINE op == queue[i]
<1>1. /\ db \in [Guids -> Row \union {None}]
      /\ op.kind \in {"insert", "load"} => op.guid \in Guids
      /\ op.kind \in {"enum", "checkName", "sumChars", "createInfo", "insert", "freeName",
                      "setName", "delete", "load", "save"}
    BY QueuedOperations DEF Typed, TypeOK
<1>2. result \in Answers(op)
    OBVIOUS
<1> HIDE DEF op
<1>3. CASE op.kind = "load"
    BY <1>1, <1>2, <1>3 DEF Answers, op
<1>4. CASE op.kind = "sumChars"
    BY <1>2, <1>4 DEF Answers, SumChars, Of, Stored, op
<1>5. CASE op.kind = "freeName"
    BY <1>2, <1>5 DEF Answers, Of, Stored, Owns, op
<1>6. CASE op.kind \notin {"load", "sumChars", "freeName"}
    BY <1>1, <1>2, <1>6 DEF Answers, Of, Stored, op
<1>7. QED
    BY <1>3, <1>4, <1>5, <1>6

\* With one worker the operation that is executed is the oldest one.
LEMMA OldestFirst ==
    ASSUME Workers = 1, Typed, NEW k \in Claimed, queue' = RemoveAt(queue, k)
    PROVE  /\ k = 1 /\ 1 \in DOMAIN queue
           /\ queue' \in Seq(Operation)
           /\ \A i \in DOMAIN queue : i \in Nat /\ i >= 1
           /\ \A i \in DOMAIN queue' :
                 /\ i \in Nat /\ i + 1 \in DOMAIN queue /\ i + 1 # 1
                 /\ queue'[i] = queue[i + 1]
           /\ \A i \in DOMAIN queue : i # 1 => i - 1 \in DOMAIN queue'
           /\ \A g : \A i \in DOMAIN queue' :
                 /\ Inserts(i, g)' <=> Inserts(i + 1, g)
                 /\ Saves(i, g)' <=> Saves(i + 1, g)
                 /\ Deletes(i, g)' <=> Deletes(i + 1, g)
                 /\ SetsName(i, g)' <=> SetsName(i + 1, g)
                 /\ Changes(i, g)' <=> Changes(i + 1, g)
<1>1. queue \in Seq(Operation)
    BY DEF Typed, TypeOK
<1>2. k = 1 /\ 1 \in DOMAIN queue
    BY <1>1 DEF Claimed
<1>3. /\ queue' \in Seq(Operation)
      /\ Len(queue) \in Nat /\ DOMAIN queue = 1 .. Len(queue)
      /\ DOMAIN queue' = 1 .. Len(queue) - 1
      /\ \A i \in DOMAIN queue' : queue'[i] = queue[i + 1]
    BY <1>1, <1>2, Popped
<1>4. QED
    BY <1>2, <1>3 DEF Inserts, Saves, Deletes, SetsName, Changes

\* A function has no more values than arguments.
LEMMA ImageSize ==
    ASSUME NEW S, IsFiniteSet(S), NEW f, f = [x \in S |-> f[x]]
    PROVE  /\ IsFiniteSet({f[x] : x \in S})
           /\ Cardinality({f[x] : x \in S}) <= Cardinality(S)
<1>1. f \in Surjection(S, {f[x] : x \in S})
    BY DEF Surjection
<1>2. QED
    BY <1>1, FS_Surjection

\* When an account's characters are counted, its insertions that are still queued are
\* awaited by creations that are under way.
LEMMA Inserting ==
    ASSUME ConstantsAssumption, IInv, NEW a \in Accounts, NEW k \in DOMAIN queue,
           queue[k].kind = "sumChars", queue[k].account = a, queue[k].waiter # None,
           \A i \in DOMAIN queue : i # k => k < i,
           NEW P \in SUBSET Creations(a), \A c \in P : stage[c] # "commit"
    PROVE  Cardinality(Heirs(a)) + Cardinality(P) <= Cardinality(Of(a)) + Cardinality(Creations(a))
<1> USE DEF IInv
<1> DEFINE C == {c \in Creations(a) : stage[c] = "commit"}
           f == [c \in C |-> request[c].guid]
           T == {f[c] : c \in C}
<1>1. /\ Creations(a) \in SUBSET Callbacks /\ C \in SUBSET Callbacks
      /\ C \union P \in SUBSET Callbacks
      /\ P \in SUBSET Callbacks /\ Of(a) \in SUBSET Guids /\ Heirs(a) \in SUBSET Guids
    BY DEF Creations, Of, Stored, Heirs
<1>2. /\ \A S \in {C, P, Creations(a), C \union P} : IsFiniteSet(S) /\ Cardinality(S) \in Nat
      /\ IsFiniteSet(Of(a)) /\ Cardinality(Of(a)) \in Nat /\ Cardinality(Heirs(a)) \in Nat
    BY <1>1, Sizes
<1>3. IsFiniteSet(T) /\ Cardinality(T) <= Cardinality(C)
    <2>1. IsFiniteSet(C)
        BY <1>2
    <2>2. f = [c \in C |-> f[c]]
        OBVIOUS
    <2> HIDE DEF C, f
    <2>3. QED
        BY <2>1, <2>2, ImageSize
<1>4. Heirs(a) \subseteq Of(a) \union T
    <2>1. ASSUME NEW i \in DOMAIN queue, NEW g, Inserts(i, g), queue[i].account = a
          PROVE  g \in T
        <3>1. i # k /\ queue[i].kind = "insert" /\ queue[i].guid = g
            BY <2>1 DEF Inserts
        <3>2. queue[i].waiter # None
            BY <2>1, <3>1 DEF Counted
        <3>3. PICK c \in Callbacks : c = queue[i].waiter
            BY <2>1, <3>2, QueuedOperations
        <3>4. stage[c] = "commit" /\ AccountOf[c] = a /\ request[c].guid = g
            BY <2>1, <3>1, <3>2, <3>3 DEF Awaiting, StageOf
        <3>5. c \in C
            BY <3>4 DEF Creations, Creating
        <3>6. QED
            BY <3>4, <3>5
    <2>2. QED
        BY <2>1 DEF Heirs
<1> HIDE DEF T
<1>5. Cardinality(Heirs(a)) <= Cardinality(Of(a)) + Cardinality(C)
    <2>1. /\ IsFiniteSet(Of(a) \union T)
          /\ Cardinality(Of(a) \union T)
                = Cardinality(Of(a)) + Cardinality(T) - Cardinality(Of(a) \intersect T)
        BY <1>2, <1>3, FS_Union
    <2>2. /\ Cardinality(Of(a) \intersect T) \in Nat /\ Cardinality(T) \in Nat
          /\ Cardinality(C) \in Nat /\ Cardinality(Of(a) \union T) \in Nat
        BY <1>2, <1>3, <2>1, FS_Intersection, FS_CardinalityType
    <2>3. Cardinality(Heirs(a)) <= Cardinality(Of(a) \union T)
        BY <1>4, <2>1, FS_Subset
    <2>4. QED
        BY <1>2, <1>3, <2>1, <2>2, <2>3
<1>6. Cardinality(C) + Cardinality(P) <= Cardinality(Creations(a))
    <2>1. C \intersect P = {}
        OBVIOUS
    <2>2. Cardinality(C \union P) = Cardinality(C) + Cardinality(P)
        <3>1. Cardinality(C \union P)
                = Cardinality(C) + Cardinality(P) - Cardinality(C \intersect P)
            BY <1>2, FS_Union
        <3>2. Cardinality(C \intersect P) = 0
            BY <2>1, FS_EmptySet
        <3>3. QED
            BY <1>2, <3>1, <3>2
    <2>3. C \union P \subseteq Creations(a)
        OBVIOUS
    <2>4. Cardinality(C \union P) <= Cardinality(Creations(a))
        BY <1>2, <2>3, FS_Subset
    <2>5. QED
        BY <2>2, <2>4
<1>7. Cardinality(C) \in Nat /\ Cardinality(P) \in Nat /\ Cardinality(Creations(a)) \in Nat
    BY <1>2
<1>8. QED
    BY <1>2, <1>5, <1>6, <1>7

\* Execute: what is known of the operation from the invariant decides which rows change.
LEMMA ExecuteStep ==
    ASSUME ConstantsAssumption, NoneAssumption, Workers = 1, IInv, Remember, overlaps' \in Nat,
           NEW k \in Claimed, Execute(k)
    PROVE  IInv'
<1> USE DEF IInv
<1>1. PICK result \in Answers(queue[k]) :
        /\ db' = Written(queue[k], result)
        /\ answer' = IF queue[k].waiter = None THEN answer
                     ELSE [answer EXCEPT ![queue[k].waiter] = <<result>>]
    BY DEF Execute
<1>2. /\ queue' = RemoveAt(queue, k)
      /\ UNCHANGED <<cache, byName, generated, connected, stage, request, legit, world,
                     player, offline, stray, accessor, last>>
    BY DEF Execute, memory, world
<1>3. /\ k = 1 /\ 1 \in DOMAIN queue
      /\ queue' \in Seq(Operation)
      /\ \A i \in DOMAIN queue : i \in Nat /\ i >= 1
      /\ \A i \in DOMAIN queue' :
            /\ i \in Nat /\ i + 1 \in DOMAIN queue /\ i + 1 # 1
            /\ queue'[i] = queue[i + 1]
      /\ \A i \in DOMAIN queue : i # 1 => i - 1 \in DOMAIN queue'
      /\ \A g : \A i \in DOMAIN queue' :
            /\ Inserts(i, g)' <=> Inserts(i + 1, g)
            /\ Saves(i, g)' <=> Saves(i + 1, g)
            /\ Deletes(i, g)' <=> Deletes(i + 1, g)
            /\ SetsName(i, g)' <=> SetsName(i + 1, g)
            /\ Changes(i, g)' <=> Changes(i + 1, g)
    BY <1>2, OldestFirst
<1>4. PICK op \in Operation : op = queue[1]
    BY <1>3, QueuedOperations
<1>5. PICK a \in Accounts : a = op.account
    BY <1>3, <1>4, QueuedOperations
<1>6. PICK w \in Callbacks \union {None} : w = op.waiter
    BY <1>3, <1>4, QueuedOperations
<1>7. /\ db' \in [Guids -> Row \union {None}]
      /\ \A g \in Guids : ~Changes(1, g) /\ ~Inserts(1, g) => db'[g] = db[g]
      /\ \A g \in Guids : Deletes(1, g) => db'[g] = None
      /\ \A g \in Guids : Inserts(1, g) =>
            \/ result = {} /\ db'[g] = db[g]
            \/ /\ result = {g} /\ db'[g] # None
               /\ db'[g] = [account |-> a, name |-> op.name, version |-> 0]
      /\ \A g \in Guids : SetsName(1, g) =>
            \/ db[g] = None /\ db'[g] = None
            \/ /\ db[g] # None /\ db'[g] # None
               /\ db'[g].account = db[g].account /\ db'[g].name = op.name
               /\ db'[g].version = IF Saves(1, g) THEN op.version ELSE db[g].version
    <2>1. result \in Answers(queue[1]) /\ db' = Written(queue[1], result)
        BY <1>1, <1>3
    <2>2. /\ db' \in [Guids -> Row \union {None}]
          /\ \A g \in Guids : ~Changes(1, g) /\ ~Inserts(1, g) => db'[g] = db[g]
          /\ \A g \in Guids : Deletes(1, g) => db'[g] = None
        BY <1>3, <2>1, WrittenRows
    <2>3. \A g \in Guids : Inserts(1, g) =>
            \/ result = {} /\ db'[g] = db[g]
            \/ /\ result = {g} /\ db'[g] # None
               /\ db'[g] = [account |-> queue[1].account, name |-> queue[1].name, version |-> 0]
        BY <1>3, <2>1, WrittenRows
    <2>4. \A g \in Guids : SetsName(1, g) =>
            \/ db[g] = None /\ db'[g] = None
            \/ /\ db[g] # None /\ db'[g] # None
               /\ db'[g].account = db[g].account /\ db'[g].name = queue[1].name
               /\ db'[g].version = IF Saves(1, g) THEN queue[1].version ELSE db[g].version
        BY <1>3, <2>1, WrittenRows
    <2>5. QED
        BY <2>2, <2>3, <2>4, <1>4, <1>5
<1>8. /\ result \subseteq IF op.kind = "load" THEN Row ELSE Guids
      /\ op.kind = "load" => \A row \in result : row = db[op.guid] /\ row # None
      /\ op.kind = "sumChars" => result = Of(a)
      /\ op.kind = "freeName" /\ result # {} => Owns(a, op.guid)
      /\ op.kind \in {"enum", "checkName", "sumChars", "createInfo", "insert", "freeName",
                      "setName", "delete", "load", "save"}
    BY <1>1, <1>3, <1>4, <1>5, QueryAnswers, QueuedOperations
<1>9. /\ \A g : Inserts(1, g) <=> op.kind = "insert" /\ op.guid = g
      /\ \A g : Deletes(1, g) <=> op.kind = "delete" /\ op.guid = g
      /\ \A g : Saves(1, g) <=> op.kind = "save" /\ op.guid = g
      /\ \A g : SetsName(1, g) <=> op.kind \in {"setName", "save"} /\ op.guid = g
      /\ \A g : Changes(1, g) <=> Deletes(1, g) \/ SetsName(1, g)
    BY <1>4 DEF Inserts, Deletes, Saves, SetsName, Changes
<1>10. DOMAIN answer = Callbacks /\ None \notin Callbacks
    BY DEF Typed, TypeOK, ConstantsAssumption
<1>11. /\ DOMAIN answer' = Callbacks
       /\ \A c \in Callbacks : c # w => answer'[c] = answer[c] /\ Result(c)' = Result(c)
       /\ w # None => answer'[w] # << >> /\ Result(w)' = result
    BY <1>1, <1>3, <1>4, <1>6, <1>10 DEF Result
<1>12. w # None =>
        /\ w \in Callbacks /\ stage[w] = StageOf(op.kind) /\ answer[w] = << >>
        /\ AccountOf[w] = a
        /\ op.kind \in {"insert", "freeName", "load"} => op.guid = request[w].guid
        /\ op.kind = "insert" => op.name = request[w].name
        /\ \A i \in DOMAIN queue : i # 1 => queue[i].waiter # w
    BY <1>3, <1>4, <1>5, <1>6 DEF Awaiting
\* The stage tells what has been answered.
<1>13. ASSUME NEW c \in Callbacks, answer'[c] # << >>
       PROVE  \/ answer[c] # << >> /\ Result(c)' = Result(c)
              \/ c = w /\ w # None /\ Result(c)' = result /\ stage[c] = StageOf(op.kind)
    BY <1>10, <1>11, <1>12, <1>13
<1>14. /\ \A g : InMemory(g)' <=> InMemory(g)
       /\ \A b, g : (Plays(b, g)' <=> Plays(b, g)) /\ (Strays(b, g)' <=> Strays(b, g))
       /\ \A b : Players(b)' = Players(b) /\ (InWorld(b)' <=> InWorld(b))
    BY <1>2, WorldStays
<1>15. contended \subseteq contended' /\ contended' \subseteq Guids /\ Recorded'
    BY Recording
<1>16. \A g : Unborn(g)' => Unborn(g) /\ ~Inserts(1, g)
    <2>1. ASSUME NEW g, Unborn(g)'
          PROVE  Unborn(g) /\ ~Inserts(1, g)
        <3>1. CASE g \notin generated
            BY <3>1, <1>3 DEF Unborn, Births, Inserts
        <3>2. CASE g \in generated
            <4>1. PICK i \in DOMAIN queue' : Inserts(i, g)'
                BY <2>1, <3>2, <1>2 DEF Unborn
            <4>2. i + 1 \in DOMAIN queue /\ Inserts(i + 1, g) /\ i + 1 # 1
                BY <4>1, <1>3
            <4>3. QED
                BY <4>2, <1>3 DEF Unborn, Births, Inserts
        <3>3. QED
            BY <3>1, <3>2
    <2>2. QED
        BY <2>1
\* A row that is there is nobody's insertion, and stays its owner's unless it is deleted.
<1>17. \A g \in Guids : db[g] # None => ~Unborn(g) /\ ~Inserts(1, g)
    BY <1>3 DEF Births, Unborn
<1>18. /\ \A b : \A g \in Guids : Owns(b, g) /\ ~Deletes(1, g) => Owns(b, g)'
       /\ \A b : \A g \in Guids : Owns(b, g)' =>
             Owns(b, g) \/ (b = a /\ Inserts(1, g) /\ result = {g})
    <2>1. ASSUME NEW g \in Guids
          PROVE  \/ Inserts(1, g) \/ Deletes(1, g) \/ SetsName(1, g) \/ db'[g] = db[g]
        BY <1>7, <1>9
    <2>2. ASSUME NEW g \in Guids, db[g] # None, ~Deletes(1, g)
          PROVE  db'[g] # None /\ db'[g].account = db[g].account
        BY <2>1, <2>2, <1>7, <1>17
    <2>3. ASSUME NEW g \in Guids, db'[g] # None
          PROVE  \/ db[g] # None /\ db'[g].account = db[g].account
                 \/ db'[g].account = a /\ Inserts(1, g) /\ result = {g}
        <3>1. CASE Inserts(1, g)
            BY <3>1, <2>3, <1>7
        <3>2. CASE ~Inserts(1, g)
            BY <3>2, <2>1, <2>2, <2>3, <1>7
        <3>3. QED
            BY <3>1, <3>2
    <2>4. QED
        BY <2>2, <2>3 DEF Owns
<1>19. Typed'
    <2>1. DOMAIN answer' = Callbacks /\ TypeOK'
        BY <1>2, <1>3, <1>7, <1>11, Recording DEF Typed, TypeOK
    <2>2. \A i \in DOMAIN queue' :
            /\ queue'[i].kind \in {"insert", "setName", "delete", "load", "save"} =>
                  queue'[i].guid \in Guids
            /\ queue'[i].kind \in {"insert", "setName", "save"} => queue'[i].name \in Names
        BY <1>3 DEF Typed
    <2>3. ASSUME NEW c \in Callbacks, answer'[c] # << >>
          PROVE  Result(c)' \subseteq IF stage[c] = "login" THEN Row ELSE Guids
        <3>1. CASE answer[c] # << >> /\ Result(c)' = Result(c)
            BY <3>1 DEF Typed
        <3>2. CASE Result(c)' = result /\ stage[c] = StageOf(op.kind)
            BY <3>2, <1>8 DEF StageOf
        <3>3. QED
            BY <2>3, <3>1, <3>2, <1>13
    <2>4. QED
        BY <2>1, <2>2, <2>3, <1>2 DEF Typed
<1>20. Awaiting'
    <2>1. ASSUME NEW i \in DOMAIN queue', queue'[i].waiter # None
          PROVE  LET c == queue'[i].waiter
                 IN /\ answer'[c] = << >>
                    /\ queue'[i].kind \notin {"setName", "delete", "save"}
                    /\ stage'[c] = StageOf(queue'[i].kind)
                    /\ queue'[i].account = AccountOf[c]
                    /\ queue'[i].kind \in {"insert", "freeName", "load"} =>
                          queue'[i].guid = request'[c].guid
                    /\ queue'[i].kind = "insert" => queue'[i].name = request'[c].name
        <3>1. /\ i + 1 \in DOMAIN queue /\ queue'[i] = queue[i + 1] /\ i + 1 # 1
            BY <2>1, <1>3
        <3>2. PICK c \in Callbacks : c = queue[i + 1].waiter
            BY <2>1, <3>1, QueuedOperations
        <3>3. c # w
            BY <1>10, <1>12, <3>1, <3>2
        <3>4. answer'[c] = answer[c]
            BY <1>11, <3>3
        <3>5. QED
            BY <1>2, <2>1, <3>1, <3>2, <3>4 DEF Awaiting
    <2>2. ASSUME NEW c \in Callbacks, answer'[c] # << >>
          PROVE  stage[c] \in Waiting \ {"sumRealm"}
        <3>1. CASE answer[c] # << >>
            BY <3>1 DEF Awaiting
        <3>2. CASE w # None /\ c = w /\ stage[c] = StageOf(op.kind)
            <4>1. op.kind \notin {"setName", "delete", "save"}
                BY <1>3, <1>4, <1>6, <3>2 DEF Awaiting
            <4>2. QED
                BY <3>2, <4>1, <1>8 DEF StageOf, Waiting, Creating
        <3>3. QED
            BY <2>2, <3>1, <3>2, <1>13
    <2>3. \A i, j \in DOMAIN queue' :
             queue'[i].waiter # None /\ queue'[i].waiter = queue'[j].waiter => i = j
        <3>1. ASSUME NEW i \in DOMAIN queue', NEW j \in DOMAIN queue',
                     queue'[i].waiter # None, queue'[i].waiter = queue'[j].waiter
              PROVE  i = j
            <4>1. /\ i + 1 \in DOMAIN queue /\ queue'[i] = queue[i + 1]
                  /\ j + 1 \in DOMAIN queue /\ queue'[j] = queue[j + 1]
                BY <3>1, <1>3
            <4>2. PICK h \in DOMAIN queue, l \in DOMAIN queue : h = i + 1 /\ l = j + 1
                BY <4>1
            <4>3. h = l
                BY <3>1, <4>1, <4>2 DEF Awaiting
            <4> HIDE DEF IInv
            <4>4. QED
                BY <4>2, <4>3, <1>3
        <3>2. QED
            BY <3>1
    <2>4. \A c \in Callbacks : answer'[c] # << >> => stage'[c] \in Waiting \ {"sumRealm"}
        BY <1>2, <2>2
    <2> HIDE DEF IInv
    <2>5. QED
        BY <2>1, <2>3, <2>4 DEF Awaiting
<1>21. Births'
    <2>1. ASSUME NEW g \in Guids, Unborn(g)'
          PROVE  /\ db'[g] = None /\ cache'[g] = None /\ last'[g] = 0 /\ ~InMemory(g)'
                 /\ \A i \in DOMAIN queue' : ~Changes(i, g)'
                 /\ \A c \in Callbacks : Answered(c, "login")' /\ request'[c].guid = g =>
                       Result(c)' = {}
        <3>1. /\ ~Inserts(1, g) /\ db[g] = None /\ cache[g] = None /\ last[g] = 0
              /\ ~InMemory(g) /\ \A i \in DOMAIN queue : ~Changes(i, g)
              /\ \A c \in Callbacks : Answered(c, "login") /\ request[c].guid = g =>
                    Result(c) = {}
            BY <2>1, <1>16 DEF Births
        <3> HIDE DEF IInv
        <3>2. db'[g] = db[g]
            BY <3>1, <1>3, <1>7
        <3>3. \A i \in DOMAIN queue' : ~Changes(i, g)'
            BY <3>1, <1>3
        <3>4. ASSUME NEW c \in Callbacks, stage[c] = "login", answer'[c] # << >>,
                     request[c].guid = g
              PROVE  Result(c)' = {}
            <4>1. CASE answer[c] # << >> /\ Result(c)' = Result(c)
                BY <3>1, <3>4, <4>1 DEF Answered
            <4>2. CASE c = w /\ w # None /\ Result(c)' = result /\ stage[c] = StageOf(op.kind)
                <5>1. op.kind = "load"
                    BY <1>8, <3>4, <4>2 DEF StageOf
                <5>2. \A row \in result : row = db[g] /\ row # None
                    BY <1>8, <1>12, <3>4, <4>2, <5>1
                <5>3. result = {}
                    BY <3>1, <5>2
                <5>4. QED
                    BY <4>2, <5>3
            <4>3. QED
                BY <1>13, <3>4, <4>1, <4>2
        <3>5. \A c \in Callbacks : Answered(c, "login")' /\ request'[c].guid = g =>
                Result(c)' = {}
            BY <1>2, <3>4 DEF Answered
        <3>6. QED
            BY <3>1, <3>2, <3>3, <3>5, <1>2, <1>14
    <2>2. \A i \in DOMAIN queue' : queue'[i].kind = "insert" => queue'[i].guid \in generated
        BY <1>3 DEF Births
    <2>3. \A i, j \in DOMAIN queue' :
             queue'[i].kind = "insert" /\ queue'[j].kind = "insert"
             /\ queue'[i].guid = queue'[j].guid => i = j
        <3>1. ASSUME NEW i \in DOMAIN queue', NEW j \in DOMAIN queue',
                     queue'[i].kind = "insert", queue'[j].kind = "insert",
                     queue'[i].guid = queue'[j].guid
              PROVE  i = j
            <4>1. /\ i + 1 \in DOMAIN queue /\ queue'[i] = queue[i + 1]
                  /\ j + 1 \in DOMAIN queue /\ queue'[j] = queue[j + 1]
                BY <3>1, <1>3
            <4>2. PICK h \in DOMAIN queue, l \in DOMAIN queue : h = i + 1 /\ l = j + 1
                BY <4>1
            <4>3. h = l
                BY <3>1, <4>1, <4>2 DEF Births
            <4> HIDE DEF IInv
            <4>4. QED
                BY <4>2, <4>3, <1>3
        <3>2. QED
            BY <3>1
    <2>4. /\ \A c \in Callbacks : stage'[c] = "commit" => request'[c].guid \in generated'
          /\ \A c, d \in Callbacks : stage'[c] = "commit" /\ stage'[d] = "commit"
                /\ request'[c].guid = request'[d].guid => c = d
        BY <1>2 DEF Births
    <2> HIDE DEF IInv
    <2>5. QED
        BY <2>1, <2>2, <2>3, <2>4, <1>2 DEF Births
<1>22. Offline'
    BY <1>2, <1>14 DEF Offline
<1>23. Presence'
    BY <1>2, <1>14, <1>15 DEF Presence
\* Behind a load that is being executed nothing will change the character's row.
<1>24. ASSUME NEW c \in Callbacks, c = w, op.kind = "load", stage[c] = "login",
              NEW g \in Guids \ contended, request[c].guid = g
       PROVE  \A i \in DOMAIN queue : ~SetsName(i, g) /\ ~Saves(i, g)
    <2>1. queue[1].waiter = c
        BY <1>4, <1>6, <1>24
    <2>2. \A i \in DOMAIN queue : 1 < i => ~SetsName(i, g)
        <3>1. Loading
            OBVIOUS
        <3> HIDE DEF IInv
        <3>2. \A i, j \in DOMAIN queue : queue[i].waiter = c /\ i < j => ~SetsName(j, g)
            BY <1>24, <3>1 DEF Loading
        <3>3. QED
            BY <1>3, <2>1, <3>2
    <2>3. ~SetsName(1, g)
        BY <1>9, <1>24
    <2>4. QED
        BY <1>3, <2>2, <2>3 DEF SetsName, Saves
<1>25. Loading'
    <2>1. ASSUME NEW c \in Callbacks, stage[c] = "login", NEW g \in Guids \ contended,
                 request[c].guid = g, answer'[c] # << >>, NEW row \in Result(c)'
          PROVE  row.version = last[g]
        <3>1. CASE answer[c] # << >> /\ Result(c)' = Result(c)
            BY <2>1, <3>1 DEF Loading
        <3>2. CASE c = w /\ w # None /\ Result(c)' = result /\ stage[c] = StageOf(op.kind)
            <4>1. op.kind = "load" /\ op.guid = g
                BY <2>1, <3>2, <1>8, <1>12 DEF StageOf
            <4>2. row = db[g] /\ row # None
                BY <2>1, <3>2, <4>1, <1>8
            <4>3. \A i \in DOMAIN queue : ~Saves(i, g)
                BY <1>24, <2>1, <3>2, <4>1
            <4>4. ~InMemory(g)
                BY <2>1 DEF Recorded, Contended, Asking
            <4>5. QED
                BY <2>1, <4>2, <4>3, <4>4 DEF Saved, VersionToCome
        <3>3. QED
            BY <2>1, <3>1, <3>2, <1>13
    <2>2. ASSUME NEW c \in Callbacks, stage[c] = "login", NEW g \in Guids \ contended,
                 request[c].guid = g,
                 NEW i \in DOMAIN queue', NEW j \in DOMAIN queue',
                 queue'[i].waiter = c, i < j
          PROVE  ~SetsName(j, g)'
        <3>1. /\ i + 1 \in DOMAIN queue /\ j + 1 \in DOMAIN queue /\ i + 1 < j + 1
              /\ queue[i + 1].waiter = c
            BY <2>2, <1>3
        <3>2. ~SetsName(j + 1, g)
            BY <2>2, <3>1 DEF Loading
        <3>3. QED
            BY <1>3, <3>2
    <2>3. \A c \in Callbacks : stage[c] = "login" => request[c].guid \in Guids
        BY DEF Typed
    <2>4. ASSUME NEW c \in Callbacks, stage'[c] = "login", request'[c].guid \notin contended'
          PROVE  /\ answer'[c] # << >> =>
                       \A row \in Result(c)' : row.version = last'[request'[c].guid]
                 /\ \A i, j \in DOMAIN queue' :
                       queue'[i].waiter = c /\ i < j => ~SetsName(j, request[c].guid)'
        <3>1. PICK g \in Guids \ contended : g = request[c].guid /\ g = request'[c].guid
            BY <1>2, <1>15, <2>3, <2>4
        <3> HIDE DEF IInv
        <3>2. stage[c] = "login"
            BY <1>2, <2>4
        <3>3. answer'[c] # << >> => \A row \in Result(c)' : row.version = last'[g]
            BY <1>2, <2>1, <3>1, <3>2
        <3>4. \A i, j \in DOMAIN queue' : queue'[i].waiter = c /\ i < j => ~SetsName(j, g)'
            BY <2>2, <3>1, <3>2
        <3>5. QED
            BY <3>1, <3>3, <3>4
    <2> HIDE DEF IInv
    <2>5. QED
        BY <2>4 DEF Loading
<1>26. Renaming'
    <2>1. ASSUME NEW c \in Callbacks, stage[c] = "rename", answer'[c] # << >>, Result(c)' # {}
          PROVE  ~Unborn(request[c].guid)
        <3>1. CASE answer[c] # << >> /\ Result(c)' = Result(c)
            BY <2>1, <3>1 DEF Renaming, Answered
        <3>2. CASE c = w /\ w # None /\ Result(c)' = result /\ stage[c] = StageOf(op.kind)
            <4>1. op.kind = "freeName" /\ op.guid = request[c].guid /\ result # {}
                BY <2>1, <3>2, <1>8, <1>12 DEF StageOf
            <4>2. db[op.guid] # None /\ op.guid \in Guids
                BY <2>1, <4>1, <1>8 DEF Owns, Typed
            <4>3. QED
                BY <1>17, <4>1, <4>2
        <3>3. QED
            BY <2>1, <3>1, <3>2, <1>13
    <2>2. QED
        BY <2>1, <1>2, <1>16 DEF Renaming, Answered
<1>27. Saved'
    <2>1. ASSUME NEW g \in Guids \ contended', db'[g] # None, ~InMemory(g)
          PROVE  VersionToCome(g)'
        <3>1. CASE Inserts(1, g)
            <4>1. Unborn(g) /\ \A i \in DOMAIN queue : ~Saves(i, g)
                BY <3>1, <1>3 DEF Unborn, Births, Changes, Saves
            <4>2. db[g] = None /\ last[g] = 0
                BY <4>1 DEF Births
            <4>3. db'[g].version = last[g]
                BY <3>1, <4>2, <2>1, <1>7
            <4>4. QED
                BY <4>1, <4>3, <1>2, <1>3 DEF VersionToCome
        <3>2. CASE ~Inserts(1, g)
            <4>1. ~Deletes(1, g)
                BY <2>1, <1>7
            <4>2. db[g] # None
                BY <2>1, <3>2, <4>1, <1>7, <1>9
            <4>3. VersionToCome(g)
                BY <2>1, <4>2, <1>15 DEF Saved
            <4>4. ~Saves(1, g) => db'[g].version = db[g].version
                BY <3>2, <4>1, <4>2, <1>7, <1>9
            <4>5. CASE db[g].version = last[g] /\ \A i \in DOMAIN queue : ~Saves(i, g)
                BY <4>4, <4>5, <1>2, <1>3 DEF VersionToCome
            <4>6. ASSUME NEW i \in DOMAIN queue, Saves(i, g), queue[i].version = last[g],
                         \A j \in DOMAIN queue : Saves(j, g) => j <= i
                  PROVE  VersionToCome(g)'
                <5>1. CASE i = 1
                    <6>1. SetsName(1, g) /\ op.version = last[g]
                        BY <5>1, <4>6, <1>4 DEF Saves, SetsName
                    <6>2. db'[g].version = last[g]
                        BY <6>1, <5>1, <4>2, <4>6, <1>7
                    <6>3. \A j \in DOMAIN queue' : ~Saves(j, g)'
                        BY <5>1, <4>6, <1>3
                    <6>4. QED
                        BY <6>2, <6>3, <1>2 DEF VersionToCome
                <5>2. CASE i # 1
                    <6>1. PICK h \in DOMAIN queue' : h = i - 1 /\ h + 1 = i
                        BY <5>2, <1>3
                    <6>2. Saves(h, g)' /\ queue'[h].version = last[g]
                        BY <6>1, <4>6, <1>3
                    <6>3. \A j \in DOMAIN queue' : Saves(j, g)' => j <= h
                        BY <6>1, <4>6, <1>3
                    <6>4. QED
                        BY <6>2, <6>3, <1>2 DEF VersionToCome
                <5>3. QED
                    BY <5>1, <5>2
            <4>7. QED
                BY <4>3, <4>5, <4>6 DEF VersionToCome
        <3>3. QED
            BY <3>1, <3>2
    <2>2. QED
        BY <2>1, <1>14 DEF Saved
\* A row that is neither deleted nor loaded too early keeps the name that it will have.
<1>28. ASSUME NEW g \in Guids \ contended', NEW n, Named(g, n), db[g] # None, ~Deletes(1, g)
       PROVE  Named(g, n)'
    <2>1. ~Inserts(1, g) /\ g \notin contended
        BY <1>15, <1>17, <1>28
    <2>2. NameToCome(g, n) /\ NameInMemory(g, n)
        BY <1>28 DEF Named
    <2>3. ~SetsName(1, g) => db'[g].name = db[g].name
        BY <2>1, <1>7, <1>9, <1>28
    <2>4. ASSUME db[g].name = n, \A i \in DOMAIN queue : ~SetsName(i, g)
          PROVE  NameToCome(g, n)'
        <3>1. \A i \in DOMAIN queue' : ~SetsName(i, g)'
            BY <2>4, <1>3
        <3>2. db'[g].name = n
            BY <2>3, <2>4, <1>3
        <3>3. QED
            BY <3>1, <3>2 DEF NameToCome
    <2>5. ASSUME NEW i \in DOMAIN queue, SetsName(i, g), queue[i].name = n,
                 \A j \in DOMAIN queue : SetsName(j, g) => j <= i
          PROVE  NameToCome(g, n)'
        <3>1. CASE i = 1
            <4>1. SetsName(1, g) /\ op.name = n
                BY <3>1, <2>5, <1>4
            <4>2. db'[g].name = n
                BY <4>1, <1>28, <1>7
            <4>3. \A j \in DOMAIN queue' : ~SetsName(j, g)'
                BY <3>1, <2>5, <1>3
            <4>4. QED
                BY <4>2, <4>3 DEF NameToCome
        <3>2. CASE i # 1
            <4>1. PICK h \in DOMAIN queue' : h = i - 1 /\ h + 1 = i
                BY <3>2, <1>3
            <4>2. SetsName(h, g)' /\ queue'[h].name = n
                BY <4>1, <2>5, <1>3
            <4>3. \A j \in DOMAIN queue' : SetsName(j, g)' => j <= h
                BY <4>1, <2>5, <1>3
            <4>4. QED
                BY <4>2, <4>3 DEF NameToCome
        <3>3. QED
            BY <3>1, <3>2
    <2>6. NameToCome(g, n)'
        BY <2>2, <2>4, <2>5 DEF NameToCome
    <2>7. ASSUME NEW c \in Callbacks, stage[c] = "login", request[c].guid = g,
                 answer'[c] # << >>, NEW row \in Result(c)'
          PROVE  row.name = n
        <3>1. CASE answer[c] # << >> /\ Result(c)' = Result(c)
            BY <2>2, <2>7, <3>1 DEF NameInMemory, Answered
        <3>2. CASE c = w /\ w # None /\ Result(c)' = result /\ stage[c] = StageOf(op.kind)
            <4>1. op.kind = "load" /\ op.guid = g
                BY <2>7, <3>2, <1>8, <1>12 DEF StageOf
            <4>2. row = db[g]
                BY <2>7, <3>2, <4>1, <1>8
            <4>3. \A i \in DOMAIN queue : ~SetsName(i, g)
                BY <1>24, <2>1, <2>7, <3>2, <4>1
            <4>4. QED
                BY <2>2, <4>2, <4>3 DEF NameToCome
        <3>3. QED
            BY <2>7, <3>1, <3>2, <1>13
    <2>8. NameInMemory(g, n)'
        <3>1. \A b \in Accounts : \A p \in Players(b)' : p.guid = g => p.name = n
            BY <1>14, <2>2 DEF NameInMemory
        <3>2. \A c \in Callbacks : Answered(c, "login")' /\ request'[c].guid = g =>
                \A row \in Result(c)' : row.name = n
            BY <1>2, <2>7 DEF Answered
        <3>3. QED
            BY <3>1, <3>2 DEF NameInMemory
    <2>9. QED
        BY <2>6, <2>8 DEF Named
<1>29. Committed'
    <2>1. ASSUME NEW c \in Callbacks, stage[c] = "commit", answer'[c] # << >>, Result(c)' # {},
                 NEW g \in Guids, g = request[c].guid, NEW n \in Names, n = request[c].name
          PROVE  /\ Owns(AccountOf[c], g)' /\ cache[g] = None
                 /\ \A i \in DOMAIN queue : ~Deletes(i, g)
                 /\ g \notin contended' => Named(g, n)'
        <3>1. CASE answer[c] # << >> /\ Result(c)' = Result(c)
            <4>1. /\ Owns(AccountOf[c], g) /\ cache[g] = None
                  /\ \A i \in DOMAIN queue : ~Deletes(i, g)
                  /\ g \notin contended => Named(g, n)
                BY <2>1, <3>1 DEF Committed, Answered
            <4>2. ~Deletes(1, g) /\ db[g] # None
                BY <4>1, <1>3 DEF Owns
            <4>3. Owns(AccountOf[c], g)'
                BY <4>1, <4>2, <1>18
            <4>4. g \notin contended' => Named(g, n)'
                BY <4>1, <4>2, <1>15, <1>28
            <4>5. QED
                BY <4>1, <4>3, <4>4
        <3>2. CASE c = w /\ w # None /\ Result(c)' = result /\ stage[c] = StageOf(op.kind)
            <4>1. /\ op.kind = "insert" /\ op.guid = g /\ op.name = n /\ AccountOf[c] = a
                  /\ result # {}
                BY <2>1, <3>2, <1>8, <1>12 DEF StageOf
            <4>2. Inserts(1, g) /\ Unborn(g)
                BY <4>1, <1>3, <1>9 DEF Unborn
            <4>3. /\ cache[g] = None /\ ~InMemory(g)
                  /\ \A i \in DOMAIN queue : ~Changes(i, g)
                  /\ \A d \in Callbacks : Answered(d, "login") /\ request[d].guid = g =>
                        Result(d) = {}
                BY <4>2 DEF Births
            <4>4. /\ db'[g] # None
                  /\ db'[g] = [account |-> a, name |-> n, version |-> 0]
                BY <4>1, <4>2, <1>7
            <4>5. \A i \in DOMAIN queue : ~Deletes(i, g) /\ ~SetsName(i, g)
                BY <4>3 DEF Changes, Deletes, SetsName
            <4>6. NameToCome(g, n)'
                <5>1. \A i \in DOMAIN queue' : ~SetsName(i, g)'
                    BY <1>3, <4>5
                <5>2. QED
                    BY <4>4, <5>1 DEF NameToCome
            <4>7. NameInMemory(g, n)'
                <5>1. \A b \in Accounts : \A p \in Players(b)' : p.guid # g
                    BY <1>14, <4>3 DEF InMemory
                <5>2. \A d \in Callbacks : Answered(d, "login")' /\ request'[d].guid = g =>
                        Result(d)' = {}
                    <6>1. \A d \in Callbacks : stage[d] = "login" => d # w
                        BY <2>1, <3>2
                    <6>2. QED
                        BY <1>2, <1>11, <4>3, <6>1 DEF Answered
                <5>3. QED
                    BY <5>1, <5>2 DEF NameInMemory
            <4>8. Owns(AccountOf[c], g)'
                BY <4>1, <4>4 DEF Owns
            <4>9. QED
                BY <4>3, <4>5, <4>6, <4>7, <4>8 DEF Named
        <3>3. QED
            BY <2>1, <3>1, <3>2, <1>13
    <2>2. ASSUME NEW c \in Callbacks, Answered(c, "commit")', Result(c)' # {}
          PROVE  (LET g == request[c].guid
                  IN /\ Owns(AccountOf[c], g) /\ cache[g] = None
                     /\ \A i \in DOMAIN queue : ~Deletes(i, g)
                     /\ g \notin contended => Named(g, request[c].name))'
        <3>1. stage[c] = "commit" /\ answer'[c] # << >> /\ request'[c] = request[c]
            BY <2>2, <1>2 DEF Answered
        <3>2. PICK g \in Guids, n \in Names : g = request[c].guid /\ n = request[c].name
            BY <3>1 DEF Typed, Creating
        <3>3. /\ Owns(AccountOf[c], g)' /\ cache[g] = None
              /\ \A i \in DOMAIN queue : ~Deletes(i, g)
              /\ g \notin contended' => Named(g, n)'
            BY <2>1, <2>2, <3>1, <3>2
        <3> HIDE DEF IInv
        <3>4. \A i \in DOMAIN queue' : ~Deletes(i, g)'
            BY <1>3, <3>3
        <3>5. request'[c].guid = g /\ request'[c].name = n /\ cache'[g] = None
            BY <1>2, <3>1, <3>2, <3>3
        <3>6. QED
            BY <3>3, <3>4, <3>5
    <2> HIDE DEF IInv
    <2>3. QED
        BY <2>2 DEF Committed
<1>30. Current'
    <2>1. ASSUME NEW g \in Guids, cache'[g] # None
          PROVE  /\ Owns(cache[g].account, g)'
                 /\ \A i \in DOMAIN queue' : ~Deletes(i, g)'
                 /\ g \notin contended' => Named(g, cache[g].name)'
        <3>1. PICK e : e = cache[g] /\ e = cache'[g] /\ e # None
            BY <1>2, <2>1
        <3>2. /\ Owns(e.account, g) /\ \A i \in DOMAIN queue : ~Deletes(i, g)
              /\ g \notin contended => Named(g, e.name)
            BY <3>1 DEF Current
        <3>3. ~Deletes(1, g) /\ db[g] # None
            BY <3>2, <1>3 DEF Owns
        <3> HIDE DEF IInv
        <3>4. Owns(e.account, g)'
            BY <3>2, <3>3, <1>18
        <3>5. g \notin contended' => Named(g, e.name)'
            BY <3>2, <3>3, <1>15, <1>28
        <3>6. \A i \in DOMAIN queue' : ~Deletes(i, g)'
            BY <1>3, <3>2
        <3>7. QED
            BY <3>1, <3>4, <3>5, <3>6
    <2>2. \A n \in Names : byName'[n] # None =>
            cache'[byName'[n]] # None /\ cache'[byName'[n]].name = n
        BY <1>2 DEF Current
    <2> HIDE DEF IInv
    <2>3. QED
        BY <2>1, <2>2 DEF Current
<1>31. Counted'
    <2>1. \A b \in Accounts : /\ Heirs(b)' \subseteq Heirs(b)
                              /\ Heirs(b) \in SUBSET Guids
                              /\ Passed(b) \in SUBSET Callbacks
                              /\ Passed(b)' \in SUBSET Callbacks
                              /\ Of(b) \in SUBSET Guids
                              /\ Creations(b)' = Creations(b)
                              /\ Creations(b) \in SUBSET Callbacks
        <3>1. ASSUME NEW b \in Accounts, NEW g \in Of(b)'
              PROVE  g \in Heirs(b)
            <4>1. g \in Guids /\ Owns(b, g)'
                BY <3>1 DEF Of, Stored, Owns
            <4>2. CASE Owns(b, g)
                BY <4>1, <4>2 DEF Heirs, Of, Stored, Owns
            <4>3. CASE b = a /\ Inserts(1, g)
                BY <1>3, <1>4, <1>5, <4>1, <4>3 DEF Heirs
            <4>4. QED
                BY <1>18, <4>1, <4>2, <4>3
        <3>2. ASSUME NEW b \in Accounts, NEW g \in Guids, NEW i \in DOMAIN queue',
                     Inserts(i, g)', queue'[i].account = b
              PROVE  g \in Heirs(b)
            BY <1>3, <3>2 DEF Heirs
        <3>3. \A b \in Accounts : Heirs(b)' \subseteq Heirs(b)
            BY <3>1, <3>2 DEF Heirs
        <3>4. QED
            BY <1>2, <3>3 DEF Heirs, Passed, Of, Stored, Creations
    <2>2. \A b \in Accounts : /\ IsFiniteSet(Heirs(b)) /\ Cardinality(Heirs(b)) \in Nat
                              /\ IsFiniteSet(Passed(b)) /\ Cardinality(Passed(b)) \in Nat
                              /\ Cardinality(Passed(b)') \in Nat
                              /\ IsFiniteSet(Of(b)) /\ Cardinality(Of(b)) \in Nat
                              /\ Cardinality(Creations(b)) \in Nat
        BY <2>1, Sizes
    <2>3. \A b \in Accounts : /\ Cardinality(Heirs(b)') <= Cardinality(Heirs(b))
                              /\ Cardinality(Heirs(b)') \in Nat
        BY <2>1, <2>2, FS_Subset, FS_CardinalityType
    <2>4. /\ \A b \in Accounts : crowd[b] \in Nat /\ crowd'[b] \in Nat /\ crowd[b] <= crowd'[b]
          /\ RealmLimit \in Nat
        BY Recording DEF ConstantsAssumption
    <2>5. ASSUME NEW b \in Accounts
          PROVE  Cardinality(Heirs(b)') + Cardinality(Passed(b)') < RealmLimit + crowd'[b]
        <3>1. CASE Passed(b)' \subseteq Passed(b)
            <4>1. Cardinality(Passed(b)') <= Cardinality(Passed(b))
                BY <2>2, <3>1, FS_Subset
            <4>2. Cardinality(Heirs(b)) + Cardinality(Passed(b)) < RealmLimit + crowd[b]
                BY DEF Counted
            <4>3. QED
                BY <2>2, <2>3, <2>4, <4>1, <4>2
        <3>2. CASE ~(Passed(b)' \subseteq Passed(b))
            <4>1. PICK c \in Passed(b)' : c \notin Passed(b)
                BY <3>2
            <4>2. /\ c \in Callbacks /\ AccountOf[c] = b /\ stage[c] = "sumChars"
                  /\ answer'[c] # << >> /\ Cardinality(Result(c)') < RealmLimit
                BY <1>2, <4>1 DEF Passed, Answered
            <4>3. c = w /\ w # None /\ Result(c)' = result /\ stage[c] = StageOf(op.kind)
                BY <1>13, <4>1, <4>2 DEF Passed, Answered
            <4>4. op.kind = "sumChars" /\ b = a /\ Cardinality(Of(b)) < RealmLimit
                BY <1>8, <1>12, <4>2, <4>3 DEF StageOf
            <4>5. Passed(b)' \in SUBSET Creations(b) /\ \A d \in Passed(b)' : stage[d] # "commit"
                BY <1>2 DEF Passed, Creations, Answered, Creating
            <4>6. /\ queue[1].kind = "sumChars" /\ queue[1].account = b
                  /\ queue[1].waiter # None /\ 1 \in DOMAIN queue
                  /\ \A i \in DOMAIN queue : i # 1 => 1 < i
                BY <1>3, <1>4, <1>5, <1>6, <4>3, <4>4
            <4>7. Cardinality(Heirs(b)) + Cardinality(Passed(b)')
                    <= Cardinality(Of(b)) + Cardinality(Creations(b))
                <5>1. PICK P \in SUBSET Creations(b) : P = Passed(b)'
                    BY <4>5
                <5>2. \A d \in P : stage[d] # "commit"
                    BY <4>5, <5>1
                <5>3. Cardinality(Heirs(b)) + Cardinality(P)
                        <= Cardinality(Of(b)) + Cardinality(Creations(b))
                    BY <4>6, <5>2, Inserting
                <5>4. QED
                    BY <5>1, <5>3
            <4>8. Cardinality(Creations(b)) <= crowd'[b]
                <5>1. Cardinality(Creations(b)') <= crowd'[b]
                    BY <1>15 DEF Recorded
                <5>2. QED
                    BY <2>1, <5>1
            <4>9. QED
                BY <2>2, <2>3, <2>4, <4>4, <4>7, <4>8
        <3>3. QED
            BY <3>1, <3>2
    <2>6. ASSUME NEW i \in DOMAIN queue', NEW j \in DOMAIN queue',
                 queue'[i].kind = "sumChars", queue'[i].waiter # None,
                 queue'[j].kind = "insert", queue'[j].account = queue'[i].account, i < j
          PROVE  queue'[j].waiter # None
        <3>1. /\ i + 1 \in DOMAIN queue /\ queue[i + 1] = queue'[i]
              /\ j + 1 \in DOMAIN queue /\ queue[j + 1] = queue'[j] /\ i + 1 < j + 1
            BY <1>3, <2>6
        <3>2. QED
            BY <2>6, <3>1 DEF Counted
    <2> HIDE DEF IInv
    <2>7. QED
        BY <2>5, <2>6 DEF Counted
<1>32. QED
    BY <1>15, <1>19, <1>20, <1>21, <1>22, <1>23, <1>25, <1>26, <1>27, <1>29, <1>30, <1>31


-----------------------------------------------------------------------------
LEMMA InitIInv ==
    ASSUME ConstantsAssumption, NoneAssumption, Init
    PROVE  IInv
<1>1. /\ db \in [Guids -> Row \union {None}]
      /\ \A g \in Guids : db[g] # None => db[g].version = 0
    <2>1. \A row \in [account : Accounts, name : Names, version : {0}] :
             row \in Row /\ row.version = 0
        BY DEF Row, ConstantsAssumption
    <2>2. QED
        BY <2>1 DEF Init
<1>2. /\ \A g \in Guids : cache[g] = IF g \in Stored
             THEN [account |-> db[g].account, name |-> db[g].name] ELSE None
      /\ \A g \in Guids : g \in Stored <=> db[g] # None
      /\ cache \in [Guids -> Entry \union {None}]
    <2>1. \A g \in Stored : [account |-> db[g].account, name |-> db[g].name] \in Entry
        BY <1>1 DEF Stored, Row, Entry
    <2>2. QED
        BY <2>1 DEF Init, Stored
<1>3. /\ DOMAIN byName = Names
      /\ \A n \in Names :
            byName[n] = None \/ (byName[n] \in Stored /\ db[byName[n]].name = n)
    BY DEF Init
<1>4. /\ DOMAIN queue = {} /\ queue \in Seq(Operation)
      /\ generated = Stored /\ connected = {} /\ offline = {} /\ accessor = {}
      /\ \A c \in Callbacks : stage[c] = "free" /\ request[c] = NoRequest /\ answer[c] = << >>
      /\ \A a \in Accounts : player[a] = None /\ stray[a] = {} /\ legit[a] = {} /\ crowd[a] = 1
      /\ \A g \in Guids : last[g] = 0
      /\ contended = {} /\ overlaps = 0
    BY DEF Init
<1>5. Typed
    <2>1. byName \in [Names -> Guids \union {None}]
        BY <1>3 DEF Init, Stored
    <2>2. NoRequest \in [guid : Guids \union {None}, name : Names \union {None}]
        BY DEF NoRequest
    <2>3. /\ stage \in [Callbacks -> Waiting \union {"free"}]
          /\ request \in [Callbacks -> [guid : Guids \union {None}, name : Names \union {None}]]
          /\ DOMAIN answer = Callbacks
          /\ legit \in [Accounts -> SUBSET Guids]
          /\ player \in [Accounts -> Player \union {None}]
          /\ stray \in [Accounts -> SUBSET Player]
          /\ crowd \in [Accounts -> Nat]
          /\ last \in [Guids -> 0..MaxVersion]
        BY <2>2 DEF Init, ConstantsAssumption
    <2>4. TypeOK
        BY <1>1, <1>2, <1>4, <2>1, <2>3 DEF TypeOK, Stored
    <2>5. QED
        BY <1>4, <2>4 DEF Typed, Creating
<1>6. \A g \in Guids : ~InMemory(g)
    BY <1>4 DEF InMemory, Players
<1>7. Awaiting
    BY <1>4 DEF Awaiting
<1>8. Births
    <2>1. \A g \in Guids : Unborn(g) => db[g] = None /\ cache[g] = None /\ last[g] = 0
        BY <1>2, <1>4 DEF Unborn
    <2>2. QED
        BY <1>4, <1>6, <2>1 DEF Births, Answered
<1>9. Offline
    BY <1>4 DEF Offline
<1>10. Presence
    BY <1>4, <1>6 DEF Presence, Plays, InWorld
<1>11. Loading /\ Renaming /\ Committed
    BY <1>4 DEF Loading, Renaming, Committed, Answered
<1>12. Counted
    <2>1. ASSUME NEW a \in Accounts
          PROVE  Cardinality(Heirs(a)) + Cardinality(Passed(a)) < RealmLimit + crowd[a]
        <3>1. Heirs(a) = Of(a) /\ Of(a) \in SUBSET Guids /\ Passed(a) = {}
            BY <1>4 DEF Heirs, Passed, Of, Stored, Answered
        <3>2. Cardinality(Of(a)) \in Nat /\ Cardinality(Passed(a)) = 0
            BY <3>1, Sizes, FS_EmptySet
        <3>3. Cardinality(Of(a)) <= RealmLimit /\ RealmLimit \in Nat
            BY DEF Init, ConstantsAssumption
        <3>4. QED
            BY <1>4, <3>1, <3>2, <3>3
    <2>2. QED
        BY <1>4, <2>1 DEF Counted
<1>13. Saved
    BY <1>1, <1>4 DEF Saved, VersionToCome
<1>14. Current
    <2>1. ASSUME NEW g \in Guids, cache[g] # None
          PROVE  Owns(cache[g].account, g) /\ db[g].name = cache[g].name
        BY <2>1, <1>2 DEF Owns
    <2>2. ASSUME NEW g \in Guids, NEW n, db[g].name = n
          PROVE  Named(g, n)
        <3>1. NameToCome(g, n)
            BY <1>4, <2>2 DEF NameToCome
        <3>2. NameInMemory(g, n)
            BY <1>4 DEF NameInMemory, Players, Answered
        <3>3. QED
            BY <3>1, <3>2 DEF Named
    <2>3. ASSUME NEW n \in Names, byName[n] # None
          PROVE  cache[byName[n]] # None /\ cache[byName[n]].name = n
        <3>1. byName[n] \in Guids /\ byName[n] \in Stored /\ db[byName[n]].name = n
            BY <1>3, <2>3 DEF Stored
        <3>2. cache[byName[n]] = [account |-> db[byName[n]].account, name |-> n]
            BY <3>1, <1>2
        <3>3. cache[byName[n]] # None
            <4>1. db[byName[n]] # None
                BY <3>1, <1>2
            <4>2. db[byName[n]] \in Row
                BY <4>1, <3>1, <1>1
            <4>3. [account |-> db[byName[n]].account, name |-> n] \in Entry
                BY <4>2 DEF Row, Entry
            <4>4. QED
                BY <3>2, <4>3 DEF NoneAssumption
        <3>4. QED
            BY <3>2, <3>3
    <2>4. QED
        BY <1>4, <2>1, <2>2, <2>3 DEF Current
<1>15. Recorded
    <2>1. Contended = {}
        BY <1>4 DEF Contended, Asking
    <2>2. ASSUME NEW a \in Accounts
          PROVE  Cardinality(Creations(a)) <= crowd[a]
        <3>1. Creations(a) = {}
            BY <1>4 DEF Creations, Creating
        <3>2. QED
            BY <1>4, <3>1, FS_EmptySet
    <2>3. QED
        BY <2>1, <2>2 DEF Recorded
<1>16. QED
    BY <1>5, <1>7, <1>8, <1>9, <1>10, <1>11, <1>12, <1>13, <1>14, <1>15 DEF IInv

LEMMA StutterStep ==
    ASSUME IInv, UNCHANGED vars
    PROVE  IInv'
<1>1. UNCHANGED <<db, queue, cache, byName, generated, connected, stage, request, answer,
                  legit, player, offline, stray, accessor, last, contended, crowd, overlaps>>
    BY DEF vars, memory, session, callbacks, world
<1>2. Typed' /\ Awaiting' /\ Births'
    BY <1>1 DEF IInv, Typed, TypeOK, Result, Awaiting, Births, Unborn, Inserts, Changes,
                InMemory, Players, Answered
<1>3. Offline' /\ Presence' /\ Loading' /\ Renaming'
    BY <1>1 DEF IInv, Offline, Presence, Loading, Renaming, InWorld, InMemory, Players, Plays,
                Strays, SetsName, Result, Answered, Unborn, Inserts
<1>4. Counted' /\ Recorded'
    BY <1>1 DEF IInv, Counted, Heirs, Passed, Of, Stored, Inserts, Answered, Result, Recorded,
                Contended, Creations, Asking, InMemory, Players
<1>5. Committed' /\ Saved' /\ Current'
    BY <1>1 DEF IInv, Committed, Saved, VersionToCome, Current, Named, NameToCome,
                NameInMemory, Saves, SetsName, Deletes, Owns, Answered, Result, InMemory, Players
<1>6. QED
    BY <1>2, <1>3, <1>4, <1>5 DEF IInv

LEMMA NextStep ==
    ASSUME Workers = 1, IInv, [Next]_vars
    PROVE  IInv'
<1>1. ConstantsAssumption /\ NoneAssumption
    BY ConstantsAssumption, NoneAssumption
<1>2. ASSUME Next
      PROVE  Remember /\ overlaps' \in Nat
    <2>1. overlaps \in Nat
        BY DEF IInv, Typed, TypeOK
    <2>2. QED
        BY <1>2, <2>1 DEF Next, Overlap
<1>3. ASSUME Next, NEW k \in Claimed, Execute(k)
      PROVE  IInv'
    BY <1>1, <1>2, <1>3, ExecuteStep
<1>4. ASSUME Next, NEW c \in Callbacks, Request(c)
      PROVE  IInv'
    BY <1>1, <1>2, <1>4, EnumStep, CreationStep, RenameStep, LoginStep DEF Request
<1>5. ASSUME Next, NEW c \in Callbacks, Callback(c)
      PROVE  IInv'
    BY <1>1, <1>2, <1>5, EnumStep, CreationStep, CompleteStep, RenameStep, EnterStep
    DEF Callback
<1>6. ASSUME Next, NEW a \in Accounts, Account(a)
      PROVE  IInv'
    BY <1>1, <1>2, <1>6, DeleteStep, TakeOverStep, PlayStep, SaveStep, LogoutStep,
       ConnectStep, DisconnectStep DEF Account
<1>7. CASE UNCHANGED vars
    BY <1>7, StutterStep
<1>8. QED
    BY <1>3, <1>4, <1>5, <1>6, <1>7 DEF Next

\* What the accounts' sessions, the cache, the Players and the queue of the only worker
\* say of one another.
THEOREM CharactersInvariant ==
    ASSUME Workers = 1
    PROVE  Spec => []IInv
<1>1. Init => IInv
    BY InitIInv, ConstantsAssumption, NoneAssumption
<1>2. IInv /\ [Next]_vars => IInv'
    BY NextStep
<1>3. QED
    BY <1>1, <1>2, PTL DEF Spec

\* The states are those the program's data structures can hold.
THEOREM TypeCorrect ==
    ASSUME Workers = 1
    PROVE  Spec => []TypeOK
<1>1. IInv => TypeOK
    BY DEF IInv, Typed
<1>2. QED
    BY <1>1, CharactersInvariant, PTL

\* A login reads the row after the last save of the character has been executed
\* (CharacterHandler.cpp:784), whatever the sessions of the account have queued, unless
\* it was asked for while the character was in memory or being renamed.
THEOREM NothingUndone ==
    ASSUME Workers = 1
    PROVE  Spec => []NothingIsUndone
<1>1. IInv => NothingIsUndone
    <2> SUFFICES ASSUME IInv, NEW a \in Accounts, InWorld(a), player[a].guid \notin contended
                 PROVE  player[a].version = last[player[a].guid]
        BY DEF NothingIsUndone
    <2>1. PICK p \in Player : p = player[a]
        BY DEF IInv, Typed, TypeOK, InWorld
    <2>2. p.guid \in Guids \ contended /\ Plays(a, p.guid)
        BY <2>1 DEF Player, Plays
    <2>3. player[a].version = last[p.guid]
        BY <2>2 DEF IInv, Presence
    <2>4. QED
        BY <2>1, <2>3
<1>2. QED
    BY <1>1, CharactersInvariant, PTL

\* Each creation counts the characters of its account (CharacterHandler.cpp:415-422) when
\* the insertions of all sessions before it have been executed, so that only creations
\* that overlap can exceed the limit, each but one of them by one character.
THEOREM LimitHolds ==
    ASSUME Workers = 1
    PROVE  Spec => []RealmLimitHolds
<1>1. IInv => RealmLimitHolds
    <2> SUFFICES ASSUME IInv, NEW a \in Accounts
                 PROVE  Cardinality(Of(a)) < RealmLimit + crowd[a]
        BY DEF RealmLimitHolds
    <2>1. /\ Of(a) \subseteq Heirs(a) /\ Heirs(a) \in SUBSET Guids
          /\ Of(a) \in SUBSET Guids /\ Passed(a) \in SUBSET Callbacks
        BY DEF Heirs, Passed, Of, Stored
    <2>2. /\ IsFiniteSet(Heirs(a)) /\ Cardinality(Heirs(a)) \in Nat
          /\ Cardinality(Of(a)) \in Nat /\ Cardinality(Passed(a)) \in Nat
        BY <2>1, Sizes, ConstantsAssumption
    <2>3. Cardinality(Of(a)) <= Cardinality(Heirs(a))
        BY <2>1, <2>2, FS_Subset
    <2>4. Cardinality(Heirs(a)) + Cardinality(Passed(a)) < RealmLimit + crowd[a]
        BY DEF IInv, Counted
    <2>5. RealmLimit \in Nat /\ crowd[a] \in Nat
        BY ConstantsAssumption DEF ConstantsAssumption, IInv, Typed, TypeOK
    <2>6. QED
        BY <2>2, <2>3, <2>4, <2>5
<1>2. QED
    BY <1>1, CharactersInvariant, PTL

\* The name that the last queued operation on a character will leave.
LEMMA FinalNameIsToCome ==
    ASSUME Typed, NEW g \in Guids, NEW n, NameToCome(g, n)
    PROVE  FinalName(g) = n
<1>1. \A i \in DOMAIN queue : i \in Nat
    BY DEF Typed, TypeOK
<1>2. \A i : i \in PendingOn(g) <=> i \in DOMAIN queue /\ SetsName(i, g)
    BY DEF PendingOn, SetsName
<1>3. CASE db[g].name = n /\ \A i \in DOMAIN queue : ~SetsName(i, g)
    BY <1>2, <1>3 DEF FinalName
<1>4. ASSUME NEW i \in DOMAIN queue, SetsName(i, g), queue[i].name = n,
             \A j \in DOMAIN queue : SetsName(j, g) => j <= i
      PROVE  FinalName(g) = n
    <2> DEFINE IsLast(k) == \A j \in PendingOn(g) : j <= k
    <2>1. i \in PendingOn(g) /\ IsLast(i)
        BY <1>2, <1>4
    <2>2. \A k \in PendingOn(g) : IsLast(k) => k = i
        BY <2>1, <1>1, <1>2
    <2>3. (CHOOSE k \in PendingOn(g) : IsLast(k)) = i
        BY <2>1, <2>2
    <2>4. QED
        BY <2>1, <2>3, <1>4 DEF FinalName
<1>5. QED
    BY <1>3, <1>4 DEF NameToCome

\* Each entry of the cache is a row that stays, of that account, and under that name when
\* the queue is empty unless the character was asked for twice at once; and every name
\* leads to the character that has it.
THEOREM CacheCurrent ==
    ASSUME Workers = 1
    PROVE  Spec => []CacheIsCurrent
<1>1. IInv => CacheIsCurrent
    <2> SUFFICES ASSUME IInv
                 PROVE  CacheIsCurrent
        OBVIOUS
    <2>1. byName \in [Names -> Guids \union {None}]
        BY DEF IInv, Typed, TypeOK
    <2>2. ASSUME NEW g \in Cached
          PROVE  /\ g \in Stored
                 /\ cache[g].account = db[g].account
                 /\ g \notin contended => cache[g].name = FinalName(g)
                 /\ \A i \in DOMAIN queue : ~(queue[i].kind = "delete" /\ queue[i].guid = g)
        <3>1. /\ g \in Guids /\ Owns(cache[g].account, g)
              /\ g \notin contended => NameToCome(g, cache[g].name)
              /\ \A i \in DOMAIN queue : ~Deletes(i, g)
            BY DEF IInv, Current, Cached, Named
        <3>2. g \notin contended => FinalName(g) = cache[g].name
            BY <3>1, FinalNameIsToCome DEF IInv
        <3>3. QED
            BY <3>1, <3>2 DEF Owns, Stored, Deletes
    <2>3. ASSUME NEW n \in Names, byName[n] # None
          PROVE  byName[n] \in Cached /\ cache[byName[n]].name = n
        BY <2>1, <2>3 DEF IInv, Current, Cached
    <2>4. QED
        BY <2>2, <2>3 DEF CacheIsCurrent
<1>2. QED
    BY <1>1, CharactersInvariant, PTL

=============================================================================

------------------------- MODULE WorldSessionsProofs -------------------------
(***************************************************************************)
(* Proofs about WorldSessions, for every number of accounts, sessions and  *)
(* characters and every configuration: no list, queue or callback is left  *)
(* with a session that has been deleted, who is in the login queue waits,  *)
(* an account has one session with a character in the world, no session    *)
(* has one when the server halts, and a Player without a session is there  *)
(* only where a client asked for one character more than it might have.    *)
(***************************************************************************)
EXTENDS WorldSessions, SequenceTheorems, FiniteSetTheorems,
        TLAPS

-----------------------------------------------------------------------------
(* The inductive invariant.                                                *)

\* Where a session is.  The lists have one entry for each account.
IsListed(s) == sessions[AccountOf[s]] = s
IsOffline(s) == offline[AccountOf[s]] = s
IsAdded(s) == s \in Entries(addQueue)

\* A session that World has not taken in yet.
Fresh(s) ==
    /\ player[s] = None /\ ~Waits(s)
    /\ s \notin kicked \union inQueue \union loading \union initializing \union legit

\* A session is in one place at a time.
Places ==
    /\ \A a \in Accounts : sessions[a] # None => AccountOf[sessions[a]] = a
    /\ \A a \in Accounts : offline[a] # None => AccountOf[offline[a]] = a
    /\ \A s \in Sessions :
          /\ s \in unused => s \notin deleted /\ ~IsAdded(s) /\ ~IsListed(s) /\ ~IsOffline(s)
          /\ s \in deleted => ~IsAdded(s) /\ ~IsListed(s) /\ ~IsOffline(s)
          /\ IsAdded(s) => ~IsListed(s) /\ ~IsOffline(s)
          /\ IsListed(s) => ~IsOffline(s)
          /\ \/ s \in unused \/ s \in deleted
             \/ IsAdded(s) \/ IsListed(s) \/ IsOffline(s)
    /\ \A i, j \in DOMAIN addQueue : addQueue[i] = addQueue[j] => i = j
    /\ \A s \in Sessions : s \in unused \/ IsAdded(s) => Fresh(s)

\* What points at a session.
Pointers ==
    /\ \A i, j \in DOMAIN queued : queued[i] = queued[j] => i = j
    /\ \A s \in Entries(queued) : IsListed(s)
    /\ \A s \in initializing : IsListed(s) \/ IsOffline(s)
    /\ phase \in InUpdate => /\ cur # None /\ IsListed(cur)
                             /\ AccountOf[cur] \notin visit
    /\ phase \in InUpdate \union {"check"} => \A a \in visit : sessions[a] # None

\* A session that loads a character is on the list, or went offline while it did.
Loading ==
    \A s \in Sessions : \A c \in Characters : loads[s][c] > 0 =>
        /\ IsListed(s) \/ IsOffline(s)
        /\ OwnerOf[c] = AccountOf[s]

\* A character is on the session or on the offline session of its account.  If the one
\* has a character, or loads one, and the other has one too, it is another character
\* and its session is going to be swept at the end of this update.
Playing ==
    /\ \A s \in Sessions : player[s] # None =>
          /\ IsListed(s) \/ IsOffline(s)
          /\ OwnerOf[player[s]] = AccountOf[s]
    /\ \A s, t \in Sessions :
          (/\ IsListed(s) /\ IsOffline(t) /\ AccountOf[s] = AccountOf[t]
           /\ player[t] # None
           /\ player[s] # None \/ Waits(s))
          => /\ t \in kicked
             /\ phase \in InUpdate \union {"check"}
             /\ player[s] # player[t] /\ loads[s][player[t]] = 0

\* A session that has a character and waits for one, or waits for two, has asked once
\* more than it might: only its account can leave a Player behind.
Strays ==
    /\ \A c \in stray : repeats[OwnerOf[c]] > 0
    /\ \A s \in Sessions : \A c \in Characters :
          loads[s][c] > 0 /\ repeats[AccountOf[s]] = 0 =>
             /\ player[s] = None /\ loads[s][c] = 1
             /\ \A d \in Characters \ {c} : loads[s][d] = 0

\* After KickAll every session that had been taken in is closed or kicked.  Those that
\* come after it are told which characters there are only when they have been updated.
NewlyListed(s) == player[s] = None /\ ~Waits(s) /\ s \notin legit

Ending ==
    final =>
        /\ stopped
        /\ phase \in InUpdate \union {"add", "check", "halted"}
        /\ \A s \in Sessions : IsOffline(s) => s \in kicked
        /\ phase = "halted" => \A s \in Sessions : player[s] = None /\ ~Waits(s)
        /\ \A s \in Sessions : IsListed(s) =>
              /\ phase = "add" /\ s \in open => NewlyListed(s)
              /\ phase \in InUpdate \union {"check"} =>
                    /\ AccountOf[s] \in visit /\ s \in open => NewlyListed(s)
                    /\ \/ AccountOf[s] \in visit
                       \/ phase \in InUpdate /\ cur = s
                       \/ player[s] = None /\ ~Waits(s)
              /\ phase \in InUpdate /\ cur = s /\ s \in open =>
                    /\ player[s] = None /\ ~Waits(s)
                    /\ phase = "packets" => s \notin legit

IInv ==
    /\ TypeOK
    /\ Places
    /\ Pointers
    /\ QueuedSessionWaits
    /\ Loading
    /\ Playing
    /\ Strays
    /\ Ending
    /\ phase = "halted" => final

-----------------------------------------------------------------------------
(* Queues without duplicates.                                              *)

Distinct(q) == \A i, j \in DOMAIN q : q[i] = q[j] => i = j

LEMMA Appended ==
    ASSUME NEW q \in Seq(Sessions), NEW s \in Sessions
    PROVE  /\ Append(q, s) \in Seq(Sessions)
           /\ Entries(Append(q, s)) = Entries(q) \union {s}
           /\ Distinct(q) /\ s \notin Entries(q) => Distinct(Append(q, s))
<1>1. /\ Append(q, s) \in Seq(Sessions)
      /\ DOMAIN Append(q, s) = 1 .. Len(q) + 1
      /\ DOMAIN q = 1 .. Len(q) /\ Len(q) \in Nat
      /\ \A i \in 1 .. Len(q) : Append(q, s)[i] = q[i]
      /\ Append(q, s)[Len(q) + 1] = s
    OBVIOUS
<1>2. Entries(Append(q, s)) = Entries(q) \union {s}
    BY <1>1 DEF Entries
<1>3. Distinct(q) /\ s \notin Entries(q) => Distinct(Append(q, s))
    BY <1>1 DEF Entries, Distinct
<1>4. QED
    BY <1>1, <1>2, <1>3

LEMMA Shortened ==
    ASSUME NEW q \in Seq(Sessions), q # << >>
    PROVE  /\ Head(q) \in Entries(q)
           /\ Head(q) \in Sessions
           /\ Tail(q) \in Seq(Sessions)
           /\ Entries(Tail(q)) \subseteq Entries(q)
           /\ Entries(q) = Entries(Tail(q)) \union {Head(q)}
           /\ Distinct(q) => Distinct(Tail(q)) /\ Head(q) \notin Entries(Tail(q))
<1>1. /\ Head(q) \in Sessions
      /\ Head(q) = q[1]
      /\ 1 \in DOMAIN q
      /\ Tail(q) \in Seq(Sessions)
      /\ DOMAIN q = 1 .. Len(q) /\ Len(q) \in Nat \ {0}
      /\ DOMAIN Tail(q) = 1 .. Len(q) - 1
      /\ \A i \in DOMAIN Tail(q) : i + 1 \in DOMAIN q /\ Tail(q)[i] = q[i + 1]
    OBVIOUS
<1>2. Head(q) \in Entries(q) /\ Entries(Tail(q)) \subseteq Entries(q)
    BY <1>1 DEF Entries
<1>3. ASSUME NEW i \in DOMAIN q
      PROVE  q[i] \in Entries(Tail(q)) \union {Head(q)}
    <2>1. CASE i = 1
        BY <2>1, <1>1
    <2>2. CASE i # 1
        <3>1. i - 1 \in DOMAIN Tail(q) /\ Tail(q)[i - 1] = q[i]
            BY <2>2, <1>1
        <3>2. QED
            BY <3>1 DEF Entries
    <2>3. QED
        BY <2>1, <2>2
<1>4. Entries(q) = Entries(Tail(q)) \union {Head(q)}
    BY <1>2, <1>3 DEF Entries
<1>5. Distinct(q) => Distinct(Tail(q)) /\ Head(q) \notin Entries(Tail(q))
    BY <1>1 DEF Entries, Distinct
<1>6. QED
    BY <1>1, <1>2, <1>4, <1>5

LEMMA Removed ==
    ASSUME NEW q \in Seq(Sessions), Distinct(q), NEW k \in DOMAIN q
    PROVE  /\ RemoveAt(q, k) \in Seq(Sessions)
           /\ Distinct(RemoveAt(q, k))
           /\ Entries(RemoveAt(q, k)) = Entries(q) \ {q[k]}
<1> DEFINE r == RemoveAt(q, k)
<1>1. Len(q) \in Nat /\ DOMAIN q = 1 .. Len(q) /\ k \in 1 .. Len(q)
    OBVIOUS
<1>2. /\ r \in Seq(Sessions)
      /\ DOMAIN r = 1 .. Len(q) - 1
      /\ \A i \in 1 .. Len(q) - 1 : r[i] = IF i < k THEN q[i] ELSE q[i + 1]
    <2> DEFINE front == SubSeq(q, 1, k - 1)
               rest == SubSeq(q, k + 1, Len(q))
    <2>1. front \in Seq(Sessions) /\ Len(front) = k - 1
          /\ \A i \in 1 .. k - 1 : front[i] = q[i]
        BY <1>1
    <2>2. rest \in Seq(Sessions) /\ Len(rest) = Len(q) - k
          /\ \A i \in 1 .. Len(q) - k : rest[i] = q[k + i]
        BY <1>1
    <2>3. r = front \o rest
        BY DEF RemoveAt
    <2> HIDE DEF front, rest, r
    <2>4. /\ r \in Seq(Sessions)
          /\ Len(r) = Len(front) + Len(rest)
          /\ \A i \in 1 .. Len(front) + Len(rest) :
                r[i] = IF i <= Len(front) THEN front[i] ELSE rest[i - Len(front)]
        BY <2>1, <2>2, <2>3, ConcatProperties
    <2>5. ASSUME NEW i \in 1 .. Len(q) - 1
          PROVE  r[i] = IF i < k THEN q[i] ELSE q[i + 1]
        <3>1. CASE i < k
            BY <3>1, <2>1, <2>2, <2>4, <1>1
        <3>2. CASE ~ (i < k)
            <4>1. i - (k - 1) \in 1 .. Len(q) - k /\ k + (i - (k - 1)) = i + 1
                BY <3>2, <1>1
            <4>2. ~ (i <= Len(front)) /\ i - Len(front) = i - (k - 1)
                  /\ i \in 1 .. Len(front) + Len(rest)
                BY <3>2, <2>1, <2>2, <1>1
            <4>3. r[i] = rest[i - (k - 1)]
                BY <4>2, <2>4
            <4>4. QED
                BY <3>2, <4>1, <4>3, <2>2
        <3>3. QED
            BY <3>1, <3>2
    <2>6. DOMAIN r = 1 .. Len(q) - 1
        BY <2>1, <2>2, <2>4, <1>1
    <2>7. QED
        BY <2>4, <2>5, <2>6
<1> HIDE DEF r
<1>3. Distinct(r)
    <2> DEFINE old(i) == IF i < k THEN i ELSE i + 1
    <2>1. \A i \in 1 .. Len(q) - 1 : old(i) \in DOMAIN q /\ r[i] = q[old(i)]
        BY <1>1, <1>2
    <2>2. \A i, j \in 1 .. Len(q) - 1 : old(i) = old(j) => i = j
        BY <1>1
    <2> HIDE DEF old
    <2>3. QED
        BY <2>1, <2>2, <1>2 DEF Distinct
<1>4. ASSUME NEW i \in 1 .. Len(q) - 1
      PROVE  r[i] \in Entries(q) \ {q[k]}
    <2>1. PICK j \in 1 .. Len(q) : j # k /\ r[i] = q[j]
        <3>1. CASE i < k
            BY <3>1, <1>1, <1>2
        <3>2. CASE ~ (i < k)
            <4>1. i + 1 \in 1 .. Len(q) /\ i + 1 # k
                BY <3>2, <1>1
            <4>2. QED
                BY <3>2, <4>1, <1>2
        <3>3. QED
            BY <3>1, <3>2
    <2>2. QED
        BY <2>1, <1>1 DEF Entries, Distinct
<1>5. ASSUME NEW i \in 1 .. Len(q), i # k
      PROVE  q[i] \in Entries(r)
    <2>1. CASE i < k
        BY <2>1, <1>1, <1>2 DEF Entries
    <2>2. CASE i > k
        <3>1. i - 1 \in 1 .. Len(q) - 1 /\ r[i - 1] = q[i]
            BY <2>2, <1>1, <1>2
        <3>2. QED
            BY <3>1, <1>2 DEF Entries
    <2>3. QED
        BY <2>1, <2>2, <1>5, <1>1
<1>6. Entries(r) = Entries(q) \ {q[k]}
    BY <1>1, <1>2, <1>4, <1>5 DEF Entries
<1>7. QED
    BY <1>2, <1>3, <1>6 DEF r

\* RemoveQueuedPlayer takes a session out of the queue and admits at most one other.
LEMMA Dequeued ==
    ASSUME queued \in Seq(Sessions), Distinct(queued), NEW s
    PROVE  /\ QueueAfter(s) \in Seq(Sessions)
           /\ Distinct(QueueAfter(s))
           /\ Admitted(s) \subseteq Entries(queued) \ {s}
           /\ Entries(QueueAfter(s)) = Entries(queued) \ ({s} \union Admitted(s))
<1> DEFINE w == Without(s)
<1>1. w \in Seq(Sessions) /\ Distinct(w) /\ Entries(w) = Entries(queued) \ {s}
    <2>1. CASE Found(s)
        <3> DEFINE k == CHOOSE i \in DOMAIN queued : queued[i] = s
        <3>1. k \in DOMAIN queued /\ queued[k] = s
            BY <2>1 DEF Found, Entries
        <3>2. w = RemoveAt(queued, k)
            BY <2>1 DEF Without
        <3> HIDE DEF k, w
        <3>3. QED
            BY <3>1, <3>2, Removed
    <2>2. CASE ~ Found(s)
        BY <2>2 DEF Found, Without
    <2>3. QED
        BY <2>1, <2>2
<1>2. Admitted(s) = {} \/ (w # << >> /\ Admitted(s) = {Head(w)})
    BY DEF Admitted
<1>3. QueueAfter(s) = IF Admitted(s) = {} THEN w ELSE Tail(w)
    BY DEF QueueAfter
<1> HIDE DEF w
<1>4. CASE Admitted(s) = {}
    BY <1>1, <1>3, <1>4
<1>5. CASE Admitted(s) # {}
    <2>1. w # << >> /\ Admitted(s) = {Head(w)} /\ QueueAfter(s) = Tail(w)
        BY <1>2, <1>3, <1>5
    <2>2. QED
        BY <2>1, <1>1, Shortened
<1>6. QED
    BY <1>4, <1>5

-----------------------------------------------------------------------------
(* The steps.                                                              *)

\* The callbacks a session has of one character change.
LEMMA LoadsOfOne ==
    ASSUME loads \in [Sessions -> [Characters -> Nat]],
           NEW s \in Sessions, NEW c \in Characters, NEW n \in Nat,
           loads' = [loads EXCEPT ![s][c] = n]
    PROVE  /\ loads' \in [Sessions -> [Characters -> Nat]]
           /\ \A t \in Sessions \ {s} : loads'[t] = loads[t]
           /\ \A d \in Characters \ {c} : loads'[s][d] = loads[s][d]
           /\ loads'[s][c] = n
<1> DEFINE f == [loads[s] EXCEPT ![c] = n]
<1>1. loads[s] \in [Characters -> Nat]
    OBVIOUS
<1>2. f \in [Characters -> Nat] /\ f[c] = n
      /\ \A d \in Characters \ {c} : f[d] = loads[s][d]
    BY <1>1
<1>3. loads' = [loads EXCEPT ![s] = f]
    OBVIOUS
<1> HIDE DEF f
<1>4. QED
    BY <1>2, <1>3

\* What a login notes about its account.
LEMMA Noted ==
    ASSUME TypeOK, cur \in Sessions, NoteRepeat
    PROVE  /\ repeats' \in [Accounts -> Nat]
           /\ \A a \in Accounts : repeats'[a] = 0 => repeats[a] = 0
           /\ repeats'[AccountOf[cur]] = 0 => player[cur] = None /\ ~Waits(cur)
<1> DEFINE b == AccountOf[cur]
<1>1. b \in Accounts /\ repeats \in [Accounts -> Nat] /\ repeats[b] \in Nat
    BY ConstantsAssumption DEF TypeOK
<1>2. CASE player[cur] # None \/ Waits(cur)
    <2>1. repeats' = [repeats EXCEPT ![b] = repeats[b] + 1]
        BY <1>2 DEF NoteRepeat
    <2> HIDE DEF b
    <2>2. /\ repeats' \in [Accounts -> Nat] /\ repeats'[b] = repeats[b] + 1
          /\ \A a \in Accounts \ {b} : repeats'[a] = repeats[a]
        BY <2>1, <1>1
    <2>3. repeats'[b] # 0
        BY <2>2, <1>1
    <2>4. QED
        BY <2>2, <2>3 DEF b
<1>3. CASE ~(player[cur] # None \/ Waits(cur))
    BY <1>1, <1>3 DEF NoteRepeat
<1>4. QED
    BY <1>2, <1>3

\* The network threads and the operator change a set or a flag.
LEMMA DisconnectStep ==
    ASSUME IInv, NEW s \in Sessions, Disconnect(s)
    PROVE  IInv'
<1> USE ConstantsAssumption DEF IInv, Disconnect, IsListed, IsOffline, IsAdded, Fresh,
        InUpdate, NewlyListed, mapVars, sessionVars, playerVars,
        loopVars, stopVars, Waits
<1>1. TypeOK'
    BY DEF TypeOK
<1>2. Places'
    BY DEF TypeOK, Places
<1>3. Pointers'
    BY DEF TypeOK, Pointers
<1>4. QueuedSessionWaits'
    BY DEF TypeOK, QueuedSessionWaits
<1>5. Loading'
    BY DEF TypeOK, Places, Pointers, Loading, Playing
<1>6. Playing'
    BY DEF TypeOK, Places, Pointers, Loading, Playing
<1>7. Ending'
    BY DEF TypeOK, Places, Pointers, Ending
<1>8. (phase = "halted" => final)'
    OBVIOUS
<1>9. Strays'
    BY DEF TypeOK, Places, Pointers, Loading, Playing, Strays
<1>10. QED
    BY <1>1, <1>2, <1>3, <1>4, <1>5, <1>6, <1>7, <1>8, <1>9

LEMMA StopStep ==
    ASSUME IInv, Stop
    PROVE  IInv'
<1> USE ConstantsAssumption DEF IInv, Stop, IsListed, IsOffline, IsAdded, Fresh,
        InUpdate, NewlyListed, mapVars, sessionVars, playerVars,
        loopVars, stopVars, Waits
<1>1. TypeOK'
    BY DEF TypeOK
<1>2. Places'
    BY DEF TypeOK, Places
<1>3. Pointers'
    BY DEF TypeOK, Pointers
<1>4. QueuedSessionWaits'
    BY DEF TypeOK, QueuedSessionWaits
<1>5. Loading'
    BY DEF TypeOK, Places, Pointers, Loading, Playing
<1>6. Playing'
    BY DEF TypeOK, Places, Pointers, Loading, Playing
<1>7. Ending'
    BY DEF TypeOK, Places, Pointers, Ending
<1>8. (phase = "halted" => final)'
    OBVIOUS
<1>9. Strays'
    BY DEF TypeOK, Places, Pointers, Loading, Playing, Strays
<1>10. QED
    BY <1>1, <1>2, <1>3, <1>4, <1>5, <1>6, <1>7, <1>8, <1>9

\* The loops of UpdateSessions.
LEMMA BeginUpdateStep ==
    ASSUME IInv, BeginUpdate
    PROVE  IInv'
<1> USE ConstantsAssumption DEF IInv, BeginUpdate, IsListed, IsOffline, IsAdded, Fresh,
        InUpdate, NewlyListed, mapVars, sessionVars, playerVars,
        loopVars, stopVars, Waits
<1>1. TypeOK'
    BY DEF TypeOK
<1>2. Places'
    BY DEF TypeOK, Places
<1>3. Pointers'
    BY DEF TypeOK, Pointers
<1>4. QueuedSessionWaits'
    BY DEF TypeOK, QueuedSessionWaits
<1>5. Loading'
    BY DEF TypeOK, Places, Pointers, Loading, Playing
<1>6. Playing'
    BY DEF TypeOK, Places, Pointers, Loading, Playing
<1>7. Ending'
    BY DEF TypeOK, Places, Pointers, Ending
<1>8. (phase = "halted" => final)'
    OBVIOUS
<1>9. Strays'
    BY DEF TypeOK, Places, Pointers, Loading, Playing, Strays
<1>10. QED
    BY <1>1, <1>2, <1>3, <1>4, <1>5, <1>6, <1>7, <1>8, <1>9

LEMMA EndAddStep ==
    ASSUME IInv, EndAdd
    PROVE  IInv'
<1> USE ConstantsAssumption DEF IInv, EndAdd, IsListed, IsOffline, IsAdded, Fresh,
        InUpdate, NewlyListed, mapVars, sessionVars, playerVars,
        loopVars, stopVars, Waits
<1>1. TypeOK'
    BY DEF TypeOK
<1>2. Places'
    BY DEF TypeOK, Places
<1>3. Pointers'
    BY DEF TypeOK, Pointers
<1>4. QueuedSessionWaits'
    BY DEF TypeOK, QueuedSessionWaits
<1>5. Loading'
    BY DEF TypeOK, Places, Pointers, Loading, Playing
<1>6. Playing'
    BY DEF TypeOK, Places, Pointers, Loading, Playing
<1>7. Ending'
    BY DEF TypeOK, Places, Pointers, Ending
<1>8. (phase = "halted" => final)'
    OBVIOUS
<1>9. Strays'
    BY DEF TypeOK, Places, Pointers, Loading, Playing, Strays
<1>10. QED
    BY <1>1, <1>2, <1>3, <1>4, <1>5, <1>6, <1>7, <1>8, <1>9

LEMMA EnterUpdateStep ==
    ASSUME IInv, NEW a \in Accounts, EnterUpdate(a)
    PROVE  IInv'
<1> USE ConstantsAssumption DEF IInv, EnterUpdate, IsListed, IsOffline, IsAdded, Fresh,
        InUpdate, NewlyListed, mapVars, sessionVars, playerVars,
        loopVars, stopVars, Waits
<1>1. TypeOK'
    BY DEF TypeOK
<1>2. Places'
    BY DEF TypeOK, Places
<1>3. Pointers'
    BY DEF TypeOK, Places, Pointers
<1>4. QueuedSessionWaits'
    BY DEF TypeOK, QueuedSessionWaits
<1>5. Loading'
    BY DEF TypeOK, Places, Pointers, Loading, Playing
<1>6. Playing'
    BY DEF TypeOK, Places, Pointers, Loading, Playing
<1>7. Ending'
    BY DEF TypeOK, Places, Pointers, Ending
<1>8. (phase = "halted" => final)'
    OBVIOUS
<1>9. Strays'
    BY DEF TypeOK, Places, Pointers, Loading, Playing, Strays
<1>10. QED
    BY <1>1, <1>2, <1>3, <1>4, <1>5, <1>6, <1>7, <1>8, <1>9

\* A login: who kicks the offline session, takes its character, or is refused.
LEMMA LoginFromDBStep ==
    ASSUME IInv, NEW c \in Characters, LoginFromDB(c)
    PROVE  IInv'
<1> USE ConstantsAssumption DEF IInv, LoginFromDB, IsListed, IsOffline, IsAdded, Fresh,
        InUpdate, NewlyListed, mapVars, sessionVars, playerVars,
        loopVars, stopVars, Waits, LoginPacket, Authed, SetPlayer
<1>0. cur \in Sessions /\ IsListed(cur) /\ AccountOf[cur] \in Accounts
      /\ ~IsOffline(cur) /\ OwnerOf[c] = AccountOf[cur] /\ phase \in InUpdate
    BY DEF TypeOK, Places, Pointers, Loading
<1>a. /\ repeats' \in [Accounts -> Nat]
      /\ \A a \in Accounts : repeats'[a] = 0 => repeats[a] = 0
      /\ repeats'[AccountOf[cur]] = 0 => player[cur] = None /\ ~Waits(cur)
    BY <1>0, Noted
<1>b. /\ loads' \in [Sessions -> [Characters -> Nat]]
      /\ \A s \in Sessions \ {cur} : loads'[s] = loads[s]
      /\ \A d \in Characters \ {c} : loads'[cur][d] = loads[cur][d]
      /\ loads'[cur][c] = loads[cur][c] + 1
    <2>1. loads \in [Sessions -> [Characters -> Nat]] /\ loads[cur][c] + 1 \in Nat
        BY <1>0 DEF TypeOK
    <2>2. loads' = [loads EXCEPT ![cur][c] = loads[cur][c] + 1]
        OBVIOUS
    <2> HIDE DEF IInv
    <2>3. QED
        BY <2>1, <2>2, <1>0, LoadsOfOne
<1>1. TypeOK'
    BY <1>0, <1>a, <1>b DEF TypeOK
<1>2. Places'
    BY DEF TypeOK, Places
<1>3. Pointers'
    BY DEF TypeOK, Pointers
<1>4. QueuedSessionWaits'
    BY DEF TypeOK, QueuedSessionWaits
<1>5. Loading'
    BY <1>0, <1>b DEF TypeOK, Places, Pointers, Loading, Playing
<1>6. Playing'
    <2>1. ASSUME NEW s \in Sessions, NEW t \in Sessions,
                 IsListed(s), IsOffline(t), AccountOf[s] = AccountOf[t],
                 player[t] # None, player[s] # None \/ Waits(s)'
          PROVE  /\ t \in kicked' /\ phase \in InUpdate \union {"check"}
                 /\ player[s] # player[t] /\ loads'[s][player[t]] = 0
        <3>1. CASE s = cur
            <4>1. t = offline[OwnerOf[c]] /\ t \notin kicked /\ player[t] # c
                  /\ t \in kicked' /\ player[t] \in Characters \ {c}
                BY <2>1, <3>1, <1>0 DEF TypeOK
            <4>2. player[cur] = None /\ ~Waits(cur)
                BY <2>1, <3>1, <4>1, <1>0 DEF Playing
            <4>3. loads[cur][player[t]] = 0
                BY <4>1, <4>2, <1>0 DEF TypeOK
            <4>4. QED
                BY <2>1, <3>1, <4>1, <4>2, <4>3, <1>0, <1>b
        <3>2. CASE s # cur
            BY <2>1, <3>2, <1>0, <1>b DEF TypeOK, Playing
        <3>3. QED
            BY <3>1, <3>2
    <2>2. QED
        BY <2>1 DEF TypeOK, Playing
<1>7. Ending'
    BY DEF TypeOK, Places, Pointers, Ending
<1>8. (phase = "halted" => final)'
    OBVIOUS
<1>9. Strays'
    <2>1. \A d \in stray' : repeats'[OwnerOf[d]] > 0
        BY <1>a DEF TypeOK, Strays
    <2>2. ASSUME NEW s \in Sessions, NEW d \in Characters,
                 loads'[s][d] > 0, repeats'[AccountOf[s]] = 0
          PROVE  /\ player'[s] = None /\ loads'[s][d] = 1
                 /\ \A e \in Characters \ {d} : loads'[s][e] = 0
        <3>1. CASE s = cur
            <4>1. player[cur] = None /\ \A e \in Characters : loads[cur][e] = 0
                BY <2>2, <3>1, <1>a, <1>0 DEF TypeOK
            <4>2. QED
                BY <2>2, <3>1, <4>1, <1>b
        <3>2. CASE s # cur
            <4>1. repeats[AccountOf[s]] = 0
                BY <2>2, <1>a DEF TypeOK
            <4>2. QED
                BY <2>2, <3>2, <4>1, <1>b DEF Strays
        <3>3. QED
            BY <3>1, <3>2
    <2>3. QED
        BY <2>1, <2>2 DEF Strays
<1>10. QED
    BY <1>1, <1>2, <1>3, <1>4, <1>5, <1>6, <1>7, <1>8, <1>9

LEMMA LoginToCharInWorldStep ==
    ASSUME IInv, NEW c \in Characters, LoginToCharInWorld(c)
    PROVE  IInv'
<1> USE ConstantsAssumption DEF IInv, LoginToCharInWorld, IsListed, IsOffline, IsAdded, Fresh,
        InUpdate, NewlyListed, mapVars, sessionVars, playerVars,
        loopVars, stopVars, Waits, LoginPacket, Authed, SetPlayer
<1>0. cur \in Sessions /\ IsListed(cur) /\ AccountOf[cur] \in Accounts
      /\ ~IsOffline(cur) /\ OwnerOf[c] = AccountOf[cur] /\ phase \in InUpdate
    BY DEF TypeOK, Places, Pointers, Loading
<1>1. /\ offline[OwnerOf[c]] \in Sessions \ {cur} /\ IsOffline(offline[OwnerOf[c]])
      /\ player[offline[OwnerOf[c]]] = c
      /\ player' = [player EXCEPT ![offline[OwnerOf[c]]] = None, ![cur] = c]
      /\ stray' = stray \union ({player[cur]} \ {None})
      /\ loading' = loading \ {cur} /\ phase = "packets" /\ cur \in legit
    BY <1>0 DEF TypeOK, Places
<1>2. UNCHANGED <<unused, addQueue, sessions, offline, queued, recent, deleted, tolerated,
                  open, kicked, inQueue, initializing, legit, loads, phase, visit, cur,
                  stopped, final>>
    OBVIOUS
<1>3. /\ repeats' \in [Accounts -> Nat]
      /\ \A a \in Accounts : repeats'[a] = 0 => repeats[a] = 0
      /\ repeats'[AccountOf[cur]] = 0 => player[cur] = None /\ ~Waits(cur)
    BY <1>0, Noted
<1>4. \A s \in Sessions : player'[s] =
         IF s = cur THEN c ELSE IF s = offline[OwnerOf[c]] THEN None ELSE player[s]
    BY <1>0, <1>1 DEF TypeOK
<1> HIDE DEF LoginToCharInWorld
<1>5. TypeOK'
    <2>1. player' \in [Sessions -> Characters \union {None}]
        BY <1>1 DEF TypeOK
    <2>2. player[cur] \in Characters \union {None}
        BY <1>0 DEF TypeOK
    <2>3. stray' \in SUBSET Characters
        BY <2>2, <1>1 DEF TypeOK
    <2>4. {deleted, open, kicked, inQueue, loading', initializing, legit, tolerated}
             \subseteq SUBSET Sessions
        BY <1>1 DEF TypeOK
    <2>5. QED
        BY <2>1, <2>3, <2>4, <1>2, <1>3 DEF TypeOK
<1>6. Places'
    BY <1>0, <1>1, <1>2, <1>4 DEF Places
<1>7. Pointers'
    BY <1>2 DEF Pointers
<1>8. QueuedSessionWaits'
    <2>1. \A s \in Entries(queued) : s \in Sessions /\ s # cur
        BY <1>1 DEF TypeOK, Entries, QueuedSessionWaits
    <2>2. QED
        BY <2>1, <1>2, <1>4 DEF QueuedSessionWaits
<1>9. Loading'
    BY <1>2 DEF Loading
<1>10. Playing'
    <2>1. ASSUME NEW s \in Sessions, player'[s] # None
          PROVE  /\ IsListed(s) \/ IsOffline(s)
                 /\ OwnerOf[player'[s]] = AccountOf[s]
        BY <2>1, <1>0, <1>4 DEF Playing
    <2>2. ASSUME NEW s \in Sessions, NEW t \in Sessions,
                 IsListed(s), IsOffline(t), AccountOf[s] = AccountOf[t],
                 player'[t] # None, player'[s] # None \/ Waits(s)
          PROVE  /\ t \in kicked /\ phase \in InUpdate \union {"check"}
                 /\ player'[s] # player'[t] /\ loads[s][player'[t]] = 0
        <3>1. s # cur /\ t # cur /\ t # offline[OwnerOf[c]] /\ s # offline[OwnerOf[c]]
            <4>1. t # cur /\ t # offline[OwnerOf[c]]
                BY <2>2, <1>0, <1>1, <1>4
            <4>2. s # cur
                BY <2>2, <4>1, <1>0
            <4>3. s # offline[OwnerOf[c]]
                BY <2>2, <1>1 DEF Places
            <4>4. QED
                BY <4>1, <4>2, <4>3
        <3>2. player'[t] = player[t] /\ player'[s] = player[s]
            BY <1>4, <3>1
        <3>3. QED
            BY <2>2, <3>2 DEF Playing
    <2>3. QED
        BY <2>1, <2>2, <1>2 DEF Playing
<1>11. Ending'
    BY <1>0, <1>1, <1>2, <1>4 DEF TypeOK, Places, Pointers, Ending
<1>12. (phase = "halted" => final)'
    BY <1>2
<1>13. Strays'
    <2>1. ASSUME NEW d \in stray' PROVE repeats'[OwnerOf[d]] > 0
        <3>1. d \in stray \/ (d = player[cur] /\ d # None)
            BY <1>1
        <3>2. CASE d \in stray
            BY <3>2, <1>3 DEF TypeOK, Strays
        <3>3. CASE d = player[cur] /\ d # None
            BY <3>3, <1>0, <1>3 DEF TypeOK, Playing
        <3>4. QED
            BY <3>1, <3>2, <3>3
    <2>2. ASSUME NEW s \in Sessions, NEW d \in Characters,
                 loads[s][d] > 0, repeats'[AccountOf[s]] = 0
          PROVE  /\ player'[s] = None /\ loads[s][d] = 1
                 /\ \A e \in Characters \ {d} : loads[s][e] = 0
        <3>1. s # cur
            BY <2>2, <1>3
        <3>2. repeats[AccountOf[s]] = 0
            BY <2>2, <1>3
        <3>3. QED
            BY <2>2, <3>1, <3>2, <1>4 DEF Strays
    <2>3. QED
        BY <2>1, <2>2, <1>2 DEF Strays
<1>14. QED
    BY <1>5, <1>6, <1>7, <1>8, <1>9, <1>10, <1>11, <1>12, <1>13

LEMMA LoginRefusedStep ==
    ASSUME IInv, NEW c \in Characters, LoginRefused(c)
    PROVE  IInv'
<1> USE ConstantsAssumption DEF IInv, LoginRefused, IsListed, IsOffline, IsAdded, Fresh,
        InUpdate, NewlyListed, mapVars, sessionVars, playerVars,
        loopVars, stopVars, Waits, LoginPacket, Authed, SetPlayer
<1>1. TypeOK'
    BY DEF TypeOK
<1>2. Places'
    BY DEF TypeOK, Places
<1>3. Pointers'
    BY DEF TypeOK, Pointers
<1>4. QueuedSessionWaits'
    BY DEF TypeOK, QueuedSessionWaits
<1>5. Loading'
    BY DEF TypeOK, Places, Pointers, Loading, Playing
<1>6. Playing'
    BY DEF TypeOK, Places, Pointers, Loading, Playing
<1>7. Ending'
    BY DEF TypeOK, Places, Pointers, Ending
<1>8. (phase = "halted" => final)'
    OBVIOUS
<1>9. Strays'
    BY DEF TypeOK, Places, Pointers, Loading, Playing, Strays
<1>10. QED
    BY <1>1, <1>2, <1>3, <1>4, <1>5, <1>6, <1>7, <1>8, <1>9

\* What else a session's Update meets.
LEMMA KickPlayerStep ==
    ASSUME IInv, KickPlayer
    PROVE  IInv'
<1> USE ConstantsAssumption DEF IInv, KickPlayer, Authed, IsListed, IsOffline, IsAdded, Fresh,
        InUpdate, NewlyListed, mapVars, sessionVars, playerVars,
        loopVars, stopVars, Waits
<1>1. TypeOK'
    BY DEF TypeOK, Pointers
<1>2. Places'
    BY DEF TypeOK, Places, Pointers
<1>3. Pointers'
    BY DEF TypeOK, Pointers
<1>4. QueuedSessionWaits'
    BY DEF TypeOK, QueuedSessionWaits
<1>5. Loading'
    BY DEF TypeOK, Places, Pointers, Loading, Playing
<1>6. Playing'
    BY DEF TypeOK, Places, Pointers, Loading, Playing
<1>7. Ending'
    BY DEF TypeOK, Places, Pointers, Ending
<1>8. (phase = "halted" => final)'
    OBVIOUS
<1>9. Strays'
    BY DEF TypeOK, Places, Pointers, Loading, Playing, Strays
<1>10. QED
    BY <1>1, <1>2, <1>3, <1>4, <1>5, <1>6, <1>7, <1>8, <1>9

LEMMA HandleCharEnumStep ==
    ASSUME IInv, HandleCharEnum
    PROVE  IInv'
<1> USE ConstantsAssumption DEF IInv, HandleCharEnum, Authed, IsListed, IsOffline, IsAdded, Fresh,
        InUpdate, NewlyListed, mapVars, sessionVars, playerVars,
        loopVars, stopVars, Waits
<1>1. TypeOK'
    BY DEF TypeOK, Pointers
<1>2. Places'
    BY DEF TypeOK, Places, Pointers
<1>3. Pointers'
    BY DEF TypeOK, Pointers
<1>4. QueuedSessionWaits'
    BY DEF TypeOK, QueuedSessionWaits
<1>5. Loading'
    BY DEF TypeOK, Places, Pointers, Loading, Playing
<1>6. Playing'
    BY DEF TypeOK, Places, Pointers, Loading, Playing
<1>7. Ending'
    BY DEF TypeOK, Places, Pointers, Ending
<1>8. (phase = "halted" => final)'
    OBVIOUS
<1>9. Strays'
    BY DEF TypeOK, Places, Pointers, Loading, Playing, Strays
<1>10. QED
    BY <1>1, <1>2, <1>3, <1>4, <1>5, <1>6, <1>7, <1>8, <1>9

LEMMA InitializeSessionCallbackStep ==
    ASSUME IInv, InitializeSessionCallback
    PROVE  IInv'
<1> USE ConstantsAssumption DEF IInv, InitializeSessionCallback, IsListed, IsOffline, IsAdded, Fresh,
        InUpdate, NewlyListed, mapVars, sessionVars, playerVars,
        loopVars, stopVars, Waits
<1>1. TypeOK'
    BY DEF TypeOK
<1>2. Places'
    BY DEF TypeOK, Places
<1>3. Pointers'
    BY DEF TypeOK, Pointers
<1>4. QueuedSessionWaits'
    BY DEF TypeOK, QueuedSessionWaits
<1>5. Loading'
    BY DEF TypeOK, Places, Pointers, Loading, Playing
<1>6. Playing'
    BY DEF TypeOK, Places, Pointers, Loading, Playing
<1>7. Ending'
    BY DEF TypeOK, Places, Pointers, Ending
<1>8. (phase = "halted" => final)'
    OBVIOUS
<1>9. Strays'
    BY DEF TypeOK, Places, Pointers, Loading, Playing, Strays
<1>10. QED
    BY <1>1, <1>2, <1>3, <1>4, <1>5, <1>6, <1>7, <1>8, <1>9

LEMMA HandlePlayerLoginFromDBStep ==
    ASSUME IInv, NEW c \in Characters, HandlePlayerLoginFromDB(c)
    PROVE  IInv'
<1> USE ConstantsAssumption DEF IInv, HandlePlayerLoginFromDB, LoginAnswered, SetPlayer, IsListed, IsOffline, IsAdded, Fresh,
        InUpdate, NewlyListed, mapVars, sessionVars, playerVars,
        loopVars, stopVars, Waits
<1>0. cur \in Sessions /\ IsListed(cur) /\ AccountOf[cur] \in Accounts
      /\ ~IsOffline(cur) /\ OwnerOf[c] = AccountOf[cur] /\ phase \in InUpdate
    BY DEF TypeOK, Places, Pointers, Loading
<1>b. /\ loads' \in [Sessions -> [Characters -> Nat]]
      /\ \A s \in Sessions \ {cur} : loads'[s] = loads[s]
      /\ \A d \in Characters \ {c} : loads'[cur][d] = loads[cur][d]
      /\ loads'[cur][c] = loads[cur][c] - 1
    <2>1. loads \in [Sessions -> [Characters -> Nat]] /\ loads[cur][c] - 1 \in Nat
        BY <1>0 DEF TypeOK
    <2>2. loads' = [loads EXCEPT ![cur][c] = loads[cur][c] - 1]
        OBVIOUS
    <2> HIDE DEF IInv
    <2>3. QED
        BY <2>1, <2>2, <1>0, LoadsOfOne
<1>1. TypeOK'
    <2>1. /\ player' \in [Sessions -> Characters \union {None}]
          /\ stray' \in SUBSET Characters /\ loading' \in SUBSET Sessions
        BY <1>0 DEF TypeOK
    <2>2. QED
        BY <2>1, <1>0, <1>b DEF TypeOK
<1>2. Places'
    BY <1>0, <1>b DEF TypeOK, Places
<1>3. Pointers'
    BY DEF TypeOK, Pointers
<1>4. QueuedSessionWaits'
    BY <1>0, <1>b DEF TypeOK, QueuedSessionWaits
<1>5. Loading'
    BY <1>0, <1>b DEF TypeOK, Places, Pointers, Loading, Playing
<1>6. Playing'
    <2>1. ASSUME NEW s \in Sessions, NEW d \in Characters, loads'[s][d] > 0
          PROVE  loads[s][d] > 0
        BY <2>1, <1>0, <1>b DEF TypeOK
    <2>2. ASSUME NEW s \in Sessions, NEW t \in Sessions,
                 IsListed(s), IsOffline(t), AccountOf[s] = AccountOf[t],
                 player'[t] # None, player'[s] # None \/ Waits(s)'
          PROVE  /\ t \in kicked' /\ phase' \in InUpdate \union {"check"}
                 /\ player'[s] # player'[t] /\ loads'[s][player'[t]] = 0
        <3>1. t # cur /\ player'[t] = player[t] /\ player[t] \in Characters
            BY <2>2, <1>0 DEF TypeOK
        <3>2. player[s] # None \/ Waits(s)
            BY <2>1, <2>2, <1>0 DEF TypeOK
        <3>3. /\ t \in kicked /\ phase \in InUpdate \union {"check"}
              /\ player[s] # player[t] /\ loads[s][player[t]] = 0
            BY <2>2, <3>1, <3>2 DEF Playing
        <3>4. loads'[s][player[t]] = 0
            BY <2>1, <3>1, <3>3, <1>b DEF TypeOK
        <3>5. player'[s] # player[t]
            BY <3>1, <3>3, <1>0 DEF TypeOK
        <3>6. QED
            BY <3>1, <3>3, <3>4, <3>5
    <2>3. \A s \in Sessions : player'[s] # None =>
             /\ IsListed(s) \/ IsOffline(s)
             /\ OwnerOf[player'[s]] = AccountOf[s]
        BY <1>0 DEF TypeOK, Playing
    <2>4. QED
        BY <2>2, <2>3 DEF Playing
<1>7. Ending'
    BY <1>0, <1>b DEF TypeOK, Places, Pointers, Ending
<1>8. (phase = "halted" => final)'
    OBVIOUS
<1>9. Strays'
    <2>1. ASSUME NEW d \in stray' PROVE repeats[OwnerOf[d]] > 0
        <3>1. d \in stray \/ (d = player[cur] /\ d # None)
            OBVIOUS
        <3>2. CASE d = player[cur] /\ d # None
            BY <3>2, <1>0 DEF TypeOK, Playing, Strays
        <3>3. QED
            BY <3>1, <3>2 DEF Strays
    <2>2. ASSUME NEW s \in Sessions, NEW d \in Characters,
                 loads'[s][d] > 0, repeats[AccountOf[s]] = 0
          PROVE  /\ player'[s] = None /\ loads'[s][d] = 1
                 /\ \A e \in Characters \ {d} : loads'[s][e] = 0
        <3>1. CASE s = cur
            <4>1. loads[cur][c] = 1 /\ \A e \in Characters \ {c} : loads[cur][e] = 0
                BY <2>2, <3>1, <1>0 DEF Strays
            <4>2. QED
                BY <2>2, <3>1, <4>1, <1>b
        <3>2. CASE s # cur
            BY <2>2, <3>2, <1>0, <1>b DEF TypeOK, Strays
        <3>3. QED
            BY <3>1, <3>2
    <2>3. QED
        BY <2>1, <2>2 DEF Strays
<1>10. QED
    BY <1>1, <1>2, <1>3, <1>4, <1>5, <1>6, <1>7, <1>8, <1>9

LEMMA LoadFailsStep ==
    ASSUME IInv, NEW c \in Characters, LoadFails(c)
    PROVE  IInv'
<1> USE ConstantsAssumption DEF IInv, LoadFails, LoginAnswered, SetPlayer, IsListed, IsOffline, IsAdded, Fresh,
        InUpdate, NewlyListed, mapVars, sessionVars, playerVars,
        loopVars, stopVars, Waits
<1>0. cur \in Sessions /\ IsListed(cur) /\ AccountOf[cur] \in Accounts
      /\ ~IsOffline(cur) /\ OwnerOf[c] = AccountOf[cur] /\ phase \in InUpdate
    BY DEF TypeOK, Places, Pointers, Loading
<1>b. /\ loads' \in [Sessions -> [Characters -> Nat]]
      /\ \A s \in Sessions \ {cur} : loads'[s] = loads[s]
      /\ \A d \in Characters \ {c} : loads'[cur][d] = loads[cur][d]
      /\ loads'[cur][c] = loads[cur][c] - 1
    <2>1. loads \in [Sessions -> [Characters -> Nat]] /\ loads[cur][c] - 1 \in Nat
        BY <1>0 DEF TypeOK
    <2>2. loads' = [loads EXCEPT ![cur][c] = loads[cur][c] - 1]
        OBVIOUS
    <2> HIDE DEF IInv
    <2>3. QED
        BY <2>1, <2>2, <1>0, LoadsOfOne
<1>1. TypeOK'
    BY <1>0, <1>b DEF TypeOK
<1>2. Places'
    BY <1>0, <1>b DEF TypeOK, Places
<1>3. Pointers'
    BY DEF TypeOK, Pointers
<1>4. QueuedSessionWaits'
    BY <1>0, <1>b DEF TypeOK, QueuedSessionWaits
<1>5. Loading'
    BY <1>0, <1>b DEF TypeOK, Places, Pointers, Loading, Playing
<1>6. Playing'
    <2>1. ASSUME NEW s \in Sessions, NEW d \in Characters, loads'[s][d] > 0
          PROVE  loads[s][d] > 0
        BY <2>1, <1>0, <1>b DEF TypeOK
    <2>2. ASSUME NEW s \in Sessions, NEW t \in Sessions,
                 IsListed(s), IsOffline(t), AccountOf[s] = AccountOf[t],
                 player'[t] # None, player'[s] # None \/ Waits(s)'
          PROVE  /\ t \in kicked' /\ phase' \in InUpdate \union {"check"}
                 /\ player'[s] # player'[t] /\ loads'[s][player'[t]] = 0
        <3>1. t # cur /\ player'[t] = player[t] /\ player[t] \in Characters
            BY <2>2, <1>0 DEF TypeOK
        <3>2. player[s] # None \/ Waits(s)
            BY <2>1, <2>2, <1>0 DEF TypeOK
        <3>3. /\ t \in kicked /\ phase \in InUpdate \union {"check"}
              /\ player[s] # player[t] /\ loads[s][player[t]] = 0
            BY <2>2, <3>1, <3>2 DEF Playing
        <3>4. loads'[s][player[t]] = 0
            BY <2>1, <3>1, <3>3, <1>b DEF TypeOK
        <3>5. player'[s] # player[t]
            BY <3>1, <3>3, <1>0 DEF TypeOK
        <3>6. QED
            BY <3>1, <3>3, <3>4, <3>5
    <2>3. \A s \in Sessions : player'[s] # None =>
             /\ IsListed(s) \/ IsOffline(s)
             /\ OwnerOf[player'[s]] = AccountOf[s]
        BY <1>0 DEF TypeOK, Playing
    <2>4. QED
        BY <2>2, <2>3 DEF Playing
<1>7. Ending'
    BY <1>0, <1>b DEF TypeOK, Places, Pointers, Ending
<1>8. (phase = "halted" => final)'
    OBVIOUS
<1>9. Strays'
    <2>1. ASSUME NEW d \in stray' PROVE repeats[OwnerOf[d]] > 0
        <3>1. d \in stray \/ (d = player[cur] /\ d # None)
            OBVIOUS
        <3>2. CASE d = player[cur] /\ d # None
            BY <3>2, <1>0 DEF TypeOK, Playing, Strays
        <3>3. QED
            BY <3>1, <3>2 DEF Strays
    <2>2. ASSUME NEW s \in Sessions, NEW d \in Characters,
                 loads'[s][d] > 0, repeats[AccountOf[s]] = 0
          PROVE  /\ player'[s] = None /\ loads'[s][d] = 1
                 /\ \A e \in Characters \ {d} : loads'[s][e] = 0
        <3>1. CASE s = cur
            <4>1. loads[cur][c] = 1 /\ \A e \in Characters \ {c} : loads[cur][e] = 0
                BY <2>2, <3>1, <1>0 DEF Strays
            <4>2. QED
                BY <2>2, <3>1, <4>1, <1>b
        <3>2. CASE s # cur
            BY <2>2, <3>2, <1>0, <1>b DEF TypeOK, Strays
        <3>3. QED
            BY <3>1, <3>2
    <2>3. QED
        BY <2>1, <2>2 DEF Strays
<1>10. QED
    BY <1>1, <1>2, <1>3, <1>4, <1>5, <1>6, <1>7, <1>8, <1>9

LEMMA LogoutPlayerStep ==
    ASSUME IInv, LogoutPlayer
    PROVE  IInv'
<1> USE ConstantsAssumption DEF IInv, LogoutPlayer, IsListed, IsOffline, IsAdded, Fresh,
        InUpdate, NewlyListed, mapVars, sessionVars, playerVars,
        loopVars, stopVars, Waits
<1>1. TypeOK'
    BY DEF TypeOK
<1>2. Places'
    BY DEF TypeOK, Places
<1>3. Pointers'
    BY DEF TypeOK, Pointers
<1>4. QueuedSessionWaits'
    BY DEF TypeOK, QueuedSessionWaits
<1>5. Loading'
    BY DEF TypeOK, Places, Pointers, Loading, Playing
<1>6. Playing'
    BY DEF TypeOK, Places, Pointers, Loading, Playing
<1>7. Ending'
    BY DEF TypeOK, Places, Pointers, Ending
<1>8. (phase = "halted" => final)'
    OBVIOUS
<1>9. Strays'
    BY DEF TypeOK, Places, Pointers, Loading, Playing, Strays
<1>10. QED
    BY <1>1, <1>2, <1>3, <1>4, <1>5, <1>6, <1>7, <1>8, <1>9

LEMMA KeepSessionStep ==
    ASSUME IInv, KeepSession
    PROVE  IInv'
<1> USE ConstantsAssumption DEF IInv, KeepSession, IsListed, IsOffline, IsAdded, Fresh,
        InUpdate, NewlyListed, mapVars, sessionVars, playerVars,
        loopVars, stopVars, Waits
<1>1. TypeOK'
    BY DEF TypeOK
<1>2. Places'
    BY DEF TypeOK, Places
<1>3. Pointers'
    BY DEF TypeOK, Pointers
<1>4. QueuedSessionWaits'
    BY DEF TypeOK, QueuedSessionWaits
<1>5. Loading'
    BY DEF TypeOK, Places, Pointers, Loading, Playing
<1>6. Playing'
    BY DEF TypeOK, Places, Pointers, Loading, Playing
<1>7. Ending'
    BY DEF TypeOK, Places, Pointers, Ending
<1>8. (phase = "halted" => final)'
    OBVIOUS
<1>9. Strays'
    BY DEF TypeOK, Places, Pointers, Loading, Playing, Strays
<1>10. QED
    BY <1>1, <1>2, <1>3, <1>4, <1>5, <1>6, <1>7, <1>8, <1>9

\* A new session waits in the queue of World::AddSession.
LEMMA ConnectStep ==
    ASSUME IInv, NEW s \in Sessions, Connect(s)
    PROVE  IInv'
<1>0. /\ s \in unused /\ unused' = unused \ {s} /\ open' = open \union {s}
      /\ addQueue' = Append(addQueue, s)
      /\ UNCHANGED <<sessions, offline, queued, recent, deleted, tolerated,
                     sessionVars, playerVars, loopVars, stopVars>>
    BY DEF Connect
<1> USE ConstantsAssumption DEF IInv, IsListed, IsOffline, IsAdded, Fresh,
        InUpdate, NewlyListed, mapVars, sessionVars, playerVars,
        loopVars, stopVars, Waits
<1>1. /\ addQueue' \in Seq(Sessions)
      /\ Entries(addQueue') = Entries(addQueue) \union {s}
      /\ Distinct(addQueue')
    <2>1. s \notin Entries(addQueue) /\ Distinct(addQueue)
        BY <1>0 DEF Places, Distinct
    <2>2. QED
        BY <1>0, <2>1, Appended DEF TypeOK
<1>2. TypeOK'
    BY <1>0, <1>1 DEF TypeOK
<1>3. Places'
    BY <1>0, <1>1 DEF TypeOK, Places, Distinct
<1>4. Pointers'
    BY <1>0 DEF TypeOK, Pointers
<1>5. QueuedSessionWaits'
    BY <1>0 DEF TypeOK, QueuedSessionWaits
<1>6. Loading'
    BY <1>0 DEF TypeOK, Loading
<1>7. Playing'
    BY <1>0 DEF TypeOK, Playing
<1>8. Ending'
    BY <1>0 DEF TypeOK, Places, Ending
<1>9. (phase = "halted" => final)'
    BY <1>0
<1>10. Strays'
    BY <1>0, <1>1 DEF TypeOK, Places, Pointers, Loading, Playing, Strays
<1>11. QED
    BY <1>2, <1>3, <1>4, <1>5, <1>6, <1>7, <1>8, <1>9, <1>10

\* KickAll kicks everybody that has been taken in, and forgets the login queue.
LEMMA KickAllStep ==
    ASSUME IInv, KickAll
    PROVE  IInv'
<1> USE ConstantsAssumption DEF IInv, KickAll, IsListed, IsOffline, IsAdded, Fresh,
        InUpdate, NewlyListed, mapVars, sessionVars, playerVars,
        loopVars, stopVars, Waits
<1>1. TypeOK'
    BY DEF TypeOK, Listed, Offline
<1>2. Places'
    BY DEF TypeOK, Places, Listed, Offline
<1>3. Pointers'
    BY DEF TypeOK, Pointers, Entries
<1>4. QueuedSessionWaits'
    BY DEF Entries, QueuedSessionWaits
<1>5. Loading'
    BY DEF TypeOK, Loading
<1>6. Playing'
    BY DEF TypeOK, Playing, Listed, Offline
<1>7. Ending'
    BY DEF TypeOK, Listed, Offline, Places, Ending
<1>8. (phase = "halted" => final)'
    OBVIOUS
<1>9. Strays'
    BY DEF TypeOK, Places, Pointers, Loading, Playing, Strays
<1>10. QED
    BY <1>1, <1>2, <1>3, <1>4, <1>5, <1>6, <1>7, <1>8, <1>9

\* AddSession_ deletes the new session.
LEMMA RefuseSessionStep ==
    ASSUME IInv, RefuseSession
    PROVE  IInv'
<1> USE ConstantsAssumption DEF IInv, RefuseSession, IsListed, IsOffline, IsAdded, Fresh,
        InUpdate, NewlyListed, mapVars, sessionVars, playerVars,
        loopVars, stopVars, Waits, Delete
<1>1. /\ Head(addQueue) \in Entries(addQueue) /\ Head(addQueue) \in Sessions
      /\ addQueue' \in Seq(Sessions)
      /\ Entries(addQueue') = Entries(addQueue) \ {Head(addQueue)}
      /\ Distinct(addQueue')
    BY Shortened DEF TypeOK, Places, Distinct
<1>2. TypeOK'
    BY <1>1 DEF TypeOK
<1>3. Places'
    BY <1>1 DEF TypeOK, Places, Distinct
<1>4. Pointers'
    BY <1>1 DEF TypeOK, Pointers
<1>5. QueuedSessionWaits'
    BY <1>1 DEF TypeOK, Places, Pointers, QueuedSessionWaits
<1>6. Loading'
    BY <1>1 DEF TypeOK, Places, Pointers, Loading, Playing
<1>7. Playing'
    BY <1>1 DEF TypeOK, Places, Pointers, Loading, Playing
<1>8. Ending'
    BY <1>1 DEF TypeOK, Places, Pointers, Loading, Playing, Ending
<1>9. (phase = "halted" => final)'
    OBVIOUS
<1>10. Strays'
    BY <1>1 DEF TypeOK, Places, Pointers, Loading, Playing, Strays
<1>11. QED
    BY <1>2, <1>3, <1>4, <1>5, <1>6, <1>7, <1>8, <1>9, <1>10

\* The sessions that UpdateSessions drops leave the login queue, from where another is
\* admitted.
LEMMA RemoveSessionStep ==
    ASSUME IInv, RemoveSession
    PROVE  IInv'
<1> USE ConstantsAssumption DEF IInv, RemoveSession, IsListed, IsOffline, IsAdded, Fresh,
        InUpdate, NewlyListed, mapVars, sessionVars, playerVars,
        loopVars, stopVars, Waits, Delete, Forget, NoLoads, RecentAfter
<1>1. /\ cur \in Sessions /\ IsListed(cur) /\ AccountOf[cur] \notin visit
    BY DEF TypeOK, Places, Pointers
<1>2. /\ queued' \in Seq(Sessions)
      /\ Distinct(queued')
      /\ Admitted(cur) \subseteq Entries(queued) \ {cur}
      /\ Entries(queued') = Entries(queued) \ ({cur} \union Admitted(cur))
    BY <1>1, Dequeued DEF TypeOK, Pointers, Distinct
<1>3. TypeOK'
    BY <1>1, <1>2 DEF TypeOK, Entries
<1>4. Places'
    <2>1. /\ \A b \in Accounts : sessions'[b] # None => AccountOf[sessions'[b]] = b
          /\ \A b \in Accounts : offline'[b] # None => AccountOf[offline'[b]] = b
        BY <1>1 DEF TypeOK, Places
    <2>2. ASSUME NEW s \in Sessions
          PROVE  /\ s \in unused => s \notin deleted' /\ ~IsListed(s)' /\ ~IsOffline(s)'
                 /\ s \in deleted' => ~IsAdded(s) /\ ~IsListed(s)' /\ ~IsOffline(s)'
                 /\ IsAdded(s) => ~IsListed(s)' /\ ~IsOffline(s)'
                 /\ IsListed(s)' => ~IsOffline(s)'
                 /\ s \notin unused \union deleted' => IsAdded(s) \/ IsListed(s)' \/ IsOffline(s)'
        BY <1>1 DEF TypeOK, Places
    <2>3. ASSUME NEW s \in Sessions, s \in unused \/ IsAdded(s)
          PROVE  Fresh(s)'
        BY <1>1, <1>2, <2>3 DEF TypeOK, Places, Pointers
    <2>4. QED
        BY <2>1, <2>2, <2>3 DEF Places
<1>5. Pointers'
    BY <1>1, <1>2 DEF TypeOK, Places, Pointers, Distinct
<1>6. QueuedSessionWaits'
    BY <1>1, <1>2 DEF TypeOK, Pointers, QueuedSessionWaits, Distinct
<1>7. Loading'
    BY <1>1, <1>2 DEF TypeOK, Places, Pointers, Loading, Playing
<1>8. Playing'
    BY <1>1, <1>2 DEF TypeOK, Places, Pointers, Loading, Playing
<1>9. Ending'
    BY <1>1, <1>2 DEF TypeOK, Places, Pointers, Ending
<1>10. (phase = "halted" => final)'
    OBVIOUS
<1>11. Strays'
    BY <1>1 DEF TypeOK, Places, Pointers, Loading, Playing, Strays
<1>12. QED
    BY <1>3, <1>4, <1>5, <1>6, <1>7, <1>8, <1>9, <1>10, <1>11

LEMMA GoOfflineStep ==
    ASSUME IInv, NEW a \in Accounts, GoOffline(a)
    PROVE  IInv'
<1> USE ConstantsAssumption DEF IInv, GoOffline, IsListed, IsOffline, IsAdded, Fresh,
        InUpdate, NewlyListed, mapVars, sessionVars, playerVars,
        loopVars, stopVars, Waits, Delete, Forget, NoLoads, RecentAfter, Lingers
<1>1. /\ sessions[a] \in Sessions /\ IsListed(sessions[a]) /\ AccountOf[sessions[a]] = a
    BY DEF TypeOK, Places, Pointers
<1>2. /\ queued' \in Seq(Sessions)
      /\ Distinct(queued')
      /\ Admitted(sessions[a]) \subseteq Entries(queued) \ {sessions[a]}
      /\ Entries(queued') = Entries(queued) \ ({sessions[a]} \union Admitted(sessions[a]))
    BY <1>1, Dequeued DEF TypeOK, Pointers, Distinct
<1>3. TypeOK'
    BY <1>1, <1>2 DEF TypeOK, Entries
<1>4. Places'
    <2>1. /\ \A b \in Accounts : sessions'[b] # None => AccountOf[sessions'[b]] = b
          /\ \A b \in Accounts : offline'[b] # None => AccountOf[offline'[b]] = b
        BY <1>1 DEF TypeOK, Places
    <2>2. ASSUME NEW s \in Sessions
          PROVE  /\ s \in unused => s \notin deleted' /\ ~IsListed(s)' /\ ~IsOffline(s)'
                 /\ s \in deleted' => ~IsAdded(s) /\ ~IsListed(s)' /\ ~IsOffline(s)'
                 /\ IsAdded(s) => ~IsListed(s)' /\ ~IsOffline(s)'
                 /\ IsListed(s)' => ~IsOffline(s)'
                 /\ s \notin unused \union deleted' => IsAdded(s) \/ IsListed(s)' \/ IsOffline(s)'
        BY <1>1 DEF TypeOK, Places
    <2>3. ASSUME NEW s \in Sessions, s \in unused \/ IsAdded(s)
          PROVE  Fresh(s)'
        BY <1>1, <1>2, <2>3 DEF TypeOK, Places, Pointers
    <2>4. QED
        BY <2>1, <2>2, <2>3 DEF Places
<1>5. Pointers'
    BY <1>1, <1>2 DEF TypeOK, Places, Pointers, Distinct
<1>6. QueuedSessionWaits'
    <2>1. Entries(queued) \subseteq Sessions
        BY DEF TypeOK, Entries
    <2>2. ASSUME NEW s \in Entries(queued')
          PROVE  /\ s \in Entries(queued) /\ s # sessions[a] /\ s \in Sessions
                 /\ s \notin Admitted(sessions[a])
        BY <1>2, <2>1, <2>2
    <2>3. QED
        <3>1. ASSUME NEW s \in Entries(queued')
              PROVE  /\ s \in inQueue' /\ player'[s] = None /\ ~Waits(s)'
                     /\ s \notin initializing' /\ s \notin legit'
            <4>1. s \in inQueue /\ player[s] = None /\ ~Waits(s)
                  /\ s \notin initializing /\ s \notin legit
                BY <2>2 DEF QueuedSessionWaits
            <4>2. ~Waits(s)'
                BY <2>2, <4>1
            <4>3. QED
                BY <2>2, <4>1, <4>2, <1>1
        <3>2. QED
            BY <3>1 DEF QueuedSessionWaits
<1>7. Loading'
    BY <1>1, <1>2 DEF TypeOK, Places, Pointers, Loading, Playing
<1>8. Playing'
    BY <1>1, <1>2 DEF TypeOK, Places, Pointers, Loading, Playing
<1>9. Ending'
    BY <1>1, <1>2 DEF TypeOK, Places, Pointers, Ending
<1>10. (phase = "halted" => final)'
    OBVIOUS
<1>11. Strays'
    BY <1>1 DEF TypeOK, Places, Pointers, Loading, Playing, Strays
<1>12. QED
    BY <1>3, <1>4, <1>5, <1>6, <1>7, <1>8, <1>9, <1>10, <1>11

\* After the sweep no offline session is kicked, so no account has two characters.
LEMMA SweepOfflineStep ==
    ASSUME IInv, NEW D \in SUBSET Offline, SweepOffline(D)
    PROVE  IInv'
<1> USE ConstantsAssumption DEF IInv, SweepOffline, IsListed, IsOffline, IsAdded, Fresh,
        InUpdate, NewlyListed, mapVars, sessionVars, playerVars,
        loopVars, stopVars, Waits, Delete, Forget, NoLoads, Swept
<1>1. /\ \A s \in Sessions : s \in Offline <=> IsOffline(s)
      /\ D \subseteq Sessions
    BY DEF Offline, TypeOK, Places
<1>2. TypeOK'
    BY <1>1 DEF TypeOK
<1>3. Places'
    BY <1>1 DEF TypeOK, Places
<1>4. Pointers'
    BY <1>1 DEF TypeOK, Places, Pointers
<1>5. QueuedSessionWaits'
    BY <1>1 DEF TypeOK, Places, Pointers, QueuedSessionWaits
<1>6. Loading'
    BY <1>1 DEF TypeOK, Places, Pointers, Loading, Playing
<1>7. Playing'
    BY <1>1 DEF TypeOK, Places, Pointers, Loading, Playing
<1>8. Ending'
    BY <1>1 DEF TypeOK, Places, Pointers, Loading, Playing, Ending
<1>9. (phase = "halted" => final)'
    OBVIOUS
<1>10. Strays'
    BY <1>1 DEF TypeOK, Places, Pointers, Loading, Playing, Strays
<1>11. QED
    BY <1>2, <1>3, <1>4, <1>5, <1>6, <1>7, <1>8, <1>9, <1>10

\* AddSession_: the new session takes the place of the old one, which goes offline in
\* the place of another or is deleted.
LEMMA AddSessionStep ==
    ASSUME IInv, NEW expired \in SUBSET recent, AddSession_(expired)
    PROVE  IInv'
<1> USE ConstantsAssumption DEF IInv, IsListed, IsOffline, IsAdded, Fresh, InUpdate,
        NewlyListed
<1> DEFINE s == Head(addQueue)
           a == AccountOf[s]
           old == sessions[a]
           stays == old # None /\ Lingers(old)
           gone == (IF old # None /\ ~ stays THEN {old} ELSE {})
                     \union (IF stays THEN {offline[a]} \ {None} ELSE {})
           admitted == IF old # None THEN Admitted(old) ELSE {}
           queue == IF old # None THEN QueueAfter(old) ELSE queued
<1>1. /\ s \in Sessions /\ IsAdded(s)
      /\ addQueue' \in Seq(Sessions)
      /\ Entries(addQueue') = Entries(addQueue) \ {s}
      /\ Distinct(addQueue')
    <2>1. addQueue \in Seq(Sessions) /\ addQueue # << >> /\ addQueue' = Tail(addQueue)
          /\ Distinct(addQueue)
        BY DEF TypeOK, Places, Distinct, AddSession_
    <2> HIDE DEF IInv, IsListed, IsOffline, Fresh, InUpdate, NewlyListed
    <2>2. QED
        BY <2>1, Shortened
<1>2. a \in Accounts /\ ~IsListed(s) /\ ~IsOffline(s) /\ s \notin unused \union deleted
      /\ Fresh(s)
    BY <1>1 DEF TypeOK, Places
<1>3. old # None => /\ old \in Sessions /\ AccountOf[old] = a /\ IsListed(old)
                    /\ old # offline[a]
    <2>1. old # None => /\ old \in Sessions /\ AccountOf[old] = a
                        /\ sessions[AccountOf[old]] = old
        BY <1>2 DEF TypeOK, Places
    <2>2. QED
        BY <2>1 DEF Places
<1>4. offline[a] # None => /\ offline[a] \in Sessions /\ AccountOf[offline[a]] = a
                           /\ IsOffline(offline[a])
    BY <1>2 DEF TypeOK, Places
<1>5. /\ \A t \in gone : t \in Sessions /\ t \in {old, offline[a]} \ {None}
      /\ old # None => (old \in gone <=> ~stays)
      /\ offline[a] # None => (offline[a] \in gone <=> stays)
      /\ s \notin gone
    BY <1>2, <1>3, <1>4
<1>6. /\ queue \in Seq(Sessions)
      /\ Distinct(queue)
      /\ admitted \subseteq Entries(queued) \ {old}
      /\ Entries(queue) = Entries(queued) \ ({old} \union admitted)
    <2>1. Distinct(queued) /\ queued \in Seq(Sessions) /\ None \notin Entries(queued)
        BY DEF TypeOK, Pointers, Distinct, Entries
    <2>2. CASE old # None
        BY <2>1, <2>2, Dequeued
    <2>3. CASE old = None
        BY <2>1, <2>3
    <2>4. QED
        BY <2>2, <2>3
<1>7. /\ sessions' = [sessions EXCEPT ![a] = s]
      /\ offline' = IF stays THEN [offline EXCEPT ![a] = old] ELSE offline
      /\ recent' \in SUBSET Accounts
      /\ deleted' = deleted \union gone
      /\ player' = [t \in Sessions |-> IF t \in gone THEN None ELSE player[t]]
      /\ loads' = [t \in Sessions |-> IF t \in gone THEN NoLoads ELSE loads[t]]
      /\ stray' = stray /\ repeats' = repeats
      /\ kicked' = kicked \ gone /\ loading' = loading \ gone /\ legit' = legit \ gone
      /\ open' = open \ {old}
      /\ tolerated' \in SUBSET Sessions
      /\ unused' = unused /\ phase' = phase /\ visit' = visit /\ cur' = cur
      /\ stopped' = stopped /\ final' = final /\ phase = "add"
    BY <1>1, <1>2 DEF AddSession_, Forget, TypeOK, playerVars, loopVars, stopVars
<1>8. \/ /\ queued' = Append(queue, s)
         /\ inQueue' = (inQueue \ {old}) \union {s}
         /\ initializing' = (initializing \ gone) \union admitted
      \/ /\ queued' = queue
         /\ inQueue' = inQueue \ {old}
         /\ initializing' = (initializing \ gone) \union admitted \union {s}
    BY DEF AddSession_
<1>9. stays => player[old] # None /\ old \notin kicked /\ ~stopped
    BY DEF Lingers
<1>10. s \notin Entries(queue)
    BY <1>2, <1>6 DEF Pointers
<1> HIDE DEF s, a, old, stays, gone, admitted, queue
<1>11. /\ queued' \in Seq(Sessions)
       /\ Distinct(queued')
       /\ Entries(queued') \subseteq Entries(queue) \union {s}
       /\ s \in Entries(queued') => s \in inQueue' /\ s \notin initializing'
       /\ inQueue \ {old} \subseteq inQueue'
       /\ inQueue' \subseteq inQueue \union {s}
       /\ initializing' \subseteq (initializing \ gone) \union admitted \union {s}
    <2>1. s \notin initializing \union admitted
        BY <1>2, <1>6 DEF Pointers
    <2>2. /\ Append(queue, s) \in Seq(Sessions)
          /\ Distinct(Append(queue, s))
          /\ Entries(Append(queue, s)) = Entries(queue) \union {s}
        BY <1>1, <1>6, <1>10, Appended
    <2>3. CASE queued' = queue
        BY <2>1, <2>3, <1>6, <1>8, <1>10
    <2>4. CASE queued' = Append(queue, s) /\ s \in inQueue'
                 /\ initializing' = (initializing \ gone) \union admitted
        BY <2>1, <2>2, <2>4, <1>8
    <2>5. QED
        BY <2>3, <2>4, <1>8
\* Where the sessions are now.
<1>12. \A t \in Sessions :
          /\ IsListed(t)' <=> t = s \/ (IsListed(t) /\ t # old)
          /\ IsOffline(t)' <=> IF stays THEN t = old \/ (IsOffline(t) /\ t # offline[a])
                                        ELSE IsOffline(t)
          /\ IsAdded(t)' <=> IsAdded(t) /\ t # s
    <2>1. \A t \in Sessions : IsListed(t)' <=> t = s \/ (IsListed(t) /\ t # old)
        <3>1. sessions'[a] = s /\ \A b \in Accounts \ {a} : sessions'[b] = sessions[b]
            BY <1>2, <1>7 DEF TypeOK
        <3>2. QED
            BY <3>1, <1>1, <1>2, <1>3 DEF a, old
    <2>2. \A t \in Sessions : IsOffline(t)' <=>
             IF stays THEN t = old \/ (IsOffline(t) /\ t # offline[a]) ELSE IsOffline(t)
        <3>1. CASE stays
            <4>1. /\ offline'[a] = old
                  /\ \A b \in Accounts \ {a} : offline'[b] = offline[b]
                BY <3>1, <1>2, <1>7 DEF TypeOK
            <4>2. old \in Sessions /\ AccountOf[old] = a
                BY <3>1, <1>3 DEF stays
            <4>3. QED
                BY <3>1, <4>1, <4>2, <1>2, <1>4
        <3>2. CASE ~stays
            BY <3>2, <1>7
        <3>3. QED
            BY <3>1, <3>2
    <2>3. QED
        BY <2>1, <2>2, <1>1
<1>13. Entries(queued) \subseteq Sessions
    BY DEF TypeOK, Entries
<1>a. \A t \in Sessions : Waits(t)' <=> Waits(t) /\ t \notin gone
    <2>1. \A t \in Sessions : loads'[t] = IF t \in gone THEN NoLoads ELSE loads[t]
        BY <1>7
    <2>2. \A d \in Characters : ~(NoLoads[d] > 0)
        BY DEF NoLoads
    <2>3. QED
        BY <2>1, <2>2 DEF Waits
<1>14. TypeOK'
    <2>1. sessions' \in [Accounts -> Sessions \union {None}]
          /\ offline' \in [Accounts -> Sessions \union {None}]
        BY <1>1, <1>2, <1>3, <1>7 DEF TypeOK
    <2>2. {deleted', open', kicked', inQueue', loading', initializing', legit', tolerated'}
             \subseteq SUBSET Sessions
        <3>1. deleted' \subseteq Sessions
            BY <1>5, <1>7 DEF TypeOK
        <3>2. /\ open' \subseteq Sessions /\ kicked' \subseteq Sessions
              /\ loading' \subseteq Sessions /\ legit' \subseteq Sessions
              /\ tolerated' \subseteq Sessions
            BY <1>7 DEF TypeOK
        <3>3. inQueue' \subseteq Sessions /\ initializing' \subseteq Sessions
            BY <1>1, <1>6, <1>11, <1>13 DEF TypeOK
        <3>4. QED
            BY <3>1, <3>2, <3>3
    <2>3. /\ player' \in [Sessions -> Characters \union {None}]
          /\ loads' \in [Sessions -> [Characters -> Nat]]
        BY <1>7 DEF TypeOK, NoLoads
    <2>4. QED
        BY <2>1, <2>2, <2>3, <1>1, <1>7, <1>11 DEF TypeOK
<1>15. Places'
    <2>1. /\ \A b \in Accounts : sessions'[b] # None => AccountOf[sessions'[b]] = b
          /\ \A b \in Accounts : offline'[b] # None => AccountOf[offline'[b]] = b
        BY <1>2, <1>3, <1>7 DEF TypeOK, Places, a
    <2>2. ASSUME NEW t \in Sessions
          PROVE  /\ t \in unused => t \notin deleted' /\ ~IsAdded(t)' /\ ~IsListed(t)' /\ ~IsOffline(t)'
                 /\ t \in deleted' => ~IsAdded(t)' /\ ~IsListed(t)' /\ ~IsOffline(t)'
                 /\ IsAdded(t)' => ~IsListed(t)' /\ ~IsOffline(t)'
                 /\ IsListed(t)' => ~IsOffline(t)'
                 /\ t \notin unused \union deleted' => IsAdded(t)' \/ IsListed(t)' \/ IsOffline(t)'
        BY <1>1, <1>2, <1>3, <1>4, <1>5, <1>7, <1>12 DEF Places, stays
    <2>3. ASSUME NEW t \in Sessions, t \in unused \/ IsAdded(t)'
          PROVE  Fresh(t)'
        BY <1>a, <1>1, <1>2, <1>5, <1>6, <1>7, <1>11, <2>3 DEF TypeOK, Places, Pointers
    <2>4. QED
        BY <2>1, <2>2, <2>3, <1>1, <1>7 DEF Places, Distinct
<1>16. Pointers'
    <2>1. \A t \in Entries(queued') : IsListed(t)'
        BY <1>1, <1>6, <1>11, <1>12, <1>13 DEF Pointers
    <2>2. \A t \in initializing' : IsListed(t)' \/ IsOffline(t)'
        BY <1>1, <1>3, <1>4, <1>5, <1>6, <1>11, <1>12, <1>13 DEF TypeOK, Pointers
    <2>3. QED
        BY <2>1, <2>2, <1>7, <1>11 DEF Pointers, Distinct
<1>17. QueuedSessionWaits'
    <2>1. ASSUME NEW t \in Entries(queue)
          PROVE  /\ t \in inQueue' /\ player'[t] = None /\ ~Waits(t)'
                 /\ t # s => t \notin initializing'
                 /\ t \notin legit'
        BY <1>a, <1>6, <1>7, <1>11, <1>13 DEF TypeOK, QueuedSessionWaits
    <2>2. /\ player'[s] = None /\ s \notin legit'
          /\ \A d \in Characters : ~(loads'[s][d] > 0)
        <3>1. player'[s] = None
            BY <1>1, <1>2, <1>7
        <3>2. QED
            <4>1. ~Waits(s) /\ s \notin legit
                BY <1>2
            <4>2. legit' = legit \ gone
                BY <1>7
            <4>3. \A d \in Characters : ~(loads'[s][d] > 0)
                BY <4>1, <1>1, <1>a DEF Waits
            <4>4. QED
                BY <3>1, <4>1, <4>2, <4>3
    <2>3. QED
        BY <2>1, <2>2, <1>10, <1>11 DEF QueuedSessionWaits, Waits
<1>18. Loading'
    <2>1. ASSUME NEW t \in Sessions, NEW d \in Characters, loads'[t][d] > 0
          PROVE  loads[t][d] > 0 /\ t \notin gone
        BY <2>1, <1>7 DEF NoLoads
    <2>2. ASSUME NEW t \in Sessions, t \notin gone, IsListed(t) \/ IsOffline(t)
          PROVE  IsListed(t)' \/ IsOffline(t)'
        BY <2>2, <1>3, <1>4, <1>5, <1>12
    <2>3. QED
        BY <2>1, <2>2 DEF Loading
<1>19. Playing'
    <2>1. ASSUME NEW t \in Sessions, player'[t] # None
          PROVE  /\ IsListed(t)' \/ IsOffline(t)'
                 /\ OwnerOf[player'[t]] = AccountOf[t]
        BY <1>1, <1>2, <1>3, <1>4, <1>5, <1>7, <2>1 DEF TypeOK, Playing, Places, a, old
    <2>2. ASSUME NEW t \in Sessions, NEW u \in Sessions,
                 IsListed(t)', IsOffline(u)', AccountOf[t] = AccountOf[u],
                 player'[u] # None, player'[t] # None \/ Waits(t)'
          PROVE  FALSE
        <3>1. CASE AccountOf[t] = a
            BY <3>1, <2>2, <1>a, <1>1, <1>2, <1>5, <1>7 DEF TypeOK
        <3>2. CASE AccountOf[t] # a
            BY <3>2, <2>2, <1>a, <1>1, <1>2, <1>3, <1>4, <1>5, <1>7 DEF TypeOK, Playing
        <3>3. QED
            BY <3>1, <3>2
    <2>3. QED
        BY <2>1, <2>2 DEF Playing
<1>20. Ending'
    <2>1. phase = "add" /\ phase' = "add" /\ final' = final /\ stopped' = stopped
        BY <1>7
    <2>2. SUFFICES ASSUME final
                   PROVE  /\ \A t \in Sessions : IsOffline(t)' => t \in kicked'
                          /\ \A t \in Sessions : IsListed(t)' /\ t \in open' => NewlyListed(t)'
        BY <2>1 DEF Ending
    <2>3. stopped /\ ~stays
        BY <2>2, <1>9 DEF Ending
    <2>4. ASSUME NEW t \in Sessions, IsOffline(t)'
          PROVE  t \in kicked'
        <3>1. IsOffline(t) /\ t \notin gone
            BY <2>3, <2>4, <1>3, <1>5, <1>12
        <3>2. QED
            BY <3>1, <2>2, <1>7 DEF Ending
    <2>5. ASSUME NEW t \in Sessions, IsListed(t)', t \in open'
          PROVE  NewlyListed(t)'
        <3>1. /\ player' = [u \in Sessions |-> IF u \in gone THEN None ELSE player[u]]
              /\ loads' = [u \in Sessions |-> IF u \in gone THEN NoLoads ELSE loads[u]]
              /\ legit' = legit \ gone /\ open' = open \ {old}
            BY <1>7
        <3>2. t = s \/ IsListed(t)
            BY <2>5, <1>12
        <3>3. NewlyListed(t)
            BY <3>1, <3>2, <2>1, <2>2, <2>5, <1>2 DEF Ending
        <3>4. QED
            BY <3>1, <3>3, <1>a
    <2>6. QED
        BY <2>4, <2>5
<1>21. (phase = "halted" => final)'
    BY <1>7
<1>22. Strays'
    <2>1. /\ stray' = stray /\ repeats' = repeats
          /\ \A t \in Sessions : player'[t] \in {None, player[t]}
          /\ \A t \in Sessions : loads'[t] \in {NoLoads, loads[t]}
        BY <1>7
    <2>2. \A d \in Characters : NoLoads[d] = 0
        BY DEF NoLoads
    <2>3. ASSUME NEW t \in Sessions, NEW d \in Characters,
                 loads'[t][d] > 0, repeats'[AccountOf[t]] = 0
          PROVE  /\ player'[t] = None /\ loads'[t][d] = 1
                 /\ \A e \in Characters \ {d} : loads'[t][e] = 0
        BY <2>1, <2>2, <2>3 DEF Strays
    <2>4. QED
        BY <2>1, <2>3 DEF Strays
<1>23. QED
    BY <1>14, <1>15, <1>16, <1>17, <1>18, <1>19, <1>20, <1>21, <1>22

-----------------------------------------------------------------------------
(* The theorems.                                                           *)

LEMMA InitIInv == Init => IInv
<1> SUFFICES ASSUME Init PROVE IInv
    OBVIOUS
<1> USE ConstantsAssumption DEF Init, IsListed, IsOffline, IsAdded, Fresh, InUpdate, Waits
<1>1. Entries(addQueue) = {} /\ Entries(queued) = {}
    BY DEF Entries
<1>2. TypeOK
    <2>1. << >> \in Seq(Sessions)
        OBVIOUS
    <2>2. /\ sessions \in [Accounts -> Sessions \union {None}]
          /\ offline \in [Accounts -> Sessions \union {None}]
          /\ player \in [Sessions -> Characters \union {None}]
          /\ loads \in [Sessions -> [Characters -> Nat]]
          /\ repeats \in [Accounts -> Nat]
        OBVIOUS
    <2>3. {deleted, open, kicked, inQueue, loading, initializing, legit, tolerated}
             \subseteq SUBSET Sessions
        OBVIOUS
    <2>4. QED
        BY <2>1, <2>2, <2>3 DEF TypeOK
<1>3. Places /\ Pointers
    BY <1>1 DEF Places, Pointers
<1>4. QueuedSessionWaits /\ Loading /\ Playing /\ Strays /\ Ending
    BY <1>1 DEF QueuedSessionWaits, Loading, Playing, Strays, Ending
<1>5. QED
    BY <1>2, <1>3, <1>4 DEF IInv

LEMMA Unchanged == IInv /\ UNCHANGED vars => IInv'
<1> SUFFICES ASSUME IInv, UNCHANGED vars PROVE IInv'
    OBVIOUS
<1> USE DEF IInv, vars, mapVars, sessionVars, playerVars,
        loopVars, stopVars, Waits, IsListed, IsOffline,
        IsAdded, Fresh, InUpdate, NewlyListed
<1>1. TypeOK' /\ Places' /\ Pointers' /\ QueuedSessionWaits'
    BY DEF TypeOK, Places, Pointers, QueuedSessionWaits
<1>2. Loading' /\ Playing' /\ Strays' /\ Ending' /\ (phase = "halted" => final)'
    BY DEF Loading, Playing, Strays, Ending
<1>3. QED
    BY <1>1, <1>2

LEMMA Invariance == Spec => []IInv
<1>1. IInv /\ [Next]_vars => IInv'
    <2> SUFFICES ASSUME IInv, [Next]_vars PROVE IInv'
        OBVIOUS
    <2>1. CASE \E s \in Sessions : Connect(s) \/ Disconnect(s)
        BY <2>1, ConnectStep, DisconnectStep
    <2>2. CASE Stop
        BY <2>2, StopStep
    <2>3. CASE WorldThread
        <3>1. CASE BeginUpdate \/ RefuseSession \/ EndAdd
            BY <3>1, BeginUpdateStep, RefuseSessionStep, EndAddStep
        <3>2. CASE \E expired \in SUBSET recent : AddSession_(expired)
            BY <3>2, AddSessionStep
        <3>3. CASE \E a \in Accounts : GoOffline(a) \/ EnterUpdate(a)
            BY <3>3, GoOfflineStep, EnterUpdateStep
        <3>4. CASE \E c \in Characters :
                      \/ LoginFromDB(c) \/ LoginToCharInWorld(c) \/ LoginRefused(c)
                      \/ HandlePlayerLoginFromDB(c) \/ LoadFails(c)
            BY <3>4, LoginFromDBStep, LoginToCharInWorldStep, LoginRefusedStep,
               HandlePlayerLoginFromDBStep, LoadFailsStep
        <3>5. CASE KickPlayer \/ InitializeSessionCallback \/ HandleCharEnum
            BY <3>5, KickPlayerStep, InitializeSessionCallbackStep, HandleCharEnumStep
        <3>6. CASE LogoutPlayer \/ KeepSession \/ RemoveSession
            BY <3>6, LogoutPlayerStep, KeepSessionStep, RemoveSessionStep
        <3>7. CASE \E D \in SUBSET Offline : SweepOffline(D)
            BY <3>7, SweepOfflineStep
        <3>8. CASE KickAll
            BY <3>8, KickAllStep
        <3>9. QED
            BY <2>3, <3>1, <3>2, <3>3, <3>4, <3>5, <3>6, <3>7, <3>8 DEF WorldThread
    <2>4. CASE Halted \/ UNCHANGED vars
        BY <2>4, Unchanged DEF Halted
    <2>5. QED
        BY <2>1, <2>2, <2>3, <2>4 DEF Next
<1>2. QED
    BY <1>1, InitIInv, PTL DEF Spec

\* For any accounts, sessions and configuration the state keeps its types.
THEOREM TypeCorrect == Spec => []TypeOK
<1>1. IInv => TypeOK
    BY DEF IInv
<1>2. QED
    BY <1>1, Invariance, PTL

\* Every session is in one of World's containers or deleted, and the login queue, the
\* loop of UpdateSessions and the query callbacks never point at a deleted one.
THEOREM DanglingCorrect == Spec => []NoDanglingSession
<1>1. ASSUME IInv PROVE NoDanglingSession
    <2> USE ConstantsAssumption, <1>1 DEF IInv
    <2>1. \A s \in Sessions : (s \in Listed <=> IsListed(s)) /\ (s \in Offline <=> IsOffline(s))
        BY DEF TypeOK, Places, Listed, Offline, IsListed, IsOffline
    <2>2. /\ Listed \subseteq Sessions /\ Offline \subseteq Sessions
          /\ Entries(addQueue) \subseteq Sessions /\ Entries(queued) \subseteq Sessions
        BY DEF TypeOK, Listed, Offline, Entries
    <2>3. Sessions \ (unused \union deleted) = Entries(addQueue) \union Listed \union Offline
        BY <2>1, <2>2 DEF Places, IsAdded
    <2>4. /\ Listed \intersect Offline = {}
          /\ Entries(addQueue) \intersect (Listed \union Offline) = {}
        BY <2>1, <2>2 DEF Places, IsAdded
    <2>5. \A a \in Accounts :
             \A s \in {sessions[a], offline[a]} \ {None} : AccountOf[s] = a
        BY DEF Places
    <2>6. /\ \A i, j \in DOMAIN queued : queued[i] = queued[j] => i = j
          /\ Entries(queued) \subseteq Listed
        BY <2>1, <2>2 DEF Pointers
    <2>7. phase \in InUpdate => cur \in Listed
        BY <2>1 DEF Pointers, TypeOK
    <2>8. initializing \union {s \in Sessions : Waits(s)} \subseteq Listed \union Offline
        BY <2>1 DEF Pointers, Loading, TypeOK, Waits
    <2>9. QED
        BY <2>3, <2>4, <2>5, <2>6, <2>7, <2>8 DEF NoDanglingSession
<1>2. QED
    BY <1>1, Invariance, PTL

\* Who is in the login queue has no character and asks for none.
THEOREM WaitsCorrect == Spec => []QueuedSessionWaits
<1>1. IInv => QueuedSessionWaits
    BY DEF IInv
<1>2. QED
    BY <1>1, Invariance, PTL

\* No character is on two sessions, and no account has two sessions with one while the
\* maps are updated: the handlers of a login and the sweep of offline sessions see to it,
\* however often a client asks.  A Player without a session takes a repeated request.
THEOREM OneCharacterCorrect == Spec => []OneCharacterInWorld
<1>1. ASSUME IInv PROVE OneCharacterInWorld
    <2> USE <1>1 DEF IInv
    <2>1. ASSUME NEW s \in Sessions, NEW t \in Sessions,
                 player[s] # None, player[t] # None, AccountOf[s] = AccountOf[t]
          PROVE  s = t \/ (player[s] # player[t] /\ phase # "idle")
        <3>1. CASE IsListed(s) /\ IsOffline(t)
            BY <2>1, <3>1 DEF Playing, InUpdate
        <3>2. CASE IsListed(t) /\ IsOffline(s)
            BY <2>1, <3>2 DEF Playing, InUpdate
        <3>3. CASE (IsListed(s) /\ IsListed(t)) \/ (IsOffline(s) /\ IsOffline(t))
            BY <2>1, <3>3 DEF IsListed, IsOffline
        <3>4. QED
            BY <2>1, <3>1, <3>2, <3>3 DEF Playing
    <2>2. ASSUME NEW s \in Sessions, NEW t \in Sessions,
                 player[s] = player[t], player[s] # None
          PROVE  AccountOf[s] = AccountOf[t]
        BY <2>2 DEF Playing
    <2>3. QED
        BY <2>1, <2>2 DEF OneCharacterInWorld, Strays
<1>2. QED
    BY <1>1, Invariance, PTL

\* The one UpdateSessions after KickAll logs out every session, whatever was under way;
\* a Player that is left takes a repeated request.
THEOREM NobodyLeftCorrect == Spec => []NobodyLeftInWorld
<1>1. IInv => NobodyLeftInWorld
    BY DEF IInv, Ending, Strays, NobodyLeftInWorld
<1>2. QED
    BY <1>1, Invariance, PTL

-----------------------------------------------------------------------------
(* The login queue lets in as many as there is room for.                   *)

\* The accounts that are in the game, and those of them that count for the limit.
Active == {a \in Accounts : sessions[a] # None /\ sessions[a] \notin Entries(queued)}
Limited ==
    {a \in Accounts \ Exempt :
        sessions[a] \notin Entries(queued) \union tolerated \union {None}}

\* The difference of two sizes that World takes is the number of the active.
LEMMA CountedRight ==
    IInv => /\ IsFiniteSet(Active) /\ Cardinality(Active) \in Nat
            /\ ActiveCount(sessions, queued) = Cardinality(Active)
            /\ queued = << >> =>
                 Cardinality(Active) = Cardinality({a \in Accounts : sessions[a] # None})
<1> SUFFICES ASSUME IInv
             PROVE  /\ IsFiniteSet(Active) /\ Cardinality(Active) \in Nat
                    /\ ActiveCount(sessions, queued) = Cardinality(Active)
                    /\ queued = << >> => Cardinality(Active)
                         = Cardinality({a \in Accounts : sessions[a] # None})
    OBVIOUS
<1> USE ConstantsAssumption DEF IInv
<1> DEFINE taken == {a \in Accounts : sessions[a] # None}
           waiting == {a \in Accounts : sessions[a] \in Entries(queued)}
           n == Len(queued)
           f == [i \in 1 .. n |-> AccountOf[queued[i]]]
<1>1. n \in Nat /\ DOMAIN queued = 1 .. n /\ Entries(queued) \subseteq Sessions
    BY DEF TypeOK, Entries
<1>2. \A i \in 1 .. n : queued[i] \in Sessions /\ sessions[AccountOf[queued[i]]] = queued[i]
    BY <1>1 DEF Pointers, Entries, IsListed
<1>3. f \in Bijection(1 .. n, waiting)
    <2>1. f \in [1 .. n -> waiting]
        BY <1>1, <1>2 DEF Entries
    <2>2. ASSUME NEW a \in waiting
          PROVE  \E i \in 1 .. n : f[i] = a
        <3>1. PICK i \in 1 .. n : queued[i] = sessions[a]
            BY <1>1 DEF Entries
        <3>2. AccountOf[sessions[a]] = a
            BY <1>1, <3>1, <1>2 DEF Places
        <3>3. QED
            BY <3>1, <3>2
    <2>3. \A i, j \in 1 .. n : f[i] = f[j] => i = j
        BY <1>1, <1>2 DEF Pointers
    <2> HIDE DEF f, waiting, n
    <2>4. QED
        BY <2>1, <2>2, <2>3 DEF Bijection, Surjection, Injection, IsInjective
<1>4. IsFiniteSet(waiting) /\ Cardinality(waiting) = n
    <2> HIDE DEF n, f, waiting
    <2>1. IsFiniteSet(1 .. n) /\ Cardinality(1 .. n) = n
        BY <1>1, FS_Interval
    <2>2. QED
        BY <2>1, <1>3, FS_Bijection DEF ExistsBijection
<1>5. IsFiniteSet(taken) /\ Cardinality(taken) \in Nat
    BY FS_Subset, FS_CardinalityType
<1>6. Active = taken \ waiting /\ waiting \subseteq taken
    BY <1>1 DEF Active, Entries
<1>7. IsFiniteSet(Active) /\ Cardinality(Active) = Cardinality(taken) - Cardinality(waiting)
    <2> HIDE DEF taken, waiting
    <2>1. IsFiniteSet(Active)
        BY <1>5, <1>6, FS_Subset
    <2>2. taken \intersect waiting = waiting
        BY <1>6
    <2>3. QED
        BY <2>1, <2>2, <1>4, <1>5, <1>6, FS_Difference
<1>8. ActiveCount(sessions, queued) = Cardinality(Active)
    BY <1>4, <1>7 DEF ActiveCount
<1>9. Cardinality(Active) \in Nat
    BY <1>7, FS_CardinalityType
<1>10. queued = << >> => n = 0
    OBVIOUS
<1>11. QED
    BY <1>4, <1>5, <1>7, <1>8, <1>9, <1>10

\* What the limit says of any list and queue: SlotsAreExact with sets.
Exact(act, lim, q) ==
    /\ q # << >> => Cardinality(act) >= PlayerLimit
    /\ PlayerLimit > 0 /\ ~final => Cardinality(lim) <= PlayerLimit

LEMMA SlotsAsSets == IInv => (SlotsAreExact <=> Exact(Active, Limited, queued))
    BY CountedRight DEF SlotsAreExact, Exact, Limited

\* RemoveQueuedPlayer, for a session that leaves the list: whoever is first in the queue
\* takes its slot, and only if there is one.
LEMMA Released ==
    ASSUME IInv, SlotsAreExact, NEW s \in Sessions, IsListed(s),
           NEW act, NEW lim,
           act = {b \in Accounts \ {AccountOf[s]} :
                     sessions[b] # None /\ sessions[b] \notin Entries(QueueAfter(s))},
           lim = {b \in (Accounts \ Exempt) \ {AccountOf[s]} :
                     sessions[b] \notin Entries(QueueAfter(s)) \union tolerated \union {None}}
    PROVE  Exact(act, lim, QueueAfter(s))
<1> USE ConstantsAssumption
<1> DEFINE a == AccountOf[s]
           rest == Active \ {a}
<1>1. a \in Accounts /\ sessions[a] = s /\ s # None /\ PlayerLimit \in Nat
    BY DEF IsListed
<1>2. IsFiniteSet(Active) /\ Cardinality(Active) \in Nat
      /\ ActiveCount(sessions, queued) = Cardinality(Active)
    BY CountedRight
<1>3. Exact(Active, Limited, queued)
    BY SlotsAsSets
<1>4. /\ IsFiniteSet(rest) /\ Cardinality(rest) \in Nat
      /\ Cardinality(rest) = Cardinality(Active) - (IF Found(s) THEN 0 ELSE 1)
    <2>1. a \in Active <=> ~Found(s)
        BY <1>1 DEF Active, Found
    <2>2. QED
        BY <2>1, <1>2, FS_RemoveElement, FS_CardinalityType
<1>5. /\ Room(s) => PlayerLimit = 0 \/ Cardinality(rest) < PlayerLimit
      /\ ~Room(s) => Cardinality(rest) >= PlayerLimit
    BY <1>1, <1>2, <1>4 DEF Room
<1>6. /\ Admitted(s) \subseteq Entries(queued) \ {s}
      /\ Entries(QueueAfter(s)) = Entries(queued) \ ({s} \union Admitted(s))
    BY Dequeued DEF IInv, TypeOK, Pointers, Distinct
<1>7. \A b \in Accounts : sessions[b] = s => b = a
    BY <1>1 DEF IInv, Places
<1>8. IsFiniteSet(Limited) /\ Cardinality(Limited) \in Nat
    <2>1. Limited \subseteq Accounts
        BY DEF Limited
    <2>2. QED
        BY <2>1, FS_Subset, FS_CardinalityType
<1>9. CASE Admitted(s) = {}
    <2>1. act = rest
        BY <1>6, <1>7, <1>9 DEF Active
    <2>2. lim \subseteq Limited
        BY <1>6, <1>7, <1>9 DEF Limited
    <2>3. QueueAfter(s) # << >> => ~Room(s)
        BY <1>9 DEF QueueAfter, Admitted
    <2>4. Cardinality(lim) <= Cardinality(Limited) /\ Cardinality(lim) \in Nat
        BY <2>2, <1>8, FS_Subset, FS_CardinalityType
    <2> HIDE DEF rest
    <2>5. QueueAfter(s) # << >> => Cardinality(act) >= PlayerLimit
        BY <2>1, <2>3, <1>1, <1>4, <1>5
    <2>6. PlayerLimit > 0 /\ ~final => Cardinality(lim) <= PlayerLimit
        BY <2>4, <1>1, <1>3, <1>8 DEF Exact
    <2>7. QED
        BY <2>5, <2>6 DEF Exact
<1>10. CASE Admitted(s) # {}
    <2>1. PICK x : Admitted(s) = {x}
        BY <1>10 DEF Admitted
    <2>2. Room(s)
        BY <1>10 DEF Admitted
    <2>3. /\ x \in Sessions /\ x \in Entries(queued) /\ x # s /\ IsListed(x)
          /\ queued # << >>
        BY <2>1, <1>6 DEF IInv, TypeOK, Pointers, Entries
    <2> DEFINE c == AccountOf[x]
    <2>4. c \in Accounts /\ c # a /\ sessions[c] = x /\ c \notin rest /\ x # None
        BY <2>3, <1>1 DEF IsListed, Active
    <2>5. \A b \in Accounts : sessions[b] = x => b = c
        BY <2>3 DEF IInv, Places
    <2>6. act = rest \union {c}
        BY <2>1, <2>3, <2>4, <2>5, <1>6, <1>7 DEF Active
    <2>7. lim \subseteq act
        OBVIOUS
    <2> HIDE DEF rest, c
    <2>8. IsFiniteSet(act) /\ Cardinality(act) = Cardinality(rest) + 1
        <3>1. /\ IsFiniteSet(rest \union {c})
              /\ Cardinality(rest \union {c})
                   = IF c \in rest THEN Cardinality(rest) ELSE Cardinality(rest) + 1
            BY <1>4, FS_AddElement
        <3>2. QED
            BY <3>1, <2>4, <2>6
    <2>9. Cardinality(lim) <= Cardinality(act) /\ Cardinality(lim) \in Nat
        BY <2>7, <2>8, FS_Subset, FS_CardinalityType
    <2>10. Cardinality(Active) >= PlayerLimit
        BY <2>3, <1>3 DEF Exact
    <2>11. QED
        BY <2>2, <2>8, <2>9, <2>10, <1>1, <1>2, <1>4, <1>5 DEF Exact
<1>11. QED
    BY <1>9, <1>10

LEMMA AddSessionSlots ==
    ASSUME IInv, IInv', SlotsAreExact, NEW expired \in SUBSET recent, AddSession_(expired)
    PROVE  Exact(Active, Limited, queued)'
<1> USE ConstantsAssumption
<1> DEFINE s == Head(addQueue)
           a == AccountOf[s]
           old == sessions[a]
           queue == IF old # None THEN QueueAfter(old) ELSE queued
           list == {b \in Accounts : sessions'[b] # None}
           full == /\ PlayerLimit > 0
                   /\ Cardinality(list) - 1 >= PlayerLimit
                   /\ a \notin Exempt
           act == {b \in Accounts \ {a} :
                      sessions[b] # None /\ sessions[b] \notin Entries(queue)}
           lim == {b \in (Accounts \ Exempt) \ {a} :
                      sessions[b] \notin Entries(queue) \union tolerated \union {None}}
<1>1. /\ s \in Sessions /\ IsAdded(s) /\ s # None /\ a \in Accounts
      /\ sessions \in [Accounts -> Sessions \union {None}] /\ queued \in Seq(Sessions)
      /\ PlayerLimit \in Nat
    <2>1. addQueue \in Seq(Sessions) /\ addQueue # << >>
        BY DEF IInv, TypeOK, AddSession_
    <2>2. s \in Entries(addQueue) /\ s \in Sessions
        BY <2>1, Shortened
    <2>3. a \in Accounts /\ s # None /\ PlayerLimit \in Nat
        BY <2>2
    <2>4. sessions \in [Accounts -> Sessions \union {None}] /\ queued \in Seq(Sessions)
        BY DEF IInv, TypeOK
    <2>5. QED
        BY <2>2, <2>3, <2>4 DEF IsAdded
<1>2. \A b \in Accounts : sessions[b] # s
    BY <1>1 DEF IInv, Places, IsListed, IsAdded
<1>3. sessions'[a] = s /\ \A b \in Accounts \ {a} : sessions'[b] = sessions[b]
    BY <1>1 DEF AddSession_
<1>4. final' = final
    BY DEF AddSession_, stopVars
<1>5. /\ queue \in Seq(Sessions) /\ s \notin Entries(queue)
      /\ Exact(act, lim, queue)
    <2>1. Entries(queued) \subseteq Sessions /\ s \notin Entries(queued)
        BY <1>1, <1>2 DEF Entries, IInv, Pointers, IsListed
    <2>2. CASE old # None
        <3>1. old \in Sessions /\ IsListed(old) /\ AccountOf[old] = a
            BY <2>2, <1>1 DEF IInv, Places, IsListed
        <3>2. /\ QueueAfter(old) \in Seq(Sessions)
              /\ Entries(QueueAfter(old)) \subseteq Entries(queued)
            BY <3>1, Dequeued DEF IInv, TypeOK, Pointers, Distinct
        <3>3. queue = QueueAfter(old)
            BY <2>2
        <3> HIDE DEF queue, old
        <3>4. Exact(act, lim, QueueAfter(old))
            BY <3>1, <3>3, Released
        <3>5. QED
            BY <3>2, <3>3, <3>4, <2>1
    <2>3. CASE old = None
        <3>1. queue = queued /\ act = Active /\ lim = Limited
            BY <2>3 DEF Active, Limited
        <3>2. Exact(Active, Limited, queued)
            BY SlotsAsSets
        <3>3. QED
            BY <3>1, <3>2, <2>1, <1>1
    <2>4. QED
        BY <2>2, <2>3
<1>6. IsFiniteSet(list) /\ Cardinality(list) \in Nat /\ a \in list
    BY <1>1, <1>3, FS_Subset, FS_CardinalityType
<1>7. /\ IsFiniteSet(act) /\ Cardinality(act) \in Nat
      /\ IsFiniteSet(lim) /\ Cardinality(lim) \in Nat
    BY FS_Subset, FS_CardinalityType
<1>8. \/ full /\ queued' = Append(queue, s) /\ tolerated' = tolerated
      \/ full /\ queued' = queue /\ tolerated' = tolerated \union {s}
      \/ ~full /\ queued' = queue /\ tolerated' = tolerated
    BY DEF AddSession_
<1>9. CASE full /\ queued' = Append(queue, s) /\ tolerated' = tolerated
    <2>1. Entries(queued') = Entries(queue) \union {s}
        BY <1>1, <1>5, <1>9, Appended
    <2>2. /\ \A b \in Accounts \ {a} :
                 sessions[b] # s /\ (sessions[b] \in Entries(queued') <=> sessions[b] \in Entries(queue))
          /\ sessions'[a] \in Entries(queued')
        BY <2>1, <1>2, <1>3
    <2>3. Active' = act
        BY <2>2, <1>3, <1>1 DEF Active
    <2>4. Limited' = lim
        BY <2>2, <1>3, <1>1, <1>9 DEF Limited
    <2>5. CASE queue = << >>
        <3>1. act = list \ {a}
            BY <2>5, <1>3 DEF Entries
        <3>2. Cardinality(act) = Cardinality(list) - 1
            <4> HIDE DEF list, act, a
            <4>1. Cardinality(list \ {a})
                    = IF a \in list THEN Cardinality(list) - 1 ELSE Cardinality(list)
                BY <1>6, FS_RemoveElement
            <4>2. QED
                BY <4>1, <3>1, <1>6
        <3>3. QED
            BY <3>2, <2>3, <2>4, <1>4, <1>5, <1>9 DEF Exact
    <2>6. CASE queue # << >>
        BY <2>3, <2>4, <2>6, <1>4, <1>5 DEF Exact
    <2>7. QED
        BY <2>5, <2>6
<1>10. CASE queued' = queue
    <2>1. Active' = act \union {a}
        BY <1>1, <1>3, <1>5, <1>10 DEF Active
    <2>2. Cardinality(Active') >= Cardinality(act) /\ Cardinality(Active') \in Nat
        <3> HIDE DEF act, a
        <3>1. /\ IsFiniteSet(act \union {a})
              /\ Cardinality(act \union {a})
                   = IF a \in act THEN Cardinality(act) ELSE Cardinality(act) + 1
            BY <1>7, FS_AddElement
        <3>2. QED
            BY <3>1, <2>1, <1>7
    <2>3. CASE full /\ tolerated' = tolerated \union {s}
        <3>1. Limited' = lim
            BY <2>3, <1>2, <1>3, <1>10 DEF Limited
        <3> HIDE DEF act, lim, queue, full
        <3>2. QED
            BY <3>1, <2>2, <1>1, <1>4, <1>5, <1>7, <1>10 DEF Exact
    <2>4. CASE ~full /\ tolerated' = tolerated
        <3>1. CASE a \in Exempt
            <4>1. Limited' = lim
                BY <2>4, <3>1, <1>3, <1>10 DEF Limited
            <4> HIDE DEF act, lim, queue, full
            <4>2. QED
                BY <4>1, <2>2, <1>1, <1>4, <1>5, <1>7, <1>10 DEF Exact
        <3>2. CASE a \notin Exempt
            <4>1. Limited' \subseteq list
                BY DEF Limited
            <4>2. Cardinality(Limited') <= Cardinality(list) /\ Cardinality(Limited') \in Nat
                BY <4>1, <1>6, FS_Subset, FS_CardinalityType
            <4> HIDE DEF list
            <4>3. PlayerLimit > 0 => Cardinality(list) <= PlayerLimit
                BY <3>2, <2>4, <1>1, <1>6
            <4> HIDE DEF act, lim, queue, full
            <4>4. queued' # << >> => Cardinality(Active') >= PlayerLimit
                BY <2>2, <1>1, <1>5, <1>7, <1>10 DEF Exact
            <4>5. PlayerLimit > 0 /\ ~final' => Cardinality(Limited') <= PlayerLimit
                BY <4>2, <4>3, <1>1, <1>6
            <4>6. QED
                BY <4>4, <4>5 DEF Exact
        <3>3. QED
            BY <3>1, <3>2
    <2>5. CASE queued' = Append(queue, s)
        <3>1. s \in Entries(Append(queue, s))
            BY <1>1, <1>5, Appended
        <3>2. QED
            BY <3>1, <2>5, <1>5, <1>10
    <2>6. QED
        BY <2>3, <2>4, <2>5, <1>8
<1>11. QED
    BY <1>8, <1>9, <1>10

\* Nobody waits while there is a slot, and no more are let in than the limit, exempt
\* and returning accounts aside.
THEOREM SlotsCorrect == Spec => []SlotsAreExact
<1>1. Init => SlotsAreExact
    <2> SUFFICES ASSUME Init PROVE SlotsAreExact
        OBVIOUS
    <2>1. Limited = {}
        BY DEF Init, Limited
    <2>2. queued = << >> /\ PlayerLimit \in Nat /\ Cardinality({}) = 0
        BY ConstantsAssumption, FS_EmptySet DEF Init
    <2>3. Exact(Active, Limited, queued)
        BY <2>1, <2>2 DEF Exact
    <2>4. QED
        BY <2>3, InitIInv, SlotsAsSets
<1>2. IInv /\ IInv' /\ SlotsAreExact /\ [Next]_vars => SlotsAreExact'
    <2> SUFFICES ASSUME IInv, IInv', SlotsAreExact, [Next]_vars
                 PROVE  Exact(Active, Limited, queued)'
        BY SlotsAsSets, PTL
    <2>1. Exact(Active, Limited, queued)
        BY SlotsAsSets
    <2>2. CASE \E expired \in SUBSET recent : AddSession_(expired)
        BY <2>2, AddSessionSlots
    <2>3. ASSUME NEW s \in Sessions, IsListed(s),
                 sessions' = [sessions EXCEPT ![AccountOf[s]] = None],
                 queued' = QueueAfter(s), tolerated' = tolerated, final' = final
          PROVE  Exact(Active, Limited, queued)'
        <3>1. Active' = {b \in Accounts \ {AccountOf[s]} :
                           sessions[b] # None /\ sessions[b] \notin Entries(QueueAfter(s))}
            BY <2>3, ConstantsAssumption DEF IInv, TypeOK, Active
        <3>2. Limited' = {b \in (Accounts \ Exempt) \ {AccountOf[s]} :
                  sessions[b] \notin Entries(QueueAfter(s)) \union tolerated \union {None}}
            BY <2>3, ConstantsAssumption DEF IInv, TypeOK, Limited
        <3>3. Exact(Active', Limited', QueueAfter(s))
            BY <2>3, <3>1, <3>2, Released
        <3>4. QED
            BY <2>3, <3>3 DEF Exact
    <2>4. CASE \E a \in Accounts : GoOffline(a)
        <3>1. PICK a \in Accounts : GoOffline(a)
            BY <2>4
        <3>2. sessions[a] \in Sessions /\ IsListed(sessions[a]) /\ AccountOf[sessions[a]] = a
            BY <3>1 DEF GoOffline, IInv, TypeOK, Pointers, Places, IsListed
        <3>3. QED
            BY <3>1, <3>2, <2>3 DEF GoOffline, stopVars
    <2>5. CASE RemoveSession
        <3>1. cur \in Sessions /\ IsListed(cur)
            BY <2>5 DEF RemoveSession, IInv, TypeOK, Pointers
        <3>2. QED
            BY <3>1, <2>3, <2>5 DEF RemoveSession, stopVars
    <2>6. CASE KickAll
        BY <2>6 DEF KickAll, Exact
    <2>7. CASE sessions' = sessions /\ queued' = queued /\ tolerated' = tolerated
               /\ final' = final
        BY <2>1, <2>7 DEF Exact, Active, Limited
    <2>8. QED
        <3>1. CASE \E s \in Sessions : Connect(s) \/ Disconnect(s)
            BY <3>1, <2>7 DEF Connect, Disconnect, mapVars, stopVars
        <3>2. CASE Stop \/ Halted \/ UNCHANGED vars
            BY <3>2, <2>7 DEF Stop, Halted, vars, mapVars, stopVars
        <3>3. CASE BeginUpdate \/ RefuseSession \/ EndAdd
            BY <3>3, <2>7 DEF BeginUpdate, RefuseSession, EndAdd, mapVars, stopVars
        <3>4. CASE \E a \in Accounts : EnterUpdate(a)
            BY <3>4, <2>7 DEF EnterUpdate, mapVars, stopVars
        <3>5. CASE \E c \in Characters :
                      \/ LoginFromDB(c) \/ LoginToCharInWorld(c) \/ LoginRefused(c)
                      \/ HandlePlayerLoginFromDB(c) \/ LoadFails(c)
            BY <3>5, <2>7 DEF LoginFromDB, LoginToCharInWorld, LoginRefused,
                              HandlePlayerLoginFromDB, LoadFails, mapVars, stopVars
        <3>6. CASE KickPlayer \/ InitializeSessionCallback \/ HandleCharEnum
            BY <3>6, <2>7 DEF KickPlayer, InitializeSessionCallback,
                              HandleCharEnum, mapVars, stopVars
        <3>7. CASE LogoutPlayer \/ KeepSession
            BY <3>7, <2>7 DEF LogoutPlayer, KeepSession, mapVars, stopVars
        <3>8. CASE \E D \in SUBSET Offline : SweepOffline(D)
            BY <3>8, <2>7 DEF SweepOffline, mapVars, stopVars
        <3>9. QED
            BY <2>2, <2>4, <2>5, <2>6, <3>1, <3>2, <3>3, <3>4, <3>5, <3>6, <3>7, <3>8
               DEF Next, WorldThread
<1>3. QED
    BY <1>1, <1>2, Invariance, PTL DEF Spec
=============================================================================

--------------------------- MODULE MPSCQueueProofs ---------------------------
(***************************************************************************)
(* Proofs about MPSCQueue, for any set of producers and messages: nobody   *)
(* touches a node that Dequeue has given away, and the linked list with    *)
(* its travelling dummy node is a FIFO.                                    *)
(***************************************************************************)
EXTENDS MPSCQueue, SequenceTheorems, TLAPS

-----------------------------------------------------------------------------
(* The inductive invariant.                                                *)

\* What has been delivered is the beginning of what has been accepted.
Prefix ==
    /\ \A i, j \in DOMAIN order : order[i] = order[j] => i = j
    /\ Len(out) <= Len(order)
    /\ \A i \in 1 .. Len(out) : out[i] = order[i]

\* ch is the list from tail to head: the messages accepted and not delivered, and, if d
\* is not 0, the dummy node at its place d.  Every node is linked to the one behind it,
\* or not linked yet.
Counts(ch, d) ==
    \/ d = 0 /\ Len(order) = Len(out) + Len(ch)
    \/ d \in 1 .. Len(ch) /\ ch[d] = Dummy /\ Len(order) = Len(out) + Len(ch) - 1

Content(ch, d) ==
    /\ \A i \in 1 .. Len(ch) : d = 0 \/ i < d => ch[i] = order[Len(out) + i]
    /\ \A i \in 1 .. Len(ch) : d # 0 /\ i > d => ch[i] = order[Len(out) + i - 1]

Links(ch) ==
    /\ \A i \in 1 .. Len(ch) - 1 : link[ch[i]] \in {Null, ch[i + 1]}
    /\ link[head] = Null

Spine(ch, d) ==
    /\ ch # << >> /\ ch[1] = tail /\ ch[Len(ch)] = head
    /\ Counts(ch, d) /\ Content(ch, d) /\ Links(ch)

\* A producer in the middle of Enqueue holds two neighbours that are not linked, and it
\* is the only one to hold them.
Adders(ch) ==
    /\ \A p \in Producers :
          \/ adding[p] = Idle
          \/ /\ adding[p].node \in Messages
             /\ \E i \in 1 .. Len(ch) - 1 :
                   /\ ch[i] = adding[p].prev /\ ch[i + 1] = adding[p].node
                   /\ link[ch[i]] = Null
    /\ \A p, q \in Producers :
          adding[p] # Idle /\ adding[p].node = adding[q].node => p = q

\* What the consumer's locals say, from where it is.
Consumer(ch, d) ==
    /\ pc = "skip" => d = 1 /\ next # Null /\ link[tail] = next
    /\ pc = "test" => d # 1 /\ (next # Null => link[tail] = next)
    /\ pc \in {"dummy", "exchange"} => d = 0
    /\ pc = "exchange" => link[Dummy] = Null
    /\ pc = "link" => d > 1 /\ prevHead = ch[d - 1] /\ link[prevHead] = Null
    /\ pc = "retry" => d # 1

Shape(ch, d) == Spine(ch, d) /\ Adders(ch) /\ Consumer(ch, d)

IInv ==
    /\ TypeOK
    /\ Prefix
    /\ \E ch \in Seq(Nodes), d \in Nat : Shape(ch, d)

-----------------------------------------------------------------------------
(* What the invariant says of the list.                                    *)

LEMMA List ==
    ASSUME TypeOK, Prefix, NEW ch \in Seq(Nodes), NEW d \in Nat, Spine(ch, d)
    PROVE  /\ Len(ch) \in Nat \ {0} /\ Len(order) \in Nat /\ Len(out) \in Nat
           /\ DOMAIN ch = 1 .. Len(ch) /\ DOMAIN order = 1 .. Len(order)
           /\ DOMAIN out = 1 .. Len(out)
           /\ \A i \in 1 .. Len(ch) : ch[i] \in Nodes
           /\ \A i \in 1 .. Len(ch) : i # d => ch[i] \in Messages
           /\ \A i, j \in 1 .. Len(ch) : ch[i] = ch[j] => i = j
           /\ \A i \in 1 .. Len(ch), j \in 1 .. Len(out) : ch[i] # out[j]
           /\ d = 1 <=> tail = Dummy
           /\ link[tail] # Null => Len(ch) > 1 /\ link[tail] = ch[2]
<1>1. /\ Len(ch) \in Nat \ {0} /\ Len(order) \in Nat /\ Len(out) \in Nat
      /\ DOMAIN ch = 1 .. Len(ch) /\ DOMAIN order = 1 .. Len(order)
      /\ DOMAIN out = 1 .. Len(out)
      /\ \A i \in 1 .. Len(ch) : ch[i] \in Nodes
      /\ \A i \in 1 .. Len(order) : order[i] \in Messages
    BY DEF TypeOK, Spine
<1>2. \/ d = 0 /\ Len(order) = Len(out) + Len(ch)
      \/ d \in 1 .. Len(ch) /\ ch[d] = Dummy /\ Len(order) = Len(out) + Len(ch) - 1
    BY DEF Spine, Counts
<1>3. Len(ch) \in Nat \ {0} /\ Len(order) \in Nat /\ Len(out) \in Nat
    BY <1>1
<1> DEFINE at(i) == Len(out) + (IF d # 0 /\ i > d THEN i - 1 ELSE i)
<1>4. \A i \in 1 .. Len(ch) : i # d =>
          at(i) \in Len(out) + 1 .. Len(order) /\ ch[i] = order[at(i)]
    <2>1. ASSUME NEW i \in 1 .. Len(ch), i # d
          PROVE  at(i) \in Len(out) + 1 .. Len(order) /\ ch[i] = order[at(i)]
        <3>1. CASE d = 0 \/ i < d
            <4>1. at(i) = Len(out) + i
                BY <3>1, <1>3
            <4>2. Len(out) + i \in Len(out) + 1 .. Len(order)
                BY <3>1, <1>2, <1>3
            <4>3. ch[i] = order[Len(out) + i]
                BY <3>1 DEF Spine, Content
            <4> HIDE DEF at
            <4>4. QED
                BY <4>1, <4>2, <4>3
        <3>2. CASE d # 0 /\ i > d
            <4>1. at(i) = Len(out) + i - 1
                BY <3>2, <1>3
            <4>2. Len(out) + i - 1 \in Len(out) + 1 .. Len(order)
                BY <3>2, <1>2, <1>3
            <4>3. ch[i] = order[Len(out) + i - 1]
                BY <3>2 DEF Spine, Content
            <4> HIDE DEF at
            <4>4. QED
                BY <4>1, <4>2, <4>3
        <3>3. QED
            BY <3>1, <3>2, <2>1, <1>3
    <2>2. QED
        BY <2>1
<1>5. \A i, j \in 1 .. Len(ch) : i # d /\ j # d /\ at(i) = at(j) => i = j
    BY <1>1
<1> HIDE DEF at
<1>6. \A i \in 1 .. Len(ch) : i # d => ch[i] \in Messages
    BY <1>1, <1>4
<1>7. \A i \in 1 .. Len(ch) : i = d => ch[i] = Dummy
    BY <1>2, <1>3
<1>8. Dummy \notin Messages
    BY ConstantsAssumption
<1>9. ASSUME NEW i \in 1 .. Len(ch), NEW j \in 1 .. Len(ch), ch[i] = ch[j]
      PROVE  i = j
    <2>1. CASE i # d /\ j # d
        <3>1. at(i) = at(j)
            BY <2>1, <1>1, <1>4, <1>9 DEF Prefix
        <3>2. QED
            BY <2>1, <3>1, <1>5
    <2>2. CASE i = d \/ j = d
        BY <2>2, <1>6, <1>7, <1>8, <1>9
    <2>3. QED
        BY <2>1, <2>2
<1>10. ASSUME NEW i \in 1 .. Len(ch), NEW j \in 1 .. Len(out), ch[i] = out[j]
       PROVE  FALSE
    <2>1. out[j] = order[j] /\ j \in 1 .. Len(order)
        BY <1>1 DEF Prefix
    <2>2. CASE i = d
        BY <2>1, <2>2, <1>1, <1>7, <1>8, <1>10
    <2>3. CASE i # d
        BY <2>1, <2>3, <1>1, <1>4, <1>10 DEF Prefix
    <2>4. QED
        BY <2>2, <2>3
<1>11. d = 1 <=> tail = Dummy
    <2>1. ch[1] = tail /\ 1 \in 1 .. Len(ch)
        BY <1>3 DEF Spine
    <2>2. QED
        BY <2>1, <1>6, <1>7, <1>8
<1>12. link[tail] # Null => Len(ch) > 1 /\ link[tail] = ch[2]
    BY <1>1 DEF Spine, Links
<1>13. QED
    BY <1>1, <1>6, <1>9, <1>10, <1>11, <1>12

\* Popping the first node, when it is known to be linked.
LEMMA Advanced ==
    ASSUME TypeOK, TypeOK', Prefix, NEW ch \in Seq(Nodes), NEW d \in Nat,
           Spine(ch, d), Adders(ch), link[tail] # Null,
           tail' = link[tail], head' = head, link' = link, adding' = adding, order' = order,
           out' = IF d = 1 THEN out ELSE Append(out, tail)
    PROVE  /\ Tail(ch) \in Seq(Nodes) /\ Len(Tail(ch)) = Len(ch) - 1
           /\ \A i \in 1 .. Len(ch) - 1 : Tail(ch)[i] = ch[i + 1]
           /\ Prefix'
           /\ Spine(Tail(ch), IF d = 0 THEN 0 ELSE d - 1)'
           /\ Adders(Tail(ch))'
<1>1. /\ Len(ch) \in Nat /\ Len(ch) > 1 /\ link[tail] = ch[2] /\ ch # << >>
      /\ d = 1 <=> tail = Dummy
      /\ Len(order) \in Nat /\ Len(out) \in Nat
      /\ \A i, j \in 1 .. Len(ch) : ch[i] = ch[j] => i = j
      /\ \A i \in 1 .. Len(ch) : ch[i] \in Nodes
    BY List
<1> DEFINE t == Tail(ch)
           e == IF d = 0 THEN 0 ELSE d - 1
<1>2. /\ t \in Seq(Nodes) /\ Len(t) = Len(ch) - 1 /\ t # << >>
      /\ \A i \in 1 .. Len(ch) - 1 : t[i] = ch[i + 1]
    BY <1>1
<1>3. /\ Len(out') = Len(out) + (IF d = 1 THEN 0 ELSE 1)
      /\ \A i \in 1 .. Len(out) : out'[i] = out[i]
      /\ d # 1 => out'[Len(out) + 1] = tail
    BY <1>1 DEF TypeOK
<1>4. d # 1 => tail = order[Len(out) + 1] /\ Len(out) + 1 <= Len(order)
    BY <1>1 DEF Spine, Counts, Content
<1>5. Prefix'
    BY <1>1, <1>3, <1>4 DEF Prefix
<1> HIDE DEF t
<1>6. Spine(t, e)'
    <2>1. /\ t[1] = tail' /\ t[Len(t)] = head'
          /\ \/ e = 0 /\ Len(order') = Len(out') + Len(t)
             \/ e \in 1 .. Len(t) /\ t[e] = Dummy /\ Len(order') = Len(out') + Len(t) - 1
        <3>1. t[1] = tail' /\ t[Len(t)] = head'
            BY <1>1, <1>2 DEF Spine
        <3>2. CASE d = 0
            BY <3>1, <3>2, <1>1, <1>2, <1>3 DEF Spine, Counts
        <3>3. CASE d = 1
            BY <3>1, <3>3, <1>1, <1>2, <1>3 DEF Spine, Counts
        <3>4. CASE d > 1
            <4>1. /\ d \in 1 .. Len(ch) /\ ch[d] = Dummy
                  /\ Len(order) = Len(out) + Len(ch) - 1
                BY <3>4 DEF Spine, Counts
            <4>2. e = d - 1 /\ e \in 1 .. Len(ch) - 1
                BY <3>4, <4>1, <1>1
            <4>3. t[e] = ch[d]
                BY <4>2, <1>2
            <4>4. Len(out') = Len(out) + 1
                BY <3>4, <1>3
            <4>5. QED
                BY <3>1, <4>1, <4>2, <4>3, <4>4, <1>1, <1>2
        <3>5. QED
            BY <3>2, <3>3, <3>4
    <2>2. ASSUME NEW i \in 1 .. Len(t), e = 0 \/ i < e
          PROVE  t[i] = order'[Len(out') + i]
        <3>1. t[i] = ch[i + 1] /\ i + 1 \in 1 .. Len(ch) /\ order' = order
            BY <1>1, <1>2
        <3>2. CASE d = 1
            <4>1. d # 0 /\ i + 1 > d /\ Len(out') + i = Len(out) + (i + 1) - 1
                BY <3>2, <1>1, <1>3
            <4>2. QED
                BY <4>1, <3>1 DEF Spine, Content
        <3>3. CASE d # 1
            <4>1. (d = 0 \/ i + 1 < d) /\ Len(out') + i = Len(out) + (i + 1)
                BY <2>2, <3>3, <1>1, <1>3
            <4>2. QED
                BY <4>1, <3>1 DEF Spine, Content
        <3>4. QED
            BY <3>2, <3>3
    <2>3. ASSUME NEW i \in 1 .. Len(t), e # 0 /\ i > e
          PROVE  t[i] = order'[Len(out') + i - 1]
        BY <2>3, <1>1, <1>2, <1>3 DEF Spine, Counts, Content
    <2>4. /\ \A i \in 1 .. Len(t) - 1 : link'[t[i]] \in {Null, t[i + 1]}
          /\ link'[head'] = Null
        <3>1. ASSUME NEW i \in 1 .. Len(t) - 1
              PROVE  link[t[i]] \in {Null, t[i + 1]}
            <4>1. /\ i + 1 \in 1 .. Len(ch) - 1
                  /\ t[i] = ch[i + 1] /\ t[i + 1] = ch[(i + 1) + 1]
                BY <1>1, <1>2
            <4>2. QED
                BY <4>1 DEF Spine, Links
        <3>2. QED
            BY <3>1 DEF Spine, Links
    <2>5. QED
        BY <2>1, <2>2, <2>3, <2>4, <1>2 DEF Spine, Counts, Content, Links
<1>7. Adders(t)'
    <2>1. ASSUME NEW p \in Producers, adding[p] # Idle
          PROVE  \E i \in 1 .. Len(t) - 1 :
                    t[i] = adding[p].prev /\ t[i + 1] = adding[p].node /\ link[t[i]] = Null
        <3>1. PICK i \in 1 .. Len(ch) - 1 :
                 ch[i] = adding[p].prev /\ ch[i + 1] = adding[p].node /\ link[ch[i]] = Null
            BY <2>1 DEF Adders
        <3>2. i # 1
            BY <3>1, <1>1 DEF Spine
        <3>3. i - 1 \in 1 .. Len(t) - 1 /\ t[i - 1] = ch[i] /\ t[(i - 1) + 1] = ch[i + 1]
            BY <3>2, <1>1, <1>2
        <3>4. QED
            BY <3>1, <3>3
    <2>2. QED
        BY <2>1 DEF Adders, Idle
<1>8. QED
    BY <1>2, <1>5, <1>6, <1>7 DEF t

-----------------------------------------------------------------------------
(* The producers.                                                          *)

LEMMA ExchangeStep ==
    ASSUME IInv, NEW p \in Producers, NEW m \in Messages, Exchange(p, m)
    PROVE  IInv'
<1> USE ConstantsAssumption
<1>1. PICK ch \in Seq(Nodes), d \in Nat : Shape(ch, d)
    BY DEF IInv
<1>2. /\ TypeOK /\ Prefix /\ Spine(ch, d) /\ Adders(ch) /\ Consumer(ch, d)
    BY <1>1 DEF IInv, Shape
<1>3. /\ Len(ch) \in Nat \ {0} /\ Len(order) \in Nat /\ Len(out) \in Nat
      /\ DOMAIN order = 1 .. Len(order)
      /\ \A i \in 1 .. Len(ch) : ch[i] \in Nodes
      /\ \A i \in 1 .. Len(ch) : i # d => ch[i] \in Messages
      /\ \A i, j \in 1 .. Len(ch) : ch[i] = ch[j] => i = j
    BY <1>2, List
<1>4. Len(ch) \in Nat \ {0} /\ Len(order) \in Nat /\ Len(out) \in Nat
    BY <1>3
<1>5. \/ d = 0 /\ Len(order) = Len(out) + Len(ch)
      \/ d \in 1 .. Len(ch) /\ ch[d] = Dummy /\ Len(order) = Len(out) + Len(ch) - 1
    BY <1>2 DEF Spine, Counts
<1>6. /\ \A i \in 1 .. Len(ch) : d = 0 \/ i < d =>
            Len(out) + i \in 1 .. Len(order) /\ ch[i] = order[Len(out) + i]
      /\ \A i \in 1 .. Len(ch) : d # 0 /\ i > d =>
            Len(out) + i - 1 \in 1 .. Len(order) /\ ch[i] = order[Len(out) + i - 1]
    <2>1. /\ \A i \in 1 .. Len(ch) : d = 0 \/ i < d => Len(out) + i \in 1 .. Len(order)
          /\ \A i \in 1 .. Len(ch) : d # 0 /\ i > d => Len(out) + i - 1 \in 1 .. Len(order)
        BY <1>4, <1>5
    <2>2. QED
        BY <2>1, <1>2 DEF Spine, Content
<1> DEFINE new == Append(ch, m)
<1>7. /\ new \in Seq(Nodes) /\ Len(new) = Len(ch) + 1 /\ new # << >>
      /\ \A i \in 1 .. Len(ch) : new[i] = ch[i]
      /\ new[Len(ch) + 1] = m
    BY <1>3 DEF Nodes
<1> HIDE DEF new
<1>8. /\ order' \in Seq(Messages) /\ Len(order') = Len(order) + 1
      /\ DOMAIN order' = 1 .. Len(order) + 1
      /\ \A i \in 1 .. Len(order) : order'[i] = order[i]
      /\ order'[Len(order) + 1] = m
      /\ \A i \in 1 .. Len(order) : order[i] # m
    <2>1. order \in Seq(Messages) /\ order' = Append(order, m) /\ m \notin SeqToSet(order)
        BY <1>2 DEF Exchange, TypeOK
    <2>2. \A i \in 1 .. Len(order) : order[i] # m
        BY <2>1, <1>3 DEF SeqToSet
    <2>3. QED
        BY <2>1, <2>2, <1>3
<1>9. \A i \in 1 .. Len(ch) : ch[i] # m
    <2>1. ASSUME NEW i \in 1 .. Len(ch)
          PROVE  ch[i] # m
        <3>1. CASE i = d
            BY <3>1, <1>4, <1>5
        <3>2. CASE i # d
            <4>1. d = 0 \/ i < d \/ (d # 0 /\ i > d)
                BY <3>2, <1>3
            <4>2. \/ Len(out) + i \in 1 .. Len(order) /\ ch[i] = order[Len(out) + i]
                  \/ Len(out) + i - 1 \in 1 .. Len(order) /\ ch[i] = order[Len(out) + i - 1]
                BY <4>1, <1>6
            <4>3. QED
                BY <4>2, <1>8
        <3>3. QED
            BY <3>1, <3>2
    <2>2. QED
        BY <2>1
<1>10. /\ link' = [link EXCEPT ![m] = Null] /\ link \in [Nodes -> Nodes \union {Null}]
       /\ head' = m /\ tail' = tail /\ out' = out /\ pc' = pc /\ next' = next
       /\ prevHead' = prevHead
       /\ adding' = [adding EXCEPT ![p] = [node |-> m, prev |-> head]] /\ adding[p] = Idle
    BY <1>2 DEF Exchange, consumerVars, TypeOK
<1>11. link'[m] = Null /\ \A n \in Nodes \ {m} : link'[n] = link[n]
    BY <1>10 DEF Nodes
<1>12. /\ adding'[p] = [node |-> m, prev |-> head]
       /\ \A q \in Producers \ {p} : adding'[q] = adding[q]
    BY <1>2, <1>10 DEF TypeOK
<1>13. TypeOK'
    <2>1. adding' \in [Producers -> [node : Messages \union {Null}, prev : Nodes \union {Null}]]
        BY <1>2, <1>10 DEF TypeOK
    <2>2. link' \in [Nodes -> Nodes \union {Null}] /\ head' \in Nodes
        BY <1>10 DEF Nodes
    <2>3. QED
        BY <2>1, <2>2, <1>2, <1>8, <1>10 DEF TypeOK
<1>14. Prefix'
    <2>1. \A i, j \in DOMAIN order' : order'[i] = order'[j] => i = j
        BY <1>2, <1>3, <1>8 DEF Prefix
    <2>2. Len(out') <= Len(order') /\ \A i \in 1 .. Len(out') : out'[i] = order'[i]
        BY <1>2, <1>3, <1>8, <1>10 DEF Prefix
    <2>3. QED
        BY <2>1, <2>2 DEF Prefix
<1>15. Spine(new, d)'
    <2>1. /\ new[1] = tail' /\ new[Len(new)] = head'
          /\ \/ d = 0 /\ Len(order') = Len(out') + Len(new)
             \/ /\ d \in 1 .. Len(new) /\ new[d] = Dummy
                /\ Len(order') = Len(out') + Len(new) - 1
        <3>1. new[1] = tail' /\ new[Len(new)] = head'
            BY <1>2, <1>7, <1>10, <1>4 DEF Spine
        <3>2. CASE d = 0
            <4>1. Len(order) = Len(out) + Len(ch)
                BY <3>2, <1>5
            <4>2. Len(order') = Len(order) + 1 /\ Len(new) = Len(ch) + 1 /\ out' = out
                BY <1>7, <1>8, <1>10
            <4>3. Len(order') = Len(out') + Len(new)
                BY <4>1, <4>2, <1>4
            <4>4. QED
                BY <3>1, <3>2, <4>3
        <3>3. CASE d # 0
            BY <3>1, <3>3, <1>7, <1>8, <1>10, <1>4, <1>5
        <3>4. QED
            BY <3>2, <3>3
    <2>2. ASSUME NEW i \in 1 .. Len(new), d = 0 \/ i < d
          PROVE  new[i] = order'[Len(out') + i]
        <3>1. CASE i \in 1 .. Len(ch)
            BY <3>1, <2>2, <1>7, <1>8, <1>10, <1>6
        <3>2. CASE i = Len(ch) + 1
            <4>1. d = 0
                BY <3>2, <2>2, <1>4, <1>5
            <4>2. Len(order) = Len(out) + Len(ch)
                BY <4>1, <1>5
            <4>3. Len(out) + i = Len(order) + 1
                BY <3>2, <4>2, <1>4
            <4>4. QED
                BY <3>2, <4>3, <1>7, <1>8, <1>10
        <3>3. QED
            BY <3>1, <3>2, <1>3, <1>7
    <2>3. ASSUME NEW i \in 1 .. Len(new), d # 0 /\ i > d
          PROVE  new[i] = order'[Len(out') + i - 1]
        <3>1. CASE i \in 1 .. Len(ch)
            BY <3>1, <2>3, <1>7, <1>8, <1>10, <1>6
        <3>2. CASE i = Len(ch) + 1
            BY <3>2, <2>3, <1>7, <1>8, <1>10, <1>4, <1>5
        <3>3. QED
            BY <3>1, <3>2, <1>3, <1>7
    <2>4. ASSUME NEW i \in 1 .. Len(new) - 1
          PROVE  link'[new[i]] \in {Null, new[i + 1]}
        <3>1. i \in 1 .. Len(ch) /\ new[i] = ch[i] /\ link'[new[i]] = link[ch[i]]
            BY <1>3, <1>7, <1>9, <1>11
        <3>2. CASE i = Len(ch)
            BY <3>1, <3>2, <1>2 DEF Spine, Links
        <3>3. CASE i < Len(ch)
            BY <3>1, <3>3, <1>2, <1>3, <1>7 DEF Spine, Links
        <3>4. QED
            BY <3>1, <3>2, <3>3, <1>3
    <2>5. QED
        BY <2>1, <2>2, <2>3, <2>4, <1>7, <1>10, <1>11 DEF Spine, Counts, Content, Links
<1>16. Adders(new)'
    <2>1. ASSUME NEW q \in Producers, adding'[q] # Idle
          PROVE  /\ adding'[q].node \in Messages
                 /\ \E i \in 1 .. Len(new) - 1 :
                       /\ new[i] = adding'[q].prev /\ new[i + 1] = adding'[q].node
                       /\ link'[new[i]] = Null
        <3>1. CASE q = p
            <4>1. /\ Len(ch) \in 1 .. Len(new) - 1
                  /\ new[Len(ch)] = head /\ new[Len(ch) + 1] = m /\ link'[head] = Null
                BY <1>2, <1>3, <1>7, <1>9, <1>11 DEF Spine, Links
            <4>2. QED
                BY <3>1, <4>1, <1>12
        <3>2. CASE q # p
            <4>1. adding'[q] = adding[q] /\ adding[q].node \in Messages
                BY <3>2, <2>1, <1>2, <1>12 DEF Adders
            <4>2. PICK i \in 1 .. Len(ch) - 1 :
                     ch[i] = adding[q].prev /\ ch[i + 1] = adding[q].node /\ link[ch[i]] = Null
                BY <2>1, <4>1, <1>2 DEF Adders
            <4>3. /\ i \in 1 .. Len(new) - 1 /\ new[i] = ch[i] /\ new[i + 1] = ch[i + 1]
                  /\ link'[new[i]] = link[ch[i]]
                BY <1>3, <1>7, <1>9, <1>11
            <4>4. QED
                BY <4>1, <4>2, <4>3
        <3>3. QED
            BY <3>1, <3>2
    <2>2. ASSUME NEW q \in Producers, adding[q] # Idle
          PROVE  adding[q].node # m
        <3>1. PICK i \in 1 .. Len(ch) - 1 : ch[i + 1] = adding[q].node
            BY <2>2, <1>2 DEF Adders
        <3>2. QED
            BY <3>1, <1>3, <1>9
    <2>3. ASSUME NEW q \in Producers, NEW r \in Producers, adding'[q] # Idle,
                 adding'[q].node = adding'[r].node
          PROVE  q = r
        <3>1. m # Null
            BY DEF Nodes
        <3>2. \A u \in Producers : u # p => adding'[u] = adding[u] /\ adding'[u].node # m
            BY <3>1, <2>2, <1>12 DEF Idle
        <3>3. CASE q = p
            BY <3>2, <3>3, <2>3, <1>12
        <3>4. CASE q # p /\ r # p
            BY <3>2, <3>4, <2>3, <1>2 DEF Adders
        <3>5. CASE q # p /\ r = p
            BY <3>2, <3>5, <2>3, <1>12
        <3>6. QED
            BY <3>3, <3>4, <3>5
    <2>4. QED
        BY <2>1, <2>3 DEF Adders, Idle
<1>17. Consumer(new, d)'
    <2>1. tail \in Nodes /\ tail # m
        BY <1>2, <1>3, <1>9 DEF Spine, TypeOK
    <2>2. Dummy \in Nodes /\ Dummy # m
        BY DEF Nodes
    <2>3. pc = "link" => d - 1 \in 1 .. Len(ch) /\ new[d - 1] = ch[d - 1] /\ prevHead \in Nodes
                         /\ prevHead # m
        <3>1. SUFFICES ASSUME pc = "link"
                       PROVE  /\ d - 1 \in 1 .. Len(ch) /\ new[d - 1] = ch[d - 1]
                              /\ prevHead \in Nodes /\ prevHead # m
            OBVIOUS
        <3>2. d - 1 \in 1 .. Len(ch) /\ prevHead = ch[d - 1]
            BY <3>1, <1>2, <1>4, <1>5 DEF Consumer
        <3>3. QED
            BY <3>2, <1>3, <1>7, <1>9
    <2>4. QED
        BY <2>1, <2>2, <2>3, <1>2, <1>10, <1>11 DEF Consumer
<1>18. QED
    BY <1>7, <1>13, <1>14, <1>15, <1>16, <1>17 DEF IInv, Shape

LEMMA LinkStep ==
    ASSUME IInv, NEW p \in Producers, Link(p)
    PROVE  IInv'
<1> USE ConstantsAssumption
<1>1. PICK ch \in Seq(Nodes), d \in Nat : Shape(ch, d)
    BY DEF IInv
<1>2. /\ TypeOK /\ Prefix /\ Spine(ch, d) /\ Adders(ch) /\ Consumer(ch, d)
    BY <1>1 DEF IInv, Shape
<1>3. /\ Len(ch) \in Nat \ {0}
      /\ \A i \in 1 .. Len(ch) : ch[i] \in Nodes
      /\ \A i, j \in 1 .. Len(ch) : ch[i] = ch[j] => i = j
      /\ d = 1 <=> tail = Dummy
    BY <1>2, List
<1>4. PICK k \in 1 .. Len(ch) - 1 :
          ch[k] = adding[p].prev /\ ch[k + 1] = adding[p].node /\ link[ch[k]] = Null
    BY <1>2 DEF Adders, Link
<1>5. /\ adding[p] # Idle /\ adding[p].node \in Messages
      /\ adding' = [adding EXCEPT ![p] = Idle]
      /\ link' = [link EXCEPT ![ch[k]] = ch[k + 1]]
      /\ head' = head /\ order' = order /\ tail' = tail /\ out' = out /\ pc' = pc
      /\ next' = next /\ prevHead' = prevHead
    BY <1>2, <1>4 DEF Link, Adders, consumerVars
<1>6. link'[ch[k]] = ch[k + 1] /\ \A n \in Nodes \ {ch[k]} : link'[n] = link[n]
    BY <1>2, <1>3, <1>5 DEF TypeOK
<1>7. adding'[p] = Idle /\ \A q \in Producers \ {p} : adding'[q] = adding[q]
    BY <1>2, <1>5 DEF TypeOK
<1>8. TypeOK'
    <2>1. adding' \in [Producers -> [node : Messages \union {Null}, prev : Nodes \union {Null}]]
        BY <1>2, <1>5 DEF TypeOK, Idle
    <2>2. link' \in [Nodes -> Nodes \union {Null}]
        BY <1>2, <1>3, <1>5 DEF TypeOK
    <2>3. QED
        BY <2>1, <2>2, <1>2, <1>5 DEF TypeOK
<1>9. Prefix'
    BY <1>2, <1>5 DEF Prefix
<1>10. Spine(ch, d)'
    <2>1. ASSUME NEW i \in 1 .. Len(ch) - 1
          PROVE  link'[ch[i]] \in {Null, ch[i + 1]}
        <3>1. CASE i = k
            BY <3>1, <1>6
        <3>2. CASE i # k
            <4>1. ch[i] \in Nodes \ {ch[k]}
                BY <3>2, <1>3
            <4>2. QED
                BY <4>1, <1>2, <1>6 DEF Spine, Links
        <3>3. QED
            BY <3>1, <3>2
    <2>2. link'[head'] = Null
        <3>1. head = ch[Len(ch)] /\ Len(ch) # k /\ head \in Nodes
            BY <1>2, <1>3 DEF Spine
        <3>2. head # ch[k]
            BY <3>1, <1>3
        <3>3. QED
            BY <3>1, <3>2, <1>2, <1>5, <1>6 DEF Spine, Links
    <2>3. QED
        BY <2>1, <2>2, <1>2, <1>5 DEF Spine, Counts, Content, Links
<1>11. Adders(ch)'
    <2>1. ASSUME NEW q \in Producers, adding'[q] # Idle
          PROVE  /\ adding'[q].node \in Messages
                 /\ \E i \in 1 .. Len(ch) - 1 :
                       /\ ch[i] = adding'[q].prev /\ ch[i + 1] = adding'[q].node
                       /\ link'[ch[i]] = Null
        <3>1. q # p /\ adding'[q] = adding[q] /\ adding[q].node \in Messages
            BY <2>1, <1>2, <1>7 DEF Adders
        <3>2. PICK i \in 1 .. Len(ch) - 1 :
                 ch[i] = adding[q].prev /\ ch[i + 1] = adding[q].node /\ link[ch[i]] = Null
            BY <2>1, <3>1, <1>2 DEF Adders
        <3>3. i # k
            BY <3>1, <3>2, <1>2, <1>4, <1>5 DEF Adders
        <3>4. ch[i] # ch[k] /\ ch[i] \in Nodes
            BY <3>3, <1>3
        <3>5. QED
            BY <3>1, <3>2, <3>4, <1>6
    <2>2. \A q, r \in Producers :
             adding'[q] # Idle /\ adding'[q].node = adding'[r].node => q = r
        BY <1>2, <1>5, <1>7 DEF Adders, Idle
    <2>3. QED
        BY <2>1, <2>2 DEF Adders, Idle
<1>12. Consumer(ch, d)'
    <2>1. link[tail] # Null => link'[tail] = link[tail]
        BY <1>2, <1>4, <1>6 DEF TypeOK
    <2>2. pc = "exchange" => ch[k] # Dummy
        <3>1. \A i \in 1 .. Len(ch) : i # d => ch[i] \in Messages
            BY <1>2, List
        <3>2. QED
            BY <3>1, <1>2, <1>3 DEF Consumer
    <2>3. pc = "link" => prevHead # ch[k] /\ prevHead \in Nodes
        <3>1. SUFFICES ASSUME pc = "link"
                       PROVE  prevHead # ch[k] /\ prevHead \in Nodes
            OBVIOUS
        <3>2. d - 1 \in 1 .. Len(ch) /\ prevHead = ch[d - 1] /\ ch[d] = Dummy /\ d > 1
            BY <3>1, <1>2, <1>3 DEF Consumer, Spine, Counts
        <3>3. k # d - 1
            BY <3>2, <1>4, <1>5
        <3>4. QED
            BY <3>2, <3>3, <1>3
    <2>4. QED
        BY <2>1, <2>2, <2>3, <1>2, <1>5, <1>6 DEF Consumer, Nodes
<1>13. QED
    BY <1>8, <1>9, <1>10, <1>11, <1>12 DEF IInv, Shape

-----------------------------------------------------------------------------
(* The consumer.                                                           *)

\* Steps that change nothing but where the consumer is and its locals.
LEMMA ListUnchanged ==
    ASSUME NEW ch \in Seq(Nodes), NEW d \in Nat, Prefix, Spine(ch, d), Adders(ch),
           head' = head, tail' = tail, link' = link, adding' = adding, order' = order,
           out' = out
    PROVE  Prefix' /\ Spine(ch, d)' /\ Adders(ch)'
BY DEF Prefix, Spine, Counts, Content, Links, Adders

LEMMA LoadNextStep ==
    ASSUME IInv, LoadNext
    PROVE  IInv'
<1>1. PICK ch \in Seq(Nodes), d \in Nat : Shape(ch, d)
    BY DEF IInv
<1>2. TypeOK /\ Prefix /\ Spine(ch, d) /\ Adders(ch)
    BY <1>1 DEF IInv, Shape
<1>3. d = 1 <=> tail = Dummy
    BY <1>2, List
<1>4. /\ head' = head /\ tail' = tail /\ link' = link /\ adding' = adding
      /\ order' = order /\ out' = out /\ prevHead' = prevHead /\ next' = link[tail]
      /\ pc' = IF tail = Dummy /\ link[tail] = Null THEN "load"
               ELSE IF tail = Dummy THEN "skip"
               ELSE "test"
    BY DEF LoadNext, producerVars
<1>5. TypeOK'
    BY <1>2, <1>4 DEF TypeOK
<1>6. Prefix' /\ Spine(ch, d)' /\ Adders(ch)'
    BY <1>2, <1>4, ListUnchanged
<1>7. Consumer(ch, d)'
    BY <1>3, <1>4 DEF Consumer
<1>8. QED
    BY <1>5, <1>6, <1>7 DEF IInv, Shape

LEMMA SkipDummyStep ==
    ASSUME IInv, SkipDummy
    PROVE  IInv'
<1> USE ConstantsAssumption
<1>1. PICK ch \in Seq(Nodes), d \in Nat : Shape(ch, d)
    BY DEF IInv
<1>2. TypeOK /\ Prefix /\ Spine(ch, d) /\ Adders(ch) /\ Consumer(ch, d)
    BY <1>1 DEF IInv, Shape
<1>3. d = 1 /\ next # Null /\ link[tail] = next
    BY <1>2 DEF Consumer, SkipDummy
<1>4. /\ head' = head /\ tail' = link[tail] /\ link' = link /\ adding' = adding
      /\ order' = order /\ out' = out /\ prevHead' = prevHead /\ next' = link[tail']
      /\ pc' = "test"
    BY <1>3 DEF SkipDummy, producerVars
<1>5. TypeOK'
    BY <1>2, <1>3, <1>4 DEF TypeOK
<1>6. /\ Tail(ch) \in Seq(Nodes)
      /\ Prefix' /\ Spine(Tail(ch), 0)' /\ Adders(Tail(ch))'
    BY <1>2, <1>3, <1>4, <1>5, Advanced
<1>7. Consumer(Tail(ch), 0)'
    BY <1>4 DEF Consumer
<1>8. QED
    BY <1>5, <1>6, <1>7 DEF IInv, Shape

\* The steps with which Dequeue returns true: the node behind tail is linked, and tail
\* is given away.
LEMMA ReturnStep ==
    ASSUME IInv, pc \in {"test", "retry"}, link[tail] # Null, Return(link[tail]),
           head' = head, link' = link, adding' = adding, order' = order,
           next' \in Nodes \union {Null}, prevHead' = prevHead
    PROVE  IInv'
<1>1. PICK ch \in Seq(Nodes), d \in Nat : Shape(ch, d)
    BY DEF IInv
<1>2. TypeOK /\ Prefix /\ Spine(ch, d) /\ Adders(ch) /\ Consumer(ch, d)
    BY <1>1 DEF IInv, Shape
<1>3. d # 1
    BY <1>2 DEF Consumer
<1>4. tail' = link[tail] /\ out' = Append(out, tail) /\ pc' = "load"
    BY DEF Return
<1>5. TypeOK'
    <2>1. out' \in Seq(Nodes) /\ tail' \in Nodes
        BY <1>2, <1>4 DEF TypeOK
    <2>2. QED
        BY <2>1, <1>2, <1>4 DEF TypeOK
<1> DEFINE e == IF d = 0 THEN 0 ELSE d - 1
<1>6. /\ Tail(ch) \in Seq(Nodes)
      /\ Prefix' /\ Spine(Tail(ch), e)' /\ Adders(Tail(ch))'
    BY <1>2, <1>3, <1>4, <1>5, Advanced
<1>7. e \in Nat
    OBVIOUS
<1> HIDE DEF e
<1>8. Consumer(Tail(ch), e)'
    BY <1>4 DEF Consumer
<1>9. QED
    BY <1>5, <1>6, <1>7, <1>8 DEF IInv, Shape

LEMMA TakeLinkedStep ==
    ASSUME IInv, TakeLinked
    PROVE  IInv'
<1>1. PICK ch \in Seq(Nodes), d \in Nat : TypeOK /\ Consumer(ch, d)
    BY DEF IInv, Shape
<1>2. pc = "test" /\ next # Null /\ link[tail] = next
    BY <1>1 DEF TakeLinked, Consumer
<1>3. QED
    BY <1>1, <1>2, ReturnStep DEF TakeLinked, producerVars, TypeOK

LEMMA LoadAgainStep ==
    ASSUME IInv, LoadAgain
    PROVE  IInv'
<1>1. TypeOK
    BY DEF IInv
<1>2. /\ pc = "retry" /\ next' = link[tail] /\ head' = head /\ link' = link
      /\ adding' = adding /\ order' = order /\ prevHead' = prevHead
    BY DEF LoadAgain, producerVars
<1>3. next' \in Nodes \union {Null}
    BY <1>1, <1>2 DEF TypeOK
<1>4. CASE link[tail] # Null
    BY <1>2, <1>3, <1>4, ReturnStep DEF LoadAgain
<1>5. CASE link[tail] = Null
    <2>1. pc' = "load" /\ tail' = tail /\ out' = out
        BY <1>5 DEF LoadAgain
    <2>2. PICK ch \in Seq(Nodes), d \in Nat : Shape(ch, d) /\ Prefix
        BY DEF IInv
    <2>3. Prefix' /\ Spine(ch, d)' /\ Adders(ch)'
        BY <1>2, <2>1, <2>2, ListUnchanged DEF Shape
    <2>4. TypeOK' /\ Consumer(ch, d)'
        BY <1>1, <1>2, <1>3, <2>1 DEF TypeOK, Consumer
    <2>5. QED
        BY <2>3, <2>4 DEF IInv, Shape
<1>6. QED
    BY <1>4, <1>5

LEMMA LoadHeadStep ==
    ASSUME IInv, LoadHead
    PROVE  IInv'
<1>1. PICK ch \in Seq(Nodes), d \in Nat : Shape(ch, d)
    BY DEF IInv
<1>2. TypeOK /\ Prefix /\ Spine(ch, d) /\ Adders(ch) /\ Consumer(ch, d)
    BY <1>1 DEF IInv, Shape
<1>3. /\ head' = head /\ tail' = tail /\ link' = link /\ adding' = adding
      /\ order' = order /\ out' = out /\ prevHead' = prevHead /\ next' = next
      /\ pc' = IF head = tail THEN "dummy" ELSE "load"
    BY DEF LoadHead, producerVars
<1>4. TypeOK'
    BY <1>2, <1>3 DEF TypeOK
<1>5. Prefix' /\ Spine(ch, d)' /\ Adders(ch)'
    BY <1>2, <1>3, ListUnchanged
<1>6. head = tail => d = 0
    <2>1. /\ Len(ch) \in Nat \ {0} /\ d # 1
          /\ \A i, j \in 1 .. Len(ch) : ch[i] = ch[j] => i = j
        BY <1>2, List DEF Consumer, LoadHead
    <2>2. 1 \in 1 .. Len(ch) /\ Len(ch) \in 1 .. Len(ch)
        BY <2>1
    <2>3. head = tail => ch[1] = ch[Len(ch)]
        BY <1>2 DEF Spine
    <2>4. head = tail => 1 = Len(ch)
        BY <2>1, <2>2, <2>3
    <2>5. d = 0 \/ (1 <= d /\ d <= Len(ch))
        BY <1>2 DEF Spine, Counts
    <2>6. d # 1 /\ Len(ch) \in Nat
        BY <2>1
    <2>7. ASSUME Len(ch) = 1
          PROVE  d = 0
        BY <2>5, <2>6, <2>7
    <2>8. QED
        BY <2>4, <2>7
<1>7. Consumer(ch, d)'
    BY <1>3, <1>6 DEF Consumer
<1>8. QED
    BY <1>4, <1>5, <1>7 DEF IInv, Shape

LEMMA ResetDummyStep ==
    ASSUME IInv, ResetDummy
    PROVE  IInv'
<1> USE ConstantsAssumption
<1>1. PICK ch \in Seq(Nodes), d \in Nat : Shape(ch, d)
    BY DEF IInv
<1>2. TypeOK /\ Prefix /\ Spine(ch, d) /\ Adders(ch) /\ Consumer(ch, d)
    BY <1>1 DEF IInv, Shape
<1>3. d = 0
    BY <1>2 DEF Consumer, ResetDummy
<1>4. /\ Len(ch) \in Nat \ {0}
      /\ \A i \in 1 .. Len(ch) : ch[i] \in Messages /\ ch[i] # Dummy
    <2>1. Len(ch) \in Nat \ {0} /\ \A i \in 1 .. Len(ch) : i # d => ch[i] \in Messages
        BY <1>2, List
    <2>2. QED
        BY <2>1, <1>3
<1>5. /\ head' = head /\ tail' = tail /\ adding' = adding /\ order' = order
      /\ out' = out /\ prevHead' = prevHead /\ next' = next /\ pc' = "exchange"
      /\ link' = [link EXCEPT ![Dummy] = Null]
    BY DEF ResetDummy, producerVars
<1>6. /\ link' \in [Nodes -> Nodes \union {Null}] /\ link'[Dummy] = Null
      /\ \A i \in 1 .. Len(ch) : link'[ch[i]] = link[ch[i]]
    BY <1>2, <1>4, <1>5 DEF TypeOK, Nodes
<1>7. TypeOK' /\ Prefix'
    BY <1>2, <1>5, <1>6 DEF TypeOK, Prefix
<1>8. Spine(ch, d)'
    <2>1. Links(ch)'
        <3>1. head = ch[Len(ch)] /\ Len(ch) \in 1 .. Len(ch)
            BY <1>2, <1>4 DEF Spine
        <3>2. \A i \in 1 .. Len(ch) - 1 : i \in 1 .. Len(ch)
            BY <1>4
        <3>3. QED
            BY <3>1, <3>2, <1>2, <1>5, <1>6 DEF Spine, Links
    <2>2. QED
        BY <2>1, <1>2, <1>5 DEF Spine, Counts, Content
<1>9. Adders(ch)'
    <2>1. \A i \in 1 .. Len(ch) - 1 : link'[ch[i]] = link[ch[i]]
        BY <1>4, <1>6
    <2>2. QED
        BY <2>1, <1>2, <1>5 DEF Adders
<1>10. Consumer(ch, d)'
    BY <1>3, <1>5, <1>6 DEF Consumer
<1>11. QED
    BY <1>7, <1>8, <1>9, <1>10 DEF IInv, Shape

LEMMA ExchangeDummyStep ==
    ASSUME IInv, ExchangeDummy
    PROVE  IInv'
<1> USE ConstantsAssumption
<1>1. PICK ch \in Seq(Nodes), d \in Nat : Shape(ch, d)
    BY DEF IInv
<1>2. TypeOK /\ Prefix /\ Spine(ch, d) /\ Adders(ch) /\ Consumer(ch, d)
    BY <1>1 DEF IInv, Shape
<1>3. d = 0 /\ link[Dummy] = Null
    BY <1>2 DEF Consumer, ExchangeDummy
<1>4. Len(ch) \in Nat \ {0} /\ Len(order) \in Nat /\ Len(out) \in Nat
    BY <1>2, List
<1>5. Len(order) = Len(out) + Len(ch)
    BY <1>2, <1>3 DEF Spine, Counts
<1>6. /\ head' = Dummy /\ tail' = tail /\ link' = link /\ adding' = adding
      /\ order' = order /\ out' = out /\ prevHead' = head /\ next' = next
      /\ pc' = "link"
    BY DEF ExchangeDummy, producerVars
<1>7. TypeOK' /\ Prefix'
    BY <1>2, <1>6 DEF TypeOK, Prefix, Nodes
<1> DEFINE new == Append(ch, Dummy)
           e == Len(ch) + 1
<1>8. /\ new \in Seq(Nodes) /\ Len(new) = e /\ new # << >>
      /\ \A i \in 1 .. Len(ch) : new[i] = ch[i]
      /\ new[e] = Dummy
    BY <1>4 DEF Nodes
<1> HIDE DEF new
<1>9. Spine(new, e)'
    <2>1. new[1] = tail' /\ new[Len(new)] = head'
        BY <1>2, <1>4, <1>6, <1>8 DEF Spine
    <2>2. e \in 1 .. Len(new) /\ new[e] = Dummy /\ Len(order') = Len(out') + Len(new) - 1
        <3>1. order' = order /\ out' = out /\ Len(new) = Len(ch) + 1 /\ new[e] = Dummy
            BY <1>6, <1>8
        <3>2. QED
            BY <3>1, <1>4, <1>5
    <2>3. ASSUME NEW i \in 1 .. Len(new), i < e
          PROVE  new[i] = order'[Len(out') + i]
        <3>1. i \in 1 .. Len(ch) /\ new[i] = ch[i] /\ order' = order /\ out' = out
            BY <2>3, <1>4, <1>6, <1>8
        <3>2. ch[i] = order[Len(out) + i]
            BY <3>1, <1>2, <1>3 DEF Spine, Content
        <3>3. QED
            BY <3>1, <3>2
    <2>4. Links(new)'
        <3>1. ASSUME NEW i \in 1 .. Len(new) - 1
              PROVE  link[new[i]] \in {Null, new[i + 1]}
            <4>1. i \in 1 .. Len(ch) /\ new[i] = ch[i]
                BY <1>4, <1>8
            <4>2. CASE i = Len(ch)
                BY <4>1, <4>2, <1>2 DEF Spine, Links
            <4>3. CASE i # Len(ch)
                BY <4>1, <4>3, <1>2, <1>4, <1>8 DEF Spine, Links
            <4>4. QED
                BY <4>2, <4>3
        <3>2. QED
            BY <3>1, <1>3, <1>6 DEF Links
    <2>5. e # 0 /\ e \in Nat
        BY <1>4
    <2>6. Content(new, e)'
        <3>1. \A i \in 1 .. Len(new) : ~(i > e)
            BY <1>4, <1>8
        <3>2. QED
            BY <2>3, <2>5, <3>1 DEF Content
    <2> HIDE DEF e
    <2>7. QED
        BY <2>1, <2>2, <2>4, <2>6, <1>8 DEF Spine, Counts
<1>10. Adders(new)'
    <2>1. \A i \in 1 .. Len(ch) - 1 :
             i \in 1 .. Len(new) - 1 /\ new[i] = ch[i] /\ new[i + 1] = ch[i + 1]
        BY <1>4, <1>8
    <2>2. ASSUME NEW p \in Producers, adding[p] # Idle
          PROVE  /\ adding[p].node \in Messages
                 /\ \E i \in 1 .. Len(new) - 1 :
                       /\ new[i] = adding[p].prev /\ new[i + 1] = adding[p].node
                       /\ link[new[i]] = Null
        <3>1. adding[p].node \in Messages
            BY <2>2, <1>2 DEF Adders
        <3>2. PICK i \in 1 .. Len(ch) - 1 :
                 ch[i] = adding[p].prev /\ ch[i + 1] = adding[p].node /\ link[ch[i]] = Null
            BY <2>2, <1>2 DEF Adders
        <3>3. QED
            BY <3>1, <3>2, <2>1
    <2>3. QED
        BY <2>2, <1>2, <1>6 DEF Adders, Idle
<1>11. Consumer(new, e)'
    <2>1. e > 1 /\ e - 1 = Len(ch)
        BY <1>4
    <2>2. head = new[e - 1] /\ link[head] = Null
        <3>1. head = ch[Len(ch)] /\ link[head] = Null
            BY <1>2 DEF Spine, Links
        <3>2. QED
            BY <3>1, <2>1, <1>4, <1>8
    <2>3. QED
        BY <2>1, <2>2, <1>6 DEF Consumer
<1>12. QED
    BY <1>4, <1>7, <1>8, <1>9, <1>10, <1>11 DEF IInv, Shape

LEMMA LinkDummyStep ==
    ASSUME IInv, LinkDummy
    PROVE  IInv'
<1> USE ConstantsAssumption
<1>1. PICK ch \in Seq(Nodes), d \in Nat : Shape(ch, d)
    BY DEF IInv
<1>2. TypeOK /\ Prefix /\ Spine(ch, d) /\ Adders(ch) /\ Consumer(ch, d)
    BY <1>1 DEF IInv, Shape
<1>3. /\ Len(ch) \in Nat \ {0}
      /\ \A i \in 1 .. Len(ch) : ch[i] \in Nodes
      /\ \A i, j \in 1 .. Len(ch) : ch[i] = ch[j] => i = j
    BY <1>2, List
<1>4. /\ d > 1 /\ d \in 1 .. Len(ch) /\ prevHead = ch[d - 1] /\ ch[d] = Dummy
      /\ link[prevHead] = Null
    BY <1>2 DEF Consumer, LinkDummy, Spine, Counts
<1> DEFINE k == d - 1
<1>5. k \in 1 .. Len(ch) - 1 /\ k + 1 = d /\ ch[k] = prevHead /\ ch[k] \in Nodes
    BY <1>3, <1>4
<1> HIDE DEF k
<1>6. /\ head' = head /\ tail' = tail /\ adding' = adding /\ order' = order
      /\ out' = out /\ prevHead' = prevHead /\ next' = next /\ pc' = "retry"
      /\ link' = [link EXCEPT ![ch[k]] = Dummy]
    BY <1>5 DEF LinkDummy, producerVars
<1>7. link'[ch[k]] = ch[k + 1] /\ \A n \in Nodes \ {ch[k]} : link'[n] = link[n]
    BY <1>2, <1>4, <1>5, <1>6 DEF TypeOK
<1>8. TypeOK'
    <2>1. link' \in [Nodes -> Nodes \union {Null}]
        BY <1>2, <1>6 DEF TypeOK, Nodes
    <2>2. QED
        BY <2>1, <1>2, <1>6 DEF TypeOK
<1>9. Prefix'
    BY <1>2, <1>6 DEF Prefix
<1>10. Spine(ch, d)'
    <2>1. ASSUME NEW i \in 1 .. Len(ch) - 1
          PROVE  link'[ch[i]] \in {Null, ch[i + 1]}
        <3>1. CASE i = k
            BY <3>1, <1>7
        <3>2. CASE i # k
            <4>1. ch[i] \in Nodes \ {ch[k]}
                BY <3>2, <1>3, <1>5
            <4>2. QED
                BY <4>1, <1>2, <1>7 DEF Spine, Links
        <3>3. QED
            BY <3>1, <3>2
    <2>2. link'[head'] = Null
        <3>1. head = ch[Len(ch)] /\ Len(ch) # k /\ head \in Nodes
            BY <1>2, <1>3, <1>5 DEF Spine
        <3>2. head # ch[k]
            BY <3>1, <1>3, <1>5
        <3>3. QED
            BY <3>1, <3>2, <1>2, <1>6, <1>7 DEF Spine, Links
    <2>3. QED
        BY <2>1, <2>2, <1>2, <1>6 DEF Spine, Counts, Content, Links
<1>11. Adders(ch)'
    <2>1. ASSUME NEW p \in Producers, adding[p] # Idle
          PROVE  /\ adding[p].node \in Messages
                 /\ \E i \in 1 .. Len(ch) - 1 :
                       /\ ch[i] = adding[p].prev /\ ch[i + 1] = adding[p].node
                       /\ link'[ch[i]] = Null
        <3>1. adding[p].node \in Messages
            BY <2>1, <1>2 DEF Adders
        <3>2. PICK i \in 1 .. Len(ch) - 1 :
                 ch[i] = adding[p].prev /\ ch[i + 1] = adding[p].node /\ link[ch[i]] = Null
            BY <2>1, <1>2 DEF Adders
        <3>3. i # k
            BY <3>1, <3>2, <1>4, <1>5
        <3>4. ch[i] # ch[k] /\ ch[i] \in Nodes
            BY <3>3, <1>3, <1>5
        <3>5. QED
            BY <3>1, <3>2, <3>4, <1>7
    <2>2. QED
        BY <2>1, <1>2, <1>6 DEF Adders, Idle
<1>12. Consumer(ch, d)'
    BY <1>4, <1>6 DEF Consumer
<1>13. QED
    BY <1>8, <1>9, <1>10, <1>11, <1>12 DEF IInv, Shape

-----------------------------------------------------------------------------
(* The theorems.                                                           *)

LEMMA Initial == Init => IInv
<1> USE ConstantsAssumption
<1>1. SUFFICES ASSUME Init
               PROVE  IInv
    OBVIOUS
<1> DEFINE ch == <<Dummy>>
<1>2. ch \in Seq(Nodes) /\ Len(ch) = 1 /\ ch # << >> /\ ch[1] = Dummy
    BY DEF Nodes
<1>3. order = << >> /\ out = << >> /\ Len(order) = 0 /\ Len(out) = 0
    BY <1>1 DEF Init
<1>4. TypeOK
    BY <1>1 DEF Init, TypeOK, Nodes, Idle
<1>5. Prefix
    BY <1>3 DEF Prefix
<1> HIDE DEF ch
<1>6. Spine(ch, 1)
    <2>1. Counts(ch, 1)
        BY <1>2, <1>3 DEF Counts
    <2>2. Content(ch, 1)
        BY <1>2, <1>3 DEF Content
    <2>3. Links(ch)
        BY <1>1, <1>2 DEF Links, Init, Nodes
    <2>4. QED
        BY <2>1, <2>2, <2>3, <1>1, <1>2 DEF Spine, Init
<1>7. Adders(ch)
    BY <1>1 DEF Init, Adders
<1>8. Consumer(ch, 1)
    BY <1>1 DEF Init, Consumer
<1>9. QED
    BY <1>2, <1>4, <1>5, <1>6, <1>7, <1>8 DEF IInv, Shape

LEMMA Stutter == IInv /\ UNCHANGED vars => IInv'
<1>1. SUFFICES ASSUME IInv, UNCHANGED vars
               PROVE  IInv'
    OBVIOUS
<1>2. /\ head' = head /\ tail' = tail /\ link' = link /\ adding' = adding
      /\ order' = order /\ out' = out /\ prevHead' = prevHead /\ next' = next /\ pc' = pc
    BY <1>1 DEF vars
<1>3. PICK ch \in Seq(Nodes), d \in Nat : Shape(ch, d) /\ TypeOK /\ Prefix
    BY <1>1 DEF IInv
<1>4. TypeOK' /\ Consumer(ch, d)'
    BY <1>2, <1>3 DEF TypeOK, Shape, Consumer
<1>5. Prefix' /\ Spine(ch, d)' /\ Adders(ch)'
    BY <1>2, <1>3, ListUnchanged DEF Shape
<1>6. QED
    BY <1>4, <1>5 DEF IInv, Shape

LEMMA Invariance == Spec => []IInv
<1>1. IInv /\ [Next]_vars => IInv'
    <2>1. SUFFICES ASSUME IInv, [Next]_vars
                   PROVE  IInv'
        OBVIOUS
    <2>2. CASE Dequeue
        BY <2>1, <2>2, LoadNextStep, SkipDummyStep, TakeLinkedStep, LoadHeadStep,
           ResetDummyStep, ExchangeDummyStep, LinkDummyStep, LoadAgainStep DEF Dequeue
    <2>3. CASE \E p \in Producers : (\E m \in Messages : Exchange(p, m)) \/ Link(p)
        BY <2>1, <2>3, ExchangeStep, LinkStep
    <2>4. CASE UNCHANGED vars
        BY <2>1, <2>4, Stutter
    <2>5. QED
        BY <2>1, <2>2, <2>3, <2>4 DEF Next
<1>2. QED
    BY <1>1, Initial, PTL DEF Spec

\* Every variable of the queue keeps its type: tail and head are never null, and only
\* nodes are dequeued.
THEOREM TypeCorrect == Spec => []TypeOK
<1>1. IInv => TypeOK
    BY DEF IInv
<1>2. QED
    BY <1>1, Invariance, PTL

\* A node that Dequeue has returned is deleted by its caller: no producer still has to
\* store to its link and the consumer does not read it again.
THEOREM NoUseAfterDeleteCorrect == Spec => []NoUseAfterDelete
<1>1. IInv => NoUseAfterDelete
    <2>1. SUFFICES ASSUME IInv
                   PROVE  NoUseAfterDelete
        OBVIOUS
    <2>2. PICK ch \in Seq(Nodes), d \in Nat : Shape(ch, d)
        BY <2>1 DEF IInv
    <2>3. TypeOK /\ Prefix /\ Spine(ch, d) /\ Adders(ch) /\ Consumer(ch, d)
        BY <2>1, <2>2 DEF IInv, Shape
    <2>4. /\ Len(ch) \in Nat \ {0} /\ DOMAIN out = 1 .. Len(out)
          /\ \A i \in 1 .. Len(ch), j \in 1 .. Len(out) : ch[i] # out[j]
          /\ link[tail] # Null => Len(ch) > 1 /\ link[tail] = ch[2]
        BY <2>3, List
    <2>5. \A i \in 1 .. Len(ch) : ch[i] \notin SeqToSet(out)
        BY <2>4 DEF SeqToSet
    <2>6. \A i \in 1 .. Len(out) : out[i] \in Nodes
        BY <2>3 DEF TypeOK
    <2>7. ASSUME NEW p \in Producers
          PROVE  adding[p].prev \notin SeqToSet(out)
        <3>1. CASE adding[p] = Idle
            BY <3>1, <2>4, <2>6, ConstantsAssumption DEF Idle, SeqToSet
        <3>2. CASE adding[p] # Idle
            <4>1. PICK i \in 1 .. Len(ch) - 1 : ch[i] = adding[p].prev
                BY <3>2, <2>3 DEF Adders
            <4>2. i \in 1 .. Len(ch)
                BY <2>4
            <4>3. QED
                BY <4>1, <4>2, <2>5
        <3>3. QED
            BY <3>1, <3>2
    <2>8. tail \notin SeqToSet(out) /\ head \notin SeqToSet(out)
        BY <2>3, <2>4, <2>5 DEF Spine
    <2>9. pc = "link" => prevHead \notin SeqToSet(out)
        <3>1. SUFFICES ASSUME pc = "link"
                       PROVE  prevHead \notin SeqToSet(out)
            OBVIOUS
        <3>2. d - 1 \in 1 .. Len(ch) /\ prevHead = ch[d - 1]
            BY <3>1, <2>3, <2>4 DEF Consumer, Spine, Counts
        <3>3. QED
            BY <3>2, <2>5
    <2>10. pc = "skip" => next \notin SeqToSet(out)
        BY <2>3, <2>4, <2>5 DEF Consumer
    <2>11. QED
        BY <2>7, <2>8, <2>9, <2>10 DEF NoUseAfterDelete
<1>2. QED
    BY <1>1, Invariance, PTL

LEMMA SequencePrefix ==
    ASSUME NEW S, NEW T, NEW s \in Seq(S), NEW t \in Seq(T), Len(t) <= Len(s),
           \A i \in 1 .. Len(t) : t[i] = s[i]
    PROVE  t = SubSeq(s, 1, Len(t))
<1>1. /\ SubSeq(s, 1, Len(t)) \in Seq(S) /\ Len(SubSeq(s, 1, Len(t))) = Len(t)
      /\ \A i \in 1 .. Len(t) : SubSeq(s, 1, Len(t))[i] = s[i]
    BY Len(t) \in Nat
<1>2. DOMAIN t = 1 .. Len(t) /\ DOMAIN SubSeq(s, 1, Len(t)) = 1 .. Len(t)
    BY <1>1
<1>3. QED
    BY <1>1, <1>2, Z3

\* Mapping the queue to MessageFifo: the exchange of _head accepts a message, the steps
\* with which Dequeue returns true deliver, and every other step, the travels of the
\* dummy node included, changes nothing a caller can tell.
THEOREM ImplementsFifoCorrect == Spec => ImplementsFifo
<1> DEFINE delivered == IF out = SubSeq(order, 1, Len(out)) THEN Len(out) ELSE Len(order) + 1
<1>1. Init => Fifo!Init
    <2>1. SUFFICES ASSUME Init
                   PROVE  Fifo!Init
        OBVIOUS
    <2>2. order = << >> /\ out = << >>
        BY <2>1 DEF Init
    <2>3. delivered = 0
        BY <2>2
    <2>4. QED
        BY <2>2, <2>3 DEF Fifo!Init
<1>2. IInv => delivered = Len(out)
    <2>1. SUFFICES ASSUME IInv
                   PROVE  out = SubSeq(order, 1, Len(out))
        OBVIOUS
    <2>2. /\ order \in Seq(Messages) /\ out \in Seq(Nodes)
          /\ Len(out) <= Len(order) /\ \A i \in 1 .. Len(out) : out[i] = order[i]
        BY <2>1 DEF IInv, TypeOK, Prefix
    <2>3. QED
        BY <2>2, SequencePrefix
<1>3. IInv' => delivered' = Len(out')
    <2>1. SUFFICES ASSUME IInv'
                   PROVE  out' = SubSeq(order', 1, Len(out'))
        OBVIOUS
    <2>2. /\ order' \in Seq(Messages) /\ out' \in Seq(Nodes)
          /\ Len(out') <= Len(order') /\ \A i \in 1 .. Len(out') : out'[i] = order'[i]
        BY <2>1 DEF IInv, TypeOK, Prefix
    <2>3. QED
        BY <2>2, SequencePrefix
<1>4. IInv /\ IInv' /\ [Next]_vars => [Fifo!Next]_(Fifo!vars)
    <2>1. SUFFICES ASSUME IInv, IInv', [Next]_vars
                   PROVE  Fifo!Next \/ (order' = order /\ delivered' = delivered)
        BY DEF Fifo!vars
    <2>2. delivered = Len(out) /\ delivered' = Len(out')
        BY <2>1, <1>2, <1>3
    <2>3. /\ order \in Seq(Messages) /\ out \in Seq(Nodes) /\ out' \in Seq(Nodes)
          /\ Len(out') <= Len(order')
        BY <2>1 DEF IInv, TypeOK, Prefix
    <2> HIDE DEF delivered
    <2>4. ASSUME NEW p \in Producers, NEW m \in Messages, Exchange(p, m)
          PROVE  Fifo!Next
        <3>1. order' = Append(order, m) /\ out' = out
            BY <2>4 DEF Exchange, consumerVars
        <3>2. \A i \in DOMAIN order : order[i] # m
            BY <2>4 DEF Exchange, SeqToSet
        <3>3. delivered' = delivered
            BY <3>1, <2>2
        <3>4. Fifo!Accept(m)
            BY <3>1, <3>2, <3>3 DEF Fifo!Accept, delivered
        <3>5. QED
            BY <3>4 DEF Fifo!Next
    <2>5. ASSUME NEW n, Return(n), order' = order
          PROVE  Fifo!Next
        <3>1. Len(out') = Len(out) + 1
            BY <2>3, <2>5 DEF Return
        <3>2. delivered' = delivered + 1 /\ delivered < Len(order)
            BY <3>1, <2>2, <2>3, <2>5
        <3>3. Fifo!Deliver
            BY <3>2, <2>5 DEF Fifo!Deliver, delivered
        <3>4. QED
            BY <3>3 DEF Fifo!Next
    <2>6. CASE order' = order /\ out' = out
        BY <2>2, <2>6
    <2>7. CASE \E p \in Producers : (\E m \in Messages : Exchange(p, m)) \/ Link(p)
        <3>1. PICK p \in Producers : (\E m \in Messages : Exchange(p, m)) \/ Link(p)
            BY <2>7
        <3>2. CASE Link(p)
            BY <3>2, <2>6 DEF Link, consumerVars
        <3>3. QED
            BY <3>1, <3>2, <2>4
    <2>8. CASE TakeLinked \/ LoadAgain
        <3>1. CASE TakeLinked
            BY <3>1, <2>5 DEF TakeLinked, producerVars
        <3>2. CASE LoadAgain
            <4>1. order' = order
                BY <3>2 DEF LoadAgain, producerVars
            <4>2. Return(link[tail]) \/ out' = out
                BY <3>2 DEF LoadAgain
            <4>3. QED
                BY <4>1, <4>2, <2>5, <2>6
        <3>3. QED
            BY <2>8, <3>1, <3>2
    <2>9. CASE LoadNext \/ SkipDummy \/ LoadHead \/ ResetDummy \/ ExchangeDummy \/ LinkDummy
        <3>1. order' = order /\ out' = out
            BY <2>9 DEF LoadNext, SkipDummy, LoadHead, ResetDummy, ExchangeDummy, LinkDummy,
               producerVars
        <3>2. QED
            BY <3>1, <2>6
    <2>10. CASE UNCHANGED vars
        BY <2>10, <2>6 DEF vars
    <2>11. QED
        BY <2>1, <2>7, <2>8, <2>9, <2>10 DEF Next, Dequeue
<1>5. QED
    BY <1>1, <1>4, Invariance, PTL DEF Spec, ImplementsFifo, Fifo!Spec
=============================================================================

---------------------------- MODULE TradeProofs ----------------------------
(***************************************************************************)
(* Proofs about Trade, for every number of players, items, slots and       *)
(* spells: who trades with whom, and what an acceptance stands for.        *)
(*                                                                         *)
(* What the exchange does to the items (MovedItems) is defined by          *)
(* recursion over the slots and stays with TLC.  None of the invariants    *)
(* here depends on it: they are about m_trade, which only the handlers     *)
(* change, whatever becomes of the items and the money meanwhile.          *)
(***************************************************************************)
EXTENDS Trade, TLAPS

-----------------------------------------------------------------------------
(* The inductive invariant.                                                *)

\* The part of TypeOK that says what a trade is.
TradeTypeOK ==
    /\ online \subseteq Players
    /\ trade \in [Players -> TradeData \union {None}]
    /\ agreed \in [Players -> (Offer \X Offer) \union {None}]

IInv ==
    /\ TradeTypeOK
    /\ TradesAreMutual
    /\ AcceptedAsSeen

-----------------------------------------------------------------------------
(* The fields of a trade.                                                  *)

\* What the trade of a trading player is made of.
LEMMA Fields ==
    ASSUME TradeTypeOK, NEW p \in Players, Trading(p)
    PROVE  /\ trade[p] \in TradeData
           /\ trade[p] = [trader |-> Trader(p), accepted |-> trade[p].accepted,
                          offer |-> OfferOf(p)]
           /\ Trader(p) \in Players
           /\ trade[p].accepted \in BOOLEAN
           /\ OfferOf(p) \in Offer
BY DEF TradeTypeOK, Trading, TradeData, Trader, OfferOf

\* A change of one field of an offer is an offer.
LEMMA OfferFields ==
    ASSUME NEW o \in Offer
    PROVE  /\ o.items \in [Slots -> Items \union {None}]
           /\ o.money \in Nat
           /\ o.spell \in Spells \union {None}
           /\ \A g \in Nat : [o EXCEPT !.money = g] \in Offer
           /\ \A x \in Spells \union {None} : [o EXCEPT !.spell = x] \in Offer
           /\ \A s \in Slots, i \in Items \union {None} :
                 [o EXCEPT !.items[s] = i, !.spell = None] \in Offer
BY DEF Offer

LEMMA NothingIsAnOffer == Nothing \in Offer
BY DEF Nothing, Offer

-----------------------------------------------------------------------------
(* The three ways in which a step can treat the trades.                    *)

\* A step that leaves the trades alone, in which nobody leaves the world.
LEMMA Untouched ==
    ASSUME IInv, trade' = trade, agreed' = agreed,
           online \subseteq online', online' \subseteq Players
    PROVE  IInv'
BY DEF IInv, TradeTypeOK, TradesAreMutual, AcceptedAsSeen, Trading, Trader, OfferOf

\* What RememberAs leaves in the record.
LEMMA Remembered ==
    ASSUME NEW offers \in [Players -> (Offer \X Offer) \union {None}],
           trade' \in [Players -> TradeData \union {None}],
           RememberAs(offers)
    PROVE  /\ agreed' \in [Players -> (Offer \X Offer) \union {None}]
           /\ \A x \in Players :
                 trade'[x] # None /\ trade'[x].accepted => agreed'[x] = offers[x]
BY DEF RememberAs

\* A step after which p and its partner still trade with each other: those who
\* have accepted must have the offers that are on the table now.
LEMMA TradeGoesOn ==
    ASSUME IInv,
           NEW p \in Players, Trading(p), NEW q, q = Trader(p),
           trade' \in [Players -> TradeData \union {None}],
           trade'[p] # None, trade'[p].trader = q,
           trade'[q] # None, trade'[q].trader = p,
           \A x \in Players \ {p, q} : trade'[x] = trade[x],
           online' = online,
           NEW offers \in [Players -> (Offer \X Offer) \union {None}],
           RememberAs(offers),
           \A x \in Players \ {p, q} : offers[x] = agreed[x],
           trade'[p].accepted => offers[p] = <<trade'[p].offer, trade'[q].offer>>,
           trade'[q].accepted => offers[q] = <<trade'[q].offer, trade'[p].offer>>
    PROVE  IInv'
<1>1. /\ q \in Players /\ q # p /\ Trading(q) /\ Trader(q) = p
    BY Fields DEF IInv, TradesAreMutual
<1>3. /\ agreed' \in [Players -> (Offer \X Offer) \union {None}]
      /\ \A x \in Players :
            trade'[x] # None /\ trade'[x].accepted => agreed'[x] = offers[x]
    BY Remembered
<1>4. TradeTypeOK'
    BY <1>3 DEF IInv, TradeTypeOK
\* The partner of another player is neither p nor q.
<1>5. ASSUME NEW x \in Players \ {p, q}, Trading(x)
      PROVE  Trader(x) \in Players \ {p, q}
    BY <1>1, <1>5, Fields DEF IInv, TradesAreMutual
<1>6. TradesAreMutual'
    <2>1. SUFFICES ASSUME NEW x \in Players, trade'[x] # None
                   PROVE  /\ x \in online' /\ trade'[x].trader # x
                          /\ trade'[trade'[x].trader] # None
                          /\ trade'[trade'[x].trader].trader = x
        BY DEF TradesAreMutual, Trading, Trader
    <2>2. CASE x \in {p, q}
        BY <1>1, <2>2 DEF IInv, TradesAreMutual
    <2>3. CASE x \notin {p, q}
        BY <1>5, <2>1, <2>3 DEF IInv, TradesAreMutual, Trading, Trader
    <2>4. QED
        BY <2>2, <2>3
<1>7. AcceptedAsSeen'
    <2>1. SUFFICES ASSUME NEW x \in Players, trade'[x] # None, trade'[x].accepted
                   PROVE  agreed'[x] = <<trade'[x].offer, trade'[trade'[x].trader].offer>>
        BY DEF AcceptedAsSeen, Trading, Trader, OfferOf
    <2>2. agreed'[x] = offers[x]
        BY <1>3, <2>1
    <2>3. CASE x \in {p, q}
        BY <1>1, <2>1, <2>2, <2>3
    <2>4. CASE x \notin {p, q}
        <3>1. /\ trade'[x] = trade[x] /\ Trading(x)
              /\ Trader(x) \in Players \ {p, q}
            BY <1>5, <2>1, <2>4 DEF Trading
        <3>2. trade'[Trader(x)] = trade[Trader(x)]
            BY <3>1
        <3>3. agreed[x] = <<OfferOf(x), OfferOf(Trader(x))>>
            BY <2>1, <3>1 DEF IInv, AcceptedAsSeen
        <3>4. QED
            BY <2>2, <2>4, <3>1, <3>2, <3>3 DEF Trader, OfferOf
    <2>5. QED
        BY <2>3, <2>4
<1>8. QED
    BY <1>4, <1>6, <1>7 DEF IInv

\* The end of p's trade, if it has one: p and its partner are done, and p may have
\* left the world.
LEMMA TradeEnds ==
    ASSUME IInv, NEW p \in Players,
           trade' = Cancelled(p), Remember,
           online' \in {online, online \ {p}}
    PROVE  IInv'
<1>1. CASE ~Trading(p)
    <2>1. trade' = trade
        BY <1>1 DEF Cancelled
    <2>2. /\ agreed' \in [Players -> (Offer \X Offer) \union {None}]
          /\ \A x \in Players :
                trade'[x] # None /\ trade'[x].accepted => agreed'[x] = agreed[x]
        BY <2>1, Remembered DEF IInv, TradeTypeOK, Remember
    <2>3. QED
        BY <1>1, <2>1, <2>2
        DEF IInv, TradeTypeOK, TradesAreMutual, AcceptedAsSeen, Trading, Trader, OfferOf
<1>2. CASE Trading(p)
    <2>1. PICK q \in Players : /\ q = Trader(p) /\ q # p
                               /\ Trading(q) /\ Trader(q) = p
        BY <1>2, Fields DEF IInv, TradesAreMutual
    <2>2. /\ trade' \in [Players -> TradeData \union {None}]
          /\ trade'[p] = None /\ trade'[q] = None
          /\ \A x \in Players \ {p, q} : trade'[x] = trade[x]
        BY <1>2, <2>1 DEF Cancelled, IInv, TradeTypeOK
    <2>3. /\ agreed' \in [Players -> (Offer \X Offer) \union {None}]
          /\ \A x \in Players :
                trade'[x] # None /\ trade'[x].accepted => agreed'[x] = agreed[x]
        BY <2>2, Remembered DEF IInv, TradeTypeOK, Remember
    <2>4. ASSUME NEW x \in Players, trade'[x] # None
          PROVE  /\ x # p /\ trade'[x] = trade[x] /\ Trading(x)
                 /\ Trader(x) \in Players /\ trade'[Trader(x)] = trade[Trader(x)]
        <3>1. x \in Players \ {p, q} /\ trade'[x] = trade[x] /\ Trading(x)
            BY <2>2, <2>4 DEF Trading
        <3>2. Trader(x) \in Players \ {p, q}
            BY <2>1, <3>1, Fields DEF IInv, TradesAreMutual
        <3>3. QED
            BY <2>2, <3>1, <3>2
    <2>5. TradeTypeOK'
        BY <2>2, <2>3 DEF IInv, TradeTypeOK
    <2>6. TradesAreMutual'
        BY <2>4 DEF IInv, TradesAreMutual, Trading, Trader
    <2>7. AcceptedAsSeen'
        BY <2>3, <2>4 DEF IInv, AcceptedAsSeen, Trading, Trader, OfferOf
    <2>8. QED
        BY <2>5, <2>6, <2>7 DEF IInv
<1>3. QED
    BY <1>1, <1>2
-----------------------------------------------------------------------------
(* The handlers.                                                           *)

\* A change of p's offer takes back both acceptances.
LEMMA OfferChanges ==
    ASSUME IInv, NEW p \in Players, Trading(p), NEW o \in Offer,
           NEW q \in Players, q = Trader(p), NEW theirs \in Offer,
           \/ trade' = [trade EXCEPT ![p].offer = o, ![p].accepted = FALSE,
                                    ![q].accepted = FALSE,
                                    ![q].offer = theirs]
           \/ trade' = [trade EXCEPT ![p].offer = o, ![p].accepted = FALSE,
                                    ![q].accepted = FALSE],
           online' = online,
           NEW offers \in [Players -> (Offer \X Offer) \union {None}],
           RememberAs(offers),
           \A x \in Players \ {p, q} : offers[x] = agreed[x]
    PROVE  IInv'
<1>1. q # p /\ Trading(q) /\ Trader(q) = p
    BY Fields DEF IInv, TradesAreMutual
<1>2. /\ trade \in [Players -> TradeData \union {None}]
      /\ trade[p] \in TradeData /\ trade[q] \in TradeData
      /\ trade[p].trader = q /\ trade[q].trader = p
    BY <1>1, Fields DEF IInv, TradeTypeOK, Trader
<1>3. /\ trade' \in [Players -> TradeData \union {None}]
      /\ trade'[p] \in TradeData /\ trade'[q] \in TradeData
      /\ trade'[p].trader = q /\ trade'[q].trader = p
      /\ ~trade'[p].accepted /\ ~trade'[q].accepted
      /\ \A x \in Players \ {p, q} : trade'[x] = trade[x]
    <2>1. CASE trade' = [trade EXCEPT ![p].offer = o, ![p].accepted = FALSE,
                                      ![q].accepted = FALSE]
        BY <1>1, <1>2, <2>1 DEF TradeData
    <2>2. CASE trade' = [trade EXCEPT ![p].offer = o, ![p].accepted = FALSE,
                                      ![q].accepted = FALSE,
                                      ![q].offer = theirs]
        <3>1. /\ \A x \in Players \ {p, q} : trade'[x] = trade[x]
              /\ trade'[p] = [trade[p] EXCEPT !.offer = o, !.accepted = FALSE]
              /\ trade'[q] = [trade[q] EXCEPT !.accepted = FALSE, !.offer = theirs]
              /\ DOMAIN trade' = Players
              /\ trade' = [x \in Players |-> trade'[x]]
            BY <1>1, <1>2, <2>2
        <3>2. /\ trade'[p] \in TradeData /\ trade'[p].trader = q
              /\ ~trade'[p].accepted
            BY <1>2, <3>1 DEF TradeData
        <3>3. /\ trade'[q] \in TradeData /\ trade'[q].trader = p
              /\ ~trade'[q].accepted
            <4> DEFINE other == trade[q]
            <4>1. other \in TradeData /\ other.trader = p
                BY <1>2
            <4>2. trade'[q] = [other EXCEPT !.accepted = FALSE, !.offer = theirs]
                BY <3>1
            <4> HIDE DEF other
            <4>3. QED
                BY <4>1, <4>2 DEF TradeData
        <3>4. trade' \in [Players -> TradeData \union {None}]
            BY <1>2, <3>1, <3>2, <3>3
        <3>5. QED
            BY <3>1, <3>2, <3>3, <3>4
    <2>3. QED
        BY <2>1, <2>2
<1>4. trade'[p] # None /\ trade'[q] # None
    BY <1>3, NoTradeAssumption
<1>5. QED
    BY <1>3, <1>4, TradeGoesOn

LEMMA SetItemStep ==
    ASSUME IInv, NEW p \in Players, Trading(p),
           NEW s \in Slots, NEW i \in Items \union {None},
           SetItem(p, s, i), Remember, online' = online
    PROVE  IInv'
<1> DEFINE mine == [OfferOf(p) EXCEPT !.items[s] = i, !.spell = None]
<1>1. mine \in Offer
    BY Fields, OfferFields DEF IInv
<1>2. PICK q \in Players : q = Trader(p) /\ q # p /\ Trading(q)
    BY Fields DEF IInv, TradesAreMutual
<1>3. OfferOf(q) \in Offer /\ [OfferOf(q) EXCEPT !.spell = None] \in Offer
    BY <1>2, Fields, OfferFields DEF IInv
<1>4. trade \in [Players -> TradeData \union {None}] /\ trade[q] \in TradeData
    BY <1>2, Fields DEF IInv, TradeTypeOK
<1>5. agreed \in [Players -> (Offer \X Offer) \union {None}] /\ RememberAs(agreed)
    BY DEF IInv, TradeTypeOK, Remember
<1> HIDE DEF mine
<1>6. CASE s # NonTraded
    <2>1. trade' = [trade EXCEPT ![p].offer = mine, ![p].accepted = FALSE,
                                 ![q].accepted = FALSE]
        BY <1>2, <1>6 DEF SetItem, Changed, mine
    <2>2. QED
        BY <1>1, <1>2, <1>3, <1>5, <2>1, OfferChanges
<1>7. CASE s = NonTraded
    <2>1. trade' = [[trade EXCEPT ![p].offer = mine, ![p].accepted = FALSE,
                                  ![q].accepted = FALSE]
                        EXCEPT ![q].offer.spell = None]
        BY <1>2, <1>7 DEF SetItem, Changed, mine
    <2>2. trade' = [trade EXCEPT ![p].offer = mine, ![p].accepted = FALSE,
                                 ![q].accepted = FALSE,
                                 ![q].offer = [OfferOf(q) EXCEPT !.spell = None]]
        BY <1>2, <1>4, <2>1 DEF OfferOf, TradeData
    <2>3. QED
        BY <1>1, <1>2, <1>3, <1>5, <2>2, OfferChanges
<1>8. QED
    BY <1>6, <1>7

\* p's acceptance comes or goes, with or without the partner's, and no offer changes.
LEMMA AcceptanceChanges ==
    ASSUME IInv, NEW p \in Players, Trading(p),
           NEW q \in Players, q = Trader(p),
           NEW a \in BOOLEAN, NEW b \in BOOLEAN,
           \/ trade' = [trade EXCEPT ![p].accepted = a, ![q].accepted = b]
           \/ trade' = [trade EXCEPT ![p].accepted = a] /\ b = trade[q].accepted,
           b => trade[q].accepted,
           online' = online,
           \/ Agree(p)
           \/ Remember /\ (a => trade[p].accepted)
    PROVE  IInv'
<1>1. q # p /\ Trading(q) /\ Trader(q) = p
    BY Fields DEF IInv, TradesAreMutual
<1>2. /\ trade \in [Players -> TradeData \union {None}]
      /\ trade[p] \in TradeData /\ trade[q] \in TradeData
      /\ trade[p].trader = q /\ trade[q].trader = p
      /\ OfferOf(p) \in Offer /\ OfferOf(q) \in Offer
    BY <1>1, Fields DEF IInv, TradeTypeOK, Trader
<1>3. /\ trade' \in [Players -> TradeData \union {None}]
      /\ trade'[p] \in TradeData /\ trade'[q] \in TradeData
      /\ trade'[p].trader = q /\ trade'[q].trader = p
      /\ trade'[p].accepted = a /\ trade'[q].accepted = b
      /\ trade'[p].offer = OfferOf(p) /\ trade'[q].offer = OfferOf(q)
      /\ \A x \in Players \ {p, q} : trade'[x] = trade[x]
    BY <1>1, <1>2 DEF TradeData, OfferOf
<1>4. trade'[p] # None /\ trade'[q] # None
    BY <1>3, NoTradeAssumption
<1>5. agreed \in [Players -> (Offer \X Offer) \union {None}]
    BY DEF IInv, TradeTypeOK
<1>6. trade'[q].accepted => agreed[q] = <<OfferOf(q), OfferOf(p)>>
    BY <1>1, <1>3 DEF IInv, AcceptedAsSeen
<1>7. CASE Agree(p)
    <2> DEFINE offers == [agreed EXCEPT ![p] = <<OfferOf(p), OfferOf(q)>>]
    <2>1. /\ offers \in [Players -> (Offer \X Offer) \union {None}]
          /\ offers[p] = <<OfferOf(p), OfferOf(q)>>
          /\ \A x \in Players \ {p} : offers[x] = agreed[x]
          /\ RememberAs(offers)
        BY <1>2, <1>5, <1>7 DEF Agree
    <2> HIDE DEF offers
    <2>2. QED
        BY <1>1, <1>3, <1>4, <1>6, <2>1, TradeGoesOn
<1>8. CASE Remember /\ (a => trade[p].accepted)
    <2>1. trade'[p].accepted => agreed[p] = <<OfferOf(p), OfferOf(q)>>
        BY <1>3, <1>8 DEF IInv, AcceptedAsSeen
    <2>2. RememberAs(agreed)
        BY <1>8 DEF Remember
    <2>3. QED
        BY <1>1, <1>3, <1>4, <1>5, <1>6, <2>1, <2>2, TradeGoesOn
<1>9. QED
    BY <1>7, <1>8
-----------------------------------------------------------------------------
(* The invariant is inductive.                                             *)

LEMMA InitIInv == Init => IInv
BY DEF Init, IInv, TradeTypeOK, TradesAreMutual, AcceptedAsSeen, Trading

LEMMA InitiateStep ==
    ASSUME IInv, NEW p \in Players, NEW q \in Players, HandleInitiateTrade(p, q)
    PROVE  IInv'
<1>1. /\ p # q /\ p \in online /\ q \in online /\ online' = online
      /\ trade[p] = None /\ trade[q] = None
      /\ trade \in [Players -> TradeData \union {None}]
      /\ agreed \in [Players -> (Offer \X Offer) \union {None}]
      /\ RememberAs(agreed)
    BY DEF HandleInitiateTrade, Trading, IInv, TradeTypeOK, Remember
<1> DEFINE new(x) == [trader |-> x, accepted |-> FALSE, offer |-> Nothing]
<1>2. /\ new(q) \in TradeData /\ new(p) \in TradeData
      /\ new(q) # None /\ new(p) # None
    <2>1. new(q) \in TradeData /\ new(p) \in TradeData
        BY NothingIsAnOffer DEF TradeData
    <2> HIDE DEF new
    <2>2. QED
        BY <2>1, NoTradeAssumption
<1>3. /\ trade' \in [Players -> TradeData \union {None}]
      /\ trade'[p] # None /\ trade'[p].trader = q /\ ~trade'[p].accepted
      /\ trade'[q] # None /\ trade'[q].trader = p /\ ~trade'[q].accepted
      /\ \A x \in Players \ {p, q} : trade'[x] = trade[x]
    <2>1. trade' = [trade EXCEPT ![p] = new(q), ![q] = new(p)]
        BY DEF HandleInitiateTrade
    <2>2. /\ new(q).trader = q /\ ~new(q).accepted
          /\ new(p).trader = p /\ ~new(p).accepted
        OBVIOUS
    <2> HIDE DEF new
    <2>3. QED
        BY <1>1, <1>2, <2>1, <2>2
<1>4. /\ agreed' \in [Players -> (Offer \X Offer) \union {None}]
      /\ \A x \in Players :
            trade'[x] # None /\ trade'[x].accepted => agreed'[x] = agreed[x]
    BY <1>1, <1>3, Remembered
<1>5. TradeTypeOK'
    BY <1>1, <1>3, <1>4 DEF IInv, TradeTypeOK
\* Nobody else trades with p or q.
<1>6. ASSUME NEW x \in Players \ {p, q}, trade'[x] # None
      PROVE  /\ trade'[x] = trade[x] /\ Trading(x)
             /\ Trader(x) \in Players \ {p, q}
    <2>1. trade'[x] = trade[x] /\ Trading(x)
        BY <1>3, <1>6 DEF Trading
    <2>2. QED
        BY <1>1, <2>1, Fields DEF IInv, TradesAreMutual, Trading
<1>7. TradesAreMutual'
    <2>1. SUFFICES ASSUME NEW x \in Players, trade'[x] # None
                   PROVE  /\ x \in online' /\ trade'[x].trader # x
                          /\ trade'[trade'[x].trader] # None
                          /\ trade'[trade'[x].trader].trader = x
        BY DEF TradesAreMutual, Trading, Trader
    <2>2. CASE x \in {p, q}
        BY <1>1, <1>3, <2>2
    <2>3. CASE x \notin {p, q}
        BY <1>1, <1>3, <1>6, <2>1, <2>3 DEF IInv, TradesAreMutual, Trading, Trader
    <2>4. QED
        BY <2>2, <2>3
<1>8. AcceptedAsSeen'
    <2>1. SUFFICES ASSUME NEW x \in Players, trade'[x] # None, trade'[x].accepted
                   PROVE  agreed'[x] = <<trade'[x].offer, trade'[trade'[x].trader].offer>>
        BY DEF AcceptedAsSeen, Trading, Trader, OfferOf
    <2>2. x \notin {p, q}
        BY <1>3, <2>1
    <2>3. /\ trade'[x] = trade[x] /\ Trading(x)
          /\ trade'[Trader(x)] = trade[Trader(x)]
        BY <1>3, <1>6, <2>1, <2>2
    <2>4. QED
        BY <1>4, <2>1, <2>3 DEF IInv, AcceptedAsSeen, Trader, OfferOf
<1>9. QED
    BY <1>5, <1>7, <1>8 DEF IInv

LEMMA OfferSteps ==
    ASSUME IInv, NEW p \in Players,
           \/ \E gold \in 0..(MaxMoney - 1) : HandleSetTradeGold(p, gold)
           \/ \E s \in Slots, i \in Items : HandleSetTradeItem(p, s, i)
           \/ \E s \in Slots : HandleClearTradeItem(p, s)
           \/ \E spell \in Spells : CastOnTradeItem(p, spell)
    PROVE  IInv'
<1>1. Trading(p) /\ Remember /\ online' = online
    BY DEF HandleSetTradeGold, HandleSetTradeItem, HandleClearTradeItem, CastOnTradeItem
<1>2. /\ OfferOf(p) \in Offer /\ Trader(p) \in Players
      /\ agreed \in [Players -> (Offer \X Offer) \union {None}] /\ RememberAs(agreed)
    BY <1>1, Fields DEF IInv, TradeTypeOK, Remember
\* The offer that is only the money or the spell different.
<1>3. ASSUME NEW o \in Offer, trade' = Changed(p, o)
      PROVE  IInv'
    <2>1. trade' = [trade EXCEPT ![p].offer = o, ![p].accepted = FALSE,
                                 ![Trader(p)].accepted = FALSE]
        BY <1>3 DEF Changed
    <2>2. QED
        BY <1>1, <1>2, <2>1, OfferChanges
<1>4. CASE \E gold \in 0..(MaxMoney - 1) : HandleSetTradeGold(p, gold)
    <2>1. PICK gold \in Nat : trade' = Changed(p, [OfferOf(p) EXCEPT !.money = gold])
        BY <1>4, ConstantsAssumption DEF HandleSetTradeGold
    <2>2. [OfferOf(p) EXCEPT !.money = gold] \in Offer
        BY <1>2, OfferFields
    <2>3. QED
        BY <1>3, <2>1, <2>2
<1>5. CASE \E spell \in Spells : CastOnTradeItem(p, spell)
    <2>1. PICK spell \in Spells : trade' = Changed(p, [OfferOf(p) EXCEPT !.spell = spell])
        BY <1>5 DEF CastOnTradeItem
    <2>2. [OfferOf(p) EXCEPT !.spell = spell] \in Offer
        BY <1>2, OfferFields
    <2>3. QED
        BY <1>3, <2>1, <2>2
<1>6. CASE \E s \in Slots, i \in Items : HandleSetTradeItem(p, s, i)
    BY <1>1, <1>6, SetItemStep DEF HandleSetTradeItem
<1>7. CASE \E s \in Slots : HandleClearTradeItem(p, s)
    BY <1>1, <1>7, SetItemStep DEF HandleClearTradeItem
<1>8. QED
    BY <1>4, <1>5, <1>6, <1>7

LEMMA AcceptSteps ==
    ASSUME IInv, NEW p \in Players, HandleAcceptTrade(p)
    PROVE  IInv'
<1>1. Trading(p)
    BY DEF HandleAcceptTrade, RefuseForMoney, RefuseForItem, WaitForPartner, SpellFails,
           NoRoom, Exchange, BothAccept, Acceptable
<1>2. PICK q \in Players : /\ q = Trader(p) /\ q # p
                           /\ Trading(q) /\ Trader(q) = p
    BY <1>1, Fields DEF IInv, TradesAreMutual
<1>3. /\ trade[q].accepted \in BOOLEAN
      /\ OfferOf(p) \in Offer /\ OfferOf(q) \in Offer
      /\ agreed \in [Players -> (Offer \X Offer) \union {None}]
    BY <1>1, <1>2, Fields DEF IInv, TradeTypeOK
<1>4. ASSUME Accept(p), Agree(p), online' = online
      PROVE  IInv'
    BY <1>1, <1>2, <1>3, <1>4, AcceptanceChanges DEF Accept
<1>5. CASE RefuseForMoney(p)
    <2>1. PICK c : trade' = [trade EXCEPT ![p].accepted = (c # p),
                                         ![q].accepted = @ /\ c = p]
        BY <1>2, <1>5 DEF RefuseForMoney
    <2>2. PICK a \in BOOLEAN, b \in BOOLEAN :
              a = (c # p) /\ b = (trade[q].accepted /\ c = p)
        BY <1>3
    <2>3. trade' = [trade EXCEPT ![p].accepted = a, ![q].accepted = b]
        BY <1>2, <2>1, <2>2
    <2>4. Agree(p) /\ online' = online
        BY <1>5 DEF RefuseForMoney
    <2>5. QED
        BY <1>1, <1>2, <2>2, <2>3, <2>4, AcceptanceChanges
<1>6. CASE RefuseForItem(p)
    BY <1>4, <1>6 DEF RefuseForItem
<1>7. CASE WaitForPartner(p)
    BY <1>4, <1>7 DEF WaitForPartner
<1>8. CASE \E x \in Players : SpellFails(p, x)
    <2>1. PICK x \in {p, q} : SpellFails(p, x)
        BY <1>2, <1>8 DEF SpellFails
    <2>2. PICK y \in {p, q} : y = Trader(x) /\ y # x
        BY <1>2, <2>1
    <2>3. x \in Players /\ y \in Players /\ Trading(x) /\ OfferOf(x) \in Offer
        BY <1>1, <1>2, <1>3, <2>1, <2>2
    <2> DEFINE o == [OfferOf(x) EXCEPT !.spell = None]
    <2>4. o \in Offer
        BY <2>3, OfferFields
    <2>5. trade' = [trade EXCEPT ![x].offer = o, ![x].accepted = FALSE,
                                 ![y].accepted = FALSE]
        BY <2>1, <2>2 DEF SpellFails, Changed
    <2> DEFINE offers == [agreed EXCEPT ![p] = <<OfferOf(p), OfferOf(q)>>]
    <2>6. /\ offers \in [Players -> (Offer \X Offer) \union {None}]
          /\ \A z \in Players \ {x, y} : offers[z] = agreed[z]
          /\ RememberAs(offers) /\ online' = online
        BY <1>2, <1>3, <2>1, <2>2 DEF SpellFails, Agree
    <2> HIDE DEF o, offers
    <2>7. QED
        BY <2>2, <2>3, <2>4, <2>5, <2>6, OfferChanges
<1>9. CASE NoRoom(p)
    <2>1. trade' = [trade EXCEPT ![p].accepted = FALSE, ![q].accepted = FALSE]
        BY <1>2, <1>9 DEF NoRoom
    <2>2. Agree(p) /\ online' = online
        BY <1>9 DEF NoRoom
    <2>3. QED
        BY <1>1, <1>2, <2>1, <2>2, AcceptanceChanges
<1>10. CASE Exchange(p)
    BY <1>10, TradeEnds DEF Exchange
<1>11. QED
    BY <1>5, <1>6, <1>7, <1>8, <1>9, <1>10 DEF HandleAcceptTrade

LEMMA HandlerSteps ==
    ASSUME IInv, NEW p \in Players, Handler(p)
    PROVE  IInv'
<1>1. CASE \E q \in Players : HandleInitiateTrade(p, q)
    BY <1>1, InitiateStep
<1>2. CASE TradeCancel(p)
    BY <1>2, TradeEnds DEF TradeCancel
<1>3. CASE HandleAcceptTrade(p)
    BY <1>3, AcceptSteps
<1>4. CASE HandleUnacceptTrade(p)
    <2>1. /\ Trader(p) \in Players /\ Trading(Trader(p)) /\ Trading(p)
          /\ trade[Trader(p)].accepted \in BOOLEAN
        BY <1>4, Fields DEF HandleUnacceptTrade, IInv, TradesAreMutual
    <2>2. /\ trade' = [trade EXCEPT ![p].accepted = FALSE]
          /\ Remember /\ online' = online
        BY <1>4 DEF HandleUnacceptTrade
    <2>3. QED
        BY <2>1, <2>2, AcceptanceChanges
<1>5. QED
    BY <1>1, <1>2, <1>3, <1>4, OfferSteps DEF Handler

LEMMA WorldSteps ==
    ASSUME IInv, World
    PROVE  IInv'
<1>1. ASSUME NEW p \in Players, Leave(p)
      PROVE  IInv'
    BY <1>1, TradeEnds DEF Leave
<1>2. ASSUME NEW p \in Players, Enter(p)
      PROVE  IInv'
    BY <1>2, Untouched DEF Enter, IInv, TradeTypeOK
<1>3. ASSUME trade' = trade, agreed' = agreed, online' = online
      PROVE  IInv'
    BY <1>3, Untouched DEF IInv, TradeTypeOK
<1>4. QED
    BY <1>1, <1>2, <1>3 DEF World, LoseItem, BindItem, GainItem, EarnOrSpend

LEMMA Inductive == IInv /\ [Next]_vars => IInv'
<1>1. SUFFICES ASSUME IInv, [Next]_vars
               PROVE  IInv'
    OBVIOUS
<1>2. CASE UNCHANGED vars
    BY <1>1, <1>2, Untouched DEF IInv, TradeTypeOK, vars
<1>3. QED
    BY <1>1, <1>2, HandlerSteps, WorldSteps DEF Next

-----------------------------------------------------------------------------
(* The theorems.                                                           *)

LEMMA Invariant == Spec => []IInv
BY InitIInv, Inductive, PTL DEF Spec

\* Whoever trades, trades with somebody in the world who trades with him: the
\* pointers that GetTrader and GetTraderData return are never stale.
THEOREM MutualCorrect == Spec => []TradesAreMutual
<1>1. IInv => TradesAreMutual
    BY DEF IInv
<1>2. QED
    BY <1>1, Invariant, PTL

\* However long two traders go on changing their offers, m_accepted stands for the
\* offers that are on the table.
THEOREM AcceptedCorrect == Spec => []AcceptedAsSeen
<1>1. IInv => AcceptedAsSeen
    BY DEF IInv
<1>2. QED
    BY <1>1, Invariant, PTL
=============================================================================

-------------------------------- MODULE Trade --------------------------------
(***************************************************************************)
(* Trading between players: the handlers of TradeHandler.cpp over the      *)
(* TradeData each of two traders has.  Both TradeData are created and      *)
(* deleted together; every change of an offer takes back both acceptances; *)
(* the second acceptance exchanges the items in the traded slots and the   *)
(* money, and casts the spell one trader has applied to the item in the    *)
(* other's last slot, which changes hands only for that.                   *)
(*                                                                         *)
(* The handlers run on the world thread, each in one go.  Between them the *)
(* rest of the game goes on: items and money come and go, items get bound, *)
(* players leave.  A stack is one item, and an item takes one place.       *)
(***************************************************************************)
EXTENDS Naturals, FiniteSets

CONSTANTS
    Players,
    Items,
    TradedCount,    \* TRADE_SLOT_TRADED_COUNT
    Spells,         \* spells that target an item in the trade window
    MaxMoney,       \* MAX_MONEY_AMOUNT
    Room,           \* how many items a player can hold
    None

TradedSlots == 0..(TradedCount - 1)
NonTraded == TradedCount            \* TRADE_SLOT_NONTRADED
Slots == 0..TradedCount

ASSUME ConstantsAssumption ==
    /\ IsFiniteSet(Players) /\ IsFiniteSet(Items)
    /\ TradedCount \in Nat \ {0}
    /\ MaxMoney \in Nat
    /\ Room \in [Players -> Nat]
    /\ None \notin Players \union Items \union Spells

VARIABLES
    online,     \* the players FindPlayer finds
    owner,      \* in whose inventory GetItemByGuid finds an item
    fixed,      \* the items for which CanBeTraded is false
    money,      \* GetMoney
    trade,      \* m_trade
    casts,      \* history: what spells the last step has cast on which items
    agreed      \* history: both offers when a player last pressed accept

worldVars == <<owner, fixed, money>>
vars == <<online, owner, fixed, money, trade, casts, agreed>>

\* What one side puts in: the fields of TradeData that the other side sees.
Offer == [items : [Slots -> Items \union {None}],
          money : Nat,
          spell : Spells \union {None}]

TradeData == [trader : Players, accepted : BOOLEAN, offer : Offer]

ASSUME NoTradeAssumption == None \notin TradeData

Nothing == [items |-> [s \in Slots |-> None], money |-> 0, spell |-> None]

TypeOK ==
    /\ online \subseteq Players
    /\ owner \in [Items -> Players \union {None}]
    /\ fixed \subseteq Items
    /\ money \in [Players -> Nat]
    /\ trade \in [Players -> TradeData \union {None}]
    /\ casts \subseteq Spells \X Items
    /\ agreed \in [Players -> (Offer \X Offer) \union {None}]

Init ==
    /\ online = Players
    /\ owner \in [Items -> Players \union {None}]
    /\ \A p \in Players : Cardinality({i \in Items : owner[i] = p}) <= Room[p]
    /\ fixed = {}
    /\ money \in [Players -> 0..(MaxMoney - 1)]
    /\ trade = [p \in Players |-> None]
    /\ casts = {}
    /\ agreed = [p \in Players |-> None]

Trading(p) == trade[p] # None
Trader(p) == trade[p].trader
OfferOf(p) == trade[p].offer
Held(p) == {i \in Items : owner[i] = p}

\* TradeData::GetItem: an item that has left the inventory is not there.
ItemIn(p, s) ==
    LET i == OfferOf(p).items[s]
    IN IF i # None /\ owner[i] = p THEN i ELSE None

\* What of p's offer would change hands.
Given(p) == {ItemIn(p, s) : s \in TradedSlots} \ {None}

\* What was agreed is remembered for as long as the acceptance counts.
RememberAs(offers) ==
    agreed' = [p \in Players |->
                  IF trade'[p] = None THEN None
                  ELSE IF trade'[p].accepted THEN offers[p] ELSE None]

Remember == RememberAs(agreed)

-----------------------------------------------------------------------------
(* Beginning and ending                                                    *)

\* HandleInitiateTradeOpcode.  Whether the two are alive, near enough and
\* willing is open.
HandleInitiateTrade(p, q) ==
    /\ p # q /\ {p, q} \subseteq online
    /\ ~Trading(p) /\ ~Trading(q)
    /\ trade' = [trade EXCEPT
           ![p] = [trader |-> q, accepted |-> FALSE, offer |-> Nothing],
           ![q] = [trader |-> p, accepted |-> FALSE, offer |-> Nothing]]
    /\ Remember
    /\ UNCHANGED <<online, worldVars>> /\ casts' = {}

\* TradeCancel that forgets the partner.
CancelledHere(p) == [trade EXCEPT ![p] = None]

Cancelled(p) ==
    IF Trading(p) THEN [trade EXCEPT ![p] = None, ![Trader(p)] = None]
                  ELSE trade

\* TradeCancel: by the client, by taking a taxi, by losing the connection.
TradeCancel(p) ==
    /\ Trading(p)
    /\ trade' = Cancelled(p)
    /\ Remember
    /\ UNCHANGED <<online, worldVars>> /\ casts' = {}

\* CleanupsBeforeDelete of a player who leaves the world.
Leave(p) ==
    /\ p \in online
    /\ online' = online \ {p}
    /\ trade' = Cancelled(p)
    /\ Remember
    /\ UNCHANGED worldVars /\ casts' = {}

Enter(p) ==
    /\ p \notin online
    /\ online' = online \union {p}
    /\ UNCHANGED <<worldVars, trade, agreed>> /\ casts' = {}

-----------------------------------------------------------------------------
(* Offers                                                                  *)

\* SetAccepted(false) on the side of the change only.
ChangedHere(p, offer) == [trade EXCEPT ![p].offer = offer, ![p].accepted = FALSE]

\* A change of p's offer, and with it SetAccepted(false) on both sides.
Changed(p, offer) ==
    [trade EXCEPT ![p].offer = offer, ![p].accepted = FALSE,
                  ![Trader(p)].accepted = FALSE]

\* TradeData::SetMoney
HandleSetTradeGold(p, gold) ==
    /\ Trading(p)
    /\ gold # OfferOf(p).money
    /\ money[p] >= gold
    /\ trade' = Changed(p, [OfferOf(p) EXCEPT !.money = gold])
    /\ Remember
    /\ UNCHANGED <<online, worldVars>> /\ casts' = {}

\* TradeData::SetItem, which ends with SetSpell(0): the reagent may have moved.
\* The partner's spell goes when the item it was applied to does.
SetItem(p, s, item) ==
    LET mine == [OfferOf(p) EXCEPT !.items[s] = item, !.spell = None]
        q == Trader(p)
    IN /\ OfferOf(p).items[s] # item
       /\ trade' = IF s = NonTraded
                   THEN [Changed(p, mine) EXCEPT ![q].offer.spell = None]
                   ELSE Changed(p, mine)

HandleSetTradeItem(p, s, i) ==
    /\ Trading(p)
    /\ owner[i] = p
    /\ s # NonTraded => i \notin fixed
    /\ \A t \in Slots : OfferOf(p).items[t] # i         \* HasItem
    /\ SetItem(p, s, i)
    /\ Remember
    /\ UNCHANGED <<online, worldVars>> /\ casts' = {}

HandleClearTradeItem(p, s) ==
    /\ Trading(p)
    /\ SetItem(p, s, None)
    /\ Remember
    /\ UNCHANGED <<online, worldVars>> /\ casts' = {}

\* Spell::_cast of a spell whose target is the item in the partner's last
\* slot; one spell at a time (CheckCast).
CastOnTradeItem(p, spell) ==
    /\ Trading(p)
    /\ OfferOf(p).spell = None
    /\ ItemIn(Trader(p), NonTraded) # None
    /\ trade' = Changed(p, [OfferOf(p) EXCEPT !.spell = spell])
    /\ Remember
    /\ UNCHANGED <<online, worldVars>> /\ casts' = {}

-----------------------------------------------------------------------------
(* Accepting                                                               *)

Accept(p) == trade' = [trade EXCEPT ![p].accepted = TRUE]

\* p presses accept for the offers as they are.
Agree(p) == RememberAs([agreed EXCEPT ![p] = <<OfferOf(p), OfferOf(Trader(p))>>])

\* Does x's trade stop at a check of the money of payer or receiver?
ShortOfMoney(x) == money[x] < OfferOf(x).money
TooMuchMoney(x) == money[x] >= MaxMoney - OfferOf(Trader(x)).money

\* The checks of HandleAcceptTradeOpcode on money, in its order.  The trader
\* who fails a check is the one who no longer accepts.
Culprit(p) ==
    LET q == Trader(p)
    IN IF ShortOfMoney(p) THEN p
       ELSE IF ShortOfMoney(q) THEN q
       ELSE IF TooMuchMoney(p) THEN p
       ELSE IF TooMuchMoney(q) THEN q
       ELSE None

MoneyIsRight(p) == Culprit(p) = None
ItemsAreRight(p) == (Given(p) \union Given(Trader(p))) \intersect fixed = {}

RefuseForMoney(p) ==
    /\ Trading(p)
    /\ ~MoneyIsRight(p)
    /\ LET c == Culprit(p)
       IN trade' = [trade EXCEPT ![p].accepted = (c # p),
                        ![Trader(p)].accepted = @ /\ c = p]
    /\ Agree(p)
    /\ UNCHANGED <<online, worldVars>> /\ casts' = {}

\* An item has become untradable: p is told that the trade is cancelled.
RefuseForItem(p) ==
    /\ Trading(p)
    /\ MoneyIsRight(p) /\ ~ItemsAreRight(p)
    /\ Accept(p)
    /\ Agree(p)
    /\ UNCHANGED <<online, worldVars>> /\ casts' = {}

Acceptable(p) == Trading(p) /\ MoneyIsRight(p) /\ ItemsAreRight(p)

WaitForPartner(p) ==
    /\ Acceptable(p)
    /\ ~trade[Trader(p)].accepted
    /\ Accept(p)
    /\ Agree(p)
    /\ UNCHANGED <<online, worldVars>> /\ casts' = {}

BothAccept(p) == Acceptable(p) /\ trade[Trader(p)].accepted

\* x's spell cannot be cast: its target is gone, or CheckCast fails.  p's own
\* spell is tried first.
SpellFails(p, x) ==
    /\ BothAccept(p)
    /\ x \in {p, Trader(p)}
    /\ OfferOf(x).spell # None
    /\ x # p /\ OfferOf(p).spell # None => ItemIn(x, NonTraded) # None
    /\ trade' = Changed(x, [OfferOf(x) EXCEPT !.spell = None])
    /\ Agree(p)
    /\ UNCHANGED <<online, worldVars>> /\ casts' = {}

SpellsWork(p) ==
    \A x \in {p, Trader(p)} :
        OfferOf(x).spell # None => ItemIn(Trader(x), NonTraded) # None

\* The same, as if the item in the last slot changed hands too.
CanStoreItemsAllSlots(x) ==
    Cardinality(Held(x) \ {ItemIn(x, s) : s \in Slots})
        + Cardinality(Given(Trader(x))) <= Room[x]

\* CanStoreItems, with the places of x's own items in the trade counted as free.
CanStoreItems(x) ==
    Cardinality(Held(x) \ Given(x)) + Cardinality(Given(Trader(x))) <= Room[x]

\* There are more reasons than room not to store an item (it is unique, or bound
\* to others), so this is possible with room too.
NoRoom(p) ==
    /\ BothAccept(p) /\ SpellsWork(p)
    /\ trade' = [trade EXCEPT ![p].accepted = FALSE,
                              ![Trader(p)].accepted = FALSE]
    /\ Agree(p)
    /\ UNCHANGED <<online, worldVars>> /\ casts' = {}
-----------------------------------------------------------------------------
(* The exchange                                                            *)

\* CanStoreItem: is there a place in x's inventory?
Fits(own, x) == Cardinality({i \in Items : own[i] = x}) < Room[x]

\* The items after moveItems, which takes the slots in order: both items of a
\* slot are stored, or both go back, if there is still a place for them.
MovedItems(p) ==
    LET q == Trader(p)
        removed == [i \in Items |->
                       IF i \in Given(p) \union Given(q) THEN None ELSE owner[i]]
        Moved[n \in 0..TradedCount] ==
            IF n = 0 THEN removed
            ELSE LET own == Moved[n - 1]
                     mine == ItemIn(p, n - 1)
                     his == ItemIn(q, n - 1)
                     stored == /\ mine # None => Fits(own, q)
                               /\ his # None => Fits(own, p)
                     To(x, y) == IF stored THEN x ELSE IF Fits(own, y) THEN y ELSE None
                 IN [i \in Items |-> IF i = mine THEN To(q, p)
                                     ELSE IF i = his THEN To(p, q)
                                     ELSE own[i]]
    IN Moved[TradedCount]

\* Player::ModifyMoney, down and up.
Pay(amount, gold) == IF amount > gold THEN amount - gold ELSE 0
Receive(amount, gold) ==
    IF gold # 0 /\ amount < MaxMoney - gold THEN amount + gold ELSE amount

MovedMoney(p) ==
    LET q == Trader(p)
        After(x, y) == Receive(Pay(money[x], OfferOf(x).money), OfferOf(y).money)
    IN [money EXCEPT ![p] = After(p, q), ![q] = After(q, p)]

\* The spells are cast while both TradeData are still there to find the targets.
\* Spell::prepare checks once more and may give up (caster not in casters).
Casts(casters) == {<<OfferOf(x).spell, ItemIn(Trader(x), NonTraded)>> : x \in casters}

Exchange(p) ==
    /\ BothAccept(p) /\ SpellsWork(p)
    /\ CanStoreItems(p) /\ CanStoreItems(Trader(p))
    /\ owner' = MovedItems(p)
    /\ money' = MovedMoney(p)
    /\ \E casters \in SUBSET {x \in {p, Trader(p)} : OfferOf(x).spell # None} :
           casts' = Casts(casters)
    /\ trade' = Cancelled(p)
    /\ Remember
    /\ UNCHANGED <<online, fixed>>

HandleUnacceptTrade(p) ==
    /\ Trading(p)
    /\ trade[p].accepted
    /\ trade' = [trade EXCEPT ![p].accepted = FALSE]
    /\ Remember
    /\ UNCHANGED <<online, worldVars>> /\ casts' = {}

-----------------------------------------------------------------------------
(* What else happens to items and money, trade or no trade                 *)

\* An item is used up, sold or sent away.
LoseItem(i) ==
    /\ owner[i] # None
    /\ owner' = [owner EXCEPT ![i] = None]
    /\ UNCHANGED <<online, fixed, money, trade, agreed>>
    /\ casts' = {}

GainItem(p, i) ==
    /\ owner[i] = None /\ Cardinality(Held(p)) < Room[p]
    /\ owner' = [owner EXCEPT ![i] = p]
    /\ UNCHANGED <<online, fixed, money, trade, agreed>>
    /\ casts' = {}

\* An item is put on, or enchanted, and is bound from now on.
BindItem(i) ==
    /\ i \notin fixed
    /\ fixed' = fixed \union {i}
    /\ UNCHANGED <<online, owner, money, trade, agreed>>
    /\ casts' = {}

EarnOrSpend(p, amount) ==
    /\ amount # money[p]
    /\ money' = [money EXCEPT ![p] = amount]
    /\ UNCHANGED <<online, owner, fixed, trade, agreed>>
    /\ casts' = {}

-----------------------------------------------------------------------------
HandleAcceptTrade(p) ==
    \/ RefuseForMoney(p)
    \/ RefuseForItem(p)
    \/ WaitForPartner(p)
    \/ \E x \in Players : SpellFails(p, x)
    \/ NoRoom(p)
    \/ Exchange(p)

Handler(p) ==
    \/ \E q \in Players : HandleInitiateTrade(p, q)
    \/ TradeCancel(p)
    \/ \E gold \in 0..(MaxMoney - 1) : HandleSetTradeGold(p, gold)
    \/ \E s \in Slots, i \in Items : HandleSetTradeItem(p, s, i)
    \/ \E s \in Slots : HandleClearTradeItem(p, s)
    \/ \E spell \in Spells : CastOnTradeItem(p, spell)
    \/ HandleAcceptTrade(p)
    \/ HandleUnacceptTrade(p)

World ==
    \/ \E p \in Players : Leave(p) \/ Enter(p)
    \/ \E i \in Items : LoseItem(i) \/ BindItem(i)
    \/ \E p \in Players, i \in Items : GainItem(p, i)
    \/ \E p \in Players, amount \in 0..(MaxMoney - 1) : EarnOrSpend(p, amount)

Next == World \/ \E p \in Players : Handler(p)

Spec == Init /\ [][Next]_vars

-----------------------------------------------------------------------------
(* Properties                                                              *)

\* Every m_trade names a partner whose m_trade names the owner, and both are
\* in the world: GetTraderData(), which is dereferenced unchecked all over
\* TradeData.cpp, is never null, and GetTrader() never a deleted Player.
TradesAreMutual ==
    \A p \in Players : Trading(p) =>
        /\ p \in online /\ Trader(p) # p
        /\ Trading(Trader(p)) /\ Trader(Trader(p)) = p

\* Who counts as having accepted has pressed accept for exactly the offers that
\* are on the table now, his own and his partner's (m_accepted, TradeData.h:67).
AcceptedAsSeen ==
    \A p \in Players : Trading(p) /\ trade[p].accepted =>
        agreed[p] = <<OfferOf(p), OfferOf(Trader(p))>>

\* A trade that ends with anything changed is an exchange: each side gets what
\* the other gave and nothing is lost or made on the way, neither items
\* (moveItems cannot roll back) nor money (ModifyMoney refuses silently); no
\* spell is cast but the ones shown, on the items shown for it.
Exchanges(p, q) ==
    /\ Trading(p) /\ Trader(p) = q
    /\ trade'[p] = None
    /\ worldVars' # worldVars \/ casts' # {}

FairExchange(p, q) ==
    /\ \A i \in Items :
          owner'[i] = IF i \in Given(p) THEN q ELSE IF i \in Given(q) THEN p ELSE owner[i]
    /\ money'[p] + OfferOf(p).money = money[p] + OfferOf(q).money
    /\ money'[q] + OfferOf(q).money = money[q] + OfferOf(p).money
    /\ casts' \subseteq {<<OfferOf(p).spell, OfferOf(q).items[NonTraded]>>,
                        <<OfferOf(q).spell, OfferOf(p).items[NonTraded]>>}

ExchangeIsFair ==
    [][\A p, q \in Players : Exchanges(p, q) => FairExchange(p, q)]_vars
=============================================================================

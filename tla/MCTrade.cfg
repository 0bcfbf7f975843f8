SPECIFICATION Spec
CONSTANTS
    None = None
    Players = {p1, p2, p3}
    Items = {i1, i2}
    TradedCount = 1
    Spells = {enchant}
    MaxMoney = 2
    Places = 1
    Room <- MCRoom
SYMMETRY Symmetry
INVARIANTS
    TradesAreMutual
    AcceptedAsSeen
PROPERTY ExchangeIsFair

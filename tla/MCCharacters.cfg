\* Two accounts of one character each, with two names between them.
SPECIFICATION Spec
CONSTANTS
    None = None
    ann = ann
    bob = bob
    a1 = a1
    a2 = a2
    Accounts = {ann, bob}
    Guids = {g1, g2}
    Names = {n1, n2}
    Callbacks = {a1, a2}
    AccountOf <- CallbackOwner
    Workers = 1
    RealmLimit = 1
    MaxVersion = 1
    MaxQueue = 2
    MaxOverlaps = 1
SYMMETRY Symmetry
INVARIANTS
    NothingIsUndone
    RealmLimitHolds
    CacheIsCurrent
CHECK_DEADLOCK FALSE

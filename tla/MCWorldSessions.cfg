\* Four sessions of three accounts, one of them exempt, and room for one.
SPECIFICATION FairSpec
CONSTANTS
    ann = ann
    bob = bob
    a1 = a1
    a2 = a2
    a3 = a3
    g1 = g1
    gm = gm
    b1 = b1
    walker = walker
    flyer = flyer
    Accounts <- MCAccounts
    Sessions <- MCSessions
    AccountOf <- MCAccountOf
    Characters <- MCCharacters
    OwnerOf <- MCOwnerOf
    Grounded <- MCGrounded
    Exempt <- MCExempt
    PlayerLimit = 1
    MaxConnects = 3
    MaxRepeats = 1
    Tolerance = TRUE
    LoginAfterDC = TRUE
    None = None
INVARIANTS
    TypeOK
    NoDanglingSession
    QueuedSessionWaits
    SlotsAreExact
    OneCharacterInWorld
    NobodyLeftInWorld
PROPERTIES
    DisconnectedIsRemoved

\* EnableLoginAfterDC = 0: a client that comes back, is refused its character,
\* loses its connection and comes back again.
SPECIFICATION FairSpec
CONSTANTS
    ann = ann
    bob = bob
    a1 = a1
    a2 = a2
    a3 = a3
    g1 = g1
    gm = gm
    b1 = b1
    walker = walker
    flyer = flyer
    Accounts <- MCAccounts
    Sessions <- MCComesBack
    AccountOf <- MCComesBackOf
    Characters <- MCCharacters
    OwnerOf <- MCOwnerOf
    Grounded <- MCGrounded
    Exempt <- MCExempt
    PlayerLimit = 1
    MaxConnects = 3
    MaxRepeats = 1
    Tolerance = TRUE
    LoginAfterDC = FALSE
    None = None
PROPERTIES
    RefusedOnlyWhileLoading

\* Deadlocks, refused statements, retries and one lost connection.
SPECIFICATION FairSpec
CONSTANTS
    c1 = c1
    c2 = c2
    s1 = s1
    t1 = t1
    t2 = t2
    d = d
    e = e
    row1 = row1
    row2 = row2
    AsyncConnections <- MCAsync
    SyncConnections <- MCSync
    Queued <- MCQueued
    Rows <- MCRows
    Direct <- MCDirect
    Rejected <- MCRejected
    NoTask = NoTask
    LoopBreaker = 1
    MaxTries = 3
    MaxLosses = 1
INVARIANTS
    TypeOK
    AtomicUnlessLost
    IdleConnectionIsClean
    NeverRetriesCleaned
PROPERTIES
    EveryTaskEnds

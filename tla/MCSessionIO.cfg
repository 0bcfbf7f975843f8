SPECIFICATION FairSpec
CONSTANTS
    MaxLogin = 2
    MaxSent = 3
CHECK_DEADLOCK FALSE
INVARIANT NoUseAfterDelete
PROPERTIES HandledAsSent SocketEnds

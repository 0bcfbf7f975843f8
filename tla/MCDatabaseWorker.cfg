\* Two connections closing under four operations: every interleaving of
\* Enqueue, WorkerThread and Close, with spurious wake-ups.
SPECIFICATION FairSpec
CONSTANTS
    w1 = w1
    w2 = w2
    Workers <- MCWorkers
    MaxOps = 4
INVARIANTS
    OneOwner
    NoOvertakingInQueue
    NoWastedWorker
    CallsAreLive
PROPERTIES
    EveryOpSettles
    CloseReturns
    ImplementsExecutor

\* What is still queued when the pool is closed.
SPECIFICATION Spec
CONSTANTS
    w1 = w1
    w2 = w2
    Workers <- MCWorkers
    MaxOps = 4
INVARIANTS
    SavedWhenClosed

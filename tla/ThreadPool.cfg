SPECIFICATION FairSpec
CONSTANTS
    Workers = {w1, w2}
    Nodes = {n1, n2, n3}
    Main = Main
    NULL = NULL
    MaxSwept = 1
INVARIANTS
    TokenInv
    QueueWellFormed
    HeapIntactUnlessRaced
    EveryJobOwnedOnce
PROPERTIES
    AbandonedStopsTheQueue
    ImplementsJobQueue
    QueuedJobIsTaken
    DestroyReturns
\* The pool stops once thpool_destroy has returned.
CHECK_DEADLOCK FALSE

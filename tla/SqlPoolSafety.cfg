SPECIFICATION Spec
CONSTANTS
    Workers = {w1, w2, w3}
    PoolNumber = 2
SYMMETRY WorkerSymmetry
INVARIANTS
    TypeOK
    SharedOnlyAfterReconnect
    NoNodeLost
    HeldIsConnected
\* The server stops when it has crashed.
CHECK_DEADLOCK FALSE

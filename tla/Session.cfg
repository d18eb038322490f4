SPECIFICATION FairSpec
CONSTANTS
    Workers = {w1, w2}
    Buflen = 7
    DumpLen = 5
    AnswerLen = 3
    Room = 3
    MaxCommands = 1
    MaxRetries = 2
INVARIANTS
    PacedClientIsHeard
    SwappedOnlyWhenOverlapping
    CompleteWithRepeats
    MixedOnlyWhenCut
    MisreadNeedsParts
PROPERTIES
    RequestIsServed
\* The server may close the connection, and the client may have no more to say.
CHECK_DEADLOCK FALSE

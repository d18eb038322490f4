SPECIFICATION LogSpec
CONSTANTS
    Threads = {main, acceptor, worker}
    Main = main
    Sites <- MCSites
    Texts <- MCTexts
    Lines <- MCLines
    LogLevels = {4, 6}
    MaxLogLineNum = 3
    NoThread = NoThread
    NoEntry = NoEntry
INVARIANTS
    LogTypeOK
    FileBounded
    PrefixAwaitsText
    FilterSeesTheFile
    CrashNeedsDeadHandle
\* The server stops when it has crashed.
CHECK_DEADLOCK FALSE

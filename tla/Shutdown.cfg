SPECIFICATION FairSpec
CONSTANTS
    Main = main
    Acceptor = acceptor
    Workers = {w1, w2}
    Handler = handler
    NoThread = NoThread
    NoFile = NoFile
    config_file_key_word <- MCKeys
    Written <- MCWritten
INVARIANTS
    ConfigAsWritten
    ListenClosedOnce
PROPERTY SignalEndsServer
\* The server stops when the process has ended or crashed.
CHECK_DEADLOCK FALSE

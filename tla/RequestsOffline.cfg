SPECIFICATION Spec
CONSTANTS
    Workers = {w1}
    MaxEvents = 2
    Fds = {f1, f2}
    Clients = {c1, c2}
    Users = {u1}
    NoFd = NoFd
    NoClient = NoClient
    NoUser = NoUser
    MaxQueue = 1
INVARIANTS
    FoundIsOnline
\* The server stops when it has crashed.
CHECK_DEADLOCK FALSE

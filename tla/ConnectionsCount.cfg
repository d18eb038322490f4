SPECIFICATION Spec
CONSTANTS
    MaxEvents = 3
    Fds = {f1, f2}
    NoFd = NoFd
    MaxJobs = 1
    MaxAddFail = 0
    MaxDropped = 1
INVARIANTS
    CountsConnections

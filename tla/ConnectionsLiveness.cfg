SPECIFICATION FairSpec
CONSTANTS
    MaxEvents = 3
    Fds = {f1, f2}
    NoFd = NoFd
    MaxJobs = 0
    MaxAddFail = 0
    MaxDropped = 0
PROPERTIES
    DataIsRead
    GoneIsClosed

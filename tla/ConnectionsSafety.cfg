SPECIFICATION Spec
CONSTANTS
    MaxEvents = 3
    Fds = {f1, f2}
    NoFd = NoFd
    MaxJobs = 1
    MaxAddFail = 2
    MaxDropped = 1
SYMMETRY FdSymmetry
INVARIANTS
    CountLaw
    CounterDrift
    NeverThrottled
    RefusedOnlyAfterFailures
    EventHasSlot
    NoLostEdge
    OneSlotPerFd
    NoFdLeak

SPECIFICATION SockSpec
CONSTANTS
    f1 = f1
    f2 = f2
    NoFiber = NoFiber
    NoFd = NoFd
    Listener = 4
    Fibers <- MCFibers2
    WakeOrder <- MCWakeOrder
    Fds <- MCFds1
    Calls <- MCReaders
    WriteSizes <- MCSizes
    Timeouts <- MCOneMs
    PeerMoves <- MCSenders
    FdsSuffice = TRUE
    SleepTimes <- MCNoSleep
    MaxTime = 3
    MaxInbox = 1
    SendBuffer = 1
    MaxEvents = 2
    MaxQueue = 2
INVARIANTS SockTypeOK InputOnItsWay ReadersCurrent WokenOnce NoFreedScheduled OpenWhileHeld
PROPERTIES ReaderRegistered TimedReadEnds

SPECIFICATION SockSpec
CONSTANTS
    f1 = f1
    f2 = f2
    NoFiber = NoFiber
    NoFd = NoFd
    Listener = 4
    Fibers <- MCFibers1
    WakeOrder <- MCWakeOrder
    Fds <- MCFds1
    Calls <- MCWriters
    WriteSizes <- MCSizes
    Timeouts <- MCForever
    PeerMoves <- MCAllPeers
    FdsSuffice = TRUE
    SleepTimes <- MCNoSleep
    MaxTime = 1
    MaxInbox = 1
    SendBuffer = 1
    MaxEvents = 1
    MaxQueue = 3
INVARIANTS WriterNotStranded
CHECK_DEADLOCK FALSE

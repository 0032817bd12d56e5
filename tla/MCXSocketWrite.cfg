SPECIFICATION SockSpec
CONSTANTS
    f1 = f1
    f2 = f2
    NoFiber = NoFiber
    NoFd = NoFd
    Listener = 4
    Fibers <- MCFibers2
    WakeOrder <- MCWakeOrder
    Fds <- MCFds1
    Calls <- MCWriters
    WriteSizes <- MCSizes
    Timeouts <- MCTimeouts
    PeerMoves <- MCServers
    FdsSuffice = TRUE
    SleepTimes <- MCNoSleep
    MaxTime = 2
    MaxInbox = 0
    SendBuffer = 1
    MaxEvents = 1
    MaxQueue = 3
INVARIANT WriterNotStranded
CHECK_DEADLOCK FALSE

SPECIFICATION SockSpec
CONSTANTS
    f1 = f1
    f2 = f2
    NoFiber = NoFiber
    NoFd = NoFd
    Listener = 4
    Fibers <- MCFibers2
    WakeOrder <- MCWakeOrder
    Fds <- MCFds1
    Calls <- MCClients
    WriteSizes <- MCSizes
    Timeouts <- MCForever
    PeerMoves <- MCSending
    FdsSuffice = TRUE
    SleepTimes <- MCSleep1
    MaxTime = 2
    MaxInbox = 1
    SendBuffer = 1
    MaxEvents = 1
    MaxQueue = 3
INVARIANTS ReaderNotStranded
CHECK_DEADLOCK FALSE

SPECIFICATION MixedSpec
CONSTANTS
    f1 = f1
    f2 = f2
    s1 = s1
    NoFiber = NoFiber
    NoSem = NoSem
    NoFd = NoFd
    Fibers <- MCFibers
    WakeOrder <- MCWakeOrder
    Sems <- MCSems
    InitValue <- MCInitValue
    AcquireSizes <- MCSizes
    Fds <- MCFds
    Listener = 4
    ReadTimeouts <- MCTimeouts
    PeerMoves <- MCPeers
    FdsSuffice = TRUE
    MaxInbox = 1
    SendBuffer = 1
    MaxEvents = 1
    MaxQueue = 2
    SleepTimes <- MCNoSleep
    MaxTime = 2
INVARIANTS InOneRole ReadersReached
CHECK_DEADLOCK FALSE

SPECIFICATION DemoSpec
CONSTANTS
    producer = producer
    consumer = consumer
    acceptor = acceptor
    sleeper = sleeper
    server1 = server1
    server2 = server2
    sem = sem
    Producer <- producer
    Consumer <- consumer
    Acceptor <- acceptor
    Sleeper <- sleeper
    NoFiber = NoFiber
    NoSem = NoSem
    NoFd = NoFd
    Fibers <- MCFibers
    WakeOrder <- MCWakeOrder
    Sems <- MCSems
    InitValue <- MCInitValue
    Fds <- MCFds
    Listener = 4
    PeerMoves <- MCPeers
    FdsSuffice = TRUE
    MaxInbox = 1
    SendBuffer = 1
    MaxEvents = 512
    MaxQueue = 6
    SleepTimes <- MCSleepTimes
    BatchTimeout = 1
    Nap = 1
    MaxTime = 3
INVARIANTS DemoTypeOK BufferBounded NeverWaitsForSem OneServerEach
PROPERTIES IsSocketClient BatchesConsumed Accepted Served Disconnected

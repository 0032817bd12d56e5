SPECIFICATION SemSpec
CONSTANTS
    f1 = f1
    f2 = f2
    f3 = f3
    s1 = s1
    NoFiber = NoFiber
    NoSem = NoSem
    Fibers <- MCFibers2
    WakeOrder <- MCWakeOrder
    Sems <- MCSems
    Doomed = {}
    InitValue <- MCInitValue2
    AcquireSizes <- MCSizes2
    Timeouts <- MCTimeouts
    SleepTimes <- MCNoSleep
    MaxTime = 2
    MaxQueue = 3
INVARIANTS NoDoubleWake
CHECK_DEADLOCK FALSE

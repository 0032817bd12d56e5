SPECIFICATION SemSpec
CONSTANTS
    f1 = f1
    f2 = f2
    f3 = f3
    s1 = s1
    NoFiber = NoFiber
    NoSem = NoSem
    Fibers <- MCFibers3
    WakeOrder <- MCWakeOrder
    Sems <- MCSems
    Doomed = {}
    InitValue <- MCInitValue2
    AcquireSizes <- MCSizes2
    Timeouts <- MCForever
    SleepTimes <- MCNoSleep
    MaxTime = 1
    MaxQueue = 3
INVARIANTS InOnePlace SingleCreditor NoLostWakeup NoIdleUnits
PROPERTIES ImplementsCountingSem CreditorPaid

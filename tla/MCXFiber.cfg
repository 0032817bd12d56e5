SPECIFICATION Spec
CONSTANTS
    f1 = f1
    f2 = f2
    f3 = f3
    NoFiber = NoFiber
    Fibers <- MCFibers
    WakeOrder <- MCWakeOrder
    SleepTimes <- MCSleepTimes
    MaxTime = 3
INVARIANTS TypeOK ScheduledOnce TimersInOrder
PROPERTIES SleepNotShort NoOvertaking ReadyRuns SleeperWakes ImplementsRunQueue

SPECIFICATION FairSpec
CONSTANTS
    main = main
    t1 = t1
    t2 = t2
    idle = idle
    flagA = flagA
    Thread = {main, t1, t2, idle}
    Main = main
    Idle = idle
    None = None
    Obj = {}
    MaxPrio = 2
    MainPrio = 1
    CreatePrio <- MCSamePrio
    Prios = {}
    MaxTaskRun = 3
    Killable = {}
    StaleHandles = FALSE
    Timeouts = {1, 2}
    Forever = 3
    RobinTout = 2
    TimeMod = 2
    Flags = {}
    IsrSignals = {}
    FifoSize = 1
INVARIANTS DelayOrder
PROPERTIES RoundRobin DelayEnds

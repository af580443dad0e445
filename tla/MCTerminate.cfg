SPECIFICATION Spec
CONSTANTS
    main = main
    t1 = t1
    t2 = t2
    idle = idle
    flagA = flagA
    Thread = {main, t1, t2, idle}
    Main = main
    Idle = idle
    None = None
    Obj = {}
    MaxPrio = 2
    MainPrio = 1
    CreatePrio <- MCHighPrio
    Prios = {1, 2}
    MaxTaskRun = 3
    Killable = {main, t1, t2}
    StaleHandles = TRUE
    Timeouts = {0, 1, 3}
    Forever = 3
    RobinTout = 2
    TimeMod = 2
    Flags = {}
    IsrSignals = {}
    FifoSize = 1
INVARIANTS PriorityOrder AlwaysReady Placement
SYMMETRY MCSymmetry

SPECIFICATION Spec
CONSTANTS
    main = main
    mid = mid
    lo = lo
    idle = idle
    m1 = m1
    m2 = m2
    Thread = {main, mid, lo, idle}
    Main = main
    Idle = idle
    None = None
    Obj = {m1}
    MaxPrio = 3
    InitPrio <- MCPrio
    MaxTaskRun = 3
    Timeouts = {0, 1, 3}
    Delays = {1}
    Killable = {}
    Prios = {}
    Forever = 3
    RobinTout = 1
    TimeMod = 1
    FifoSize = 0
    Deletable = {m1}
    Uses = {"nested"}
    MaxLevel = 2
PROPERTIES WaitingRaises

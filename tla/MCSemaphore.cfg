SPECIFICATION Spec
CONSTANTS
    main = main
    hi = hi
    lo = lo
    idle = idle
    s1 = s1
    Thread = {main, hi, lo, idle}
    Main = main
    Idle = idle
    None = None
    Obj = {s1}
    MaxPrio = 2
    InitPrio <- MCPrio
    MaxTaskRun = 3
    Timeouts = {0, 1, 3}
    Delays = {1}
    Killable = {hi, lo}
    Prios = {1, 2}
    Forever = 3
    RobinTout = 1
    TimeMod = 1
    FifoSize = 2
    MaxTokens = 7
    TokenMod = 8
    InitTokens = {0, 1}
    Budget = 3
INVARIANTS TypeOK NoIdleToken WaitLists
PROPERTIES HighestFirst CountingSpec

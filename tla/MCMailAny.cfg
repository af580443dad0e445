SPECIFICATION MailSpec
CONSTANTS
    main = main
    hi = hi
    lo = lo
    idle = idle
    mb = mb
    x1 = x1
    x2 = x2
    null = null
    isr = isr
    pool = pool
    Thread = {main, hi, lo, idle}
    Main = main
    Idle = idle
    None = None
    Obj = {mb}
    MaxPrio = 2
    InitPrio <- MCPrio
    MaxTaskRun = 3
    Timeouts = {0, 1, 2}
    Delays = {1}
    Killable = {}
    Prios = {}
    Forever = 2
    RobinTout = 1
    TimeMod = 1
    FifoSize = 2
    Message = {x1, x2}
    NullMsg = null
    Size = 2
    IsrPuts = {x1}
    SvcPuts = {x2}
    Isr = isr
    PoolPtr = pool
    Uses = {"any"}
PROPERTIES TaskIsWaiting

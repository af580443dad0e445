SPECIFICATION FairTimerSpec
CONSTANTS
    Timer = {a, b, c}
    NoTimer = null
    Ticks = {1, 2}
    TcntMod = 8
    CbqSize = 1
    FifoSize = 2
INVARIANTS TimerTypeOK ListOfRunning
PROPERTIES ServiceSpec CallbackComes

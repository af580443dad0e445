SPECIFICATION Spec
CONSTANTS
    k1 = k1
    k2 = k2
    once = once
    Event = {k1, k2, once}
    Tickers = {k1, k2}
    Null = null
    CountMod = 12
    Delays = {2, 3}
    Late = 1
    Uses = {"any"}
PROPERTIES RestInFuture

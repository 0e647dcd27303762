SPECIFICATION Spec
CONSTANTS
    e1 = e1
    e2 = e2
    e3 = e3
    Entries = {e1, e2, e3}
    Poison = {}
    Asking = {}
    t1 = t1
    t2 = t2
    Tools = {t1, t2}
    NoEntry = NoEntry
    MaxConcurrent = 2
    MaxScheduled = 1
    MaxTime = 2
    MaxLapses = 1
SYMMETRY Symmetry
INVARIANT ScheduleBound
INVARIANT NothingDropped
INVARIANT RefireBound
INVARIANT HerdBound

SPECIFICATION FairSpec
CONSTANTS
    e1 = e1
    e2 = e2
    e3 = e3
    Entries = {e1, e2, e3}
    Poison = {e2}
    Asking = {e3}
    t1 = t1
    Tools = {t1}
    NoEntry = NoEntry
    MaxConcurrent = 3
    MaxScheduled = 3
    MaxTime = 1
    MaxLapses = 1
PROPERTY DueFires

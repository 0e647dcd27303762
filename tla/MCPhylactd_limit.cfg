SPECIFICATION Spec
CONSTANTS
    s1 = s1
    s2 = s2
    Sessions = {s1, s2}
    c1 = c1
    c2 = c2
    Creators = {c1, c2}
    d1 = d1
    Deleters = {d1}
    NoSession = NoSession
    MaxConcurrent = 1
    MaxRestarts = 0
    PidReuse = FALSE
INVARIANT WithinLimit

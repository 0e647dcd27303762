SPECIFICATION Spec
CONSTANTS
    s1 = s1
    s2 = s2
    Sessions = {s1, s2}
    w1 = w1
    Writers = {w1}
    Nobody = Nobody
    ModelErrors = TRUE
    Kills = FALSE
    IoFails = FALSE
INVARIANT NoReflectionLost

SPECIFICATION FairSpec
CONSTANTS
    s1 = s1
    s2 = s2
    Sessions = {s1, s2}
    w1 = w1
    w2 = w2
    Writers = {w1, w2}
    Nobody = Nobody
    ModelErrors = TRUE
    Kills = TRUE
    IoFails = TRUE
INVARIANT ReflectsOnCurrent
INVARIANT GitSerialized
PROPERTY FinalizationEnds

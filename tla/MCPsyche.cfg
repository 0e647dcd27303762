\* The system rests when all sessions have been run.
CHECK_DEADLOCK FALSE
SPECIFICATION Spec
CONSTANTS
    Concerns = {c1}
    Conative = {c1}
    NoConcern = NoConcern
    Slots = {s1, s2}
    MaxSessions = 2
    MaxCommitments = 3
    MaxFaults = 1
SYMMETRY Symmetry
CONSTRAINT OneMatter
INVARIANTS
    StaleBound
    BrokenPersist
    FlagsFollowSalience
PROPERTIES
    NothingUnlisted

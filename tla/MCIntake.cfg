\* A source rests when nothing happens outside any more.
CHECK_DEADLOCK FALSE
SPECIFICATION Spec
CONSTANTS
    MaxEvents = 3
    Limit = 2
    MaxLapses = 2
    MaxChanges = 2
    Handlers = {h1, h2}
    NoEvent = NoEvent
    Missing = Missing
    Cut = Cut
SYMMETRY Symmetry
INVARIANTS
    OncePerEvent
    AckedIsMade
    StreamAccountedFor
    NoChangeIsLost
    OldNewsWasNews

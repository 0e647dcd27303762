SPECIFICATION FairSpec
CONSTANTS
    Tools = {"read", "nosuch", "plan", "ask", "done"}
    MaxCalls = 2
    MaxTurns = 2
    MaxEvents = 4
    Lines = {"text", "bad"}
    Faults = TRUE
    Kills = TRUE
INVARIANT CallsStayPaired
INVARIANT NothingForgotten
INVARIANT AnsweredInOrder
INVARIANT LogIsTranscript
INVARIANT EventsInOrder
PROPERTY IsRunnerProcess
PROPERTY SessionEnds
CONSTRAINT EventsOrCalls
CHECK_DEADLOCK FALSE

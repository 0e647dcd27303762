SPECIFICATION FairSpec
CONSTANTS
    Tools = {"ask", "done"}
    MaxCalls = 1
    MaxTurns = 2
    MaxEvents = 1
    Lines = {"text"}
    Faults = FALSE
    Kills = FALSE
PROPERTY AskReturns
CHECK_DEADLOCK FALSE

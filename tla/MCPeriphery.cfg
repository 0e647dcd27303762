SPECIFICATION FairSpec
CONSTANTS
    MaxTokens = 5
    MaxRetries = 1
    Configured = 2
    Tools = {t1, t2}
    MaxRequests = 2
    MaxNoise = 1
    MaxEntries = 3
    MaxCrashes = 2
    MaxMessages = 3
    FileWriters = {w1, w2, w3}
    Before = before
    Tellers = {s1, s2}
    Children = {c1, c2, c3}
    Records = {r1}
    MaxFailures = 1
    PipeSize = 1
    MaxChunks = 2
INVARIANTS
    CallsAsWritten
    AnswersAreOwn
    FollowersMissNothing
    MessagesAccountedFor
    CommittedIsLatest
    LinksHold
    OutputIsWhole
PROPERTIES
    EndsAreHeard
CHECK_DEADLOCK FALSE

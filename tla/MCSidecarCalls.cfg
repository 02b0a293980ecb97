CONSTANTS
    i1 = i1
    i2 = i2
    CallId = {i1, i2}
    NoId = NoId
    MaxCallbacks = 1
    AnswerBuffer = 2
    MaxCalls = 2
SPECIFICATION FairSpec
INVARIANTS
    AnswersBounded
    AnswersInTurn
    CancelledIsAnswered
PROPERTIES
    BusyIsTrue
    EndedDrains

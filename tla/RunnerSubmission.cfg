SPECIFICATION FairSpec
CONSTANTS
    c1 = c1
    c2 = c2
    Callers = {c1, c2}
    Capacity = 1
    None = None
INVARIANTS
    AnswerIsTrue
    CloseReachesHandler
PROPERTIES
    StopAnswersAll

SPECIFICATION FairSpec
CONSTANTS
    MaxAttempts = 2
    MaxLines = 1
    AnswersLost = TRUE
INVARIANTS
    TypeOK
    CursorCovered
    CompletedIsTrue
PROPERTIES
    EndedIsReported

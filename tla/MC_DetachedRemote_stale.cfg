SPECIFICATION Spec
CONSTANTS
    MaxAttempts = 2
    MaxLines = 0
    AnswersLost = FALSE
INVARIANT TerminalWhenFinished

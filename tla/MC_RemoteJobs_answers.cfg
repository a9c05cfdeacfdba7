SPECIFICATION Spec
CHECK_DEADLOCK FALSE
CONSTANT MaxAttempts = 3
INVARIANTS TypeOK SuccessIsReal KilledIsGone

CONSTANT MaxMessages = 3
SPECIFICATION Spec
INVARIANTS ServiceEndsWithLoss DestroyedAfterLoss FailureUnnoticed
PROPERTY ImplementsSession
CHECK_DEADLOCK FALSE

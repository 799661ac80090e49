SPECIFICATION Spec
CONSTANT MaxTasks = 4
INVARIANT NoEarlyCompletion
INVARIANT CompletedHasContent
PROPERTY FinishedIsFinal

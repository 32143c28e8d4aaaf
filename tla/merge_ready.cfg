SPECIFICATION Spec
CONSTANTS
    Name = {"A1"}
    PerPage = 2
    ThreadPage = 1
    MaxClock = 2
    MaxHead = 1
    Sizes <- ContextsOrReview
INVARIANTS
    ReadyIsNewest
    FailuresAreSeen
    ReadyHasNoOpenThread
    ReadyHasRun
CHECK_DEADLOCK FALSE

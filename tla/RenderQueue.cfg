CONSTANTS
    MaxJobs = 2
    Priorities = {0}
    Levels = 1
    StoredJobs <- WithFile
    PublicApi = TRUE
SPECIFICATION QueueSpec
INVARIANTS OneRendering CompletedIsExported
PROPERTIES LateCancelHonoured QueuedIsServed ShutdownReturns
CHECK_DEADLOCK FALSE

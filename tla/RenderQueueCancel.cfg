CONSTANTS
    MaxJobs = 1
    Priorities = {0}
    Levels = 1
    StoredJobs <- NoFile
    PublicApi = FALSE
SPECIFICATION QueueSpec
PROPERTIES CancelHonoured
CHECK_DEADLOCK FALSE

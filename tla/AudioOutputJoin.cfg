CONSTANTS
    Length = 3
    Lead = 2
    DeviceMax = 1
    QueueMax = 5
    MaxCommands = 2
    MaxScrubs = 1
SPECIFICATION Spec
INVARIANTS DropsJoined
CHECK_DEADLOCK FALSE

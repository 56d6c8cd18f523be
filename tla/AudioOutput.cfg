CONSTANTS
    Length = 3
    Lead = 1
    DeviceMax = 1
    QueueMax = 3
    MaxCommands = 3
    MaxScrubs = 1
SPECIFICATION Spec
INVARIANTS FlushSilences InOrder
PROPERTIES CallsReturn SoundLeaves
CHECK_DEADLOCK FALSE

CONSTANTS
    Total = 6
    AudioChunks = 7
    Depth = 2
    Pool = 3
    CanCancel = TRUE
    Last = 6
    Keys <- KeyFrames
    Far = 3
    Tracks <- TwoTracks
    Timelines <- SomeTimelines
    Durations <- SomeDurations
SPECIFICATION PicturesSpec
INVARIANTS SentInOrder MadeIsSent Released DuePictures
PROPERTIES Terminates
CHECK_DEADLOCK FALSE

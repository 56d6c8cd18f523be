CONSTANTS
    Track <- AnyTrack
    MaxTracks = 2
    MaxDepth = 4
    Media <- OneMedium
    Sessions <- AutoTrackOnPairs
SPECIFICATION SessionSpec
INVARIANTS PairsTogether

CONSTANTS
    Track <- AnyTrack
    MaxTracks = 2
    MaxDepth = 4
    Media <- OneMedium
    Sessions <- EverySession
    SnapRadius = 1
    GridStep = 1
SPECIFICATION GestureSpec
INVARIANTS TracksLaidOut PairsTogether IdsNameOneClip
PROPERTIES LockedTracksKept HistorySpec DropsWhereShown DeleteTakesSelection

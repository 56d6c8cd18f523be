CONSTANTS
    w1 = w1
    w2 = w2
    f1 = f1
    f2 = f2
    s1 = s1
    Workers = {w1, w2}
    Frames = {f1, f2}
    Waves = {s1}
    Near <- TwoNear
    Cells = {1}
    CacheMax = 1
    MaxIds = 2
    MaxPauses = 1
    Null = Null
    Blank = Blank
SPECIFICATION Spec
INVARIANTS CachesTrue PendingIsOnItsWay CellsShowTheirFrame
PROPERTIES RequestsAnswered DestructorReturns
CHECK_DEADLOCK FALSE

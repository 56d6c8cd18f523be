CONSTANTS
    Files = {1, 2}
    Cut = 2
    Fps <- MCFps
    SeqFps = 3
    ClipsA <- MCClipsA
    SrcB = {3}
    Playheads = {0, 1, 2}
    Scrubs = {1}
    Lead = 2
    BakeMax = 2
    PreviewMax = 1
    FrameBytes = 2
    MaxBytes = 3
    MaxGrades = 1
    FileLooks = {7}
    Black = Black
    Null = Null
SPECIFICATION Spec
INVARIANTS CachesConsistent OneMedium FrameOfProject LookOfProject
PROPERTIES BakeEnds

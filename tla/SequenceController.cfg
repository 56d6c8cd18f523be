CONSTANTS
    Projects <- ThreeProjects
    LengthOf <- ThreeLengths
    Lookahead = 1
    MaxRequests = 4
SPECIFICATION Spec
INVARIANTS LatestProjectWins SeekHonoured TransportSettles PictureMatches
PROPERTIES RequestsServed ShutdownReturns
CHECK_DEADLOCK FALSE

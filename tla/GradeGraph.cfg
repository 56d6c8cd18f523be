SPECIFICATION Spec
CONSTANTS
    MaxNodes = 5
    MaxWires = 4
    MaxCalls = 5
    Kinds = {"Corrector"}
    Ports = {0, 1, 2}
    Started <- MCStarted
INVARIANTS EvaluatorFindsOrder
PROPERTIES BranchKeepsPaths LayerGoesOnTop
CHECK_DEADLOCK FALSE

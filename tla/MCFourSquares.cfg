CONSTANTS
    MaxMu = 40
    Inputs <- MCInputs
    Tries = 5
SPECIFICATION Spec
INVARIANTS TypeOK SumOfFourSquares RootSplits LoopHasExit

CHECK_DEADLOCK FALSE

CONSTANTS
    MaxMu = 14
    Inputs <- MCInputs
    Tries = 5
SPECIFICATION Spec
INVARIANTS TypeOK SumOfFourSquares

CHECK_DEADLOCK FALSE

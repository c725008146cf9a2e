CONSTANTS
    MaxMu = 14
    Inputs <- MCInputs
    Tries = 5
SPECIFICATION Spec
INVARIANT EuclidOnRoot

CHECK_DEADLOCK FALSE

CONSTANTS
    Discriminants <- MCDiscriminants
    Rounds = 16
    AssertionError = AssertionError
    ValueError = ValueError
    Created = Created
    NoResult = NoResult
SPECIFICATION Spec
INVARIANT PrimeAccepted
CHECK_DEADLOCK FALSE

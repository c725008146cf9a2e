CONSTANTS
    NotAnInt = NotAnInt
    TypeError = TypeError
    NoResult = NoResult
    Bound = 6
    MaxLen = 3
SPECIFICATION Spec
INVARIANT GcdAndBezout
CHECK_DEADLOCK FALSE

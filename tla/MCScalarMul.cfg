CONSTANTS
    K1 = K1
    Kind = K1
    SumTable <- MCSumTable
    Kinds = {K1}
    DiscOf <- MCDiscOf
    MaxN = 16
    Scalars <- MCScalars
    NotAnInt = NotAnInt
    TypeError = TypeError
    AssertionError = AssertionError
    NotImplementedError = NotImplementedError
    NoResult = NoResult
SPECIFICATION Spec
INVARIANTS TypeOK DoubleAndAdd
PROPERTIES ImplementsMul
CHECK_DEADLOCK FALSE

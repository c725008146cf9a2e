CONSTANTS
    K1 = K1
    Kind = K1
    SumTable <- MCSumTable
    Kinds = {K1}
    DiscOf <- MCDiscOf
    MaxOrder = 16
    MaxN = 16
    Scalars <- MCScalars
    Rounds = 16
    ValueError = ValueError
    Created = Created
    NotAnInt = NotAnInt
    TypeError = TypeError
    AssertionError = AssertionError
    NotImplementedError = NotImplementedError
    NoResult = NoResult
SPECIFICATION Spec
INVARIANTS TypeOK ScriptPasses
PROPERTIES ScriptCompletes ImplementsOrder
CHECK_DEADLOCK FALSE

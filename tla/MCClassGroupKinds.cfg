CONSTANTS
    K1 = K1
    K2 = K2
    Kinds <- TwoKinds
    DiscOf <- MCDiscOf
    Triples <- MCTriples
    MaxA = 6
    MaxB = 5
    NotAnInt = NotAnInt
    TypeError = TypeError
    AssertionError = AssertionError
    NotImplementedError = NotImplementedError
    NoResult = NoResult
SPECIFICATION Spec
INVARIANT KindIsolation

CONSTANTS
    D <- D47
    MaxA = 120
    MaxB = 41
    MaxC = 120
    MatBound = 12
    Inputs <- PositiveInputs
SPECIFICATION Spec
INVARIANTS TypeOK SameClass
PROPERTIES Termination
CHECK_DEADLOCK FALSE

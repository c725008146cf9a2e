CONSTANTS
    D <- D47
    MaxA = 12
    MaxB = 7
    MaxC = 12
    MatBound = 6
    Inputs <- AllInputs
SPECIFICATION Spec
PROPERTIES Termination
CHECK_DEADLOCK FALSE

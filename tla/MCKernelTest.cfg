CONSTANTS
    a = a
    b = b
    c = c
    Case = {a, b, c}
    Input <- MCInput
    Prints <- MCPrints
    MaxBatches = 3
    MaxInterrupts = 1
SPECIFICATION Spec
CHECK_DEADLOCK FALSE
INVARIANTS
    TypeOK
    UninterruptedIsRecorded
PROPERTIES
    ResultOnlyGrows
    EveryCaseAccounted
    BatchEnds

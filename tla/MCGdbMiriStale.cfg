CONSTANTS
    Program <- MCProgram
    First = "cargo"
    IsMiri = {"miri", "miri kernel"}
    IsCargoMiri = {"cargo-miri"}
    IsInterested = {"miri kernel"}
    MaxInferior = 3
SPECIFICATION Spec
CHECK_DEADLOCK FALSE
INVARIANTS
    MiriInferiorAsDocumented

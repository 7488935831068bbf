CONSTANTS
    Program <- MCProgram
    First = "cargo"
    IsMiri = {"miri", "miri kernel"}
    IsCargoMiri = {"cargo-miri"}
    IsInterested = {"miri kernel"}
    MaxInferior = 4
SPECIFICATION Spec
CHECK_DEADLOCK FALSE
INVARIANTS
    TypeOK
PROPERTIES
    KernelWaits
    SwitchesToLiving

CONSTANTS
    Main = {m1, m2}
    Unit <- MCUnit
    Plain = {"build_script"}
    DependsOn <- MCDependsOn
    Exclusive = TRUE
    KillsGroup = TRUE
    MaxInterrupts = 1
    MaxChanges = 2
SPECIFICATION Spec
CHECK_DEADLOCK FALSE
INVARIANTS
    TypeOK
    MergedExactly
    NeverPanics
PROPERTIES
    FailureKeepsResult
    FreshBuildIsComplete
    EveryInvocationEnds

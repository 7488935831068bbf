CONSTANTS
    Main = {m1, m2}
    Unit <- MCUnit
    Plain = {"build_script"}
    DependsOn <- MCDependsOn
    Exclusive = FALSE
    KillsGroup = FALSE
    MaxInterrupts = 1
    MaxChanges = 0
SPECIFICATION Spec
CHECK_DEADLOCK FALSE
INVARIANTS
    NoStaleEntries
PROPERTIES
    EveryInvocationEnds

SPECIFICATION Spec
CONSTANTS
    Crate <- MCCrate
    CrateName <- MCCrateName
    Def <- MCDef
    Home <- MCHome
    SourceFile <- MCSourceFile
    Instance <- MCInstance
    Span <- MCSpan
    LineMax = 2
INVARIANTS TypeOK SameInAnyOrder NothingLost BestSurvives
CHECK_DEADLOCK FALSE

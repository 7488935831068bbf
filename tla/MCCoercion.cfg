CONSTANTS
    Ctor <- MCCtor
    Ptr = "Ptr"
    Pat = "Pat"
    Phantom = "Phantom"
    Box = "Box"
    Adt <- MCAdt
    Leaf <- MCLeaf
    Unsized <- MCUnsized
    Fields <- MCFields
    Pointing <- MCPointing
    Tailed <- MCTailed
    Start <- MCStart
SPECIFICATION Spec
CHECK_DEADLOCK FALSE
INVARIANTS
    TypeOK
    BaseExact
    PathAsDocumented
PROPERTIES
    Terminates

CONSTANTS
    MainBound = 1
    FooBound = 1
    ConstKinds = {"Allocated", "Unevaluated"}
    Instance <- MCInstance
    InstanceKind <- MCInstanceKind
    HasBody <- MCHasBody
    MustBeOverridden <- MCMustBeOverridden
    Foreign <- MCForeign
    Static <- MCStatic
    AnonStatic = {"ANON"}
    StaticTy <- MCStaticTy
    Initializer <- MCInitializer
    Ty = {"S"}
    Trait = {"Tr"}
    Alloc <- MCAlloc
    GlobalAlloc <- MCGlobalAlloc
    VtableMethods <- MCVtableMethods
    DropGlue <- MCDropGlue
    Body <- MCBody
    Crate <- MCCrate
    Item <- MonoItem
    Reason <- CollectionReason
    Visit <- MCVisit
    StartingPoints <- MCStartingPoints
SPECIFICATION ExecSpec
CHECK_DEADLOCK FALSE
INVARIANTS
    TouchedIsCollected

CONSTANTS
    f = f
    g = g
    h = h
    s = s
    Item <- MCItem
    Fn <- MCFn
    Reason <- MCReason
    Crate <- MCCrate
    Visit <- MCVisit
    StartingPoints <- MCStartingPoints
SPECIFICATION QSpec
CHECK_DEADLOCK FALSE
INVARIANTS
    QTypeOK
    CalleesExact
    ReasonExact
    DrawingExplains
PROPERTIES
    QueryEnds

CONSTANTS
    f = f
    g = g
    s = s
    MaxMentions = 3
    Item <- MCItem
    Reason <- MCReason
    Crate <- MCCrate
    Visit <- MCVisit
    StartingPoints <- MCStartingPoints
SPECIFICATION Spec
CHECK_DEADLOCK FALSE
INVARIANTS
    TypeOK
    Complete
    VisitedOnce
    BackEdgesMirror
    NodesAwaitVisit
PROPERTIES
    EdgesSettled
    Termination
    PromiseSpec

\* Sweeps over two venues, reports lost to a full queue; the threads stop at the bound on identifiers.
SPECIFICATION Spec
CONSTANTS
    v1 = v1
    v2 = v2
    Venues = {v1, v2}
    OrderIds <- MCOrderIds
    MaxId = 5
    MaxParents = 1
    Quantities = {2}
    TifChoices = {"GTC"}
    SideChoices = {"Buy"}
    Strategies = {"LiquiditySweep"}
    ReportCapacity = 3
    VenueRejects = TRUE
    MaxOrderQuantity = 0
    MaxPositionQuantity = 0
    MaxOpenOrders = 0
    MayRefuse = FALSE
    MayCancel = FALSE
    MayStop = FALSE
    MayFailRoute = FALSE
    MayKill = FALSE
SYMMETRY Symmetry
INVARIANTS TypeOK FillAccounting FillsRecorded
PROPERTIES TerminalFinal
CHECK_DEADLOCK FALSE

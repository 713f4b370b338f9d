\* One order in one slice, rerouted up to twice; cancels, refusals, kill switch, stop().
SPECIFICATION Spec
CONSTANTS
    v1 = v1
    v2 = v2
    Venues = {v1, v2}
    OrderIds <- MCOrderIds
    MaxId = 4
    MaxParents = 1
    Quantities = {1, 2, 3}
    TifChoices = {"GTC", "IOC", "FOK"}
    SideChoices = {"Buy"}
    Strategies = {"BestPrice"}
    ReportCapacity = 20
    VenueRejects = FALSE
    MaxOrderQuantity = 0
    MaxPositionQuantity = 0
    MaxOpenOrders = 3
    MayRefuse = TRUE
    MayCancel = TRUE
    MayStop = TRUE
    MayFailRoute = TRUE
    MayKill = TRUE
SYMMETRY Symmetry
INVARIANTS NoOverAllocation CompletionSound NoStrandedParent SendsReachVenue
CHECK_DEADLOCK FALSE

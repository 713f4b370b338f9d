\* A client cancels a resting order.
SPECIFICATION Spec
CONSTANTS
    v1 = v1
    v2 = v2
    Venues = {v1, v2}
    OrderIds <- MCOrderIds
    MaxId = 4
    MaxParents = 1
    Quantities = {1, 2}
    TifChoices = {"GTC"}
    SideChoices = {"Buy"}
    Strategies = {"BestPrice"}
    ReportCapacity = 20
    VenueRejects = FALSE
    MaxOrderQuantity = 0
    MaxPositionQuantity = 0
    MaxOpenOrders = 0
    MayRefuse = FALSE
    MayCancel = TRUE
    MayStop = FALSE
    MayFailRoute = FALSE
    MayKill = FALSE
PROPERTIES CancelEndsOrder

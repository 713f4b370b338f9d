\* Two resting orders on either side against a position limit.
SPECIFICATION FairSpec
CONSTANTS
    v1 = v1
    Venues = {v1}
    OrderIds <- MCOrderIds
    MaxId = 5
    MaxParents = 2
    Quantities = {2}
    TifChoices = {"GTC", "IOC"}
    SideChoices = {"Buy", "Sell"}
    Strategies = {"BestPrice"}
    ReportCapacity = 20
    VenueRejects = FALSE
    MaxOrderQuantity = 0
    MaxPositionQuantity = 3
    MaxOpenOrders = 0
    MayRefuse = FALSE
    MayCancel = FALSE
    MayStop = FALSE
    MayFailRoute = FALSE
    MayKill = FALSE
INVARIANTS ExposureWithinLimit
PROPERTIES EventuallyCompleted

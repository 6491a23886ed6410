CONSTANTS
    PriceFactor = 10
    QuantityFactor = 100
    AllowUnknown = FALSE
    Price = {20}
    MaxQuantity = 1
    MaxTrades = 2
    MaxQueue = 2
SPECIFICATION Spec
INVARIANTS TypeOK BookAgrees TradesPublished DayAgrees ReferenceFirst Understood

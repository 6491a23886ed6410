CONSTANTS
    PriceFactor = 10
    Quantity = 2
    ValueFactor = 100
    Short = 1
    Owing = {1}
SPECIFICATION Spec
INVARIANT OpenOrdersDownloaded

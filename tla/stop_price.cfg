CONSTANTS
    PriceFactor = 10
    Price = {20}
SPECIFICATION Spec
INVARIANT StopPriceKept

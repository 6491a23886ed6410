CONSTANTS
    o1 = o1
    o2 = o2
    Order = {o1, o2}
    CanVanish = FALSE
    RetryLogon = TRUE
    TradesLookback = FALSE
SPECIFICATION Spec
INVARIANT ReadyAfterStaleCheck

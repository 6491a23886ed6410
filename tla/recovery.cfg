CONSTANTS
    o1 = o1
    o2 = o2
    Order = {o1, o2}
    CanVanish = TRUE
    RetryLogon = TRUE
    TradesLookback = TRUE
SPECIFICATION LiveSpec
INVARIANTS TypeOK NoOrphan CounterMatches NoUnexpected NeverStuck
PROPERTIES OneQueryAtATime DownloadWaits BecomesReady LostOrdersAreFound

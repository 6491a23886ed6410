CONSTANTS
    s1 = s1
    s2 = s2
    s3 = s3
    Symbol = {s1, s2, s3}
    Product = {s1, s2}
    MaxPerStream = 2
    ClientErrors = TRUE
SPECIFICATION LiveSpec
INVARIANTS TypeOK SubscribedOnce SlicesPartition NothingMissed
PROPERTY SymbolsServed

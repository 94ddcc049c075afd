SPECIFICATION FairSpec
CONSTANTS
    i1 = i1
    i2 = i2
    r1 = r1
    r2 = r2
    sgd = sgd
    inr = inr
    Imports <- OneImport
    Refreshers <- OneRefresher
    Currencies <- TwoCurrencies
    LastMonth = 2
    MaxFailures = 1
INVARIANTS StampIsHonest NoMarkedChangeIsLost
PROPERTIES HistoryCatchesUp

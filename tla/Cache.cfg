SPECIFICATION MCFairSpec
CONSTANTS
    r1 = r1
    r2 = r2
    w1 = w1
    x1 = x1
    k1 = k1
    k2 = k2
    NoOne = NoOne
    Updaters <- OneUpdater
    Requests <- TwoRequests
    Writers <- OneWriter
    Outsiders <- OneOutsider
    Keys <- TwoKeys
    HasLog = TRUE
    MaxLookups = 2
CHECK_DEADLOCK FALSE
INVARIANTS OwnWritesAreSeen OutageIsNotShared
 

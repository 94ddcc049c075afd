SPECIFICATION MCSpec
CONSTANTS
    c1 = c1
    c2 = c2
    k1 = k1
    d1 = d1
    d2 = d2
    n1 = n1
    n2 = n2
    None = None
    NoNumber = NoNumber
    Link = Link
    Clients <- OneClient
    NumJobs = 3
    Files <- Ledgers
    Keys <- OneKey
    Dates <- TwoDates
    Numbers <- TwoNumbers
    Overrides = {TRUE, FALSE}
    Indexes <- Occurrences
    MaxFaults = 1
    MaxLateFaults = 0
    MaxRegisters = 0
    Uploaders = {u1, u2}
    MaxUploads = 3
    Uploads <- Holdings
    Nothing = Nothing
    MaxFailures = 1
CHECK_DEADLOCK FALSE
INVARIANTS FingerprintsAreUnique HoldingsAreUploads
PROPERTIES ImplementsLedger RemovalKeepsOthersLimits

SPECIFICATION CalmSpec
CONSTANTS
    c1 = c1
    c2 = c2
    k1 = k1
    d1 = d1
    d2 = d2
    n1 = n1
    n2 = n2
    None = None
    NoNumber = NoNumber
    Link = Link
    Clients <- TwoClients
    NumJobs = 2
    Files <- Mixed
    Keys <- OneKey
    Dates <- OneDate
    Numbers <- TwoNumbers
    Overrides = {TRUE}
    Indexes <- Occurrences
    MaxFaults = 0
    MaxLateFaults = 1
    MaxRegisters = 1
CHECK_DEADLOCK FALSE
INVARIANTS NoDoubleCount
 

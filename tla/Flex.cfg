SPECIFICATION FairSpec
CONSTANTS
    i1 = i1
    i2 = i2
    i3 = i3
    Days <- TwoDays
    Runs <- ThreeRuns
    Statements <- Reports
    Past = {i3}
    Known <- Kept
    Cutovers = {2}
    StaleAfter = 0
    MaxClock = 1
    MaxMoves = 1
    NoRun = NoRun
    Open = Open
    NoWindow = NoWindow
CHECK_DEADLOCK FALSE
INVARIANTS ImportsExclude StampsFollowWindow 
PROPERTIES ImportsAreAtomic RunsEnd

SPECIFICATION Spec
CONSTANTS
    r1 = r1
    r2 = r2
    r3 = r3
    eth = eth
    base = base
    Refreshes <- ThreeRefreshes
    Chains <- TwoChains
    StaleAfter = 1
    DayLength = 2
    MaxClock = 4
    NoSnapshot = NoSnapshot
SYMMETRY RefreshSymmetry
CHECK_DEADLOCK FALSE
INVARIANTS NewestKnowsEveryChain AgesAreHonest
 

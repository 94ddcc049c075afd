SPECIFICATION MCSpec
CONSTANTS
    Txns = {1, 2}
    Rules = {1, 2}
    Matches <- MCMatches
    Targets = {a, b}
    Runs = {j1, j2}
    Seeded = {1}
    MaxEdits = 2
    MaxRuns = 2
    None = None
    BridgeDays = 5
    BridgeFirst = 2
    BridgeLast = 4
    BridgeReach = 1
    BridgeSince = 3
    BridgeAmounts = {1, 2}
    MaxMoves = 2
    DaysPerMonth = 2
    LastCardDay = 4
    CardAmounts = {1}
    MaxCharges = 2
    Unset = Unset
    MonthLength = 2
    LastMonth = 2
    FlowKinds <- MCKinds
    MaxFlows = 2
    MaxSnapshots = 3
SYMMETRY MonthSymmetry
CHECK_DEADLOCK FALSE
INVARIANTS  CardsAddUp MonthPagesAgree NoFlowIsBridgedTwice RulesSettle
PROPERTIES ManualIsNotErased

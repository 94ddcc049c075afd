SPECIFICATION MCSpec
CONSTANTS
    Threads = {t1, t2}
    Days = {1, 2}
    Today = 2
    Rates = {r5, r6}
    None = None
    Lookback = 1
    RefreshAfter = 0
    StaleMax = 5
    MaxStores = 2
    Dates = {1, 2}
    Ids = {i1}
    NoId = NoId
    Texts = {a, b}
    MaxLines = 3
    Assets = {1, 2}
    Symbols = {sa, sb}
    NoSymbol = NoSymbol
    Chain <- TwoProviders
    DailyLimit = 1
    BatchSize = 1
    MaxDay = 2
SYMMETRY Symmetry
INVARIANTS  RowsAreTheBrokersLines SuccessMeansPriced

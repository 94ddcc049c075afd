SPECIFICATION Spec
CONSTANTS
    r1 = r1
    r2 = r2
    b1 = b1
    b2 = b2
    Requests <- TwoRequests
    Browsers <- TwoBrowsers
    Grace = 0
    Lifetime = 1
    MaxTokens = 4
    MaxClock = 1
    MaxChanges = 1
    MaxSends = 5
    Nobody = Nobody
SYMMETRY AuthSymmetry
CHECK_DEADLOCK FALSE
INVARIANTS EachSessionIsExchangedOnce OldPasswordsOpenNothing LoneBrowsersStaySignedIn

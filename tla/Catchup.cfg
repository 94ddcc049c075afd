SPECIFICATION FairSpec
CONSTANTS
    i1 = i1
    i2 = i2
    Items <- TwoItems
    SlotLength = 3
    RetryAfter = 1
    Attempts = 2
    MaxRestarts = 1
 
PROPERTIES SlotsAreServed

SPECIFICATION MCSpec
CONSTANTS
    Today = 3
    Held <- MCHeld
    Price <- MCPrice
    Cash <- MCCash
    Spent <- MCSpent
    Coins <- MCCoins
    Stables <- MCStables
    MonthDays = 2
    Window = 1
    MaxSteps = 4
    NoWindow = NoWindow
CHECK_DEADLOCK FALSE
INVARIANTS OneSourceCounts PagesAreOneStory
PROPERTIES EveryChangeIsMarked
VIEW NoGhost

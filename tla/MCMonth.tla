-------------------------------- MODULE MCMonth --------------------------------
(***************************************************************************)
(* Small instances of what the spending pages say of a month: the "This    *)
(* month" bridge, what each card owes, the month's cash flow, and the      *)
(* category each transaction counts in.  The four are checked in one run:  *)
(* a behaviour is one of one of them, and the other three rest.            *)
(***************************************************************************)
EXTENDS Categories, CashFlow, CardLedger, MonthBridge, TLC

VARIABLE part      \* the one of the four that a behaviour is of

K(account, type, amount, rent) ==
    [account |-> account, type |-> type, amount |-> amount, moved |-> FALSE, rent |-> rent]

\* Salary, a purchase, rent the bank calls a transfer, a card's purchase, and a fee taken back.
MCKinds == {K("bank", "INCOME", 1, FALSE), K("bank", "EXPENSE", -1, FALSE),
            K("bank", "TRANSFER", -1, TRUE), K("card", "EXPENSE", -1, FALSE),
            K("card", "FEE", 1, FALSE)}

\* Rule 1 matches every transaction, the others one of them.
MCMatches == [r \in Rules |-> IF r = 1 THEN Txns ELSE {CHOOSE t \in Txns : TRUE}]

CategoriesRest == /\ rules = [r \in Rules |-> None] /\ overrides = [t \in Txns |-> None]
                  /\ inserted = [t \in Txns |-> 0] /\ run = [j \in Runs |-> Idle]
                  /\ edit = None /\ edits = 0 /\ begun = 0

MCInit ==
    \/ part = "categories" /\ CatInit        /\ BridgeInit /\ CardInit /\ FlowInit
    \/ part = "bridge"     /\ CategoriesRest /\ BridgeInit /\ CardInit /\ FlowInit
    \/ part = "card"       /\ CategoriesRest /\ BridgeInit /\ CardInit /\ FlowInit
    \/ part = "flow"       /\ CategoriesRest /\ BridgeInit /\ CardInit /\ FlowInit

OfCategories == part = "categories" /\ UNCHANGED <<part, bridgeVars, cardVars, flowVars>>
OfBridge     == part = "bridge"     /\ UNCHANGED <<part, catVars, cardVars, flowVars>>
OfCard       == part = "card"       /\ UNCHANGED <<part, catVars, bridgeVars, flowVars>>
OfFlow       == part = "flow"       /\ UNCHANGED <<part, catVars, bridgeVars, cardVars>>

\* The actions of the four, one by one: TLC counts what each one does.
MCNext ==
    \/ OfBridge /\ PassDay
    \/ OfBridge /\ \E x \in BridgeAmounts : Earn(x) \/ Earn(-x)
    \/ OfBridge /\ \E x \in BridgeAmounts : PayCard(x)
    \/ OfBridge /\ \E x \in BridgeAmounts, listed \in BOOLEAN : Charge(x, listed)
    \/ OfBridge /\ \E x \in BridgeAmounts, kept \in BOOLEAN : Dividend(x, kept)
    \/ OfBridge /\ \E x \in BridgeAmounts, b \in Brokers :
           Deposit(b, x) \/ Deposit(b, -x)
    \/ OfBridge /\ \E x \in BridgeAmounts, a, b \in Cashed : SendMoney(a, b, x)
    \/ OfBridge /\ \E m \in moving : Arrive(m)
    \/ OfBridge /\ \E i, j \in DOMAIN rows : LinkUp(i, j)
    \/ OfBridge /\ \E n \in {-1, 1}, b \in Traded : Trade(b, n)
    \/ OfBridge /\ \E n \in {-1, 1} : MoveCoins(n)
    \/ OfBridge /\ MarketMoves(holds.price + 1, holds.rate)
    \/ OfBridge /\ MarketMoves(holds.price, holds.rate + 1)
    \/ OfCard /\ CardDayPasses
    \/ OfCard /\ \E type \in CardTypes, x \in CardAmounts : Happen(type, x) \/ Happen(type, -x)
    \/ OfCard /\ \E i \in OnCard : UploadRow(i)
    \/ OfCard /\ \E i \in OnCard : RemoveRow(i)
    \/ OfCard /\ \E d \in CardDays : StateBalance(d)
    \/ OfCard /\ Close
    \/ OfFlow /\ FlowDayPasses
    \/ OfFlow /\ \E kind \in FlowKinds, at \in InstantsOf(flowDay) : RecordFlow(at, kind)
    \/ OfFlow /\ \E i \in DOMAIN flows : Refile(i)
    \/ OfFlow /\ Snapshot
    \/ OfCategories /\ \E r \in Rules, p \in Priorities, c \in Targets :
           SaveRule(r, [active |-> TRUE, priority |-> p, target |-> c])
    \/ OfCategories /\ \E r \in Rules : DeleteRule(r)
    \/ OfCategories /\ \E S \in (SUBSET Txns) \ {{}}, c \in Targets : SetMany(S, c)
    \/ OfCategories /\ \E t \in Txns, c \in Targets : LookUp(t, c)
    \/ OfCategories /\ SetOne
    \/ OfCategories /\ \E j \in Runs, ids \in (SUBSET Txns) \ {{}} : Begin(j, ids)
    \/ OfCategories /\ \E j \in Runs : ReadMatches(j)
    \/ OfCategories /\ \E j \in Runs : ReadExisting(j)
    \/ OfCategories /\ \E j \in Runs, t \in Txns : Write(j, t)
    \/ OfCategories /\ \E j \in Runs : DeleteStale(j)
    \/ OfCategories /\ \E j \in Runs : CommitRun(j)
    \/ OfCategories /\ \E j \in Runs : FailRun(j)

MCSpec == MCInit /\ [][MCNext]_<<part, catVars, bridgeVars, cardVars, flowVars>>

MonthSymmetry == Permutations(Targets) \cup Permutations(Runs)
================================================================================

---------------------------- MODULE MonthBridge ----------------------------
(***************************************************************************)
(* The "This month" bridge (src/api/app/valuation/bridge.py): from the net *)
(* worth at one month-end to the next, each line computed from the rows    *)
(* and ledger lines the household's sources have recorded.  The household  *)
(* is the environment: it earns, spends, pays its card, moves its own      *)
(* money between its bank and its brokers, trades, and receives money from *)
(* outside, and every move is recorded by the accounts it touches, on the  *)
(* day it touches them.  Sources are up to date at both month-ends.        *)
(*                                                                         *)
(* `actual' keeps what really happened in the month, which no row says.    *)
(***************************************************************************)
EXTENDS Integers, Sequences, FiniteSetsExt, Functions

CONSTANTS BridgeDays,     \* the days 1..BridgeDays; the bridge is read on the last
          BridgeFirst, BridgeLast, \* the month's days
          BridgeReach,    \* TRANSFER_MATCH_DAYS
          BridgeSince,    \* the day the Flex broker's ledger begins
          BridgeAmounts,  \* what one move may be worth
          MaxMoves        \* bound on the moves of a behaviour

\* The month is over before the last day: its bridge is read afterwards.
ASSUME BridgeAssumption ==
    /\ BridgeFirst \in Nat \ {0} /\ BridgeLast \in Nat /\ BridgeDays \in Nat
    /\ BridgeFirst <= BridgeLast /\ BridgeLast < BridgeDays
    /\ BridgeReach \in Nat /\ BridgeSince \in Nat
    /\ BridgeAmounts \subseteq Nat \ {0}

\* "flex" has a cash ledger; "hand" has uploaded balances and rows; "dark" has no cash record.
Cashed  == {"bank", "flex", "hand"}
Brokers == {"flex", "hand"}
Traded  == {"flex", "dark"}

VARIABLES day, moves, holds, ends, moving, rows, ledger, actual

bridgeVars == <<day, moves, holds, ends, moving, rows, ledger, actual>>

\* transactions: a row of an account, and (a ghost) which of the household's own transfers it is
Row(account, type, amount, of) ==
    [account |-> account, type |-> type, amount |-> amount, day |-> day, of |-> of,
     linked |-> FALSE]
\* portfolio_cash_ledger_entries
Line(code, amount, of) == [code |-> code, amount |-> amount, day |-> day, of |-> of]

Happened(field, amount) ==
    actual' = [actual EXCEPT ![field] = @ + IF day \in BridgeFirst .. BridgeLast THEN amount ELSE 0]

Opening == [cash |-> [a \in Cashed |-> 2], shares |-> [b \in Traded |-> 1],
            coins |-> 1, owed |-> 1, price |-> 2, rate |-> 1]

BridgeInit == /\ day = 1 /\ moves = 0
              /\ holds = Opening /\ ends = [start |-> Opening, end |-> Opening]
              /\ moving = {} /\ rows = <<>> /\ ledger = <<>>
              /\ actual = [outside |-> 0, kept |-> 0, yield |-> 0, gained |-> 0, unbilled |-> 0,
                           sent |-> 0, unseen |-> 0]

(***************************************************************************)
(* What the household does.                                                *)
(***************************************************************************)
Move == /\ moves < MaxMoves /\ day <= BridgeLast
        /\ moves' = moves + 1
        /\ UNCHANGED <<day, ends>>

\* A salary, or a purchase from the bank account.
Earn(x) ==
    /\ Move
    /\ holds' = [holds EXCEPT !.cash["bank"] = @ + x]
    /\ rows' = Append(rows, Row("bank", IF x > 0 THEN "INCOME" ELSE "EXPENSE", x, 0))
    /\ Happened("kept", x)
    /\ UNCHANGED <<moving, ledger>>

\* A card purchase: on the card's transactions, or only in the balance of its next statement.
Charge(x, listed) ==
    /\ Move
    /\ holds' = [holds EXCEPT !.owed = @ + x]
    /\ rows' = IF listed THEN Append(rows, Row("card", "EXPENSE", -x, 0)) ELSE rows
    /\ Happened(IF listed THEN "kept" ELSE "unbilled", -x)
    /\ UNCHANGED <<moving, ledger>>

PayCard(x) ==
    /\ Move /\ holds.owed >= x
    /\ holds' = [holds EXCEPT !.cash["bank"] = @ - x, !.owed = @ - x]
    /\ rows' = rows \o <<Row("bank", "TRANSFER", -x, 0), Row("card", "TRANSFER", x, 0)>>
    /\ UNCHANGED <<moving, ledger, actual>>

\* Money into or out of an account: a line where a ledger runs, a TRANSFER row elsewhere.
Records(a, x, of) ==
    LET inLedger == a = "flex" /\ day >= BridgeSince
    IN  /\ ledger' = IF inLedger THEN Append(ledger, Line("DEP", x, of)) ELSE ledger
        /\ rows' = IF inLedger THEN rows ELSE Append(rows, Row(a, "TRANSFER", x, of))
        /\ holds' = [holds EXCEPT !.cash[a] = @ + x]

\* Paid into a broker from outside the household's accounts, or out of it.
Deposit(b, x) ==
    /\ Move /\ Records(b, x, 0)
    /\ actual' = IF day \in BridgeFirst .. BridgeLast
               THEN [actual EXCEPT !.outside = @ + x,
                                 !.unseen = @ + IF b = "flex" /\ day < BridgeSince THEN x ELSE 0]
               ELSE actual
    /\ UNCHANGED moving

\* The household's own transfer leaves one account ...
SendMoney(from, to, x) ==
    /\ Move /\ from # to /\ "bank" \in {from, to}
    /\ Records(from, -x, moves + 1)
    /\ moving' = moving \cup {[to |-> to, amount |-> x, id |-> moves + 1, sent |-> day]}
    /\ Happened("sent", x)

\* ... and reaches the other, within the days a transfer takes.
Arrive(m) ==
    /\ day <= m.sent + BridgeReach
    /\ Records(m.to, m.amount, m.id)
    /\ moving' = moving \ {m}
    /\ Happened("sent", -m.amount)
    /\ UNCHANGED <<day, moves, ends>>

\* The user links the two rows of a transfer (transfer_links).
LinkUp(i, j) ==
    /\ i < j /\ rows[i].of = rows[j].of /\ rows[i].of # 0 /\ ~rows[i].linked
    /\ rows' = [rows EXCEPT ![i].linked = TRUE, ![j].linked = TRUE]
    /\ UNCHANGED <<day, moves, holds, ends, moving, ledger, actual>>

\* Shares bought or sold: for the cash the account's broker records, or with no record of it.
Trade(b, n) ==
    /\ Move /\ holds.shares[b] + n >= 0
    /\ holds' = [holds EXCEPT !.shares[b] = @ + n,
                     !.cash["flex"] = @ - IF b = "flex" THEN n * holds.price * holds.rate ELSE 0]
    /\ UNCHANGED <<moving, rows, ledger, actual>>

MoveCoins(n) ==
    /\ Move /\ holds.coins + n >= 0
    /\ holds' = [holds EXCEPT !.coins = @ + n]
    /\ UNCHANGED <<moving, rows, ledger, actual>>

\* A dividend of the Flex account: a line of its ledger, and the row of a statement uploaded as
\* well; before the ledger begins the row is all there is.
Dividend(x, stated) ==
    /\ Move /\ (day >= BridgeSince \/ stated)
    /\ holds' = [holds EXCEPT !.cash["flex"] = @ + x]
    /\ ledger' = IF day >= BridgeSince THEN Append(ledger, Line("DIV", x, 0)) ELSE ledger
    /\ rows' = IF stated THEN Append(rows, Row("flex", "DIVIDEND", x, 0)) ELSE rows
    /\ Happened("yield", x)
    /\ UNCHANGED moving

\* The market moves a price, or the exchange rate moves.
MarketMoves(p, r) ==
    /\ Move
    /\ holds' = [holds EXCEPT !.price = p, !.rate = r]
    /\ Happened("gained", holds.shares["flex"] * (p * r - holds.price * holds.rate))
    /\ UNCHANGED <<moving, rows, ledger>>

PassDay ==
    /\ day < BridgeDays
    /\ \A m \in moving : day < m.sent + BridgeReach
    /\ day' = day + 1
    /\ ends' = [start |-> IF day + 1 = BridgeFirst THEN holds ELSE ends.start,
              end   |-> IF day = BridgeLast THEN holds ELSE ends.end]
    /\ UNCHANGED <<moves, holds, moving, rows, ledger, actual>>

BridgeNext == \/ PassDay
              \/ \E x \in BridgeAmounts :
                    \/ Earn(x) \/ Earn(-x) \/ PayCard(x)
                    \/ \E yes \in BOOLEAN : Charge(x, yes) \/ Dividend(x, yes)
                    \/ \E b \in Brokers : Deposit(b, x) \/ Deposit(b, -x)
                    \/ \E a, b \in Cashed : SendMoney(a, b, x)
              \/ \E m \in moving : Arrive(m)
              \/ \E i, j \in DOMAIN rows : LinkUp(i, j)
              \/ \E n \in {-1, 1} : MoveCoins(n) \/ \E b \in Traded : Trade(b, n)
              \/ MarketMoves(holds.price + 1, holds.rate)
              \/ MarketMoves(holds.price, holds.rate + 1)

BridgeSpec == BridgeInit /\ [][BridgeNext]_bridgeVars

(***************************************************************************)
(* Flows in the month (_flows).                                            *)
(***************************************************************************)
AmountsOf(s) == [i \in DOMAIN s |-> s[i].amount]
SumRows(S)   == SumFunctionOnSet(AmountsOf(rows), S)
SumLines(S)  == SumFunctionOnSet(AmountsOf(ledger), S)

InMonth == {i \in DOMAIN rows : rows[i].day \in BridgeFirst .. BridgeLast}
Lines   == {i \in DOMAIN ledger : ledger[i].day \in BridgeFirst .. BridgeLast}

\* ledger_covered_since: the accounts the ledger has lines for, from their first line's day
LedgerAccounts == IF ledger = <<>> THEN {} ELSE {"flex"}

CoveredByLedger(row) == row.account \in LedgerAccounts /\ row.day >= ledger[1].day

DividendsAndInterest ==
    SumRows({i \in InMonth : rows[i].type = "DIVIDEND" /\ ~CoveredByLedger(rows[i])})
    + SumLines({i \in Lines : ledger[i].code # "DEP"})

\* Cash flow's income minus its expenses: a transfer is neither.
CashKept == SumRows({i \in InMonth : rows[i].type \in {"INCOME", "EXPENSE"}})

CardActivity == SumRows({i \in InMonth : rows[i].account = "card"})

\* The order in which money into or out of a broker is read: the ledger's lines, oldest first,
\* each at its own place, then the rows, newest first.
PlaceOf(i) == Len(ledger) + Len(rows) + 1 - i

\* The ledger's deposits, and the TRANSFER rows of broker accounts the ledger does not cover.
Candidates ==
    {i \in Lines : ledger[i].code = "DEP"}
    \cup {PlaceOf(i) : i \in {j \in InMonth : /\ rows[j].type = "TRANSFER"
                                              /\ rows[j].account \in Brokers \ LedgerAccounts}}

Candidate(k) ==
    IF k <= Len(ledger)
    THEN [account |-> "flex", amount |-> ledger[k].amount, day |-> ledger[k].day,
          of |-> ledger[k].of, linked |-> FALSE]
    ELSE rows[PlaceOf(k)]

\* Mutant: only the month's own rows may be the other side.
Opposites_InMonth(c) ==
    {i \in InMonth : /\ rows[i].type = "TRANSFER" /\ rows[i].account # c.account
                     /\ rows[i].amount + c.amount = 0
                     /\ rows[i].day - c.day \in -BridgeReach .. BridgeReach}

\* The TRANSFER rows that may be a candidate's other side.
Opposites(c) ==
    {i \in DOMAIN rows : /\ rows[i].type = "TRANSFER"
                         /\ rows[i].day \in BridgeFirst - BridgeReach .. BridgeLast + BridgeReach
                         /\ rows[i].account # c.account
                         /\ rows[i].amount + c.amount = 0
                         /\ rows[i].day - c.day \in -BridgeReach .. BridgeReach}

\* One candidate after the other: a linked one has its other side; any other takes the newest row
\* that fits and is not used yet.  Used[k]: the rows used once place k has been read.
Used[k \in 0 .. Len(ledger) + Len(rows)] ==
    IF k = 0 THEN {}
    ELSE LET used == Used[k - 1]
             free == Opposites(Candidate(k)) \ used
         IN  IF k \in Candidates /\ ~Candidate(k).linked /\ free # {}
             THEN used \cup {Max(free)}
             ELSE used

\* A candidate with another side is internal; anything else is new money.
IsNew(k) == /\ k \in Candidates /\ ~Candidate(k).linked
            /\ Opposites(Candidate(k)) \subseteq Used[k - 1]

NewMoney == SumLines({i \in DOMAIN ledger : IsNew(i)})
            + SumRows({i \in DOMAIN rows : IsNew(PlaceOf(i))})

(***************************************************************************)
(* The change of the holdings (_split) and the lines (month_bridge).       *)
(***************************************************************************)
WorthOf(h) == h.cash["bank"] + h.cash["flex"] + h.cash["hand"]
               + h.rate                                   \* a unit of foreign cash
               + (h.shares["flex"] + h.shares["dark"]) * h.price * h.rate
               + h.coins * h.rate - h.owed

\* A holding of only one of the ends has changed by a trade and nothing else.
Split(q0, p0, r0, q1, p1, r1) ==
    IF q0 = 0 \/ q1 = 0
    THEN [price |-> 0, fx |-> 0, quantity |-> q1 * p1 * r1 - q0 * p0 * r0]
    ELSE [price |-> q0 * (p1 - p0) * r1, fx |-> q0 * p0 * (r1 - r0),
          quantity |-> (q1 - q0) * p1 * r1]

SharesSplit(b) == Split(ends.start.shares[b], ends.start.price, ends.start.rate,
                   ends.end.shares[b], ends.end.price, ends.end.rate)
CoinsSplit == Split(ends.start.coins, 1, ends.start.rate, ends.end.coins, 1, ends.end.rate)

Markets == SharesSplit("flex").price + SharesSplit("dark").price + CoinsSplit.price
CashFx  == ends.end.rate - ends.start.rate
Fx      == SharesSplit("flex").fx + SharesSplit("dark").fx + CoinsSplit.fx + CashFx

UntrackedTrades == SharesSplit("dark").quantity
CryptoMoved     == CoinsSplit.quantity
CardBalances    == -(ends.end.owed - ends.start.owed) - CardActivity

Residual == WorthOf(ends.end) - WorthOf(ends.start)
            - (NewMoney + Markets + Fx + DividendsAndInterest + CashKept)
Other    == Residual - UntrackedTrades - CryptoMoved - CardBalances

(***************************************************************************)
(* Properties, of the bridge read once the month is over.                  *)
(***************************************************************************)
Read == day = BridgeDays /\ moving = {}

\* Each line is what really happened: what the household kept, what its holdings paid (once,
\* though the ledger and an uploaded statement both have it), and the card's unlisted charges.
LinesAreTheCauses ==
    Read => /\ CashKept = actual.kept
            /\ DividendsAndInterest = actual.yield
            /\ CardBalances = actual.unbilled

\* `other' is what its label says and nothing leaks into it: what the traded shares gained
\* beyond the Markets and FX lines, the household's money in transit at a month-end, and
\* deposits not taken for what they were.
OtherIsWhatItSays ==
    Read => Other = actual.gained - (SharesSplit("flex").price + SharesSplit("flex").fx)
                    - actual.sent + (actual.outside - NewMoney)

\* Where no two moves can be taken for each other, new money is what came from outside (but for
\* what was paid into the Flex account before its ledger began, which no line has).
NewMoneyIsFromOutside ==
    LET clear == \A k \in Candidates : \A i \in Opposites(Candidate(k)) :
                    rows[i].of = Candidate(k).of /\ rows[i].of # 0
    IN  Read /\ clear =>
            NewMoney = actual.outside - IF LedgerAccounts = {} THEN 0 ELSE actual.unseen

\* The lines that are sums are sums of what happened, new money came from outside, and what is
\* left over is what its label says.
BridgeAddsUp == LinesAreTheCauses /\ NewMoneyIsFromOutside /\ OtherIsWhatItSays

\* "A deposit into a broker is a move between your own accounts when another of your accounts
\* has a TRANSFER of the opposite amount" (bridge.py:68): a month in which every deposit is one
\* has no new money.
OwnMoneyIsNotNew ==
    Read => \/ \A k \in Candidates : ~IsNew(k)
            \/ \E k \in Candidates :
                  LET c == Candidate(k)
                  IN  c.of = 0 \/ ~\E i \in Opposites(c) : rows[i].of = c.of
=============================================================================

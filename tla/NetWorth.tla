------------------------------ MODULE NetWorth ------------------------------
(***************************************************************************)
(* Which stored facts count at a date, and what the pages make of them     *)
(* (src/api/app/portfolio/effective_facts.py, canonical_reads.py,          *)
(* src/api/app/valuation/).  A household has an IBKR account, fed by       *)
(* uploads and by IBKR Flex (two broker accounts of one account), another  *)
(* broker fed by uploads, a card and a crypto wallet.  Imports and uploads arrive in any   *)
(* order, for any day; what they say of a day is true, so a fact is known  *)
(* by its day.                                                             *)
(*                                                                         *)
(* A figure is read at an anchor: a month-end (a day), or now (the last    *)
(* day, at live prices).                                                   *)
(***************************************************************************)
EXTENDS Integers, FiniteSets, FiniteSetsExt, Functions

CONSTANTS Today,     \* the days are 1..Today
          Held,      \* per day, shares in the IBKR account
          Price,     \* per day, the share's price
          Cash,      \* per day, cash in the IBKR account
          Spent,     \* per day, charged to the card
          Coins,     \* per day, what the wallet holds besides stablecoins
          Stables,   \* per day, its stablecoins
          Window,    \* days of the card window of a card with no balance
          MaxSteps,  \* bound on the reports of a behaviour
          NoWindow

Days     == 1 .. Today
Accounts == {"ibkr", "dark", "card"}

\* The household sells nothing short: quantities and prices are never negative.  Cash may be.
TodayAssumption == Today \in Nat \ {0}
StockAssumption == Held \in [Days -> Nat] /\ Price \in [Days -> Nat]
MoneyAssumption == /\ Cash \in [Days -> Int]
                   /\ Coins \in [Days -> Int]
                   /\ Stables \in [Days -> Int]
ASSUME FiguresAssumption == TodayAssumption /\ StockAssumption /\ MoneyAssumption

VARIABLES
    nav, holdings, brokercash, \* days of the Flex snapshots
    window,    \* the Flex authority window
    uploads,   \* uploaded positions: account, day, authority status
    balances,  \* per account, days of its balance snapshots (a card's: credit_balance)
    charges,   \* days whose card transactions are imported
    quotes,    \* days with a quote of the share
    wallets,   \* days with a snapshot of the wallet
    closed,    \* accounts.closed_on
    steps,
    marked     \* ghost: the date the last step marked History dirty from

facts == <<nav, holdings, brokercash, window, uploads, balances, charges, quotes, wallets, closed>>
vars == <<facts, steps, marked>>

Never == Today + 1  \* no date: an account not closed, a window with no end

Init == /\ nav = {} /\ holdings = {} /\ brokercash = {} /\ window = NoWindow
        /\ uploads = {} /\ balances = [a \in Accounts |-> {}]
        /\ charges = {} /\ quotes = {} /\ wallets = {} /\ closed = [a \in Accounts |-> Never]
        /\ steps = 0 /\ marked = Never

Least(S) == Min(S)

\* AuthorityWindow.covers; what it says of a Flex fact's day is stamped into the fact when it is
\* written and again when the window moves.
Covers(d) == /\ window # NoWindow
             /\ window.from <= d /\ d <= window.to

(***************************************************************************)
(* What changes the facts, and the date each marks History dirty from.     *)
(***************************************************************************)
Step(from) == /\ steps < MaxSteps /\ steps' = steps + 1
              /\ marked' = from

\* A Flex statement: NAV for each day, positions and cash for the last one, and a first window.
ImportFlex(from, to) ==
    /\ from <= to /\ Step(from)
    /\ nav' = nav \cup (from .. to)
    /\ holdings' = (holdings \ {to}) \cup {d \in {to} : Held[d] > 0}
    /\ brokercash' = brokercash \cup {to}
    /\ window' = IF window = NoWindow THEN [from |-> from, to |-> Never] ELSE window
    /\ UNCHANGED <<uploads, balances, charges, quotes, wallets, closed>>

\* Mutant: only the new window's first day is marked.
MoveWindow_NewOnly(from, to) ==
    /\ window # NoWindow /\ from <= to
    /\ Step(from)
    /\ window' = [from |-> from, to |-> to]
    /\ UNCHANGED <<nav, holdings, brokercash, uploads, balances, charges, quotes, wallets, closed>>

\* move_window: both windows' days may change.
MoveWindow(from, to) ==
    /\ window # NoWindow /\ from <= to
    /\ Step(Least({from, window.from}))
    /\ window' = [from |-> from, to |-> to]
    /\ UNCHANGED <<nav, holdings, brokercash, uploads, balances, charges, quotes, wallets, closed>>

\* An upload of positions replaces its day's.  One of the IBKR account is kept for reference only.
Upload(a, d) ==
    /\ Step(d)
    /\ uploads' = {u \in uploads : u.account # a \/ u.day # d}
                  \cup {[account |-> a, day |-> d, counts |-> a = "dark"]}
    /\ UNCHANGED <<nav, holdings, brokercash, window, balances, charges, quotes, wallets, closed>>

\* A balance upload, or a card statement.
Balance(a, d) ==
    /\ Step(d)
    /\ balances' = [balances EXCEPT ![a] = @ \cup {d}]
    /\ UNCHANGED <<nav, holdings, brokercash, window, uploads, charges, quotes, wallets, closed>>

\* Card transactions of a day: History is marked from the earliest row.
Charges(d) ==
    /\ Step(d)
    /\ charges' = charges \cup {d}
    /\ UNCHANGED <<nav, holdings, brokercash, window, uploads, balances, quotes, wallets, closed>>

\* Close an account on a day, or reopen it.
SetClosed(a, d) ==
    /\ closed[a] # d
    /\ Step(Least({closed[a], d}))
    /\ closed' = [closed EXCEPT ![a] = d]
    /\ UNCHANGED <<nav, holdings, brokercash, window, uploads, balances, charges, quotes, wallets>>

\* The price job stores a quote: no month-end reads it.
Quote(d) ==
    /\ Step(Never)
    /\ quotes' = quotes \cup {d}
    /\ UNCHANGED <<nav, holdings, brokercash, window, uploads, balances, charges, wallets, closed>>

\* A refresh of the wallet.
Wallet(d) ==
    /\ Step(d)
    /\ wallets' = wallets \cup {d}
    /\ UNCHANGED <<nav, holdings, brokercash, window, uploads, balances, charges, quotes, closed>>

Next == \/ \E d, e \in Days : ImportFlex(d, e) \/ MoveWindow(d, e)
        \/ \E d \in Days : \/ MoveWindow(d, Never) \/ Charges(d) \/ Quote(d) \/ Wallet(d)
                           \/ \E a \in {"ibkr", "dark"} : Upload(a, d)
                           \/ \E a \in {"ibkr", "card"} : Balance(a, d)
        \/ \E a \in {"ibkr", "card"}, d \in Days \cup {Never} : SetClosed(a, d)

Spec == Init /\ [][Next]_vars

(***************************************************************************)
(* What counts at an anchor (effective_facts.py).  A newest day of 0: none.*)
(***************************************************************************)
IsOpen(a, at) == closed[a] >= at
Newest(a, S, at) == LET past == {d \in S : d <= at}
                    IN  IF past = {} \/ ~IsOpen(a, at) THEN 0 ELSE Max(past)

\* Rule 5, flex_authority_accounts: the window covers the anchor and a Flex fact counts by then.
FlexOwns(at) ==
    Covers(at) /\ \E d \in window.from .. at : d \in nav \/ d \in holdings \/ d \in brokercash

\* Rule 6, valued_by_nav: by a NAV of any day, whether or not the window still covers the anchor
ValuedByNav(at) == \E d \in nav : d <= at /\ Covers(d)

EffectiveNav(at) == Newest("ibkr", {d \in nav : Covers(d)}, at)

\* Positions of the account's upload broker account.
EffectiveUploads(a, at) ==
    IF a = "ibkr" /\ (FlexOwns(at) \/ ValuedByNav(at)) THEN 0
    ELSE Newest(a, {u.day : u \in {v \in uploads : v.account = a /\ v.counts}}, at)

\* Mutant: the NAV stands for the positions only where the window covers the anchor.
EffectiveHoldings_WhileOwned(at, detail) ==
    IF ValuedByNav(at) /\ FlexOwns(at) /\ ~detail THEN 0
    ELSE Newest("ibkr", {d \in holdings : Covers(d)}, at)

\* Positions of its Flex broker account: instead of a NAV, or (detail) beside it.
EffectiveHoldings(at, detail) ==
    IF ValuedByNav(at) /\ ~detail THEN 0
    ELSE Newest("ibkr", {d \in holdings : Covers(d)}, at)

EffectiveBalance(a, at) ==
    IF a = "ibkr" /\ FlexOwns(at) THEN 0 ELSE Newest(a, balances[a], at)

\* Broker cash, where no uploaded balance counts.
EffectiveBrokerCash(at) ==
    IF EffectiveBalance("ibkr", at) # 0 THEN 0
    ELSE Newest("ibkr", {d \in brokercash : Covers(d)}, at)

(***************************************************************************)
(* Values.  A day of 0 is worth nothing.                                   *)
(***************************************************************************)
On(f, d) == IF d = 0 THEN 0 ELSE f[d]

\* The other broker holds one share.
Quantity(a, d) == IF a = "dark" THEN (IF d = 0 THEN 0 ELSE 1) ELSE On(Held, d)
Stated(a, d)   == Quantity(a, d) * On(Price, d)

\* price_position: live, the newest quote, unless it is older than the statement or implausible.
Priced(a, d, at, live) ==
    LET past  == {q \in quotes : q <= at}
        quote == IF past = {} THEN 0 ELSE Max(past)
        value == Quantity(a, d) * On(Price, quote)
        fits  == /\ d # 0 /\ quote >= d
                 /\ value <= 2 * Stated(a, d) /\ Stated(a, d) <= 2 * value
    IN  IF live /\ fits THEN value ELSE Stated(a, d)

\* _nav_live_price_deltas: what the NAV account's holdings have gained since their statement
NavDelta(at, live) ==
    LET d == EffectiveHoldings(at, TRUE)
    IN  IF ValuedByNav(at) THEN Priced("ibkr", d, at, live) - Stated("ibkr", d) ELSE 0

\* _cash_positions: the balances of accounts not valued by a NAV, and the NAV's cash
AccountCash(at) ==
    IF EffectiveNav(at) # 0 THEN 0
    ELSE On(Cash, EffectiveBalance("ibkr", at)) + On(Cash, EffectiveBrokerCash(at))
NavCash(at)  == On(Cash, EffectiveNav(at))
NavStock(at) == LET d == EffectiveNav(at) IN On(Held, d) * On(Price, d)
NavTotal(at) == NavCash(at) + NavStock(at)

Positions(at, live) ==
    Priced("ibkr", EffectiveUploads("ibkr", at), at, live)
    + Priced("dark", EffectiveUploads("dark", at), at, live)
    + Priced("ibkr", EffectiveHoldings(at, FALSE), at, live)

\* What the card was charged on the days of S.
SpentOn(S) == SumFunctionOnSet(Spent, S)

\* _credit_card_liability_details: the newest balance and what came after it, else the window's
\* transactions; a month-end counts those before its day, now those up to today.
CardOwed(at, live) ==
    LET until == IF live THEN at ELSE at - 1
        statement == Newest("card", balances["card"], at)
    IN  CASE ~IsOpen("card", at) -> 0
          [] IsOpen("card", at) /\ statement # 0 ->
                SpentOn(1 .. statement) + SpentOn({d \in charges : d > statement /\ d <= until})
          [] OTHER -> SpentOn({d \in charges : d > until - Window /\ d <= until})

\* _wallet_valuation
WalletDay(at) == LET past == {d \in wallets : d <= at} IN IF past = {} THEN 0 ELSE Max(past)
StableUsd(at) == On(Stables, WalletDay(at))
Crypto(at)    == On(Coins, WalletDay(at)) + StableUsd(at)

\* _networth_components
CashPart(at)         == AccountCash(at) + NavCash(at)
StocksPart(at, live) == Positions(at, live)
                        + IF EffectiveNav(at) = 0 THEN 0 ELSE NavStock(at) + NavDelta(at, live)
Assets(at, live)     == CashPart(at) + StocksPart(at, live) + Crypto(at)
Total(at, live)      == Assets(at, live) - CardOwed(at, live)

\* _platform_allocation: a NAV in one piece
PlatformTotal(at, live) ==
    Positions(at, live)
    + (IF EffectiveNav(at) = 0 THEN 0 ELSE NavTotal(at) + NavDelta(at, live))
    + AccountCash(at) + Crypto(at)

\* _stock_exposure, in which a position or a NAV worth nothing has no place
StockExposure(at, live) ==
    LET worth(x) == IF x > 0 THEN x ELSE 0
    IN  worth(IF EffectiveNav(at) = 0 THEN 0 ELSE NavStock(at) + NavDelta(at, live))
        + worth(Priced("ibkr", EffectiveUploads("ibkr", at), at, live))
        + worth(Priced("dark", EffectiveUploads("dark", at), at, live))
        + (IF ValuedByNav(at) THEN 0
           ELSE worth(Priced("ibkr", EffectiveHoldings(at, TRUE), at, live)))

\* _currency_exposure
CurrencyTotal(at, live) ==
    (StockExposure(at, live) + CashPart(at) + Crypto(at)) - CardOwed(at, live)

(***************************************************************************)
(* Properties.                                                             *)
(***************************************************************************)
TypeOK ==
    /\ nav \subseteq Days /\ holdings \subseteq Days /\ brokercash \subseteq Days
    /\ window \in [from : Days, to : Days \cup {Never}] \cup {NoWindow}
    /\ uploads \subseteq [account : {"ibkr", "dark"}, day : Days, counts : BOOLEAN]
    /\ balances \in [Accounts -> SUBSET Days]
    /\ charges \subseteq Days /\ quotes \subseteq Days /\ wallets \subseteq Days
    /\ closed \in [Accounts -> Days \cup {Never}]
    /\ steps \in Nat
    /\ marked \in Days \cup {Never}

Anchors == {<<d, FALSE>> : d \in Days} \cup {<<Today, TRUE>>}

\* The IBKR account's shares count from one source, and so does its cash: its NAV, its Flex
\* snapshots or (cash) its uploads; and where there was a source that counts, one does.
OneSourceCounts ==
    \A at \in Days :
       LET n == EffectiveNav(at)
           h == EffectiveHoldings(at, FALSE)
           cash == IF n # 0 THEN 0 ELSE EffectiveBalance("ibkr", at)
           own  == IF n # 0 THEN 0 ELSE EffectiveBrokerCash(at)
       IN  /\ n = 0 \/ h = 0
           /\ Cardinality({s \in {<<1, n>>, <<2, cash>>, <<3, own>>} : s[2] # 0}) <= 1
           /\ Newest("ibkr", {d \in holdings : Covers(d)}, at) # 0 => n # 0 \/ h # 0
           /\ Newest("ibkr", balances["ibkr"], at) # 0 => n # 0 \/ cash # 0 \/ own # 0

\* Overview's net worth, the allocation by platform and the split by currency are one number
\* (_currency_exposure: "the values add up to net worth"), but for a NAV account whose live
\* stocks are worth less than nothing.
PagesAgree ==
    \A a \in Anchors :
       LET at == a[1]  live == a[2]
       IN  /\ PlatformTotal(at, live) = Assets(at, live)
           /\ \/ CurrencyTotal(at, live) = Total(at, live)
              \/ EffectiveNav(at) # 0 /\ NavStock(at) + NavDelta(at, live) < 0

\* History keeps a month-end's figure until it is marked: no step changes the figure at an
\* anchor before the date it marks from.
EveryChangeIsMarked ==
    [][\A at \in Days : at < marked' => Total(at, FALSE)' = Total(at, FALSE)]_vars

\* "An empty OpenPositions section there means no positions" (ibkr_flex.py:1359): a NAV account
\* that holds no stock has no holdings to price.
SoldHoldingsAreGone ==
    \A a \in Anchors : EffectiveNav(a[1]) # 0 /\ NavStock(a[1]) = 0 => NavDelta(a[1], a[2]) = 0

\* "Only the facts a value reader counts can set the date" (canonical_reads.py:321): the date
\* the dashboard gives a month-end is that of a fact in its figure.
DatesAreCounted ==
    \A at \in Days : EffectiveNav(at) # 0 => EffectiveBalance("ibkr", at) <= EffectiveNav(at)
=============================================================================

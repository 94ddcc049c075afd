--------------------------- MODULE DashboardPages ---------------------------
(***************************************************************************)
(* The dashboard's pages (src/api/app/valuation/pages.py, clock.py,        *)
(* facts.py, holdings.py, history.py): which anchor each page of a month   *)
(* reads its figures at, and what it compares them with.                   *)
(*                                                                         *)
(* Months are counted from 0, the month of day 1; earlier months have no   *)
(* facts.  A month-end is SNAPSHOT_DAY of the next month, s.               *)
(***************************************************************************)
EXTENDS NetWorth

CONSTANT MonthDays  \* days of a month

ASSUME PagesAssumption == MonthDays \in Nat \ {0} /\ Spent \in [Days -> Int]

SnapshotDays == 1 .. MonthDays

OpenMonth == (Today - 1) \div MonthDays
\* The months the pages are asked for, from one before the first fact, and those they go back to.
Months    == -1 .. OpenMonth
AllMonths == -3 .. OpenMonth

\* _anchor_ts: SNAPSHOT_DAY of the next month.  Day 0 stands for every day before the first.
AnchorOf(m, s) ==
    LET firstOfNext == MonthDays * (m + 1) + 1
    IN  IF firstOfNext < 1 THEN 0 ELSE firstOfNext + s - 1
HasPassed(m, s) == AnchorOf(m, s) <= Today

\* The month whose month-end a view of month m uses.
CompletedMonth ==
    [m \in AllMonths |-> [s \in SnapshotDays |-> IF HasPassed(m, s) THEN m ELSE m - 1]]
LatestCompletedMonth ==
    [s \in SnapshotDays |-> Max({m \in AllMonths : m < OpenMonth /\ HasPassed(m, s)})]

\* _month_view_anchor
View ==
    [m \in AllMonths |-> [s \in SnapshotDays |->
        IF m = OpenMonth THEN [at |-> Today, live |-> TRUE]
                         ELSE [at |-> AnchorOf(CompletedMonth[m][s], s), live |-> FALSE]]]

\* _month_view_compare_month_start
CompareMonth(m, s) ==
    IF m = OpenMonth THEN LatestCompletedMonth[s] ELSE CompletedMonth[m][s] - 1

\* _trend_point_anchor: a month of a trend has a point when it is open or its month-end passed.
HasTrendPoint(m, s) == m = OpenMonth \/ HasPassed(m, s)
TrendView(m, s) ==
    IF m = OpenMonth THEN [at |-> Today, live |-> TRUE]
                     ELSE [at |-> AnchorOf(m, s), live |-> FALSE]

(***************************************************************************)
(* The figures of a view, of which a page shows some.                      *)
(***************************************************************************)
\* canonical_snapshot_coverage_as_of: the newest date of an account's newest fact, 0 for none.
PositionsCoverage(at) ==
    Max({EffectiveNav(at), EffectiveUploads("ibkr", at), EffectiveUploads("dark", at),
         EffectiveHoldings(at, TRUE)})
Coverage(at) ==
    Max({PositionsCoverage(at), EffectiveBalance("ibkr", at),
         Newest("ibkr", {d \in brokercash : Covers(d)}, at)})

\* _top_holdings of the share, whatever the household's net worth
SharesHeld(at, live) ==
    LET worth(a, d) == LET value == Priced(a, d, at, live) IN IF value > 0 THEN value ELSE 0
    IN  worth("ibkr", EffectiveUploads("ibkr", at)) + worth("dark", EffectiveUploads("dark", at))
        + worth("ibkr", EffectiveHoldings(at, TRUE))

\* What the valuation modules say of a view: _networth_components; _top_holdings, none of a
\* household that owes more than it has; and _geography_exposure, where every asset here is in
\* one country, and a country that owes is left out.
FiguresOf(at, live) ==
    LET cash   == CashPart(at)  stocks == StocksPart(at, live)
        crypto == Crypto(at)    owed   == CardOwed(at, live)
        total  == cash + stocks + crypto - owed
        exposure == StockExposure(at, live)
        country  == exposure + cash + crypto
    IN  [net |-> [cash |-> cash, stocks |-> stocks, crypto |-> crypto, owed |-> owed,
                  total |-> total],
         stable |-> StableUsd(at), exposure |-> exposure, currencies |-> CurrencyTotal(at, live),
         shares |-> IF total <= 0 THEN 0 ELSE SharesHeld(at, live),
         platforms |-> PlatformTotal(at, live),
         geography |-> IF country > 0 THEN country ELSE 0,
         positions |-> PositionsCoverage(at), coverage |-> Coverage(at)]

\* Before SNAPSHOT_DAY the open month's snapshot fields are of a day still to come.
Figures == [live |-> [at \in 0 .. Today |-> FiguresOf(at, TRUE)],
            monthEnd |-> [at \in 0 .. Today + MonthDays - 1 |-> FiguresOf(at, FALSE)]]
Now(f)     == f.live[Today]
Seen(f, v) == IF v.live THEN f.live[v.at] ELSE f.monthEnd[v.at]

(***************************************************************************)
(* The pages, from the figures f.  A change is shown with what it is from  *)
(* and whether there was anything to compare with.                         *)
(***************************************************************************)
Change(value, before, coverage) ==
    [abs |-> value - before, of |-> before, missing |-> coverage = 0 /\ before = 0]

\* _compute_net_worth_changes, against month p's month-end
NetWorthChange(f, value, p, s) ==
    LET was == f.monthEnd[AnchorOf(p, s)] IN Change(value, was.net.total, was.coverage)

\* _compute_component_changes, from the month-end of p - 1 to that of p
ComponentChange(f, p, s) ==
    LET now == f.monthEnd[AnchorOf(p, s)].net
        was == f.monthEnd[AnchorOf(p - 1, s)]
    IN  [c \in {"cash", "stocks", "crypto"} |-> Change(now[c], was.net[c], was.coverage)]

\* /bootstrap: Overview shows the live figures of the open month, a past month's month-end.
Bootstrap(f, m, s) ==
    [live |-> View[m][s].live, current |-> Now(f).net,
     net |-> f.monthEnd[AnchorOf(CompletedMonth[m][s], s)].net]
Headline(f, m, s) == LET b == Bootstrap(f, m, s) IN IF b.live THEN b.current ELSE b.net

\* _top_movers_from_holdings, of the share
Mover(now, was) == now.shares - was.shares

\* /net-worth-timeline/movers: the completed month-end of m and the one before it
TimelineMover(f, m, s) ==
    LET p == CompletedMonth[m][s]
    IN  Mover(f.monthEnd[AnchorOf(p, s)], f.monthEnd[AnchorOf(p - 1, s)])

\* /summary
Summary(f, m, s) ==
    LET p == CompletedMonth[m][s]
        net == f.monthEnd[AnchorOf(p, s)]
        shown == IF View[m][s].live THEN Now(f).net.total ELSE net.net.total
    IN  [geography |-> IF shown <= 0 THEN 0 ELSE Seen(f, View[m][s]).geography,
         shares |-> Seen(f, View[m][s]).shares,
         change |-> NetWorthChange(f, net.net.total, p - 1, s),
         currentChange |-> NetWorthChange(f, Now(f).net.total, LatestCompletedMonth[s], s),
         components |-> ComponentChange(f, p, s),
         mover |-> TimelineMover(f, m, s)]

\* /summary?skip_networth=true
SummaryRest(f, m, s) ==
    LET seen == Seen(f, View[m][s])
    IN  [geography |-> IF seen.net.total <= 0 THEN 0 ELSE seen.geography, shares |-> seen.shares]

\* /net-worth-timeline: History's rows, of the months whose month-end passed, and the live point.
Timeline(f, s) ==
    [points |-> [n \in {n \in Months : HasPassed(n, s)} |-> f.monthEnd[AnchorOf(n, s)].net],
     now    |-> Now(f).net]

\* The change under Overview's headline.
HeadlineChange(f, m, s) ==
    LET b == Summary(f, m, s) IN IF View[m][s].live THEN b.currentChange ELSE b.change

\* /risk-summary
RiskSummary(f, m, s) ==
    LET v == View[m][s]
    IN  [net |-> IF v.live THEN Seen(f, v).net ELSE f.monthEnd[AnchorOf(CompletedMonth[m][s], s)].net,
         shares |-> Seen(f, v).shares,
         platforms |-> Seen(f, v).platforms]

\* /stock-holdings
StockPage(f, m, s) ==
    LET now == Seen(f, View[m][s])
        was == f.monthEnd[AnchorOf(CompareMonth(m, s), s)]
    IN  [shares |-> now.shares, current |-> now.exposure, snapshot |-> was.exposure,
         missing |-> was.positions = 0 /\ was.exposure = 0]

\* Its change since yesterday, at quotes on both sides.
DayChange(f) == Now(f).exposure - f.live[Today - 1].exposure

\* _stock_trend
StockTrend(f, m, s) == Seen(f, TrendView(m, s)).exposure

\* /cash-deposits: stablecoins are cash on this page, and crypto in net worth
CashPage(f, m, s) ==
    LET now == Seen(f, View[m][s])
        was == f.monthEnd[AnchorOf(CompareMonth(m, s), s)]
    IN  [current |-> now.net.cash + now.stable, snapshot |-> was.net.cash + was.stable]

\* _cash_trend: no value for a month with no facts
CashTrend(f, m, s) ==
    LET now == Seen(f, TrendView(m, s)) IN IF now.coverage = 0 THEN 0 ELSE now.net.cash + now.stable

\* /platform-allocation, /stock-exposure and /geography-exposure
Allocation(f, m, s)    == Seen(f, View[m][s]).platforms
ExposurePage(f, m, s)  == Seen(f, View[m][s]).exposure
GeographyPage(f, m, s) == Seen(f, View[m][s]).geography

\* Mutant: the compare side at its statements' prices.
SinceUpdate_Stated(f) ==
    LET newest == f.monthEnd[Today - 1].coverage
        at == IF newest = 0 THEN Today - 1 ELSE newest
    IN  [at |-> at, change |-> [c \in DOMAIN Now(f).net |->
                                   Now(f).net[c] - f.monthEnd[at].net[c]]]

\* /net-worth-since-update: now against the newest statement's date before today, each at the
\* quotes of its own day
SinceUpdate(f) ==
    LET newest == f.monthEnd[Today - 1].coverage
        at == IF newest = 0 THEN Today - 1 ELSE newest
    IN  [at |-> at, change |-> [c \in DOMAIN Now(f).net |->
                                   Now(f).net[c] - f.live[at].net[c]]]

(***************************************************************************)
(* Properties.                                                             *)
(***************************************************************************)
\* A NAV account whose stocks, at live prices, are worth less than nothing: no page of holdings
\* shows it.
NavBelowNothing(at, live) == EffectiveNav(at) # 0 /\ NavStock(at) + NavDelta(at, live) < 0

\* Of any figures the allocation by platform is the household's assets, and the split by currency
\* its net worth (PagesAgree).
TotalsAgree(f) ==
    \A at \in 0 .. Today, live \in BOOLEAN :
       LET shown == Seen(f, [at |-> at, live |-> live])
       IN  /\ shown.platforms = shown.net.cash + shown.net.stocks + shown.net.crypto
           /\ shown.currencies = shown.net.total \/ NavBelowNothing(at, live)

\* One instant per month ("the hero, the allocation and the positions all show one month-end",
\* clock.py:255; D-55, D-61): Overview's net worth and its changes, History, the Risk, Stocks
\* and Cash pages and their trends show the same figures of a month, and what one compares with
\* is what the month compared with shows.
MonthsAreOneStory(f) ==
    \A s \in SnapshotDays, m \in Months :
       LET h == Headline(f, m, s)  p == CompareMonth(m, s)
           change == HeadlineChange(f, m, s)  summary == Summary(f, m, s)
           cash == CashPage(f, m, s)  stock == StockPage(f, m, s)
           rest == SummaryRest(f, m, s)  history == Timeline(f, s)  was == Headline(f, p, s)
       IN  /\ RiskSummary(f, m, s).net = h
           /\ HasPassed(m, s) => history.points[m] = h
           /\ m = OpenMonth => history.now = h
           /\ summary.shares = stock.shares
           /\ rest.shares = summary.shares /\ rest.geography = summary.geography
           /\ ~View[m][s].live =>
                 /\ \A c \in DOMAIN summary.components :
                       summary.components[c].abs = h[c] - was[c]
                 /\ summary.mover = stock.shares - StockPage(f, p, s).shares
           /\ change.of = was.total
           /\ change.of + change.abs = h.total
           /\ cash.snapshot = CashPage(f, p, s).current
           /\ stock.snapshot = StockPage(f, p, s).current
           /\ HasTrendPoint(m, s) =>
                 /\ StockTrend(f, m, s) = stock.current
                 /\ CashTrend(f, m, s) # 0 => CashTrend(f, m, s) = cash.current
           /\ \/ /\ ExposurePage(f, m, s) = h.stocks
                 /\ GeographyPage(f, m, s) \in {0, Allocation(f, m, s)}
              \/ NavBelowNothing(View[m][s].at, View[m][s].live)

\* "If prices haven't refreshed ... the delta is 0" (clock.py:188): where nothing is dated after
\* the day compared with, no account closed and no window ended since, "since last update" and
\* the Stocks page's day change are nothing.  A card with no balance is left out: its window of
\* transactions moves with the day.
SinceUpdateIsNews(f) ==
    LET since == SinceUpdate(f)
        dated == nav \cup holdings \cup brokercash \cup quotes \cup wallets \cup charges
                 \cup balances["ibkr"] \cup balances["card"] \cup {u.day : u \in uploads}
        ended == {closed[a] : a \in Accounts} \cup (IF window = NoWindow THEN {} ELSE {window.to})
    IN  /\ \A d \in dated : d <= since.at
        /\ \A d \in ended : d < since.at \/ d >= Today
        /\ balances["card"] # {} \/ charges = {}
        => DayChange(f) = 0 /\ \A c \in DOMAIN since.change : since.change[c] = 0

\* "The rows add up" (pages.py:453): the holdings listed are worth the page's stocks, of a
\* household with net worth and with no NAV later than its holdings.
HoldingsAddUp(f) ==
    \A at \in 1 .. Today, live \in BOOLEAN :
       LET shown == Seen(f, [at |-> at, live |-> live])
       IN  \/ shown.net.total <= 0
           \/ EffectiveNav(at) # EffectiveHoldings(at, TRUE)
           \/ shown.shares = shown.exposure

\* Every page's figures of a month, and of its changes, are the same ones.
PagesAreOneStory ==
    \A f \in {Figures} : /\ TotalsAgree(f) /\ MonthsAreOneStory(f)
                         /\ SinceUpdateIsNews(f) /\ HoldingsAddUp(f)
=============================================================================

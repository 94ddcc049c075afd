------------------------------- MODULE CashFlow -------------------------------
(***************************************************************************)
(* The cash-flow pages of a month: which of the household's transactions   *)
(* are income, spending or a transfer between its own accounts, in which   *)
(* month each counts, and the "cash bridge" from one cash snapshot to the  *)
(* next.                                                                   *)
(*                                                                         *)
(* A date-only transaction is stored at 00:00 UTC of its day; a timed one  *)
(* is an instant, and belongs to the user's day.  The user lives ahead of  *)
(* UTC: his day d begins late in UTC day d - 1.                            *)
(***************************************************************************)
EXTENDS Integers, FiniteSets, Sequences, FiniteSetsExt, Functions

CONSTANTS
    MonthLength,  \* days of a month
    LastMonth,    \* bound: months that pass
    FlowKinds,    \* the transactions there are, but for when
    MaxFlows,     \* bound: transactions
    MaxSnapshots

VARIABLES
    flowDay,    \* today
    flows,      \* transactions (with their accounts' types and resolved categories)
    snapshots   \* dates of cash facts

flowVars == <<flowDay, flows, snapshots>>

FlowDays   == 1 .. (MonthLength * LastMonth)
FlowMonths == 1 .. LastMonth

\* Instants: the UTC midnight of a day, an instant later that day, and one after the user's
\* midnight.
Midnight(d) == 3 * d
Daytime(d)  == 3 * d + 1
Night(d)    == 3 * d + 2
LocalMidnight(d) == Night(d - 1)
IsDateOnly(at)   == at % 3 = 0
\* _transaction_date
DayOf(at) == IF IsDateOnly(at) \/ at % 3 = 1 THEN at \div 3 ELSE at \div 3 + 1

\* A day of the user's: its date, its daytime, and its small hours, which are UTC's day before.
InstantsOf(d) == {Midnight(d), Daytime(d), Night(d - 1)}

MonthOf(d)   == (d - 1) \div MonthLength + 1
FirstOf(m)   == (m - 1) * MonthLength + 1
NextMonth(m) == FirstOf(m + 1)

Kind == [account : {"bank", "card"},
         type : {"INCOME", "EXPENSE", "FEE", "TRANSFER"},
         amount : {-1, 1},
         moved : BOOLEAN,    \* a Transfer category, or its source or payee says so
         rent : BOOLEAN]

ASSUME FlowAssumption ==
    /\ MonthLength \in Nat \ {0} /\ LastMonth \in Nat \ {0}
    /\ FlowKinds \subseteq Kind

----------------------------------------------------------------------------
FlowDayPasses ==
    /\ flowDay + 1 \in FlowDays
    /\ flowDay' = flowDay + 1
    /\ UNCHANGED <<flows, snapshots>>

\* What a statement or an app records of today.
RecordFlow(at, kind) ==
    /\ Len(flows) < MaxFlows
    /\ DayOf(at) = flowDay
    /\ flows' = Append(flows, [at |-> at, account |-> kind.account, type |-> kind.type,
                              amount |-> kind.amount, moved |-> kind.moved, rent |-> kind.rent])
    /\ UNCHANGED <<flowDay, snapshots>>

\* The user, or a rule, files it under Transfer, or under something else again.
Refile(i) ==
    /\ flows' = [flows EXCEPT ![i].moved = ~@]
    /\ UNCHANGED <<flowDay, snapshots>>

\* A statement states what cash there was.
Snapshot ==
    /\ Cardinality(snapshots) < MaxSnapshots
    /\ flowDay \notin snapshots
    /\ snapshots' = snapshots \cup {flowDay}
    /\ UNCHANGED <<flowDay, flows>>

----------------------------------------------------------------------------
(* Which rows count, as what. *)

Expenses == {"EXPENSE", "FEE", "TAX", "INTEREST"}

IsTransfer(r) == r.moved \/ r.type = "TRANSFER"

IsRentPaid(r) == r.amount < 0 /\ r.rent

\* _cash_flow_bucket: rent paid is spending, whatever its row says otherwise.
Bucket(r) ==
    CASE IsRentPaid(r) -> "expense"
      [] ~IsRentPaid(r) /\ IsTransfer(r) -> "none"
      [] OTHER -> IF r.type = "INCOME" THEN "income" ELSE "expense"

\* _card_transaction_in_window: from the user's midnight of the start day to that of the end day.
\* Mutant: timed rows by their UTC day.
InWindow_Utc(at, start, end) == Midnight(start) <= at /\ at < Midnight(end)

InWindow(at, start, end) ==
    IF IsDateOnly(at) THEN start <= at \div 3 /\ at \div 3 < end
    ELSE LocalMidnight(start) <= at /\ at < LocalMidnight(end)

PageRows(start, end) == {i \in DOMAIN flows : InWindow(flows[i].at, start, end)}
OfMonth(S, m)      == {i \in S : MonthOf(DayOf(flows[i].at)) = m}
\* The month and the five before it.
Lookback(m) == PageRows(FirstOf(m - 5), NextMonth(m))

SumOf(S) == SumFunctionOnSet([i \in DOMAIN flows |-> flows[i].amount], S)

Flows(S) == [in  |-> SumOf({i \in S : Bucket(flows[i]) = "income"}),
             out |-> -SumOf({i \in S : Bucket(flows[i]) = "expense"})]

\* GET /spending/summary, /cash-flow-detail, and a point of the trend ending at month n.
MonthSummary(m)       == Flows(PageRows(FirstOf(m), NextMonth(m)))
Detail(m)        == Flows(OfMonth(Lookback(m), m))
TrendPoint(n, m) == Flows(OfMonth(Lookback(n), m))

\* _cashflow, the Overview's month: by the rows' types alone
OverviewFlows(m) ==
    LET R == PageRows(FirstOf(m), NextMonth(m))
    IN  [in  |-> SumOf({i \in R : flows[i].type = "INCOME"}),
         out |-> -SumOf({i \in R : flows[i].type \in Expenses})]

\* The month before, as the comparison takes it: the same days of it while the month is open.
Lesser(a, b) == IF a <= b THEN a ELSE b
PriorEnd(m) == FirstOf(m - 1) + Lesser(flowDay - FirstOf(m) + 1, MonthLength)
Prior(m) ==
    Flows(IF MonthOf(flowDay) = m
          THEN {i \in Lookback(m) : InWindow(flows[i].at, FirstOf(m - 1), PriorEnd(m))}
          ELSE OfMonth(Lookback(m), m - 1))

\* The card pages: what was charged (reversals aside), and the month's net charges.
IsCharge(r) == r.account = "card" /\ r.type \in Expenses
CardSpend(m)  == -SumOf({i \in OfMonth(Lookback(m), m) : IsCharge(flows[i]) /\ flows[i].amount < 0})
CurrentDue(m) == -SumOf({i \in PageRows(FirstOf(m), NextMonth(m)) : IsCharge(flows[i])})
Reversed(m)   == SumOf({i \in OfMonth(Lookback(m), m) : IsCharge(flows[i]) /\ flows[i].amount > 0})

\* GET /spending/credit-card-transactions: what the cards owe (without their limits), beside
\* every row of the cards in the month, payments too.
CardPage(m) ==
    [due  |-> CurrentDue(m),
     rows |-> {i \in PageRows(FirstOf(m), NextMonth(m)) : flows[i].account = "card"}]

----------------------------------------------------------------------------
(* The cash bridge. *)

\* The newest cash snapshot at or before a date, 0 if there is none.
SnapshotAt(date) == LET S == {d \in snapshots : d <= date} IN IF S = {} THEN 0 ELSE Max(S)
\* From the snapshot at the month's start to the one at its end (anchors on the month's first days).
SpanStart(m) == SnapshotAt(FirstOf(m))
SpanEnd(m)   == SnapshotAt(NextMonth(m))
IsBridged(m) ==
    /\ SpanStart(m) # 0
    /\ SpanStart(m) < SpanEnd(m)
    /\ FirstOf(m - 5) <= SpanStart(m)

\* Mutant: both ends of the span belong to it.
InSpan_Closed(i, m) == Midnight(SpanStart(m)) <= flows[i].at /\ flows[i].at <= Midnight(SpanEnd(m))

InSpan(i, m) == Midnight(SpanStart(m)) < flows[i].at /\ flows[i].at <= Midnight(SpanEnd(m))

\* The rows of the month's bridge, out of those the page has loaded.
BridgeRows(m) == {i \in Lookback(m) : InSpan(i, m)}

\* Its lines.  Unlike the pages, it counts rent that its row says is a transfer under transfers.
BridgeFlows(m) ==
    LET moved == {i \in BridgeRows(m) : IsTransfer(flows[i])}
        others == Flows(BridgeRows(m) \ moved)
    IN  [in |-> others.in, out |-> others.out, moved |-> SumOf(moved)]

----------------------------------------------------------------------------
FlowInit ==
    /\ flowDay = 1
    /\ flows = <<>>
    /\ snapshots = {}

FlowNext ==
    \/ FlowDayPasses
    \/ \E kind \in FlowKinds, at \in InstantsOf(flowDay) : RecordFlow(at, kind)
    \/ \E i \in DOMAIN flows : Refile(i)
    \/ Snapshot

FlowSpec == FlowInit /\ [][FlowNext]_flowVars

----------------------------------------------------------------------------
\* A month's income and spending are one pair of numbers, whichever page shows them and however
\* its rows are timed: the summary, the detail, every trend that shows the month, and what the
\* month after compares itself with, in full once it is over and up to the same day before
\* (#149, #211, #243).  The Overview, which goes by type alone, says the same of a month with no
\* transfers and no income that is filed as rent paid.  The card pages agree up to reversals,
\* which one leaves out.
MonthPagesAgree ==
    \A m \in FlowMonths :
        /\ MonthSummary(m) = Detail(m)
        /\ \A n \in FlowMonths \cap (m .. m + 5) : TrendPoint(n, m) = Detail(m)
        /\ m + 1 \in FlowMonths =>
               LET counted(i) == MonthOf(flowDay) = m + 1 =>
                       DayOf(flows[i].at) - FirstOf(m) <= flowDay - FirstOf(m + 1)
               IN  Prior(m + 1) =
                       Flows({i \in DOMAIN flows : MonthOf(DayOf(flows[i].at)) = m /\ counted(i)})
        /\ (\A i \in DOMAIN flows : MonthOf(DayOf(flows[i].at)) = m =>
                   ~IsTransfer(flows[i]) /\ ~(flows[i].type = "INCOME" /\ IsRentPaid(flows[i])))
               => OverviewFlows(m) = MonthSummary(m)
        /\ CurrentDue(m) = CardSpend(m) - Reversed(m)
        /\ CardPage(m).due = -SumOf({i \in CardPage(m).rows : IsCharge(flows[i])})

\* No transaction is a flow of two months' cash bridges, whatever snapshots each finds and
\* whether the month is still open: what one bridge explains, the next does not explain again;
\* and within a bridge it counts on one of its lines.
NoFlowIsBridgedTwice ==
    \A m \in {n \in FlowMonths : IsBridged(n)} :
        /\ \A n \in FlowMonths : n > m /\ IsBridged(n) => BridgeRows(m) \cap BridgeRows(n) = {}
        /\ LET lines == BridgeFlows(m)
           IN  lines.in - lines.out + lines.moved = SumOf(BridgeRows(m))

\* "The flows between the two cash snapshots ... (after the start date's midnight, up to the end
\* date's midnight)" (spending.py:829): of a row dated the day of the snapshot.  Not so when that
\* day is the first of the month: the page has not loaded it, and the next month's bridge starts
\* after it.
BridgesLeaveNothingOut ==
    \A m \in FlowMonths :
        IsBridged(m) /\ IsBridged(m + 1) =>
            \A i \in DOMAIN flows :
                Midnight(SpanStart(m)) < flows[i].at /\ flows[i].at <= Midnight(SpanEnd(m + 1))
                => i \in BridgeRows(m) \cup BridgeRows(m + 1)
===============================================================================

------------------------------ MODULE CardLedger ------------------------------
(***************************************************************************)
(* One credit card: its transactions, as far as they have been uploaded,   *)
(* the dated balances its statements print, and the three places that say  *)
(* what it owes: the ledger of the card page, the liability net worth      *)
(* subtracts (at a month-end or now), and the month's spending.  Days are  *)
(* the user's calendar (a timed row counts on its local day); amounts are  *)
(* in the card's currency, the holder's view: a purchase is negative.      *)
(***************************************************************************)
EXTENDS Integers, FiniteSets, Sequences, FiniteSetsExt, Functions

CONSTANTS
    DaysPerMonth,
    LastCardDay, \* bound: days that pass
    CardAmounts, \* sizes of transactions
    MaxCharges,  \* bound: transactions of the card
    Unset        \* no balance, no date

ASSUME CardAssumption ==
    /\ DaysPerMonth \in Nat \ {0} /\ LastCardDay \in Nat \ {0}
    /\ \A x \in CardAmounts : x \in Nat
    /\ Unset \notin Int

VARIABLES
    cardDay,    \* today
    happened,   \* ghost: every transaction of the card, as the bank knows it
    uploaded,   \* which of them are in transactions
    printed,    \* account_balance_snapshots, credit_balance: what was owed, by date
    closedOn    \* accounts.closed_on

cardVars == <<cardDay, happened, uploaded, printed, closedOn>>

CardDays  == 1 .. LastCardDay
CardTypes == {"EXPENSE", "FEE", "INTEREST", "TRANSFER", "INCOME"}
CardRow   == [day : CardDays, type : CardTypes, amount : CardAmounts \cup {-x : x \in CardAmounts}]

MonthStart(d)   == ((d - 1) \div DaysPerMonth) * DaysPerMonth + 1
MonthBefore(d)  == MonthStart(d) - DaysPerMonth

AmountOf(rows) == SumFunctionOnSet([i \in DOMAIN happened |-> happened[i].amount], rows)
\* Transactions of the days (from, to].
Between(rows, from, to) == {i \in rows : from < happened[i].day /\ happened[i].day <= to}
OnCard == DOMAIN happened

\* What the bank has the card owe at the end of a day.
TrueOwed(d) == -AmountOf(Between(OnCard, 0, d))

----------------------------------------------------------------------------
CardDayPasses ==
    /\ cardDay < LastCardDay
    /\ cardDay' = cardDay + 1
    /\ UNCHANGED <<happened, uploaded, printed, closedOn>>

\* A purchase, fee or interest charge; a reversal of one, a refund; a payment.
Happen(type, amount) ==
    /\ Len(happened) < MaxCharges
    /\ closedOn = Unset
    /\ amount < 0 => type \in {"EXPENSE", "FEE", "INTEREST"}
    /\ amount > 0 => type \in {"EXPENSE", "FEE", "TRANSFER", "INCOME"}
    /\ happened' = Append(happened, [day |-> cardDay, type |-> type, amount |-> amount])
    /\ UNCHANGED <<cardDay, uploaded, printed, closedOn>>

\* A card file brings rows, in any order of files; removing the upload takes them away again.
UploadRow(i) ==
    /\ i \notin uploaded
    /\ uploaded' = uploaded \cup {i}
    /\ UNCHANGED <<cardDay, happened, printed, closedOn>>

RemoveRow(i) ==
    /\ i \in uploaded
    /\ uploaded' = uploaded \ {i}
    /\ UNCHANGED <<cardDay, happened, printed, closedOn>>

\* A statement, or the owner, states the balance at the end of a day that is over; one per date.
StateBalance(d) ==
    /\ d < cardDay
    /\ printed[d] = Unset
    /\ printed' = [printed EXCEPT ![d] = TrueOwed(d)]
    /\ UNCHANGED <<cardDay, happened, uploaded, closedOn>>

Close ==
    /\ closedOn = Unset
    /\ closedOn' = cardDay
    /\ UNCHANGED <<cardDay, happened, uploaded, printed>>

----------------------------------------------------------------------------
(* The card page: build_ledger. *)

\* What a period's rows come to: a reversed purchase is a credit.
Book(rows) ==
    LET of(type) == {i \in rows : happened[i].type = type}
        reversed == {i \in of("EXPENSE") : happened[i].amount > 0}
    IN  [charges  |-> -AmountOf(of("EXPENSE") \ reversed), fees |-> -AmountOf(of("FEE")),
         interest |-> -AmountOf(of("INTEREST")), payments |-> AmountOf(of("TRANSFER")),
         credits  |-> AmountOf(of("INCOME") \cup reversed)]

Dated == {d \in CardDays : printed[d] # Unset /\ d <= cardDay}
\* The next dated balance, today after the newest.
EndOf(d) == LET later == {e \in Dated : e > d} IN IF later = {} THEN cardDay ELSE Min(later)
IsNewest(d) == \A e \in Dated : e <= d

Period(d)   == Book(Between(uploaded, d, EndOf(d)))
Expected(d) == LET p == Period(d)
               IN  printed[d] + p.charges + p.fees + p.interest - p.payments - p.credits
Difference(d) == printed[EndOf(d)] - Expected(d)

\* Between is open at its start: the day before a month begins.
Estimate(from, to) ==
    LET owed == -AmountOf(Between(uploaded, from - 1, to)) IN IF owed > 0 THEN owed ELSE 0

Listed == closedOn = Unset \/ closedOn >= cardDay
OwedNow == IF Dated = {} THEN Estimate(MonthStart(cardDay), cardDay) ELSE Expected(Max(Dated))

----------------------------------------------------------------------------
(* Net worth: _credit_card_liability_details at an anchor: the end of today, or the start of  *)
(* a month's first day.                                                                       *)

Statement(onOrBefore) == {d \in CardDays : printed[d] # Unset /\ d <= onOrBefore}

\* Mutant: the statement's own day is counted again.
OwedSince_Inclusive(d, end) == -AmountOf(Between(uploaded, d - 1, end))

OwedSince(d, end) == -AmountOf(Between(uploaded, d, end))

\* date: the anchor's; end: the last day whose transactions count; start: of the window the
\* estimate covers.
LiabilityAt(date, end, start) ==
    IF closedOn # Unset /\ closedOn < date THEN 0
    ELSE IF Statement(date) = {} THEN Estimate(start, end)
    ELSE LET newest == Max(Statement(date)) IN printed[newest] + OwedSince(newest, end)

LiabilityNow == LiabilityAt(cardDay, cardDay, MonthStart(cardDay))
\* The month-end snapshot of the month before d's (SNAPSHOT_DAY 1).
LiabilityAtMonthEnd(d) == LiabilityAt(MonthStart(d), MonthStart(d) - 1, MonthBefore(d))

----------------------------------------------------------------------------
CardInit ==
    /\ cardDay = 1
    /\ happened = <<>>
    /\ uploaded = {}
    /\ printed = [d \in CardDays |-> Unset]
    /\ closedOn = Unset

CardNext ==
    \/ CardDayPasses
    \/ \E type \in CardTypes, x \in CardAmounts : Happen(type, x) \/ Happen(type, -x)
    \/ \E i \in OnCard : UploadRow(i) \/ RemoveRow(i)
    \/ \E d \in CardDays : StateBalance(d)
    \/ Close

CardSpec == CardInit /\ [][CardNext]_cardVars

----------------------------------------------------------------------------
\* "The running balance carries it forward to today, as
\* valuation.facts._credit_card_liability_details does" (card_ledger.py): whatever is uploaded,
\* removed, stated or closed and when, the card page and net worth have the card owe the same,
\* and a card only one of them lists owes nothing.  The month-end snapshot taken the morning
\* after has it owe that too, once a statement before it has dated the card.
CardsOweOneNumber ==
    LET first == MonthStart(cardDay)
    IN  /\ LiabilityNow = IF Listed THEN OwedNow ELSE 0
        /\ /\ cardDay = first /\ closedOn = Unset
           /\ Statement(cardDay) # {}
           /\ \A i \in uploaded : happened[i].day < cardDay
           => LiabilityAtMonthEnd(cardDay) = LiabilityNow

\* Between two printed balances the difference the page flags is what is missing from the
\* uploads of just those days, and after the newest what is missing is all that is wrong with
\* what the card is said to owe (card_ledger: Period.difference, owed_now).
FlagsAreGaps ==
    LET missing(d) == -AmountOf(Between(OnCard \ uploaded, d, EndOf(d)))
    IN  \A d \in Dated :
            IF IsNewest(d) THEN TrueOwed(cardDay) - OwedNow = missing(d)
            ELSE Difference(d) = missing(d)

\* What a card owes is one number, and what is wrong with it is flagged.
CardsAddUp == CardsOweOneNumber /\ FlagsAreGaps
===============================================================================

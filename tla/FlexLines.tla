------------------------------- MODULE FlexLines -------------------------------
(***************************************************************************)
(* The dated lines of IBKR Flex statements: cash ledger lines, trades and  *)
(* corporate actions.  Reports overlap, so every import replaces what it   *)
(* lists again.  A line with an IBKR id is known by its id, whatever       *)
(* became of its date and text; lines without one are told apart by their  *)
(* values and counted.  A store is a bag: the number of rows per line.     *)
(***************************************************************************)
EXTENDS Integers, Sequences, FiniteSets, SequencesExt

CONSTANTS
    Dates,     \* report dates
    Ids,       \* transactionID, ibExecID
    NoId,
    Texts,     \* what else tells two lines apart: currency, amount, code
    MaxLines   \* bound on the lines the broker has

ASSUME LinesAssumption ==
    /\ IsFiniteSet(Dates) /\ IsFiniteSet(Ids) /\ IsFiniteSet(Texts)
    /\ NoId \notin Ids

VARIABLES
    kind,      \* the section the lines are of
    broker,    \* the lines in the broker's books
    lines,     \* the account's rows
    unread     \* ids, and lines without one, that changed since a report had them

linesVars == <<kind, broker, lines, unread>>

Kinds == {"ledger", "trades", "actions"}
Line  == [id : Ids \cup {NoId}, day : Dates, text : Texts]
Book  == [Line -> Nat]

Of(i) == {l \in Line : l.id = i}
SameValues(l, m) == l.day = m.day /\ l.text = m.text
Times(report, l) == Cardinality({n \in DOMAIN report : report[n] = l})
Lists(report, i) == \E n \in DOMAIN report : report[n].id = i
Rows(book) == SumFunction(book)

\* Mutant: a line is replaced by its values, with an id as without one (#157).
AfterLedger_Values(book, report) ==
    [l \in Line |-> IF Times(report, l) > 0 THEN Times(report, l) ELSE book[l]]

\* _insert_cash_ledger_entries: all lines with a listed id give way to the
\* report's, each stored once; lines without one to as many as the report has.
AfterLedger(book, report) ==
    [l \in Line |->
        IF l.id = NoId
        THEN IF Times(report, l) > 0 THEN Times(report, l) ELSE book[l]
        ELSE IF ~Lists(report, l.id) THEN book[l]
             ELSE IF Times(report, l) > 0 THEN 1 ELSE 0]

\* _insert_trades: the last line with an id is the one that stays.
AfterTrades(book, report) ==
    [l \in Line |->
        IF l.id = NoId
        THEN IF Times(report, l) > 0 THEN Times(report, l) ELSE book[l]
        ELSE IF ~Lists(report, l.id) THEN book[l]
             ELSE IF report[SelectLastInSeq(report, LAMBDA m : m.id = l.id)] = l THEN 1 ELSE 0]

\* _insert_corporate_actions, one action after the other: each takes the place of the stored ones
\* with its id; without an id, of every stored one with its values.
Replaces(new, l) == IF new.id = NoId THEN SameValues(l, new) ELSE l.id = new.id

AfterActions(book, report) ==
    [l \in Line |->
        LET last == SelectLastInSeq(report, LAMBDA new : Replaces(new, l))
        IN  IF last = 0 THEN book[l] ELSE IF report[last] = l THEN 1 ELSE 0]

\* Rows that a statement's INSERTs leave.
After(book, report) ==
    CASE kind = "ledger" -> AfterLedger(book, report)
      [] kind = "trades" -> AfterTrades(book, report)
      [] kind = "actions" -> AfterActions(book, report)

-----------------------------------------------------------------------------
(* The broker *)

\* The lines of one transaction: a ledger transaction may have several.
Bodies(i, d) ==
    {{[id |-> i, day |-> d, text |-> t] : t \in T} :
        T \in {U \in SUBSET Texts : U # {} /\ (Cardinality(U) = 1 \/ kind = "ledger")}}

\* No two corporate actions of an account are alike; fills and charges may be.
MayBook(body) ==
    kind = "actions" =>
        \A l \in body, m \in Line : SameValues(l, m) /\ l.id # m.id => broker[m] = 0

Rebook(i, body) ==
    [l \in Line |-> IF l.id = i THEN IF l \in body THEN 1 ELSE 0 ELSE broker[l]]

\* A transaction is booked, or one that was is issued again on another day or
\* with another text.
Issue(i, body) ==
    /\ MayBook(body)
    /\ Rebook(i, body) # broker
    /\ Rows(Rebook(i, body)) <= MaxLines
    /\ broker' = Rebook(i, body)
    /\ unread' = unread \cup Of(i)
    /\ UNCHANGED <<kind, lines>>

\* A line without an id: one more of its like, or its first.
Charge(l) ==
    /\ MayBook({l})
    /\ kind = "actions" => broker[l] = 0
    /\ Rows(broker) < MaxLines
    /\ broker' = [broker EXCEPT ![l] = @ + 1]
    /\ unread' = unread \cup {l}
    /\ UNCHANGED <<kind, lines>>

\* The orders in which a report may list the broker's lines of the days in W; a
\* ledger report may list the lines in twice twice.
Copies(W, twice) ==
    UNION {{l} \X (1 .. broker[l] + (IF l \in twice THEN 1 ELSE 0)) : l \in {k \in Line : k.day \in W}}
Listings(W, twice) == {[n \in DOMAIN s |-> s[n][1]] : s \in SetToSeqs(Copies(W, twice))}

\* The statement of the days in W is imported.
Import(W, report) ==
    /\ lines' = After(lines, report)
    /\ unread' = {l \in unread : IF l.id = NoId THEN l.day \notin W ELSE ~Lists(report, l.id)}
    /\ UNCHANGED <<kind, broker>>

Repeated(W) == IF kind = "ledger" THEN SUBSET {l \in Line : l.id # NoId /\ l.day \in W /\ broker[l] > 0}
                                  ELSE {{}}

LinesInit ==
    /\ kind \in Kinds
    /\ broker = [l \in Line |-> 0] /\ lines = [l \in Line |-> 0]
    /\ unread = {}

LinesNext ==
    \/ \E i \in Ids, d \in Dates : \E body \in Bodies(i, d) : Issue(i, body)
    \/ \E l \in Of(NoId) : Charge(l)
    \/ \E W \in (SUBSET Dates) \ {{}} : \E twice \in Repeated(W) :
          \E report \in Listings(W, twice) : Import(W, report)

LinesSpec == LinesInit /\ [][LinesNext]_linesVars

-----------------------------------------------------------------------------

\* Whatever reports overlap, repeat or revise, in whatever order their lines
\* stand: the rows are the broker's lines as last reported, none of them
\* twice, none of them lost, and a transaction never in two versions (#157).
RowsAreTheBrokersLines ==
    /\ \A l \in Line \ unread : lines[l] = broker[l]
    /\ \A l \in Of(NoId) : lines[l] <= broker[l]
    /\ \A i \in Ids : \A l, m \in Of(i) :
          lines[l] > 0 /\ lines[m] > 0 => l.day = m.day /\ lines[l] = 1
================================================================================

----------------------------- MODULE MCImportJobs -----------------------------
(* Small instances of ImportJobs: what the files of an account may state.  *)
EXTENDS ImportJobs, TLC

CONSTANTS c1, c2, k1, d1, d2, n1, n2

OneClient  == {c1}
TwoClients == {c1, c2}
OneKey     == {k1}
OneDate    == {d1}
TwoDates   == {d1, d2}
TwoNumbers == {n1, n2}
Occurrences == 1 .. 4

\* A statement of n like transactions, of balances, of a number, of limits.
Statement(n, dates, number, lim) ==
    [tx |-> [k \in Keys |-> n], dates |-> dates, number |-> number,
     limits |-> lim, mapped |-> TRUE, suits |-> TRUE]
Unmapped(f) == [f EXCEPT !.mapped = FALSE]
Misplaced(f) == [f EXCEPT !.suits = FALSE]

\* Overlapping exports of transactions.
Exports == {Statement(n, {}, NoNumber, FALSE) : n \in 1 .. 2}
\* Transactions, limits, or balances of one or two dates naming either number.
Ledgers == {Statement(0, dates, number, FALSE) : dates \in {{d1}, {d1, d2}}, number \in {NoNumber, n1, n2}}
           \cup {Statement(n, {}, NoNumber, TRUE) : n \in 1 .. 2}
\* Balances of a date, in a known and in a new format.
Pair == {Statement(0, {d1}, NoNumber, FALSE), Unmapped(Statement(0, {d1}, NoNumber, FALSE))}
\* A card statement.
Card == {Statement(0, {}, NoNumber, TRUE)}
\* A bit of everything.
Mixed == {Statement(1, {d1}, n1, TRUE), Unmapped(Statement(2, {d1}, NoNumber, FALSE)),
          Misplaced(Statement(1, {}, NoNumber, FALSE))}

\* The requests without the runs that raise and the processes that die (MCUploads has both):
\* what is left of FairSpec where MaxFaults is 0.
CalmNext == \E c \in Clients :
    \/ Upload(c)
    \/ \E j \in Jobs : Register(c, j) \/ CheckRemoval(c, j)
    \/ RunStep(c) \/ RemoveStep(c) \/ FailReport(c)

CalmSpec == Init /\ [][CalmNext]_vars /\ \A c \in Clients : SF_vars(RunStep(c) \/ RemoveStep(c))
===============================================================================

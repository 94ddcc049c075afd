----------------------------- MODULE MCFlexImports -----------------------------
(* A small instance of FlexImports: two days.                            *)
EXTENDS FlexImports, TLC

CONSTANTS i1, i2, i3

TwoRuns   == {i1, i2}
ThreeRuns == {i1, i2, i3}
TwoDays == 1..2
RunSymmetry == Permutations(Runs)

Daily(d) == [from |-> d, to |-> d, positions |-> {d}, cash |-> {d}, nav |-> {d},
             invested |-> {d}, faulty |-> FALSE]

\* The stocks were sold: no positions, and the NAV says so.
Sold(d) == [Daily(d) EXCEPT !.positions = {}, !.invested = {}]

\* The parser missed an exchange rate.
Faulty(d) == [Daily(d) EXCEPT !.faulty = TRUE]

\* A backfill: NAV for the period, holdings for its end.
Backfill == [from |-> 1, to |-> 2, positions |-> {2}, cash |-> {2}, nav |-> {1, 2},
             invested |-> {1, 2}, faulty |-> FALSE]

Reports == {Sold(2), Faulty(2), Backfill}
Kept    == {Backfill}
================================================================================

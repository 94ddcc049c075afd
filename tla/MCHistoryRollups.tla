--------------------------- MODULE MCHistoryRollups ---------------------------
(* Small instances of HistoryRollups.                                      *)
EXTENDS HistoryRollups, TLC

CONSTANTS i1, i2, r1, r2, sgd, inr

OneImport      == {i1}
TwoImports     == {i1, i2}
OneRefresher   == {r1}
TwoRefreshers  == {r1, r2}
OneCurrency    == {sgd}
TwoCurrencies  == {sgd, inr}

SerialSymmetry == Permutations(TwoImports) \cup Permutations(TwoCurrencies)
PairSymmetry   == Permutations(TwoRefreshers)
===============================================================================

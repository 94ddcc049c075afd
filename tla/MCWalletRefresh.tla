---------------------------- MODULE MCWalletRefresh ----------------------------
(* Small instances of WalletRefresh.                                       *)
EXTENDS WalletRefresh, TLC

CONSTANTS r1, r2, r3, eth, base

ThreeRefreshes == {r1, r2, r3}
TwoRefreshes   == {r1, r2}
TwoChains      == {eth, base}

RefreshSymmetry == Permutations(Refreshes) \cup Permutations(Chains)
================================================================================

------------------------------- MODULE MCFigures -------------------------------
(***************************************************************************)
(* A small instance of the household's net worth at a date.                *)
(***************************************************************************)
EXTENDS DashboardPages

\* The account's shares grow and are sold, its price jumps past what a quote may move it by, and
\* its cash goes below zero.
MCHeld  == <<1, 2, 0>>
MCPrice == <<2, 5, 4>>
MCCash  == <<3, -1, 9>>
MCSpent == <<1, 2, 4>>
MCCoins == <<0, 3, 1>>
MCStables == <<2, 2, 5>>

\* The ghost is of the last step only, and no step reads it.
NoGhost == <<facts, steps>>

MCSpec == Init /\ [][Next]_vars
================================================================================

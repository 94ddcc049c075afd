------------------------------ MODULE FlexReports ------------------------------
(***************************************************************************)
(* What an IBKR Flex statement speaks for.  A statement carries NAV for    *)
(* every day of its period, but positions and cash for the period's end    *)
(* only; an empty section at the period's end means there are none.        *)
(* Amounts are left out: a statement is the days it has rows for.          *)
(***************************************************************************)
EXTENDS Integers, FiniteSets

CONSTANT Days   \* report dates, numbered

ASSUME DaysAssumption == Days \subseteq Int

FactTables == {"positions", "cash", "nav"}

\* A parsed statement: its period, the days each section has rows for, the
\* days whose NAV counts stocks, and whether the parser found an error in it.
Statement == [from : Days, to : Days, positions : SUBSET Days, cash : SUBSET Days,
              nav : SUBSET Days, invested : SUBSET Days, faulty : BOOLEAN]

\* The days on which s says what table t holds.
Scope(s, t) ==
    CASE t = "nav" -> s.nav
      [] t \in {"positions", "cash"} -> s[t] \cup ({s.to} \cap s.nav)
      [] t = "completeness" -> s.nav \cup s.positions \cup s.cash

\* Days whose holdings, and not only the NAV, are in the statement.
Holdings(s) == Scope(s, "positions") \cup Scope(s, "cash")

\* _validate_statement
Valid(s) ==
    /\ ~s.faulty
    /\ s.nav # {}
    /\ \A d \in s.nav : (\A e \in s.nav : e <= d) /\ d \in s.invested => s.positions # {}
================================================================================

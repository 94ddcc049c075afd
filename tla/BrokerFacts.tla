------------------------------ MODULE BrokerFacts ------------------------------
(***************************************************************************)
(* What the imports of a broker account promise about its stored facts: an *)
(* import happens as a whole or not at all, and each table shows, for each *)
(* day, what the latest import that speaks for that day said of it.        *)
(***************************************************************************)
EXTENDS FlexReports

CONSTANTS Runs

VARIABLES
    facts,     \* per table, the run that gave each day's rows
    imported   \* runs that are over and stand

vars == <<facts, imported>>

Init ==
    /\ facts = [t \in FactTables |-> {}]
    /\ imported = {}

\* Run r stores statement s.
Import(r, s) ==
    /\ r \in Runs \ imported
    /\ Valid(s)
    /\ imported' = imported \cup {r}
    /\ facts' = [t \in FactTables |->
                    {f \in facts[t] : f.day \notin Scope(s, t)}
                    \cup {[day |-> d, run |-> r] : d \in s[t]}]
================================================================================

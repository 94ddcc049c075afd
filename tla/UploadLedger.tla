----------------------------- MODULE UploadLedger -----------------------------
(***************************************************************************)
(* What uploads and removals promise about the dated balances of an        *)
(* account and its link to an account number: each slot shows the latest   *)
(* import that covers it and was not removed, and imports are undone in    *)
(* the reverse order, slot by slot.                                        *)
(***************************************************************************)
CONSTANTS Jobs, Slots, NoJob

VARIABLES
    live,     \* imports that stand
    earlier,  \* the standing imports each of them came after
    covers,   \* the slots each of them wrote
    shown     \* the import each slot shows

vars == <<live, earlier, covers, shown>>

\* The latest of the imports S that cover slot s.
LatestOf(S, s) ==
    IF \A j \in S : s \notin covers[j] THEN NoJob
    ELSE CHOOSE j \in S :
            /\ s \in covers[j]
            /\ \A i \in S \ {j} : s \in covers[i] => i \in earlier[j]

Init ==
    /\ live = {} /\ earlier = [j \in Jobs |-> {}]
    /\ covers = [j \in Jobs |-> {}] /\ shown = [s \in Slots |-> NoJob]

Import(j) ==
    /\ j \in Jobs \ live
    /\ live' = live \cup {j}
    /\ earlier' = [earlier EXCEPT ![j] = live]
    /\ \E S \in SUBSET Slots :
          /\ covers' = [covers EXCEPT ![j] = S]
          /\ shown' = [s \in Slots |-> IF s \in S THEN j ELSE shown[s]]

\* An import some later one covers must wait for that one to be undone.
Undo(j) ==
    /\ j \in live
    /\ \A i \in live : j \in earlier[i] => covers[i] \cap covers[j] = {}
    /\ live' = live \ {j}
    /\ earlier' = [i \in Jobs |-> IF i = j THEN {} ELSE earlier[i] \ {j}]
    /\ covers' = [covers EXCEPT ![j] = {}]
    /\ shown' = [s \in Slots |-> IF s \in covers[j] THEN LatestOf(live \ {j}, s) ELSE shown[s]]

Next == \E j \in Jobs : Import(j) \/ Undo(j)

Spec == Init /\ [][Next]_vars
===============================================================================

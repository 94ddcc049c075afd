------------------------------- MODULE MCUploads -------------------------------
(***************************************************************************)
(* Small instances of the two sides of an upload, checked in one run: its  *)
(* job, its transactions and its removal (ImportJobs), and the positions   *)
(* it states (PositionUploads).  A behaviour is one of one of them, and    *)
(* the other stays as it was in the beginning.                             *)
(***************************************************************************)
EXTENDS MCImportJobs, PositionUploads

VARIABLE part

\* One account's shares of two days, of which the second has none, and a day again with fewer;
\* another account's.
Holdings == {[account |-> "a", date |-> 1, symbols |-> {"s", "t"}],
             [account |-> "a", date |-> 1, symbols |-> {"s"}],
             [account |-> "a", date |-> 2, symbols |-> {}],
             [account |-> "b", date |-> 1, symbols |-> {"s", "t"}]}

MCInit == /\ Init /\ UploadsInit
          /\ part \in {"jobs", "positions"}

OfJobs      == part = "jobs"      /\ UNCHANGED <<part, uploadVars>>
OfPositions == part = "positions" /\ UNCHANGED <<part, vars>>

\* The actions of the two, one by one: TLC counts what each one does.
MCNext ==
    \/ OfJobs /\ \E c \in Clients : Upload(c) \/ \E j \in Jobs : Register(c, j) \/ CheckRemoval(c, j)
    \/ OfJobs /\ \E c \in Clients : RunStep(c) \/ RemoveStep(c) \/ FailReport(c)
    \/ OfJobs /\ \E c \in Clients : FailRun(c)
    \/ OfJobs /\ \E c \in Clients : Crash(c)
    \/ OfPositions /\ \E c \in Uploaders, f \in Uploads : Send(c, f)
    \/ OfPositions /\ \E c \in Uploaders : OwnAccount(c)
    \/ OfPositions /\ \E c \in Uploaders : Connect(c)
    \/ OfPositions /\ \E c \in Uploaders : Reconnect(c)
    \/ OfPositions /\ \E c \in Uploaders : Hold(c)
    \/ OfPositions /\ \E c \in Uploaders : NewHold(c)
    \/ OfPositions /\ \E c \in Uploaders, s \in {"s", "t"} : NextPosition(c, s)
    \/ OfPositions /\ \E c \in Uploaders : LinkInstrument(c)
    \/ OfPositions /\ \E c \in Uploaders : NewInstrument(c)
    \/ OfPositions /\ \E c \in Uploaders : Import(c)
    \/ OfPositions /\ \E c \in Uploaders : FailStatement(c)
    \/ OfPositions /\ \E c \in Uploaders : Refuse(c)
    \/ OfPositions /\ \E c \in Uploaders : Raise(c)
    \/ OfPositions /\ \E c \in Uploaders : Record(c)
    \/ OfPositions /\ \E c \in Uploaders : Die(c)

MCSpec == MCInit /\ [][MCNext]_<<part, vars, uploadVars>>
================================================================================

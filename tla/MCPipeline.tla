------------------------------ MODULE MCPipeline ------------------------------
(***************************************************************************)
(* A small instance of the task flow, and one of the verification suite    *)
(* its nodes run, checked in one run: a behaviour is one of one of them,   *)
(* and the variables of the other stay at their initial values.            *)
(***************************************************************************)
EXTENDS TaskPipeline, VerificationSuite

VARIABLE part

\* The default suite, with two commands of a family for four and five.
Commands == CommandsOf({"backend", "frontend", "pipeline"},
                       [backend |-> 2, frontend |-> 2, pipeline |-> 1])

MCInit == FlowInit /\ SuiteInit /\ part \in {"flow", "suite"}

OfFlow  == part = "flow" /\ UNCHANGED <<part, suiteVars>>
OfSuite == part = "suite" /\ UNCHANGED <<part, flowVars>>

\* The actions of the two, one by one: TLC counts what each one does.
MCNext ==
    \/ OfFlow /\ Prepare
    \/ OfFlow /\ Plan
    \/ OfFlow /\ AgentRun
    \/ OfFlow /\ GatesRun
    \/ OfFlow /\ Build
    \/ OfFlow /\ AgentReview
    \/ OfFlow /\ EscalationReview
    \/ OfFlow /\ ReworkAnalysis
    \/ OfFlow /\ ReworkImplementation
    \/ OfFlow /\ Ship
    \/ OfFlow /\ AskApproval
    \/ OfFlow /\ AskReview
    \/ OfFlow /\ Crash
    \/ OfFlow /\ \E answer \in Answers : Resume(answer)
    \/ OfFlow /\ \E n \in Entries : StepCommand(n)
    \/ OfFlow /\ \E n \in Entries : Restore(n)
    \/ OfFlow /\ All
    \/ OfFlow /\ SalvagePlan
    \/ OfFlow /\ Export
    \/ OfFlow /\ Edit
    \/ OfSuite /\ Skip
    \/ OfSuite /\ Passes
    \/ OfSuite /\ InfraFails
    \/ \E s \in Signatures : OfSuite /\ CodeFails(s)
    \/ \E s \in Signatures : OfSuite /\ CodeIsFixed(s)
    \/ OfSuite /\ RoundEnds

MCSpec == MCInit /\ [][MCNext]_<<part, flowVars, suiteVars>>
===============================================================================

-------------------------- MODULE VerificationSuite --------------------------
(* One run of the task flow's verification suite                            *)
(* (orchestration/services/verification.py): the commands of the backend,   *)
(* frontend and pipeline families in that order, each tried a few times, an *)
(* automatic fix of the worktree between two tries, and another round from  *)
(* the first family a fix was for.                                          *)
EXTENDS Integers, Sequences, FiniteSets, FiniteSetsExt

CONSTANTS
    Suite,        \* the family of each command, in order
    Skipped,      \* commands that are not run: e2e without a Playwright config
    Fixes,        \* whether on_code_retry_fix is given
    MaxAttempts,  \* max_attempts
    Signatures    \* what tells one code failure of a command from another

ASSUME SuiteAssumption ==
    /\ Suite \in Seq(STRING) /\ Suite # <<>>
    /\ Skipped \subseteq DOMAIN Suite
    /\ Fixes \in BOOLEAN
    /\ MaxAttempts \in Nat \ {0}

\* _verification_commands_for_areas: of each family asked for, so many commands, in this order.
CommandsOf(areas, many) ==
    LET of(f) == IF f \in areas THEN [i \in 1..many[f] |-> f] ELSE <<>>
    IN of("backend") \o of("frontend") \o of("pipeline")

VARIABLES
    round,     \* suite_round
    start,     \* start_index
    at,        \* the command that is running; past the last one when the round is over
    attempt,   \* its attempt
    repaired,  \* signatures of this command that a fix was applied for
    fixed,     \* families a fix was applied for in this round
    results,   \* round_results; stale is a ghost: a fix came after the command ran
    finished   \* the evidence is returned

suiteVars == <<round, start, at, attempt, repaired, fixed, results, finished>>

MaxRounds == Max({2, MaxAttempts + 1})

FamilyStart(f) == Min({i \in DOMAIN Suite : Suite[i] = f})

AnyFailures == \E i \in DOMAIN results : results[i].status = "fail"

SuiteInit ==
    /\ round = 1 /\ start = 1 /\ at = 1 /\ attempt = 1
    /\ repaired = {} /\ fixed = {} /\ results = <<>> /\ finished = FALSE

Running == ~finished /\ at <= Len(Suite)

\* The command is over; the next one starts at its first attempt.
Report(status) ==
    /\ results' = Append(results, [status |-> status, stale |-> FALSE])
    /\ at' = at + 1
    /\ attempt' = 1 /\ repaired' = {}
    /\ UNCHANGED <<round, start, fixed, finished>>

Skip   == Running /\ at \in Skipped /\ Report("skip")
Passes == Running /\ at \notin Skipped /\ Report("pass")

\* An infra failure is retried once, whatever the attempts before it met.
InfraFails ==
    /\ Running /\ at \notin Skipped
    /\ IF attempt < Min({MaxAttempts, 2})
       THEN attempt' = attempt + 1
            /\ UNCHANGED <<round, start, at, repaired, fixed, results, finished>>
       ELSE Report("fail")

\* A code failure that no fix is tried for, or whose fix raises.
CodeFails(s) == Running /\ at \notin Skipped /\ Report("fail")

\* The worktree is changed, and the command tried again.
CodeIsFixed(s) ==
    /\ Running /\ at \notin Skipped
    /\ Fixes /\ attempt < MaxAttempts /\ s \notin repaired
    /\ attempt' = attempt + 1
    /\ repaired' = repaired \cup {s}
    /\ fixed' = fixed \cup {Suite[at]}
    /\ results' = [i \in DOMAIN results |->
                     [results[i] EXCEPT !.stale = @ \/ i >= FamilyStart(Suite[at])]]
    /\ UNCHANGED <<round, start, at, finished>>

\* Mutant: the next round starts with the last family a fix was for.
RestartAt_Last == Max({FamilyStart(f) : f \in fixed})

RestartAt == Min({FamilyStart(f) : f \in fixed})

RoundEnds ==
    /\ ~finished /\ at > Len(Suite)
    /\ IF AnyFailures \/ fixed = {} \/ round >= MaxRounds
       THEN /\ finished' = TRUE
            /\ UNCHANGED <<round, start, at, attempt, repaired, fixed, results>>
       ELSE /\ round' = round + 1
            /\ start' = RestartAt
            /\ at' = RestartAt
            /\ results' = SubSeq(results, 1, RestartAt - 1)
            /\ fixed' = {}
            /\ UNCHANGED <<attempt, repaired, finished>>

SuiteNext ==
    \/ Skip \/ Passes \/ InfraFails \/ RoundEnds
    \/ \E s \in Signatures : CodeFails(s) \/ CodeIsFixed(s)

SuiteSpec == SuiteInit /\ [][SuiteNext]_suiteVars

-----------------------------------------------------------------------------
\* What a suite that passes vouches for.
Vouched ==
    /\ Len(results) = Len(Suite)
    /\ \A i \in DOMAIN results : results[i].status = "skip" \/ ~results[i].stale

\* "A code-mutating fix invalidates the impacted verification family and everything
\* after it" (verification.py, verification_suite_restarted): every result of a suite
\* that passes is of a run after the last fix of its family or of one before it,
\* unless the rounds ran out.
PassesFollowFixes ==
    finished /\ ~AnyFailures /\ ~(round = MaxRounds /\ fixed # {}) => Vouched

\* The same without the exception: with the rounds used up the last fix is not followed
\* by another round, and the suite passes all the same.
PassesFollowEveryFix == finished /\ ~AnyFailures => Vouched
===============================================================================

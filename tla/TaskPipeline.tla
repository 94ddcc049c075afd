----------------------------- MODULE TaskPipeline -----------------------------
(* The task flow (orchestration/): a graph of nodes that read and write one *)
(* pipeline state, checkpointed after every node.  An operator's commands   *)
(* start a process at some node; a node may stop for an answer of a person, *)
(* which a later process gives it by running it again; a process may be     *)
(* killed, or a node raise, at any point, which leaves the checkpoint as it *)
(* was and the worktree as far as the node had come.                        *)
(*                                                                          *)
(* Content is what the nodes tell apart: a worktree is unchanged, changed   *)
(* where planned, or also in a file outside the plan or a restricted one.   *)
(* What the models, the suites and the people say is any of their answers.  *)
EXTENDS Integers, Sequences, FiniteSets, FiniteSetsExt

CONSTANTS
    None,
    Trees,        \* what a worktree may hold
    MaxRework,    \* cfg.max_rework_cycles
    Entries,      \* the nodes the operator's commands are used to start at
    MaxMoves, MaxReviews  \* bounds: what people do, and the reviews of a pipeline

Verdicts == {"approved", "needs_fixes"}

\* The choices of --restart-at.
Restarts == {"prepare", "plan", "human_approval_gate", "build", "agent_review", "human_review",
             "rework_analysis", "rework_implementation", "agent_run", "deterministic_gates",
             "ship"}

ASSUME FlowAssumption ==
    /\ MaxRework \in Nat
    /\ {"clean", "planned"} \subseteq Trees
    /\ Trees \subseteq {"clean", "planned", "extra", "restricted"}
    /\ Entries \subseteq Restarts
    /\ None \notin Verdicts \cup Trees \cup Restarts \cup {"green", "red", "unverified"}

VARIABLES
    tip,      \* the pipeline in the latest checkpoint
    last,     \* the newest one in the thread's history that is usable
    next,     \* the node that runs next
    gate,     \* whether it stopped for a person's answer
    running,  \* whether a process is at it
    tree,     \* the worktree's changes
    plan,     \* the immutable region of the task file
    saved,    \* the exported state
    moves     \* commands, answers and edits so far

flowVars == <<tip, last, next, gate, running, tree, plan, saved, moves>>

\* make_initial_state.  direct: the requested entrypoint is ship.  Two ghosts: refused, the
\* last word of the gates was no; put, a restore put it at a node past the reviewer.
Fresh == [direct |-> FALSE, status |-> "not_started", blocked |-> FALSE, plan |-> None,
          approval |-> None, agent |-> None, build |-> None,
          reviews |-> <<>>, active |-> 0, reworks |-> <<>>, rework |-> 0, allowed |-> {},
          refused |-> FALSE, put |-> FALSE]

FlowInit ==
    /\ tip = Fresh /\ last = Fresh /\ next = "end" /\ gate = FALSE /\ running = FALSE
    /\ tree = "clean" /\ plan = 1 /\ saved = None
    /\ moves = 0

-----------------------------------------------------------------------------
(* What the nodes read of a pipeline.                                       *)

Review(p) == p.reviews[p.active]

\* assert_matches_planned_hash
PlanHolds(p) == p.plan = plan

\* What the policy refuses whatever was planned: a restricted file or a secret.
Restricted(t) == t = "restricted"

\* review_allowed_paths against the changed files: which of them nobody allowed.
OutOfScope(p, t) == IF t \in {"extra", "restricted"} \ p.allowed THEN t ELSE None

\* get_rework_context_review_cycle: the newest review up to the active one that is not
\* about extra files.
ContextReview(p) ==
    LET plain == {i \in 1..p.active : p.reviews[i].extra = None}
    IN IF Review(p).extra = None \/ plain = {} THEN p.active ELSE Max(plain)

\* get_review_source_verification
SourceSuite(p) ==
    IF p.rework # 0 /\ p.reworks[p.rework].suite # None THEN p.reworks[p.rework].suite
    ELSE p.build

\* get_active_required_checks: of the review the active rework came from.
CheckedReview(p) ==
    IF p.rework # 0 THEN p.reworks[p.rework].source
    ELSE IF p.active # 0 THEN ContextReview(p) ELSE 0

RequiredChecks(p) == CheckedReview(p) # 0 /\ p.reviews[CheckedReview(p)].checks

\* get_unresolved_required_checks
Unresolved(p) == RequiredChecks(p) /\ ~(p.rework # 0 /\ p.reworks[p.rework].resolved)

\* effective_agent_decision
AgentDecision(c) == IF c.escalation # None THEN c.escalation ELSE c.agent

-----------------------------------------------------------------------------
(* What follows a node.                                                     *)

AfterAgentRun(p) == IF p.status = "blocked" THEN "end" ELSE "deterministic_gates"

ReworkOrHuman(p) == IF Len(p.reworks) >= MaxRework THEN "human_review" ELSE "rework_analysis"

AfterAgentReview(p) ==
    IF p.active = 0 \/ Review(p).agent = None THEN "end"
    ELSE IF Review(p).high THEN "escalation_review"
    ELSE IF Review(p).agent = "approved" THEN "human_review"
    ELSE ReworkOrHuman(p)

AfterEscalation(p) ==
    IF Review(p).escalation = "approved" THEN "human_review" ELSE ReworkOrHuman(p)

AfterHumanReview(p) ==
    CASE Review(p).status = "scope_approved" -> "agent_review"
      [] Review(p).status = "approved"       -> "ship"
      [] OTHER                               -> "rework_analysis"

AfterRework(p) ==
    IF p.active # 0 /\ Review(p).status = "scope_gate_pending" /\ Review(p).rework = p.rework
    THEN "human_review"
    ELSE IF p.reworks[p.rework].status = "blocked" THEN "end" ELSE "agent_review"

-----------------------------------------------------------------------------
(* Steps of a process.                                                      *)

At(node) == running /\ next = node

\* The node returns: its pipeline is the checkpoint, and the route is taken.
Return(p, n) ==
    /\ tip' = p /\ last' = p
    /\ next' = n /\ running' = (n # "end")
    /\ gate' = FALSE
    /\ UNCHANGED <<plan, saved>>

\* interrupt: nothing of the node is kept.
WaitForPerson ==
    /\ gate' = TRUE /\ running' = FALSE
    /\ UNCHANGED <<tip, last, next, tree, plan, saved>>

\* A raise or a kill.  A node that lets a model write leaves the worktree changed.
Crash ==
    /\ running
    /\ running' = FALSE
    /\ IF next \in {"agent_run", "build", "rework_implementation"}
       THEN tree' \in Trees
       ELSE UNCHANGED tree
    /\ UNCHANGED <<tip, last, next, gate, plan, saved, moves>>

\* Nodes that do not write to the worktree.
Reads == UNCHANGED tree

\* ensure_clean_worktree_except
IsClean == tree = "clean"

\* The feature branch is checked out.
Prepare ==
    /\ At("prepare") /\ IsClean
    /\ Return([tip EXCEPT !.status = "running"], "agent_run")
    /\ Reads /\ UNCHANGED moves

Plan ==
    /\ At("plan")
    /\ Return([tip EXCEPT !.status = "running", !.plan = plan], "agent_run")
    /\ Reads /\ UNCHANGED moves

\* The plan's approval.  (The other gate of this node, more retries for a build, needs a
\* build that asked for them; see Build.)
HumanApproval(answer) ==
    /\ next = "human_approval_gate"
    /\ Return([tip EXCEPT !.approval = answer.decision,
                          !.status = IF answer.decision = "approved" THEN "running" ELSE "blocked"],
              IF answer.decision = "approved" THEN "build" ELSE "end")
    /\ Reads

\* agent_run: blockers are cleared first; a restricted file, a contradiction or a failed
\* provider blocks and keeps the output of an earlier run.
AgentRun ==
    /\ At("agent_run") /\ UNCHANGED moves
    /\ \E t \in Trees :
          /\ tree' = t
          /\ LET p == [tip EXCEPT !.blocked = FALSE, !.refused = FALSE]
             IN \/ LET b == [p EXCEPT !.status = "blocked", !.blocked = TRUE]
                   IN Return(b, AfterAgentRun(b))
                \/ /\ ~Restricted(t)
                   /\ \E output \in {"sound", "risky", "unsound"} :
                        LET a == [p EXCEPT !.status = "running", !.plan = plan, !.agent = output]
                        IN Return(a, AfterAgentRun(a))

\* Mutant: a rejection by a person leaves no blocker.
Refuse_Quietly(p, suite) ==
    [p EXCEPT !.build = suite, !.status = "blocked", !.blocked = suite = "red", !.refused = TRUE]

\* The gates' no: the build output is recorded, with a blocker.
Refuse(p, suite) ==
    [p EXCEPT !.build = suite, !.status = "blocked", !.blocked = TRUE, !.refused = TRUE]

\* deterministic_gates, from its start, also when it is resumed with an answer: the suite,
\* the policy, the intent, then a person if the agent flagged a risk.
Gates(answer) ==
    /\ next = "deterministic_gates"
    /\ tip.agent # None
    /\ \E suite \in {"green", "red"} :
         IF suite = "red" \/ tip.agent = "unsound" \/ Restricted(tree)
         THEN /\ Return(Refuse(tip, suite), "end")
              /\ Reads
         ELSE IF tip.agent = "risky" /\ answer = None THEN WaitForPerson
         ELSE /\ IF tip.agent = "risky" /\ answer # None /\ answer.decision = "needs_fixes"
                 THEN Return(Refuse(tip, suite), "end")
                 ELSE Return([tip EXCEPT !.build = suite, !.status = "waiting_for_human",
                                         !.blocked = FALSE, !.refused = FALSE], "end")
              /\ Reads

\* The builder fails before it returned, or the stage after it did.
FailedBuilds(p) == {[p EXCEPT !.build = b, !.status = "blocked", !.blocked = TRUE] :
                       b \in {None, "unverified"}}

\* _validate_build_output: something in the planned paths was changed.
IsBuilt(t) == t # "clean"

\* The builder's work and its suite.  A build that fails asks for more retries, and the
\* route after it has no edge to the gate that would grant them (graph.py:95): it raises.
Build ==
    /\ At("build") /\ UNCHANGED moves
    /\ tip.approval = "approved"
    /\ \E t \in Trees :
          /\ tree' = t
          /\ \/ \E p \in FailedBuilds(tip) : Return(p, "end")
             \/ /\ IsBuilt(t)
                /\ Return([tip EXCEPT !.build = "green", !.status = "running"], "agent_review")

\* A review of the present worktree: after the suite, and after the checks a person
\* required, a model decides.
NewReview(p, decision, high) ==
    [print |-> <<p.rework, tree, SourceSuite(p), OutOfScope(p, tree)>>,
     rework |-> p.rework, extra |-> OutOfScope(p, tree),
     agent |-> decision, high |-> high, escalation |-> None, escalated |-> None,
     human |-> None, checks |-> FALSE,
     status |-> decision]

AddReview(p, c) == [p EXCEPT !.reviews = Append(@, c), !.active = Len(p.reviews) + 1]

\* Mutant: only the suites are looked at.
MustFix_Suites(p, suite) == SourceSuite(p) = "red" \/ suite = "red"

\* Whether the review is decided without a model.
MustFix(p, suite) == SourceSuite(p) = "red" \/ suite = "red" \/ Unresolved(p)

\* The reviewer's decision, and whether a second one is asked: a review that escalates is one
\* of needs_fixes with a high risk, which goes the same way.
Decisions(p, suite) ==
    IF MustFix(p, suite) THEN {<<"needs_fixes", FALSE>>}
    ELSE {<<"needs_fixes", FALSE>>, <<"needs_fixes", TRUE>>} \cup
         IF p.build = "red" THEN {}
         ELSE {<<"approved", FALSE>>, <<"approved", TRUE>>}

SameReview(p) ==
    /\ p.active # 0 /\ Review(p).agent # None
    /\ Review(p).print = <<p.rework, tree, SourceSuite(p), OutOfScope(p, tree)>>

AgentReview ==
    /\ At("agent_review") /\ UNCHANGED moves /\ Reads
    /\ LET p == [tip EXCEPT !.status = "running"]
       IN IF SameReview(p) THEN Return(p, AfterAgentReview(p))
          ELSE /\ Len(p.reviews) < MaxReviews
               /\ \E suite \in {"green", "red"} : \E d \in Decisions(p, suite) :
                    LET q == AddReview(p, NewReview(p, d[1], d[2]))
                    IN Return(q, AfterAgentReview(q))

EscalationReview ==
    /\ At("escalation_review") /\ UNCHANGED moves /\ Reads
    /\ LET p == [tip EXCEPT !.status = "running"]
           c == Review(p)
       IN IF c.escalation # None /\ c.escalated = SourceSuite(p)
          THEN Return(p, AfterEscalation(p))
          ELSE \E d \in IF SourceSuite(p) = "red" \/ Unresolved(p) THEN {"needs_fixes"}
                        ELSE Verdicts :
                 LET q == [p EXCEPT !.reviews[p.active] =
                             [c EXCEPT !.escalation = d, !.escalated = SourceSuite(p),
                                       !.status = IF d = "approved" THEN d ELSE "needs_fixes"]]
                 IN Return(q, AfterEscalation(q))

\* human_review with its answer: about extra files a rework left, or about the review.
HumanReview(answer) ==
    /\ next = "human_review" /\ Reads
    /\ tip.active # 0
    /\ LET c == Review(tip)
           allowed == IF answer.decision = "approved" /\ c.extra # None
                      THEN tip.allowed \cup {c.extra} ELSE tip.allowed
           said == IF AgentDecision(c) = "approved" THEN answer.decision ELSE "needs_fixes"
           with(d, r) == [tip EXCEPT !.allowed = allowed, !.status = d, !.reviews[tip.active] = r]
           p == IF c.status # "scope_gate_pending"
                THEN with(said, [c EXCEPT !.human = answer.decision, !.checks = answer.checks,
                                          !.status = said])
                ELSE IF answer.decision = "approved"
                THEN with("running", [c EXCEPT !.status = "scope_approved"])
                ELSE with("needs_fixes", [c EXCEPT !.status = "needs_fixes"])
       IN /\ c.status = "scope_gate_pending" \/ c.agent # None
          /\ Return(p, AfterHumanReview(p))

\* What an analysis answers: the review, the one it is really about, and what was required.
AnalysisPrint(p) == <<p.active, ContextReview(p), p.reviews[ContextReview(p)], RequiredChecks(p)>>

AddRework(p, r) == [p EXCEPT !.reworks = Append(@, r), !.rework = Len(p.reworks) + 1]

ReworkAnalysis ==
    /\ At("rework_analysis") /\ UNCHANGED moves /\ Reads
    /\ PlanHolds(tip) /\ tip.active # 0
    /\ LET p == [tip EXCEPT !.status = "running"]
           same == p.rework # 0 /\ p.reworks[p.rework].print = AnalysisPrint(p)
                   /\ p.reworks[p.rework].suite = None
           cycle == [source |-> ContextReview(p), print |-> AnalysisPrint(p), suite |-> None,
                     resolved |-> FALSE, status |-> "analysis_complete"]
       IN Return(IF same THEN p
                 ELSE AddRework(p, cycle),
                 "rework_implementation")

\* _record_scope_gate_review: the pending one of this rework, or a new one.
OpenScopeGate(p, out) ==
    IF p.active # 0 /\ Review(p).status = "scope_gate_pending" /\ Review(p).rework = p.rework
    THEN [p EXCEPT !.reviews[p.active].extra = out]
    ELSE AddReview(p, [NewReview(p, None, FALSE) EXCEPT
                          !.print = None, !.extra = out, !.status = "scope_gate_pending"])

\* The rework's work, its fixes and its suite.  Files nobody allowed open a review of their
\* own that only a person answers.
ReworkImplementation ==
    /\ At("rework_implementation") /\ UNCHANGED moves
    /\ PlanHolds(tip) /\ tip.rework # 0 /\ Len(tip.reviews) < MaxReviews
    /\ \E t \in Trees \ {"clean"}, suite \in {"green", "red"}, resolved \in BOOLEAN :
         LET out == OutOfScope(tip, t)
             bad == out # None \/ suite = "red"
             r == [tip.reworks[tip.rework] EXCEPT
                      !.suite = suite, !.resolved = resolved,
                      !.status = IF bad THEN "blocked" ELSE "implementation_complete"]
             done == [tip EXCEPT !.status = IF bad THEN "blocked" ELSE "running",
                                 !.blocked = @ \/ bad, !.reworks[tip.rework] = r]
             p == IF out = None THEN done ELSE OpenScopeGate(done, out)
         IN /\ tree' = t
            /\ Return(p, AfterRework(p))

ShipRefuses(p) == p.agent = None \/ p.blocked \/ p.build # "green"

\* The commit takes the files of agent_run's output; others may stay behind.
LeftBehind == {"clean", tree}

Ship ==
    /\ At("ship") /\ UNCHANGED moves
    /\ PlanHolds(tip) /\ ~ShipRefuses(tip)
    /\ Return([tip EXCEPT !.status = "shipped"], "end")
    /\ tree' \in LeftBehind

\* A node with a gate stops the first time it is run.
GatesRun == At("deterministic_gates") /\ Gates(None) /\ UNCHANGED moves

AskApproval == At("human_approval_gate") /\ WaitForPerson /\ UNCHANGED moves

AskReview ==
    /\ At("human_review") /\ WaitForPerson /\ UNCHANGED moves
    /\ tip.active # 0
    /\ Review(tip).status = "scope_gate_pending" \/ Review(tip).agent # None

-----------------------------------------------------------------------------
(* The operator's commands, when no process is running.                     *)

Move == moves < MaxMoves /\ moves' = moves + 1

Answers == {answer \in [decision : Verdicts, checks : BOOLEAN] :
              answer.checks => answer.decision = "needs_fixes"}

\* resume: the gate's node runs again, from its start, with the answer.
Resume(answer) ==
    /\ ~running /\ gate /\ Move
    /\ HumanApproval(answer) \/ HumanReview(answer) \/ Gates(answer)

\* _is_usable_pipeline_state: anything but a pipeline no node has returned.
IsUsable(p) == p.status # "not_started"

\* A process is started with this pipeline at this node (dispatch).
Invoke(p, n) ==
    /\ ~running /\ Move
    /\ tip' = [p EXCEPT !.direct = n = "ship"]
    /\ last' = IF IsUsable(p) THEN tip' ELSE last
    /\ next' = n /\ gate' = FALSE /\ running' = TRUE
    /\ UNCHANGED <<tree, plan, saved>>

\* load_existing_pipeline_state, or make_initial_state
Existing == IF IsUsable(last) THEN last ELSE Fresh

\* STEP_ENTRYPOINT_MAP
Steps == {"prepare", "plan", "build", "agent_run", "deterministic_gates", "agent_review",
          "rework_analysis", "ship"}

StepCommand(n) == n \in Steps /\ Invoke(Existing, n)

All == Invoke(Fresh, "prepare")

\* The plan of the latest planner session.
SalvagePlan ==
    Invoke([Existing EXCEPT !.plan = plan, !.status = "running"], "human_approval_gate")

\* export-state, with the gate it waits at.
Export ==
    /\ ~running /\ Move
    /\ saved' = [pipeline |-> IF gate THEN [tip EXCEPT !.status = "waiting_for_human"] ELSE tip,
                 gate |-> IF gate THEN next ELSE None]
    /\ UNCHANGED <<tip, last, next, gate, running, tree, plan>>

\* from_export: only the status is reset; a person's gate is restored as the one exported.
Restore(n) ==
    LET gates == {"human_review", "human_approval_gate"}
        p     == saved.pipeline
        node  == IF n \in gates /\ saved.gate \in gates THEN saved.gate ELSE n
    IN /\ saved # None
       /\ Invoke([p EXCEPT !.status = IF @ \in {"waiting_for_human", "failed", "blocked"}
                                      THEN "running" ELSE @,
                           !.put = @ \/ (/\ node \in {"human_review", "rework_implementation"}
                                         /\ node # saved.gate)],
                 node)

\* Someone edits the worktree, or the immutable region of the task file.
Edit ==
    /\ ~running /\ Move
    /\ \/ tree' \in Trees \ {tree} /\ UNCHANGED plan
       \/ plan' = 3 - plan /\ UNCHANGED tree
    /\ UNCHANGED <<tip, last, next, gate, running, saved>>

FlowNext ==
    \/ Prepare \/ Plan \/ AgentRun \/ GatesRun \/ Build
    \/ AgentReview \/ EscalationReview \/ ReworkAnalysis \/ ReworkImplementation \/ Ship
    \/ AskApproval \/ AskReview \/ Crash
    \/ \E answer \in Answers : Resume(answer)
    \/ \E n \in Entries : StepCommand(n) \/ Restore(n)
    \/ All \/ SalvagePlan \/ Export \/ Edit

FlowSpec == FlowInit /\ [][FlowNext]_flowVars

-----------------------------------------------------------------------------
(* Properties.                                                              *)

\* ship commits, pushes and opens the pull request.
Ships == At("ship") /\ next' = "end" /\ tip'.status = "shipped"

\* A pipeline whose gates said no last is not shipped, whatever the commands, the
\* restores and the reviews in between: only another run of the agent clears it.
RefusedIsNotShipped == [][Ships => ~tip.refused]_flowVars

\* A pipeline that comes to ship by its reviews was approved by a reviewer and a person,
\* with every required check of its rework resolved and the suite of its rework green; unless
\* a restore put it at a person's gate or at a rework it had not come to by itself.
ReviewedShipsWereApproved ==
    [][Ships /\ ~tip.direct /\ ~tip.put =>
         /\ Review(tip).status = "approved"
         /\ Review(tip).human = "approved"
         /\ AgentDecision(Review(tip)) = "approved"
         /\ SourceSuite(tip) = "green" /\ ~Unresolved(tip)]_flowVars
===============================================================================

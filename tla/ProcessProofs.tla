------------------------------ MODULE ProcessProofs ------------------------------
(***************************************************************************)
(* What runs by itself, step by step: the task flow, for any worktrees,    *)
(* bounds and commands, where what the gates refused is not shipped, and   *)
(* what comes to ship by its reviews was approved; its verification suite, *)
(* where a suite that passes vouches for the worktree after the last fix;  *)
(* and the daily jobs, for any items, caps, outages and restarts, which    *)
(* waste no run and leave nothing due.                                     *)
(*                                                                         *)
(* The invariant of the flow says of every pipeline that is kept (the      *)
(* latest checkpoint, the newest usable one, the exported one) that its    *)
(* reviews and reworks are in order and that what was approved had         *)
(* nothing against it, and of the latest what its next node needs.         *)
(***************************************************************************)
EXTENDS TaskPipeline, VerificationSuite, Catchup, SequenceTheorems, WellFoundedInduction, TLAPS

(***************************************************************************)
(* The suite.                                                              *)
(***************************************************************************)
Families == {Suite[i] : i \in DOMAIN Suite}

Result == [status : {"pass", "fail", "skip"}, stale : BOOLEAN]

\* Every command before the running one has its result; a result that a fix came after is of
\* a family of a fix of this round or of a later one.
SuiteInv ==
    /\ round \in 1 .. MaxRounds /\ at \in 1 .. Len(Suite) + 1 /\ fixed \subseteq Families
    /\ finished \in BOOLEAN
    /\ results \in Seq(Result) /\ Len(results) = at - 1
    /\ \A i \in DOMAIN results : results[i].stale => \E f \in fixed : FamilyStart(f) <= i
    /\ finished => at > Len(Suite) /\ (AnyFailures \/ fixed = {} \/ round >= MaxRounds)

LEMMA HasLeast ==
    ASSUME NEW S \in SUBSET Nat, S # {}
    PROVE  Min(S) \in S /\ \A y \in S : Min(S) <= y
  <1>1. \E x \in S : \A y \in S : ~ (<<y, x>> \in OpToRel(<, Nat))
    BY WFMin, NatLessThanWellFounded
  <1>2. PICK x \in S : \A y \in S : ~ (y < x)
    BY <1>1 DEF OpToRel
  <1>3. \A y \in S : x <= y
    BY <1>2
  <1> QED
    BY <1>3 DEF Min

LEMMA HasGreatest ==
    ASSUME NEW n \in Nat, NEW S \in SUBSET (0 .. n), S # {}
    PROVE  Max(S) \in S /\ \A y \in S : y <= Max(S)
  <1> DEFINE Far == {n - d : d \in S}
  <1>1. PICK s \in S : TRUE
    OBVIOUS
  <1>2. n - s \in Far
    OBVIOUS
  <1>3. Far \in SUBSET Nat /\ Far # {}
    BY <1>2
  <1>4. Min(Far) \in Far /\ \A y \in Far : Min(Far) <= y
    <2> HIDE DEF Far
    <2> QED
      BY <1>3, HasLeast
  <1>5. PICK m \in S : Min(Far) = n - m
    BY <1>4
  <1>6. \A d \in S : d <= m
    <2> SUFFICES ASSUME NEW d \in S PROVE d <= m
      OBVIOUS
    <2>1. n - d \in Far
      OBVIOUS
    <2>2. n - m <= n - d
      BY <1>4, <1>5, <2>1
    <2> QED
      BY <2>2
  <1> QED
    BY <1>6 DEF Max

LEMMA SuiteShape ==
    /\ Len(Suite) \in Nat \ {0} /\ DOMAIN Suite = 1 .. Len(Suite)
    /\ MaxRounds \in Nat /\ MaxRounds >= 2
    /\ \A f \in Families : FamilyStart(f) \in 1 .. Len(Suite)
  <1>1. Len(Suite) \in Nat \ {0} /\ DOMAIN Suite = 1 .. Len(Suite)
    BY SuiteAssumption
  <1>2. MaxRounds \in Nat /\ MaxRounds >= 2
    <2> DEFINE n == MaxAttempts + 1
    <2>1. n \in Nat
      BY SuiteAssumption
    <2>2. {2, n} \in SUBSET (0 .. n + 2) /\ {2, n} # {} /\ n + 2 \in Nat
      BY <2>1
    <2> HIDE DEF n
    <2>3. Max({2, n}) \in {2, n} /\ \A y \in {2, n} : y <= Max({2, n})
      BY <2>2, HasGreatest
    <2> QED
      BY <2>1, <2>3 DEF MaxRounds, n
  <1>3. ASSUME NEW f \in Families PROVE FamilyStart(f) \in 1 .. Len(Suite)
    <2> DEFINE S == {i \in DOMAIN Suite : Suite[i] = f}
    <2>1. S \in SUBSET Nat /\ S # {}
      BY <1>1 DEF Families
    <2>2. Min(S) \in S
      BY <2>1, HasLeast
    <2> QED
      BY <1>1, <2>2 DEF FamilyStart
  <1> QED
    BY <1>1, <1>2, <1>3

\* A command is over, with any result.
LEMMA ReportKeeps ==
    ASSUME SuiteInv, Running, NEW status \in {"pass", "fail", "skip"}, Report(status)
    PROVE  SuiteInv'
  <1> DEFINE r == [status |-> status, stale |-> FALSE]
  <1>1. r \in Result /\ ~ r.stale
    BY DEF Result
  <1>2. /\ results' = Append(results, r) /\ at' = at + 1
        /\ UNCHANGED <<round, fixed, finished>> /\ ~ finished /\ at <= Len(Suite)
    BY DEF Report, Running
  <1>3. at \in 1 .. Len(Suite) + 1 /\ Len(results) = at - 1 /\ results \in Seq(Result)
    BY DEF SuiteInv
  <1> HIDE DEF r
  <1>4. /\ results' \in Seq(Result) /\ Len(results') = at' - 1
        /\ \A i \in DOMAIN results' :
              (i \in DOMAIN results /\ results'[i] = results[i]) \/ results'[i] = r
    BY <1>1, <1>2, <1>3, SuiteShape
  <1>5. at' \in 1 .. Len(Suite) + 1
    BY <1>2, <1>3, SuiteShape
  <1>6. \A i \in DOMAIN results' : results'[i].stale => \E f \in fixed' : FamilyStart(f) <= i
    BY <1>1, <1>2, <1>4 DEF SuiteInv
  <1> QED
    BY <1>2, <1>4, <1>5, <1>6 DEF SuiteInv, FamilyStart, Families, MaxRounds

LEMMA FixKeeps ==
    ASSUME SuiteInv, NEW s \in Signatures, CodeIsFixed(s)
    PROVE  SuiteInv'
  <1> DEFINE from == FamilyStart(Suite[at])
  <1>1. /\ fixed' = fixed \cup {Suite[at]} /\ ~ finished /\ at <= Len(Suite)
        /\ results' = [i \in DOMAIN results |-> [results[i] EXCEPT !.stale = @ \/ i >= from]]
        /\ UNCHANGED <<round, at, finished>>
    BY DEF CodeIsFixed, Running
  <1>2. Suite[at] \in Families
    BY <1>1, SuiteShape DEF SuiteInv, Families
  <1>3. \A i \in DOMAIN results :
           /\ results'[i] \in Result
           /\ results'[i].stale => results[i].stale \/ i >= from
    <2> SUFFICES ASSUME NEW i \in DOMAIN results
                 PROVE  /\ results'[i] \in Result
                        /\ results'[i].stale => results[i].stale \/ i >= from
      OBVIOUS
    <2>1. results[i] \in Result
      BY DEF SuiteInv
    <2>2. PICK b \in BOOLEAN : b = (results[i].stale \/ i >= from)
      OBVIOUS
    <2>3. results'[i] = [results[i] EXCEPT !.stale = b]
      BY <1>1, <2>2
    <2> QED
      BY <2>1, <2>2, <2>3 DEF Result
  <1>4. results' \in Seq(Result) /\ DOMAIN results' = DOMAIN results /\ Len(results') = Len(results)
    <2>1. DOMAIN results = 1 .. Len(results) /\ Len(results) \in Nat
      BY DEF SuiteInv
    <2>2. DOMAIN results' = DOMAIN results
      BY <1>1
    <2>3. results' \in [1 .. Len(results) -> Result]
      <3>1. results' = [i \in 1 .. Len(results) |-> results'[i]]
        BY <1>1, <2>1, <2>2
      <3> QED
        BY <1>3, <2>1, <3>1
    <2> QED
      BY <2>1, <2>2, <2>3
  <1>5. \A i \in DOMAIN results' : results'[i].stale => \E f \in fixed' : FamilyStart(f) <= i
    <2> SUFFICES ASSUME NEW i \in DOMAIN results, results'[i].stale
                 PROVE  \E f \in fixed' : FamilyStart(f) <= i
      BY <1>4
    <2>1. CASE results[i].stale
      BY <1>1, <2>1 DEF SuiteInv
    <2>2. CASE i >= from
      <3>1. from \in Nat /\ i \in Nat
        BY <1>2, SuiteShape DEF SuiteInv
      <3> QED
        BY <1>1, <2>2, <3>1
    <2> QED
      BY <1>3, <2>1, <2>2
  <1> QED
    BY <1>1, <1>2, <1>4, <1>5 DEF SuiteInv

LEMMA RoundKeeps ==
    ASSUME SuiteInv, RoundEnds
    PROVE  SuiteInv'
  <1>1. at = Len(Suite) + 1 /\ at > Len(Suite) /\ ~ finished
    BY SuiteShape DEF SuiteInv, RoundEnds
  <1>2. CASE AnyFailures \/ fixed = {} \/ round >= MaxRounds
    <2>1. finished' = TRUE /\ UNCHANGED <<round, at, fixed, results>>
      BY <1>2 DEF RoundEnds
    <2> QED
      BY <1>1, <1>2, <2>1 DEF SuiteInv, AnyFailures
  <1>3. CASE ~ (AnyFailures \/ fixed = {} \/ round >= MaxRounds)
    <2> DEFINE S == {FamilyStart(f) : f \in fixed}
    <2>1. /\ round' = round + 1 /\ at' = RestartAt /\ fixed' = {} /\ UNCHANGED finished
          /\ results' = SubSeq(results, 1, RestartAt - 1)
      BY <1>3 DEF RoundEnds
    <2>2. S \in SUBSET (1 .. Len(Suite)) /\ S # {}
      BY <1>3, SuiteShape DEF SuiteInv
    <2>3. RestartAt \in S /\ \A y \in S : RestartAt <= y
      <3>1. S \in SUBSET Nat
        BY <2>2, SuiteShape
      <3> HIDE DEF S
      <3>2. Min(S) \in S /\ \A y \in S : Min(S) <= y
        BY <2>2, <3>1, HasLeast
      <3> QED
        BY <3>2 DEF RestartAt, S
    <2>4. RestartAt \in 1 .. Len(Suite) /\ RestartAt - 1 <= Len(results)
      BY <1>1, <2>2, <2>3, SuiteShape DEF SuiteInv
    <2>5. /\ results' \in Seq(Result) /\ Len(results') = RestartAt - 1
          /\ \A i \in DOMAIN results' : i \in DOMAIN results /\ i < RestartAt /\ results'[i] = results[i]
      BY <2>1, <2>4, SuiteShape DEF SuiteInv
    <2>6. ASSUME NEW i \in DOMAIN results' PROVE ~ results'[i].stale
      <3> SUFFICES ASSUME results'[i].stale PROVE FALSE
        OBVIOUS
      <3>1. PICK f \in fixed : FamilyStart(f) <= i
        BY <2>5 DEF SuiteInv
      <3>2. FamilyStart(f) \in S
        OBVIOUS
      <3>3. FamilyStart(f) \in Nat /\ i \in Nat
        BY <2>2, <2>5, <3>2, SuiteShape DEF SuiteInv
      <3> QED
        BY <2>3, <2>4, <2>5, <3>1, <3>2, <3>3
    <2>7. round' \in 1 .. MaxRounds
      BY <1>3, <2>1, SuiteShape DEF SuiteInv
    <2> QED
      BY <1>1, <2>1, <2>4, <2>5, <2>6, <2>7 DEF SuiteInv
  <1> QED
    BY <1>2, <1>3

LEMMA SuiteAlways == SuiteSpec => []SuiteInv
  <1>1. SuiteInit => SuiteInv
    <2> SUFFICES ASSUME SuiteInit PROVE SuiteInv
      OBVIOUS
    <2>1. results \in Seq(Result) /\ Len(results) = 0 /\ DOMAIN results = {}
      BY DEF SuiteInit
    <2>2. 1 \in 1 .. MaxRounds /\ 1 \in 1 .. Len(Suite) + 1
      BY SuiteShape
    <2>3. round = 1 /\ at = 1 /\ fixed = {} /\ finished = FALSE
      BY DEF SuiteInit
    <2>4. Len(results) = at - 1
      BY <2>1, <2>3
    <2>5. finished \in BOOLEAN /\ ~ finished
      BY <2>3
    <2> QED
      BY <2>1, <2>2, <2>3, <2>4, <2>5 DEF SuiteInv
  <1>2. SuiteInv /\ [SuiteNext]_suiteVars => SuiteInv'
    <2> SUFFICES ASSUME SuiteInv, [SuiteNext]_suiteVars PROVE SuiteInv'
      OBVIOUS
    <2>1. CASE UNCHANGED suiteVars
      BY <2>1 DEF suiteVars, SuiteInv, AnyFailures
    <2>2. CASE InfraFails
      <3>1. CASE attempt < Min({MaxAttempts, 2})
        BY <2>2, <3>1 DEF InfraFails, SuiteInv, AnyFailures
      <3>2. CASE ~ (attempt < Min({MaxAttempts, 2}))
        BY <2>2, <3>2, ReportKeeps DEF InfraFails
      <3> QED
        BY <3>1, <3>2
    <2> QED
      BY <2>1, <2>2, ReportKeeps, FixKeeps, RoundKeeps DEF SuiteNext, Skip, Passes, CodeFails
  <1> QED
    BY <1>1, <1>2, PTL DEF SuiteSpec

\* A suite that passes has run every command after the last fix of its family or of one before
\* it, whatever failed and was fixed on the way, unless its rounds ran out.
THEOREM PassesAlwaysFollowFixes == SuiteSpec => []PassesFollowFixes
  <1>1. SuiteInv => PassesFollowFixes
    BY SuiteShape DEF SuiteInv, PassesFollowFixes, Vouched
  <1> QED
    BY <1>1, SuiteAlways, PTL

(***************************************************************************)
(* The flow: the pipelines there are.                                      *)
(***************************************************************************)
Suites == {None, "green", "red", "unverified"}
Outs   == {None} \cup Trees
Says   == {None} \cup Verdicts

ReviewRecord ==
    [print : {None} \cup (Nat \X Trees \X Suites \X Outs), rework : Nat, extra : Outs,
     agent : Says, high : BOOLEAN, escalation : Says, escalated : Suites, human : Says,
     checks : BOOLEAN, status : Verdicts \cup {"scope_approved", "scope_gate_pending"}]

ReworkRecord ==
    [source : Nat, print : Nat \X Nat \X ReviewRecord \X BOOLEAN, suite : {None, "green", "red"},
     resolved : BOOLEAN, status : {"analysis_complete", "blocked", "implementation_complete"}]

Statuses == {"not_started", "running", "blocked", "waiting_for_human", "shipped"} \cup Verdicts

Pipeline ==
    [direct : BOOLEAN, status : Statuses, blocked : BOOLEAN, plan : {None, 1, 2}, approval : Says,
     agent : {None, "sound", "risky", "unsound"}, build : Suites,
     reviews : Seq(ReviewRecord), active : Nat, reworks : Seq(ReworkRecord), rework : Nat,
     allowed : SUBSET Trees, refused : BOOLEAN, put : BOOLEAN]

Stages == Restarts \cup {"escalation_review", "end"}

FlowTypeOK ==
    /\ tip \in Pipeline /\ last \in Pipeline
    /\ next \in Stages /\ gate \in BOOLEAN /\ running \in BOOLEAN
    /\ tree \in Trees /\ plan \in {1, 2}
    /\ saved # None => saved \in [pipeline : Pipeline, gate : {None} \cup Stages]

\* The active review and rework are the latest; a rework is about reviews there were, a review
\* is of a rework there was, later than the reviews that rework is about; and only a review of
\* high risk is looked at twice.
Ordered(p) ==
    /\ p.active = Len(p.reviews) /\ p.rework = Len(p.reworks)
    /\ \A k \in 1 .. p.rework :
          /\ p.reworks[k].source \in 1 .. p.reworks[k].print[1]
          /\ p.reworks[k].print[1] <= p.active
    /\ \A i \in 1 .. p.active :
          LET c == p.reviews[i] IN
          /\ c.rework <= p.rework
          /\ c.rework # 0 => p.reworks[c.rework].print[1] < i
          /\ c.agent # None => c.print[1] = c.rework
          /\ c.agent = None => c.escalation = None
          /\ ~ c.high => c.escalation = None

\* No required check is unresolved, but for what the active review itself requires.
Cleared(p) == CheckedReview(p) = p.active \/ ~ Unresolved(p)

\* What a reviewer approved had no red suite and no required check unresolved, and still has.
Judged(p) ==
    ~ p.put /\ p.active # 0 =>
        LET c == Review(p) IN
        c.rework = p.rework =>
            /\ c.agent = "approved" => c.print[3] # "red" /\ Cleared(p)
            /\ c.escalation = "approved" => c.escalated # "red" /\ Cleared(p)

\* What the gates refused has a blocker.
Blocked(p) == p.refused => p.blocked

Sound(p) == Ordered(p) /\ Judged(p) /\ Blocked(p)

\* A person is asked about a review of the present rework.
Asked(p) ==
    ~ p.put /\ p.active # 0 =>
        LET c == Review(p) IN
        c.status # "scope_gate_pending" /\ AgentDecision(c) = "approved"
            => c.rework = p.rework /\ SourceSuite(p) # "red" /\ Cleared(p)

\* What is known of the pipeline at the node that runs next.
Escalating(p) == /\ p.active # 0 /\ Review(p).high /\ Review(p).agent # None
                 /\ Review(p).rework = p.rework

Reworking(p) == ~ p.put /\ p.active # 0 => Review(p).rework # p.rework

Approved(p) ==
    ~ p.direct /\ ~ p.put =>
        /\ p.active # 0
        /\ Review(p).status = "approved" /\ Review(p).human = "approved"
        /\ AgentDecision(Review(p)) = "approved"
        /\ SourceSuite(p) # "red" /\ ~ Unresolved(p)

Staged ==
    /\ next = "human_review" => Asked(tip)
    /\ next = "escalation_review" => Escalating(tip)
    /\ next = "rework_implementation" => ~ gate /\ Reworking(tip)
    /\ next = "ship" => Approved(tip)

SavedSound ==
    saved # None =>
        /\ Sound(saved.pipeline)
        /\ saved.gate # "rework_implementation"
        /\ saved.gate = "human_review" => Asked(saved.pipeline)

FlowInv == FlowTypeOK /\ Sound(tip) /\ Sound(last) /\ SavedSound /\ Staged

(***************************************************************************)
(* What the nodes read of a pipeline, by its type.                         *)
(***************************************************************************)
LEMMA Words ==
    /\ None \notin Verdicts /\ None # "approved" /\ None # "needs_fixes"
    /\ None # "red" /\ None # "green" /\ None # "unverified" /\ None \notin Trees
    /\ None # "human_review" /\ None # "rework_implementation" /\ None # "ship"
  BY FlowAssumption DEF Verdicts, Restarts

LEMMA Parts ==
    ASSUME NEW p \in Pipeline
    PROVE  /\ p.direct \in BOOLEAN /\ p.status \in Statuses /\ p.blocked \in BOOLEAN
           /\ p.plan \in {None, 1, 2} /\ p.approval \in Says
           /\ p.agent \in {None, "sound", "risky", "unsound"} /\ p.build \in Suites
           /\ p.reviews \in Seq(ReviewRecord) /\ p.active \in Nat
           /\ p.reworks \in Seq(ReworkRecord) /\ p.rework \in Nat
           /\ p.allowed \in SUBSET Trees /\ p.refused \in BOOLEAN /\ p.put \in BOOLEAN
  BY DEF Pipeline

LEMMA ActiveReview ==
    ASSUME NEW p \in Pipeline, Ordered(p), p.active # 0
    PROVE  /\ p.active \in DOMAIN p.reviews /\ p.active \in 1 .. p.active
           /\ Review(p) = p.reviews[p.active] /\ Review(p) \in ReviewRecord
  BY Parts DEF Ordered, Review

LEMMA ActiveRework ==
    ASSUME NEW p \in Pipeline, Ordered(p), p.rework # 0
    PROVE  /\ p.rework \in DOMAIN p.reworks /\ p.rework \in 1 .. p.rework
           /\ p.reworks[p.rework] \in ReworkRecord
  BY Parts DEF Ordered

LEMMA ReviewParts ==
    ASSUME NEW c \in ReviewRecord
    PROVE  /\ c.print \in {None} \cup (Nat \X Trees \X Suites \X Outs) /\ c.rework \in Nat
           /\ c.extra \in Outs /\ c.agent \in Says /\ c.high \in BOOLEAN /\ c.escalation \in Says
           /\ c.escalated \in Suites /\ c.human \in Says /\ c.checks \in BOOLEAN
           /\ c.status \in Verdicts \cup {"scope_approved", "scope_gate_pending"}
  BY DEF ReviewRecord

LEMMA SuiteType ==
    ASSUME NEW p \in Pipeline, Ordered(p)
    PROVE  SourceSuite(p) \in Suites
  <1>1. CASE p.rework # 0
    BY <1>1, ActiveRework, Parts DEF SourceSuite, ReworkRecord, Suites
  <1>2. CASE p.rework = 0
    BY <1>2, Parts DEF SourceSuite
  <1> QED
    BY <1>1, <1>2

\* The review a rework is about is one there is.
LEMMA ContextIsThere ==
    ASSUME NEW p \in Pipeline, Ordered(p), p.active # 0
    PROVE  /\ ContextReview(p) \in 1 .. p.active
           /\ LET plain == {i \in 1 .. p.active : p.reviews[i].extra = None} IN
              \/ ContextReview(p) = p.active /\ (Review(p).extra = None \/ plain = {})
              \/ /\ Review(p).extra # None /\ plain # {}
                 /\ ContextReview(p) \in plain /\ \A i \in plain : i <= ContextReview(p)
  <1> DEFINE plain == {i \in 1 .. p.active : p.reviews[i].extra = None}
  <1>1. p.active \in Nat /\ p.active \in 1 .. p.active
    BY ActiveReview, Parts
  <1>2. CASE Review(p).extra = None \/ plain = {}
    <2>1. ContextReview(p) = p.active
      BY <1>2 DEF ContextReview
    <2> QED
      BY <1>1, <1>2, <2>1
  <1>3. CASE ~ (Review(p).extra = None \/ plain = {})
    <2>1. ContextReview(p) = Max(plain)
      BY <1>3 DEF ContextReview
    <2>2. plain \in SUBSET (0 .. p.active) /\ plain # {}
      BY <1>1, <1>3
    <2>3. Max(plain) \in plain /\ \A i \in plain : i <= Max(plain)
      <3> HIDE DEF plain
      <3> QED
        BY <1>1, <2>2, HasGreatest
    <2> QED
      BY <1>3, <2>1, <2>3
  <1> QED
    BY <1>2, <1>3

LEMMA CheckedIsThere ==
    ASSUME NEW p \in Pipeline, Ordered(p)
    PROVE  /\ CheckedReview(p) \in 0 .. p.active
           /\ CheckedReview(p) = 0 => p.rework = 0 /\ p.active = 0
           /\ RequiredChecks(p) \in BOOLEAN
  <1>1. CheckedReview(p) \in 0 .. p.active /\ (CheckedReview(p) = 0 => p.rework = 0 /\ p.active = 0)
    <2>1. CASE p.rework # 0
      <3>1. /\ p.reworks[p.rework].source \in 1 .. p.reworks[p.rework].print[1]
            /\ p.reworks[p.rework].print[1] <= p.active
        BY <2>1, ActiveRework DEF Ordered
      <3>2. p.reworks[p.rework].print[1] \in Nat /\ p.active \in Nat
        BY <2>1, ActiveRework, Parts DEF ReworkRecord
      <3>3. CheckedReview(p) = p.reworks[p.rework].source
        BY <2>1 DEF CheckedReview
      <3> QED
        BY <2>1, <3>1, <3>2, <3>3
    <2>2. CASE p.rework = 0 /\ p.active # 0
      BY <2>2, ContextIsThere, Parts DEF CheckedReview
    <2>3. CASE p.rework = 0 /\ p.active = 0
      BY <2>3 DEF CheckedReview
    <2> QED
      BY <2>1, <2>2, <2>3
  <1>2. RequiredChecks(p) \in BOOLEAN
    <2>1. CASE CheckedReview(p) = 0
      BY <2>1 DEF RequiredChecks
    <2>2. CASE CheckedReview(p) # 0
      <3>1. CheckedReview(p) \in DOMAIN p.reviews
        BY <1>1, <2>2, Parts DEF Ordered
      <3>2. p.reviews[CheckedReview(p)] \in ReviewRecord
        BY <3>1, Parts
      <3>3. p.reviews[CheckedReview(p)].checks \in BOOLEAN
        BY <3>2, ReviewParts
      <3> QED
        BY <3>3 DEF RequiredChecks
    <2> QED
      BY <2>1, <2>2
  <1> QED
    BY <1>1, <1>2

\* What a pipeline is judged by: its reviews and reworks, in the order they have.
SameReviews(p, q) ==
    /\ q.reviews = p.reviews /\ q.active = p.active
    /\ q.reworks = p.reworks /\ q.rework = p.rework

LEMMA SameReading ==
    ASSUME NEW p, NEW q, SameReviews(p, q)
    PROVE  /\ Ordered(p) => Ordered(q)
           /\ Review(q) = Review(p) /\ CheckedReview(q) = CheckedReview(p)
           /\ Unresolved(q) = Unresolved(p) /\ Cleared(q) = Cleared(p)
           /\ q.put = p.put /\ Judged(p) => Judged(q)
           /\ q.build = p.build => SourceSuite(q) = SourceSuite(p)
           /\ q.build = p.build /\ q.put = p.put /\ Asked(p) => Asked(q)
  <1>1. Review(q) = Review(p)
    BY DEF SameReviews, Review
  <1>2. ContextReview(q) = ContextReview(p)
    BY <1>1 DEF SameReviews, ContextReview
  <1>3. CheckedReview(q) = CheckedReview(p)
    BY <1>2 DEF SameReviews, CheckedReview
  <1>4. Unresolved(q) = Unresolved(p)
    BY <1>3 DEF SameReviews, Unresolved, RequiredChecks
  <1>5. Cleared(q) = Cleared(p)
    BY <1>3, <1>4 DEF SameReviews, Cleared
  <1>6. Ordered(p) => Ordered(q)
    BY DEF SameReviews, Ordered
  <1>7. q.put = p.put /\ Judged(p) => Judged(q)
    BY <1>1, <1>5 DEF SameReviews, Judged
  <1>8. q.build = p.build => SourceSuite(q) = SourceSuite(p)
    BY DEF SameReviews, SourceSuite
  <1>9. q.build = p.build /\ q.put = p.put /\ Asked(p) => Asked(q)
    BY <1>1, <1>5, <1>8 DEF SameReviews, Asked
  <1> QED
    BY <1>1, <1>3, <1>4, <1>5, <1>6, <1>7, <1>8, <1>9

(***************************************************************************)
(* How reviews and reworks are added and revised.                          *)
(***************************************************************************)
LEMMA RevisedReview ==
    ASSUME NEW p \in Pipeline, NEW q \in Pipeline, Ordered(p), p.active # 0,
           NEW c \in ReviewRecord, q.reviews = [p.reviews EXCEPT ![p.active] = c],
           q.active = p.active, q.reworks = p.reworks, q.rework = p.rework,
           c.rework = Review(p).rework, c.agent = Review(p).agent, c.print = Review(p).print,
           c.agent = None => c.escalation = None, ~ c.high => c.escalation = None
    PROVE  Ordered(q) /\ Review(q) = c
  <1>1. /\ p.active \in DOMAIN p.reviews /\ p.active = Len(p.reviews)
        /\ Review(p) = p.reviews[p.active] /\ p.active \in 1 .. p.active
    BY ActiveReview DEF Ordered
  <1>2. Review(q) = c /\ q.reviews[p.active] = c
    BY <1>1 DEF Review
  <1>3. \A i \in 1 .. p.active : i # p.active => q.reviews[i] = p.reviews[i]
    BY <1>1, Parts
  <1>4. Len(q.reviews) = Len(p.reviews)
    BY <1>1, Parts
  <1>5. ASSUME NEW i \in 1 .. q.active
        PROVE  LET d == q.reviews[i] IN
               /\ d.rework <= q.rework
               /\ d.rework # 0 => q.reworks[d.rework].print[1] < i
               /\ d.agent # None => d.print[1] = d.rework
               /\ d.agent = None => d.escalation = None
               /\ ~ d.high => d.escalation = None
    <2>1. CASE i = p.active
      BY <1>1, <1>2, <2>1 DEF Ordered
    <2>2. CASE i # p.active
      BY <1>3, <2>2 DEF Ordered
    <2> QED
      BY <2>1, <2>2
  <1> QED
    BY <1>1, <1>2, <1>4, <1>5 DEF Ordered

\* A review whose files stay the same is about the same checks as before.
LEMMA RevisedChecks ==
    ASSUME NEW p \in Pipeline, NEW q \in Pipeline, Ordered(p), p.active # 0,
           NEW c \in ReviewRecord, q.reviews = [p.reviews EXCEPT ![p.active] = c],
           q.active = p.active, q.reworks = p.reworks, q.rework = p.rework,
           c.extra = Review(p).extra
    PROVE  /\ Cleared(p) => Cleared(q)
           /\ Cleared(p) /\ ~ c.checks => ~ Unresolved(q)
           /\ q.build = p.build => SourceSuite(q) = SourceSuite(p)
  <1>1. /\ p.active \in DOMAIN p.reviews /\ Review(p) = p.reviews[p.active]
        /\ p.active \in 1 .. p.active
    BY ActiveReview
  <1>2. Review(q) = c /\ q.reviews[p.active] = c
    BY <1>1 DEF Review
  <1>3. \A i \in 1 .. p.active : i # p.active => q.reviews[i] = p.reviews[i]
    BY <1>1, Parts DEF Ordered
  <1>4. {i \in 1 .. q.active : q.reviews[i].extra = None}
          = {i \in 1 .. p.active : p.reviews[i].extra = None}
    <2>1. \A i \in 1 .. p.active : q.reviews[i].extra = p.reviews[i].extra
      BY <1>1, <1>2, <1>3
    <2> QED
      BY <2>1
  <1>5. ContextReview(q) = ContextReview(p)
    BY <1>1, <1>2, <1>4 DEF ContextReview
  <1>6. CheckedReview(q) = CheckedReview(p)
    BY <1>5 DEF CheckedReview
  <1>7. CheckedReview(p) # p.active => Unresolved(q) = Unresolved(p)
    <2>1. CheckedReview(p) \in 1 .. p.active
      BY CheckedIsThere, Parts
    <2> QED
      BY <1>3, <1>6, <2>1 DEF Unresolved, RequiredChecks
  <1>8. CheckedReview(p) = p.active /\ ~ c.checks => ~ Unresolved(q)
    BY <1>2, <1>6 DEF Unresolved, RequiredChecks
  <1>9. q.build = p.build => SourceSuite(q) = SourceSuite(p)
    BY DEF SourceSuite
  <1> QED
    BY <1>6, <1>7, <1>8, <1>9 DEF Cleared

LEMMA AddedReview ==
    ASSUME NEW p \in Pipeline, NEW q \in Pipeline, Ordered(p),
           NEW c \in ReviewRecord, q.reviews = Append(p.reviews, c),
           q.active = Len(p.reviews) + 1, q.reworks = p.reworks, q.rework = p.rework,
           c.rework = p.rework, c.escalation = None,
           c.agent # None => c.print[1] = c.rework
    PROVE  /\ Ordered(q) /\ Review(q) = c
           /\ q.build = p.build => SourceSuite(q) = SourceSuite(p)
           /\ ~ Unresolved(p) => Cleared(q)
  <1>1. /\ p.active \in Nat /\ p.rework \in Nat /\ p.active = Len(p.reviews)
        /\ q.active = p.active + 1 /\ p.rework = Len(p.reworks)
    BY Parts DEF Ordered
  <1>2. /\ Len(q.reviews) = p.active + 1 /\ q.reviews[q.active] = c
        /\ \A i \in 1 .. p.active : q.reviews[i] = p.reviews[i]
    BY <1>1, Parts
  <1>3. Review(q) = c
    BY <1>2 DEF Review
  <1>4. \A k \in 1 .. q.rework :
           /\ q.reworks[k].source \in 1 .. q.reworks[k].print[1]
           /\ q.reworks[k].print[1] <= q.active
    <2> SUFFICES ASSUME NEW k \in 1 .. p.rework
                 PROVE  /\ p.reworks[k].source \in 1 .. p.reworks[k].print[1]
                        /\ p.reworks[k].print[1] <= q.active
      OBVIOUS
    <2>1. p.reworks[k] \in ReworkRecord
      BY <1>1, Parts
    <2>2. p.reworks[k].print[1] \in Nat
      BY <2>1 DEF ReworkRecord
    <2> QED
      BY <1>1, <2>2 DEF Ordered
  <1>5. ASSUME NEW i \in 1 .. q.active
        PROVE  LET d == q.reviews[i] IN
               /\ d.rework <= q.rework
               /\ d.rework # 0 => q.reworks[d.rework].print[1] < i
               /\ d.agent # None => d.print[1] = d.rework
               /\ d.agent = None => d.escalation = None
               /\ ~ d.high => d.escalation = None
    <2>1. CASE i = q.active
      <3>1. p.rework # 0 => p.reworks[p.rework].print[1] < q.active
        <4> SUFFICES ASSUME p.rework # 0 PROVE p.reworks[p.rework].print[1] < q.active
          OBVIOUS
        <4>1. p.rework \in 1 .. p.rework /\ p.reworks[p.rework] \in ReworkRecord
          BY ActiveRework
        <4>2. p.reworks[p.rework].print[1] \in Nat /\ p.reworks[p.rework].print[1] <= p.active
          BY <4>1 DEF Ordered, ReworkRecord
        <4> QED
          BY <1>1, <4>2
      <3> QED
        BY <1>1, <1>2, <2>1, <3>1
    <2>2. CASE i # q.active
      <3>1. i \in 1 .. p.active
        BY <1>1, <2>2
      <3> QED
        BY <1>2, <3>1 DEF Ordered
    <2> QED
      BY <2>1, <2>2
  <1>6. Ordered(q)
    BY <1>1, <1>2, <1>4, <1>5 DEF Ordered
  <1>7. q.build = p.build => SourceSuite(q) = SourceSuite(p)
    BY DEF SourceSuite
  <1>8. ASSUME ~ Unresolved(p) PROVE Cleared(q)
    <2>1. CASE p.rework # 0
      <3>1. CheckedReview(q) = CheckedReview(p) /\ CheckedReview(p) \in 1 .. p.active
        <4>1. CheckedReview(q) = CheckedReview(p)
          BY <2>1 DEF CheckedReview
        <4> QED
          BY <1>1, <2>1, <4>1, CheckedIsThere
      <3>2. Unresolved(q) = Unresolved(p)
        BY <1>2, <3>1 DEF Unresolved, RequiredChecks
      <3> QED
        BY <1>8, <3>2 DEF Cleared
    <2>2. CASE p.rework = 0
      <3> DEFINE plain == {i \in 1 .. p.active : p.reviews[i].extra = None}
                 after == {i \in 1 .. q.active : q.reviews[i].extra = None}
      <3>0. q.active # 0 /\ CheckedReview(q) = ContextReview(q)
        BY <1>1, <2>2 DEF CheckedReview
      <3>1. CASE c.extra = None \/ after = {}
        <4>1. ContextReview(q) = q.active
          BY <1>3, <3>1 DEF ContextReview
        <4> QED
          BY <3>0, <4>1 DEF Cleared
      <3>2. CASE c.extra # None /\ after # {}
        <4>1. ContextReview(q) \in after /\ \A i \in after : i <= ContextReview(q)
          BY <1>3, <1>6, <3>0, <3>2, ContextIsThere
        <4>2. after = plain
          <5>1. \A i \in 1 .. q.active : i = q.active \/ i \in 1 .. p.active
            BY <1>1
          <5>2. \A i \in 1 .. p.active : i \in 1 .. q.active
            BY <1>1
          <5> QED
            BY <1>2, <3>2, <5>1, <5>2
        <4>3. p.active # 0
          BY <1>1, <3>2, <4>2
        <4>4. ContextReview(p) \in plain /\ \A i \in plain : i <= ContextReview(p)
          <5>1. CASE Review(p).extra = None
            BY <1>1, <4>3, <5>1, ContextIsThere, ActiveReview
          <5>2. CASE Review(p).extra # None
            BY <3>2, <4>2, <4>3, <5>2, ContextIsThere
          <5> QED
            BY <5>1, <5>2
        <4>5. ContextReview(q) = ContextReview(p) /\ ContextReview(p) \in 1 .. p.active
          <5>1. plain \subseteq 1 .. p.active
            OBVIOUS
          <5> HIDE DEF plain, after
          <5>2. ContextReview(q) \in 1 .. p.active /\ ContextReview(p) \in 1 .. p.active
            BY <4>1, <4>2, <4>4, <5>1
          <5>3. ContextReview(q) <= ContextReview(p) /\ ContextReview(p) <= ContextReview(q)
            BY <4>1, <4>2, <4>4
          <5> QED
            BY <1>1, <5>2, <5>3
        <4>6. CheckedReview(q) = CheckedReview(p) /\ CheckedReview(p) \in 1 .. p.active
          BY <2>2, <3>0, <4>3, <4>5 DEF CheckedReview
        <4>7. Unresolved(q) = Unresolved(p)
          BY <1>2, <4>6 DEF Unresolved, RequiredChecks
        <4> QED
          BY <1>8, <4>7 DEF Cleared
      <3> QED
        BY <3>1, <3>2
    <2> QED
      BY <2>1, <2>2
  <1> QED
    BY <1>3, <1>6, <1>7, <1>8

LEMMA AddedRework ==
    ASSUME NEW p \in Pipeline, NEW q \in Pipeline, Ordered(p), p.active # 0,
           NEW r \in ReworkRecord, q.reworks = Append(p.reworks, r),
           q.rework = Len(p.reworks) + 1, q.reviews = p.reviews, q.active = p.active,
           r.source = ContextReview(p), r.print[1] = p.active
    PROVE  Ordered(q) /\ Judged(q) /\ Reworking(q)
  <1>1. /\ p.active \in Nat /\ p.rework \in Nat /\ p.active = Len(p.reviews)
        /\ q.rework = p.rework + 1 /\ p.rework = Len(p.reworks)
    BY Parts DEF Ordered
  <1>2. /\ Len(q.reworks) = q.rework /\ q.reworks[q.rework] = r
        /\ \A k \in 1 .. p.rework : q.reworks[k] = p.reworks[k]
    BY <1>1, Parts
  <1>3. \A k \in 1 .. q.rework :
           /\ q.reworks[k].source \in 1 .. q.reworks[k].print[1]
           /\ q.reworks[k].print[1] <= q.active
    <2> TAKE k \in 1 .. q.rework
    <2>1. CASE k = q.rework
      BY <1>1, <1>2, <2>1, ContextIsThere
    <2>2. CASE k # q.rework
      <3>1. k \in 1 .. p.rework
        BY <1>1, <2>2
      <3> QED
        BY <1>2, <3>1 DEF Ordered
    <2> QED
      BY <2>1, <2>2
  <1>4. \A i \in 1 .. p.active : p.reviews[i].rework \in Nat /\ p.reviews[i].rework <= p.rework
    <2> TAKE i \in 1 .. p.active
    <2>1. p.reviews[i] \in ReviewRecord
      BY <1>1, Parts
    <2> QED
      BY <2>1, ReviewParts DEF Ordered
  <1>5. ASSUME NEW i \in 1 .. q.active
        PROVE  LET d == q.reviews[i] IN
               /\ d.rework <= q.rework
               /\ d.rework # 0 => q.reworks[d.rework].print[1] < i
               /\ d.agent # None => d.print[1] = d.rework
               /\ d.agent = None => d.escalation = None
               /\ ~ d.high => d.escalation = None
    <2>1. /\ q.reviews[i].rework \in Nat /\ q.reviews[i].rework <= p.rework
          /\ q.reviews[i].rework # 0 => q.reviews[i].rework \in 1 .. p.rework
      BY <1>1, <1>4
    <2> QED
      BY <1>1, <1>2, <2>1 DEF Ordered
  <1>6. Review(q).rework # q.rework
    <2>1. Review(q) = p.reviews[p.active] /\ p.active \in 1 .. p.active
      BY <1>1 DEF Review
    <2> QED
      BY <1>1, <1>4, <2>1
  <1> QED
    BY <1>1, <1>2, <1>3, <1>5, <1>6 DEF Ordered, Judged, Reworking

LEMMA RevisedRework ==
    ASSUME NEW p \in Pipeline, NEW q \in Pipeline, Ordered(p), p.rework # 0,
           NEW r \in ReworkRecord, q.reworks = [p.reworks EXCEPT ![p.rework] = r],
           q.rework = p.rework, q.reviews = p.reviews, q.active = p.active,
           r.source = p.reworks[p.rework].source, r.print = p.reworks[p.rework].print
    PROVE  Ordered(q)
  <1>1. /\ p.rework = Len(p.reworks) /\ p.rework \in DOMAIN p.reworks
        /\ p.active = Len(p.reviews) /\ p.rework \in Nat
    BY ActiveRework, Parts DEF Ordered
  <1>2. /\ Len(q.reworks) = Len(p.reworks)
        /\ \A k \in 1 .. p.rework : /\ q.reworks[k].source = p.reworks[k].source
                                    /\ q.reworks[k].print = p.reworks[k].print
    BY <1>1, Parts
  <1>3. \A i \in 1 .. p.active : p.reviews[i].rework \in Nat /\ p.reviews[i].rework <= p.rework
    <2> TAKE i \in 1 .. p.active
    <2>1. p.reviews[i] \in ReviewRecord
      BY <1>1, Parts
    <2> QED
      BY <2>1, ReviewParts DEF Ordered
  <1>4. ASSUME NEW i \in 1 .. q.active
        PROVE  LET d == q.reviews[i] IN
               /\ d.rework <= q.rework
               /\ d.rework # 0 => q.reworks[d.rework].print[1] < i
               /\ d.agent # None => d.print[1] = d.rework
               /\ d.agent = None => d.escalation = None
               /\ ~ d.high => d.escalation = None
    <2>1. p.reviews[i].rework # 0 => p.reviews[i].rework \in 1 .. p.rework
      BY <1>1, <1>3
    <2> QED
      BY <1>2, <2>1 DEF Ordered
  <1> QED
    BY <1>1, <1>2, <1>4 DEF Ordered

(***************************************************************************)
(* What a node or a command keeps.                                         *)
(***************************************************************************)
LEMMA ReturnKeeps ==
    ASSUME FlowInv, NEW p \in Pipeline, NEW n \in Stages, Return(p, n), tree' \in Trees,
           Sound(p),
           n = "human_review" => Asked(p),
           n = "escalation_review" => Escalating(p),
           n = "rework_implementation" => Reworking(p),
           n = "ship" => Approved(p)
    PROVE  FlowInv'
  <1>1. /\ tip' = p /\ last' = p /\ next' = n /\ running' \in BOOLEAN /\ gate' = FALSE
        /\ plan' = plan /\ saved' = saved
    BY DEF Return
  <1>2. FlowTypeOK'
    BY <1>1 DEF FlowInv, FlowTypeOK
  <1>3. Sound(tip)' /\ Sound(last)' /\ Staged'
    BY <1>1 DEF Staged
  <1>4. SavedSound'
    BY <1>1 DEF FlowInv, SavedSound
  <1> QED
    BY <1>2, <1>3, <1>4 DEF FlowInv

\* A node that leaves the reviews and reworks alone, and goes nowhere a person is asked.
LEMMA PassingKeeps ==
    ASSUME FlowInv, NEW p \in Pipeline, NEW n \in Restarts \cup {"end"}, Return(p, n),
           tree' \in Trees, SameReviews(tip, p), p.put = tip.put, Blocked(p),
           n \notin {"human_review", "rework_implementation", "ship"}
    PROVE  FlowInv'
  <1>1. n \in Stages /\ n # "escalation_review"
    BY DEF Stages, Restarts
  <1>2. Sound(p)
    BY SameReading DEF FlowInv, Sound
  <1> QED
    BY <1>1, <1>2, ReturnKeeps

LEMMA WaitKeeps ==
    ASSUME FlowInv, UNCHANGED <<tip, last, next, plan, saved>>, tree' \in Trees,
           gate' \in BOOLEAN, running' \in BOOLEAN,
           next = "rework_implementation" => gate' = gate
    PROVE  FlowInv'
  BY DEF FlowInv, FlowTypeOK, SavedSound, Staged

LEMMA InvokeKeeps ==
    ASSUME FlowInv, NEW p \in Pipeline, Sound(p), NEW n \in Restarts, Invoke(p, n),
           n = "human_review" => Asked(p),
           n = "rework_implementation" => p.put
    PROVE  FlowInv'
  <1> DEFINE q == [p EXCEPT !.direct = n = "ship"]
  <1>1. /\ tip' = q /\ last' \in {q, last} /\ next' = n /\ gate' = FALSE /\ running' = TRUE
        /\ UNCHANGED <<tree, plan, saved>>
    BY DEF Invoke
  <1>2. PICK b \in BOOLEAN : b = (n = "ship")
    OBVIOUS
  <1>3. q = [p EXCEPT !.direct = b]
    BY <1>2
  <1>4. /\ q \in Pipeline /\ q.direct = b /\ SameReviews(p, q) /\ q.put = p.put
        /\ q.build = p.build /\ q.refused = p.refused /\ q.blocked = p.blocked
    BY <1>3 DEF Pipeline, SameReviews
  <1> HIDE DEF q
  <1>5. Sound(q) /\ (n = "human_review" => Asked(q))
    BY <1>4, SameReading DEF Sound, Blocked
  <1>6. n = "rework_implementation" => Reworking(q)
    BY <1>4 DEF Reworking
  <1>7. n = "ship" => Approved(q)
    BY <1>2, <1>4 DEF Approved
  <1>8. n \in Stages /\ n # "escalation_review"
    BY DEF Stages, Restarts
  <1>9. FlowTypeOK'
    BY <1>1, <1>4, <1>8 DEF FlowInv, FlowTypeOK
  <1>10. Sound(tip)' /\ Sound(last)' /\ Staged'
    <2>1. Sound(tip')
      BY <1>1, <1>5
    <2>2. Sound(last')
      BY <1>1, <1>5 DEF FlowInv
    <2>3. Staged'
      BY <1>1, <1>5, <1>6, <1>7, <1>8 DEF Staged
    <2> QED
      BY <2>1, <2>2, <2>3
  <1>11. SavedSound'
    BY <1>1 DEF FlowInv, SavedSound
  <1> QED
    BY <1>9, <1>10, <1>11 DEF FlowInv

LEMMA FreshIsSound ==
    Fresh \in Pipeline /\ Sound(Fresh)
  <1>1. Fresh \in Pipeline
    BY DEF Fresh, Pipeline, Statuses, Says, Suites
  <1>2. /\ Len(Fresh.reviews) = 0 /\ Len(Fresh.reworks) = 0 /\ Fresh.active = 0
        /\ Fresh.rework = 0 /\ Fresh.refused = FALSE
    BY DEF Fresh
  <1>3. Ordered(Fresh)
    BY <1>2 DEF Ordered
  <1>4. Judged(Fresh) /\ Blocked(Fresh)
    BY <1>2 DEF Judged, Blocked
  <1> QED
    BY <1>1, <1>3, <1>4 DEF Sound

LEMMA InitFlow == FlowInit => FlowInv
  <1> SUFFICES ASSUME FlowInit PROVE FlowInv
    OBVIOUS
  <1>1. FlowTypeOK
    BY FreshIsSound, FlowAssumption DEF FlowInit, FlowTypeOK, Stages
  <1>2. Sound(tip) /\ Sound(last)
    BY FreshIsSound DEF FlowInit
  <1> QED
    BY <1>1, <1>2 DEF FlowInit, FlowInv, SavedSound, Staged

LEMMA PrepareKeeps == ASSUME FlowInv, Prepare \/ Plan PROVE FlowInv'
  <1>1. /\ tip \in Pipeline /\ Sound(tip) /\ plan \in {1, 2}
        /\ tree' = tree /\ tree \in Trees
    BY DEF FlowInv, FlowTypeOK, Prepare, Plan, Reads
  <1>2. PICK p \in {[tip EXCEPT !.status = "running"],
                    [tip EXCEPT !.status = "running", !.plan = plan]} : Return(p, "agent_run")
    BY DEF Prepare, Plan
  <1>3. p \in Pipeline /\ SameReviews(tip, p) /\ p.put = tip.put /\ Blocked(p)
    BY <1>1, <1>2 DEF Pipeline, SameReviews, Sound, Blocked, Statuses
  <1> QED
    BY <1>1, <1>2, <1>3, PassingKeeps DEF Restarts

LEMMA ApprovalKeeps ==
    ASSUME FlowInv, NEW answer \in Answers, HumanApproval(answer)
    PROVE  FlowInv'
  <1>1. tip \in Pipeline /\ Sound(tip) /\ tree' = tree /\ tree \in Trees
    BY DEF FlowInv, FlowTypeOK, HumanApproval, Reads
  <1>2. answer.decision \in Verdicts
    BY DEF Answers
  <1> DEFINE s == IF answer.decision = "approved" THEN "running" ELSE "blocked"
             p == [tip EXCEPT !.approval = answer.decision, !.status = s]
             n == IF answer.decision = "approved" THEN "build" ELSE "end"
  <1>3. Return(p, n)
    BY DEF HumanApproval
  <1>4. p \in Pipeline /\ SameReviews(tip, p) /\ p.put = tip.put /\ Blocked(p)
    BY <1>1, <1>2 DEF Pipeline, SameReviews, Sound, Blocked, Statuses, Says
  <1>5. n \in {"build", "end"}
    OBVIOUS
  <1> HIDE DEF p, n
  <1> QED
    BY <1>1, <1>3, <1>4, <1>5, PassingKeeps DEF Restarts

LEMMA AgentRunKeeps == ASSUME FlowInv, AgentRun PROVE FlowInv'
  <1>1. tip \in Pipeline /\ Sound(tip) /\ plan \in {1, 2}
    BY DEF FlowInv, FlowTypeOK
  <1> DEFINE p == [tip EXCEPT !.blocked = FALSE, !.refused = FALSE]
             b == [p EXCEPT !.status = "blocked", !.blocked = TRUE]
             a(output) == [p EXCEPT !.status = "running", !.plan = plan, !.agent = output]
  <1>2. /\ tree' \in Trees
        /\ \/ Return(b, AfterAgentRun(b))
           \/ \E output \in {"sound", "risky", "unsound"} :
                 Return(a(output), AfterAgentRun(a(output)))
    BY DEF AgentRun
  <1>3. b \in Pipeline /\ SameReviews(tip, b) /\ b.put = tip.put /\ Blocked(b)
    BY <1>1 DEF Pipeline, SameReviews, Blocked, Statuses
  <1>4. \A output \in {"sound", "risky", "unsound"} :
           /\ a(output) \in Pipeline /\ SameReviews(tip, a(output)) /\ a(output).put = tip.put
           /\ Blocked(a(output))
    BY <1>1 DEF Pipeline, SameReviews, Blocked, Statuses
  <1>5. \A q : AfterAgentRun(q) \in {"end", "deterministic_gates"}
    BY DEF AfterAgentRun
  <1> HIDE DEF a, b
  <1>6. CASE Return(b, AfterAgentRun(b))
    BY <1>2, <1>3, <1>5, <1>6, PassingKeeps DEF Restarts
  <1>7. CASE \E output \in {"sound", "risky", "unsound"} :
                Return(a(output), AfterAgentRun(a(output)))
    BY <1>2, <1>4, <1>5, <1>7, PassingKeeps DEF Restarts
  <1> QED
    BY <1>2, <1>6, <1>7

LEMMA GatesKeep ==
    ASSUME FlowInv, NEW answer \in Answers \cup {None}, Gates(answer)
    PROVE  FlowInv'
  <1>1. tip \in Pipeline /\ Sound(tip) /\ tree \in Trees
    BY DEF FlowInv, FlowTypeOK
  <1> DEFINE pass(suite) == [tip EXCEPT !.build = suite, !.status = "waiting_for_human",
                                        !.blocked = FALSE, !.refused = FALSE]
  <1>2. PICK suite \in {"green", "red"} :
           \/ WaitForPerson
           \/ tree' = tree /\ (Return(Refuse(tip, suite), "end") \/ Return(pass(suite), "end"))
    BY DEF Gates, Reads
  <1>3. /\ Refuse(tip, suite) \in Pipeline /\ SameReviews(tip, Refuse(tip, suite))
        /\ Refuse(tip, suite).put = tip.put /\ Blocked(Refuse(tip, suite))
    BY <1>1 DEF Refuse, Pipeline, SameReviews, Blocked, Statuses, Suites
  <1>4. /\ pass(suite) \in Pipeline /\ SameReviews(tip, pass(suite))
        /\ pass(suite).put = tip.put /\ Blocked(pass(suite))
    BY <1>1 DEF Pipeline, SameReviews, Blocked, Statuses, Suites
  <1> HIDE DEF pass
  <1>5. CASE WaitForPerson
    <2>1. next = "deterministic_gates"
      BY DEF Gates
    <2> QED
      BY <1>1, <1>5, <2>1, WaitKeeps DEF WaitForPerson
  <1>6. CASE tree' = tree /\ (Return(Refuse(tip, suite), "end") \/ Return(pass(suite), "end"))
    BY <1>1, <1>3, <1>4, <1>6, PassingKeeps
  <1> QED
    BY <1>2, <1>5, <1>6

LEMMA BuildKeeps == ASSUME FlowInv, Build PROVE FlowInv'
  <1>1. tip \in Pipeline /\ Sound(tip)
    BY DEF FlowInv, FlowTypeOK
  <1> DEFINE built == [tip EXCEPT !.build = "green", !.status = "running"]
  <1>2. /\ tree' \in Trees
        /\ \/ \E p \in FailedBuilds(tip) : Return(p, "end")
           \/ Return(built, "agent_review")
    BY DEF Build
  <1>3. ASSUME NEW p \in FailedBuilds(tip)
        PROVE  p \in Pipeline /\ SameReviews(tip, p) /\ p.put = tip.put /\ Blocked(p)
    <2>1. PICK b \in {None, "unverified"} :
             p = [tip EXCEPT !.build = b, !.status = "blocked", !.blocked = TRUE]
      BY DEF FailedBuilds
    <2> QED
      BY <1>1, <2>1 DEF Pipeline, SameReviews, Blocked, Statuses, Suites
  <1>4. built \in Pipeline /\ SameReviews(tip, built) /\ built.put = tip.put /\ Blocked(built)
    BY <1>1 DEF Pipeline, SameReviews, Sound, Blocked, Statuses, Suites
  <1> HIDE DEF built
  <1> QED
    BY <1>2, <1>3, <1>4, PassingKeeps DEF Restarts

LEMMA ShipKeeps == ASSUME FlowInv, Ship PROVE FlowInv'
  <1>1. tip \in Pipeline /\ Sound(tip) /\ tree \in Trees
    BY DEF FlowInv, FlowTypeOK
  <1> DEFINE p == [tip EXCEPT !.status = "shipped"]
  <1>2. Return(p, "end") /\ tree' \in Trees
    BY <1>1, FlowAssumption DEF Ship, LeftBehind
  <1>3. p \in Pipeline /\ SameReviews(tip, p) /\ p.put = tip.put /\ Blocked(p)
    BY <1>1 DEF Pipeline, SameReviews, Sound, Blocked, Statuses
  <1> HIDE DEF p
  <1> QED
    BY <1>2, <1>3, PassingKeeps

\* A review of the present worktree leads to a person only if it found nothing.
LEMMA AfterReview ==
    ASSUME NEW q \in Pipeline, Ordered(q), Judged(q), q.active # 0,
           Review(q).rework = q.rework, Review(q).print[3] = SourceSuite(q)
    PROVE  /\ AfterAgentReview(q) \in {"end", "escalation_review", "human_review", "rework_analysis"}
           /\ AfterAgentReview(q) = "human_review" => Asked(q)
           /\ AfterAgentReview(q) = "escalation_review" => Escalating(q)
  <1>1. Review(q) \in ReviewRecord /\ Review(q) = q.reviews[q.active] /\ q.active \in 1 .. q.active
    BY ActiveReview
  <1>2. Review(q).high \in BOOLEAN /\ Review(q).agent \in Says
    BY <1>1, ReviewParts
  <1>3. ~ Review(q).high => Review(q).escalation = None
    BY <1>1 DEF Ordered
  <1>4. CASE Review(q).agent = None
    BY <1>4 DEF AfterAgentReview
  <1>5. CASE Review(q).agent # None /\ Review(q).high
    BY <1>5 DEF AfterAgentReview, Escalating
  <1>6. CASE Review(q).agent # None /\ ~ Review(q).high
    <2>1. AfterAgentReview(q) \in {"human_review", "rework_analysis"}
      BY <1>6 DEF AfterAgentReview, ReworkOrHuman
    <2>2. AgentDecision(Review(q)) = Review(q).agent
      BY <1>3, <1>6 DEF AgentDecision
    <2> QED
      BY <2>1, <2>2 DEF Asked, Judged
  <1> QED
    BY <1>2, <1>4, <1>5, <1>6

LEMMA NewReviewType ==
    ASSUME NEW p \in Pipeline, Ordered(p), tree \in Trees,
           NEW d \in Says, NEW high \in BOOLEAN
    PROVE  /\ d \in Verdicts => NewReview(p, d, high) \in ReviewRecord
           /\ OutOfScope(p, tree) \in Outs /\ SourceSuite(p) \in Suites
  <1>1. OutOfScope(p, tree) \in Outs
    BY DEF OutOfScope, Outs
  <1>2. SourceSuite(p) \in Suites
    BY SuiteType
  <1>3. p.rework \in Nat
    BY Parts
  <1> QED
    BY <1>1, <1>2, <1>3 DEF NewReview, ReviewRecord, Says, Suites

LEMMA AddReviewType ==
    ASSUME NEW p \in Pipeline, NEW c \in ReviewRecord
    PROVE  LET q == AddReview(p, c) IN
           /\ q \in Pipeline /\ q.reviews = Append(p.reviews, c) /\ q.active = Len(p.reviews) + 1
           /\ q.reworks = p.reworks /\ q.rework = p.rework /\ q.put = p.put
           /\ q.build = p.build /\ q.blocked = p.blocked /\ q.refused = p.refused
  <1> DEFINE s == Append(p.reviews, c)
             n == Len(p.reviews) + 1
             q == [p EXCEPT !.reviews = s, !.active = n]
  <1>1. s \in Seq(ReviewRecord) /\ n \in Nat
    BY Parts
  <1>2. AddReview(p, c) = q
    BY DEF AddReview
  <1> HIDE DEF s, n
  <1>3. /\ q \in Pipeline /\ q.reviews = s /\ q.active = n
        /\ q.reworks = p.reworks /\ q.rework = p.rework /\ q.put = p.put
        /\ q.build = p.build /\ q.blocked = p.blocked /\ q.refused = p.refused
    BY <1>1 DEF Pipeline
  <1> QED
    BY <1>2, <1>3 DEF s, n

LEMMA AgentReviewKeeps == ASSUME FlowInv, AgentReview PROVE FlowInv'
  <1> DEFINE p == [tip EXCEPT !.status = "running"]
  <1>1. /\ tip \in Pipeline /\ Sound(tip) /\ tree \in Trees /\ tree' = tree
    <2>1. tip \in Pipeline /\ Sound(tip) /\ tree \in Trees
      BY DEF FlowInv, FlowTypeOK
    <2>2. tree' = tree
      BY Zenon DEF AgentReview, Reads
    <2> QED
      BY <2>1, <2>2
  <1>2. /\ p \in Pipeline /\ SameReviews(tip, p) /\ p.put = tip.put /\ p.refused = tip.refused
        /\ p.blocked = tip.blocked /\ p.build = tip.build
    BY <1>1 DEF Pipeline, SameReviews, Statuses
  <1>3. \/ SameReview(p) /\ Return(p, AfterAgentReview(p))
        \/ \E suite \in {"green", "red"} : \E d \in Decisions(p, suite) :
             LET q == AddReview(p, NewReview(p, d[1], d[2]))
             IN Return(q, AfterAgentReview(q))
    BY Zenon DEF AgentReview
  <1> HIDE DEF p
  <1>4. Sound(p)
    BY <1>1, <1>2, SameReading DEF Sound, Blocked
  <1>5. Ordered(p) /\ Judged(p) /\ Blocked(p)
    BY <1>4 DEF Sound
  <1>6. CASE SameReview(p) /\ Return(p, AfterAgentReview(p))
    <2>1. /\ p.active # 0 /\ Review(p).agent # None
          /\ Review(p).print = <<p.rework, tree, SourceSuite(p), OutOfScope(p, tree)>>
      BY <1>6 DEF SameReview
    <2>2. Review(p) = p.reviews[p.active] /\ p.active \in 1 .. p.active
      BY <1>2, <1>5, <2>1, ActiveReview
    <2>3. Review(p).print[1] = Review(p).rework
      BY <1>5, <2>1, <2>2 DEF Ordered
    <2>4. Review(p).rework = p.rework /\ Review(p).print[3] = SourceSuite(p)
      BY <2>1, <2>3
    <2>5. /\ AfterAgentReview(p) \in {"end", "escalation_review", "human_review", "rework_analysis"}
          /\ AfterAgentReview(p) = "human_review" => Asked(p)
          /\ AfterAgentReview(p) = "escalation_review" => Escalating(p)
      BY <1>2, <1>5, <2>1, <2>4, AfterReview
    <2> QED
      BY <1>1, <1>2, <1>4, <1>6, <2>5, ReturnKeeps DEF Stages, Restarts
  <1>7. ASSUME NEW suite \in {"green", "red"}, NEW d \in Decisions(p, suite),
               LET q == AddReview(p, NewReview(p, d[1], d[2]))
               IN Return(q, AfterAgentReview(q))
        PROVE  FlowInv'
    <2> DEFINE c == NewReview(p, d[1], d[2])
               q == AddReview(p, c)
    <2>1. /\ d[1] \in Verdicts /\ d[2] \in BOOLEAN
          /\ d[1] = "approved" => SourceSuite(p) # "red" /\ ~ Unresolved(p)
      <3>1. CASE MustFix(p, suite)
        <4>1. d = <<"needs_fixes", FALSE>>
          BY <3>1 DEF Decisions
        <4> QED
          BY <4>1 DEF Verdicts
      <3>2. CASE ~ MustFix(p, suite)
        <4>1. \E w \in Verdicts, h \in BOOLEAN : d = <<w, h>>
          BY <3>2 DEF Decisions, Verdicts
        <4>2. SourceSuite(p) # "red" /\ ~ Unresolved(p)
          BY <3>2 DEF MustFix
        <4> QED
          BY <4>1, <4>2
      <3> QED
        BY <3>1, <3>2
    <2>2. Return(q, AfterAgentReview(q))
      BY <1>7
    <2>3. c \in ReviewRecord
      BY <1>1, <1>2, <1>5, <2>1, NewReviewType DEF Says
    <2>4. /\ c.rework = p.rework /\ c.escalation = None /\ c.agent = d[1]
          /\ c.print = <<p.rework, tree, SourceSuite(p), OutOfScope(p, tree)>>
      BY DEF NewReview
    <2>5. c.print[1] = c.rework /\ c.print[3] = SourceSuite(p)
      BY <2>4
    <2> HIDE DEF c
    <2>6. /\ q \in Pipeline /\ q.reviews = Append(p.reviews, c) /\ q.active = Len(p.reviews) + 1
          /\ q.reworks = p.reworks /\ q.rework = p.rework /\ q.put = p.put
          /\ q.build = p.build /\ q.blocked = p.blocked /\ q.refused = p.refused
      BY <1>2, <2>3, AddReviewType DEF SameReviews
    <2> HIDE DEF q
    <2>7. /\ Ordered(q) /\ Review(q) = c /\ SourceSuite(q) = SourceSuite(p)
          /\ ~ Unresolved(p) => Cleared(q)
      BY <1>2, <1>5, <2>3, <2>4, <2>5, <2>6, AddedReview
    <2>8. Judged(q)
      BY <2>1, <2>4, <2>5, <2>7, Words DEF Judged
    <2>9. Sound(q)
      BY <1>5, <2>6, <2>7, <2>8 DEF Sound, Blocked
    <2>10. q.active # 0
      BY <1>2, <2>6, Parts
    <2>11. /\ AfterAgentReview(q)
                \in {"end", "escalation_review", "human_review", "rework_analysis"}
           /\ AfterAgentReview(q) = "human_review" => Asked(q)
           /\ AfterAgentReview(q) = "escalation_review" => Escalating(q)
      BY <2>4, <2>5, <2>6, <2>7, <2>8, <2>10, AfterReview
    <2> QED
      BY <1>1, <2>2, <2>6, <2>9, <2>11, ReturnKeeps DEF Stages, Restarts
  <1> QED
    BY <1>3, <1>6, <1>7

LEMMA EscalationKeeps == ASSUME FlowInv, EscalationReview PROVE FlowInv'
  <1> DEFINE p == [tip EXCEPT !.status = "running"]
             c == Review(p)
             e(d) == [c EXCEPT !.escalation = d, !.escalated = SourceSuite(p),
                               !.status = IF d = "approved" THEN d ELSE "needs_fixes"]
             q(d) == [p EXCEPT !.reviews[p.active] = e(d)]
  <1>1. /\ tip \in Pipeline /\ Sound(tip) /\ tree \in Trees /\ tree' = tree /\ Escalating(tip)
    <2>1. tip \in Pipeline /\ Sound(tip) /\ tree \in Trees
      BY DEF FlowInv, FlowTypeOK
    <2>2. tree' = tree /\ next = "escalation_review"
      BY Zenon DEF EscalationReview, Reads, At
    <2> QED
      BY <2>1, <2>2 DEF FlowInv, Staged
  <1>2. /\ p \in Pipeline /\ SameReviews(tip, p) /\ p.put = tip.put /\ p.refused = tip.refused
        /\ p.blocked = tip.blocked /\ p.build = tip.build
    BY <1>1 DEF Pipeline, SameReviews, Statuses
  <1>3. \/ /\ c.escalation # None /\ c.escalated = SourceSuite(p)
           /\ Return(p, AfterEscalation(p))
        \/ \E d \in IF SourceSuite(p) = "red" \/ Unresolved(p) THEN {"needs_fixes"} ELSE Verdicts :
             Return(q(d), AfterEscalation(q(d)))
    BY Zenon DEF EscalationReview
  <1> HIDE DEF p
  <1>4. Sound(p)
    BY <1>1, <1>2, SameReading DEF Sound, Blocked
  <1>5. Ordered(p) /\ Judged(p) /\ Blocked(p)
    BY <1>4 DEF Sound
  <1>6. /\ p.active # 0 /\ c.high /\ c.agent # None /\ c.rework = p.rework
    <2>1. Review(p) = Review(tip) /\ p.active = tip.active /\ p.rework = tip.rework
      BY <1>2, SameReading DEF SameReviews
    <2> QED
      BY <1>1, <2>1 DEF Escalating
  <1>7. c \in ReviewRecord /\ c = p.reviews[p.active] /\ p.active \in DOMAIN p.reviews
    BY <1>2, <1>5, <1>6, ActiveReview
  <1>8. CASE c.escalation # None /\ c.escalated = SourceSuite(p) /\ Return(p, AfterEscalation(p))
    <2>1. AfterEscalation(p) \in {"human_review", "rework_analysis"}
      BY DEF AfterEscalation, ReworkOrHuman
    <2>2. AgentDecision(c) = c.escalation
      BY <1>8 DEF AgentDecision
    <2>3. Asked(p)
      BY <1>5, <1>6, <1>8, <2>2 DEF Asked, Judged
    <2> QED
      BY <1>1, <1>2, <1>4, <1>8, <2>1, <2>3, ReturnKeeps DEF Stages, Restarts
  <1>9. ASSUME NEW d \in IF SourceSuite(p) = "red" \/ Unresolved(p) THEN {"needs_fixes"}
                         ELSE Verdicts,
               Return(q(d), AfterEscalation(q(d)))
        PROVE  FlowInv'
    <2>1. d \in Verdicts /\ (d = "approved" => SourceSuite(p) # "red" /\ ~ Unresolved(p))
      BY <1>9 DEF Verdicts
    <2>2. SourceSuite(p) \in Suites
      BY <1>2, <1>5, SuiteType
    <2>3. /\ e(d) \in ReviewRecord /\ e(d).rework = c.rework /\ e(d).agent = c.agent
          /\ e(d).print = c.print /\ e(d).high = c.high /\ e(d).extra = c.extra
          /\ e(d).escalation = d /\ e(d).escalated = SourceSuite(p)
      <3> DEFINE s == IF d = "approved" THEN d ELSE "needs_fixes"
      <3>1. s \in Verdicts
        BY DEF Verdicts
      <3>2. e(d) = [c EXCEPT !.escalation = d, !.escalated = SourceSuite(p), !.status = s]
        OBVIOUS
      <3> HIDE DEF s, e, c
      <3> QED
        BY <1>7, <2>1, <2>2, <3>1, <3>2 DEF ReviewRecord, Says
    <2> HIDE DEF e
    <2>4. /\ q(d) \in Pipeline /\ q(d).reviews = [p.reviews EXCEPT ![p.active] = e(d)]
          /\ q(d).active = p.active /\ q(d).reworks = p.reworks /\ q(d).rework = p.rework
          /\ q(d).put = p.put /\ q(d).build = p.build /\ q(d).blocked = p.blocked
          /\ q(d).refused = p.refused
      <3> DEFINE s == [p.reviews EXCEPT ![p.active] = e(d)]
      <3>1. s \in Seq(ReviewRecord)
        BY <1>2, <1>7, <2>3, Parts
      <3>2. q(d) = [p EXCEPT !.reviews = s]
        OBVIOUS
      <3> HIDE DEF s, q
      <3> QED
        BY <1>2, <3>1, <3>2 DEF Pipeline, s
    <2> HIDE DEF q
    <2>5. Ordered(q(d)) /\ Review(q(d)) = e(d)
      <3>1. /\ e(d).agent = None => e(d).escalation = None
            /\ ~ e(d).high => e(d).escalation = None
        BY <1>6, <2>3
      <3> QED
        BY <1>2, <1>5, <1>6, <2>3, <2>4, <3>1, RevisedReview
    <2>6. /\ Cleared(p) => Cleared(q(d))
          /\ SourceSuite(q(d)) = SourceSuite(p)
      BY <1>2, <1>5, <1>6, <2>3, <2>4, RevisedChecks
    <2>7. Judged(q(d))
      <3>1. ~ Unresolved(p) => Cleared(p)
        BY DEF Cleared
      <3> QED
        BY <1>5, <1>6, <2>1, <2>3, <2>4, <2>5, <2>6, <3>1 DEF Judged
    <2>8. Sound(q(d))
      BY <1>5, <2>4, <2>5, <2>7 DEF Sound, Blocked
    <2>9. AfterEscalation(q(d)) \in {"human_review", "rework_analysis"}
      BY DEF AfterEscalation, ReworkOrHuman
    <2>10. Asked(q(d))
      <3>1. AgentDecision(e(d)) = d
        BY <2>1, <2>3, Words DEF AgentDecision
      <3> QED
        BY <1>6, <2>1, <2>3, <2>4, <2>5, <2>6, <3>1 DEF Asked, Cleared
    <2> QED
      BY <1>1, <1>9, <2>4, <2>8, <2>9, <2>10, ReturnKeeps DEF Stages, Restarts
  <1> HIDE DEF c, q
  <1> QED
    BY <1>3, <1>8, <1>9

LEMMA AskKeeps == ASSUME FlowInv, AskApproval \/ AskReview PROVE FlowInv'
  <1>1. /\ UNCHANGED <<tip, last, next, plan, saved, tree>> /\ gate' = TRUE /\ running' = FALSE
        /\ next \in {"human_approval_gate", "human_review"}
    BY DEF AskApproval, AskReview, WaitForPerson, At
  <1> QED
    BY <1>1, WaitKeeps DEF FlowInv, FlowTypeOK

LEMMA CrashKeeps == ASSUME FlowInv, Crash PROVE FlowInv'
  <1>1. UNCHANGED <<tip, last, next, plan, saved, gate>> /\ running' = FALSE /\ tree' \in Trees
    BY DEF Crash, FlowInv, FlowTypeOK
  <1> QED
    BY <1>1, WaitKeeps DEF FlowInv, FlowTypeOK

LEMMA ReviewAnswerKeeps ==
    ASSUME FlowInv, NEW answer \in Answers, HumanReview(answer)
    PROVE  FlowInv'
  <1> DEFINE c == Review(tip)
             allowed == IF answer.decision = "approved" /\ c.extra # None
                        THEN tip.allowed \cup {c.extra} ELSE tip.allowed
             said == IF AgentDecision(c) = "approved" THEN answer.decision ELSE "needs_fixes"
             scoped(mark) == [c EXCEPT !.status = mark]
             judged == [c EXCEPT !.human = answer.decision, !.checks = answer.checks,
                                 !.status = said]
             answered(status, r) == [tip EXCEPT !.allowed = allowed, !.status = status,
                                          !.reviews[tip.active] = r]
             p == IF c.status # "scope_gate_pending" THEN answered(said, judged)
                  ELSE IF answer.decision = "approved" THEN answered("running", scoped("scope_approved"))
                  ELSE answered("needs_fixes", scoped("needs_fixes"))
  <1>1. /\ tip \in Pipeline /\ Sound(tip) /\ tree \in Trees /\ tree' = tree /\ tip.active # 0
        /\ next = "human_review" /\ Asked(tip)
    <2>1. tip \in Pipeline /\ Sound(tip) /\ tree \in Trees
      BY DEF FlowInv, FlowTypeOK
    <2>2. tree' = tree /\ next = "human_review" /\ tip.active # 0
      BY Zenon DEF HumanReview, Reads
    <2> QED
      BY <2>1, <2>2 DEF FlowInv, Staged
  <1>2. /\ c.status = "scope_gate_pending" \/ c.agent # None
        /\ Return(p, AfterHumanReview(p))
    BY Zenon DEF HumanReview
  <1>3. Ordered(tip) /\ Judged(tip) /\ Blocked(tip)
    BY <1>1 DEF Sound
  <1>4. c \in ReviewRecord /\ c = tip.reviews[tip.active] /\ tip.active \in DOMAIN tip.reviews
        /\ tip.active \in 1 .. tip.active
    BY <1>1, <1>3, ActiveReview
  <1>5. /\ c.agent = None => c.escalation = None
        /\ ~ c.high => c.escalation = None
    BY <1>3, <1>4 DEF Ordered
  <1>6. /\ answer.decision \in Verdicts /\ answer.checks \in BOOLEAN
        /\ answer.checks => answer.decision = "needs_fixes"
    BY DEF Answers
  <1>7. said \in Verdicts /\ allowed \in SUBSET Trees
    <2>1. c.extra # None => c.extra \in Trees
      BY <1>4, ReviewParts DEF Outs
    <2> QED
      BY <1>1, <1>6, <2>1, Parts DEF Statuses, Verdicts
  <1>8. ASSUME NEW mark \in {"scope_approved", "needs_fixes"}
        PROVE  LET r == scoped(mark) IN
               /\ r \in ReviewRecord /\ r.rework = c.rework /\ r.agent = c.agent
               /\ r.print = c.print /\ r.high = c.high /\ r.extra = c.extra
               /\ r.escalation = c.escalation /\ r.escalated = c.escalated
               /\ r.status = mark /\ r.checks = c.checks
    <2> HIDE DEF c
    <2> QED
      BY <1>4 DEF ReviewRecord, Verdicts
  <1>9. /\ judged \in ReviewRecord /\ judged.rework = c.rework /\ judged.agent = c.agent
        /\ judged.print = c.print /\ judged.high = c.high /\ judged.extra = c.extra
        /\ judged.escalation = c.escalation /\ judged.escalated = c.escalated
        /\ judged.status = said /\ judged.checks = answer.checks
        /\ judged.human = answer.decision
    <2> HIDE DEF c, said
    <2> QED
      BY <1>4, <1>6, <1>7 DEF ReviewRecord, Says
  <1>10. ASSUME NEW status \in Statuses, NEW r \in ReviewRecord
         PROVE  LET q == answered(status, r) IN
                /\ q \in Pipeline /\ q.reviews = [tip.reviews EXCEPT ![tip.active] = r]
                /\ q.active = tip.active /\ q.reworks = tip.reworks /\ q.rework = tip.rework
                /\ q.put = tip.put /\ q.build = tip.build /\ q.blocked = tip.blocked
                /\ q.refused = tip.refused /\ q.direct = tip.direct
    <2> DEFINE s == [tip.reviews EXCEPT ![tip.active] = r]
               q == [tip EXCEPT !.allowed = allowed, !.status = status, !.reviews = s]
    <2>1. s \in Seq(ReviewRecord)
      BY <1>1, <1>4, Parts
    <2>2. answered(status, r) = q
      OBVIOUS
    <2> HIDE DEF s, answered, allowed
    <2>3. /\ q \in Pipeline /\ q.reviews = s
          /\ q.active = tip.active /\ q.reworks = tip.reworks /\ q.rework = tip.rework
          /\ q.put = tip.put /\ q.build = tip.build /\ q.blocked = tip.blocked
          /\ q.refused = tip.refused /\ q.direct = tip.direct
      BY <1>1, <1>7, <2>1 DEF Pipeline
    <2> QED
      BY <2>2, <2>3 DEF s
  <1> HIDE DEF c, allowed, said, scoped, judged, answered
  <1>11. CASE c.status = "scope_gate_pending"
    <2>1. PICK status \in {"running", "needs_fixes"}, mark \in {"scope_approved", "needs_fixes"} :
             p = answered(status, scoped(mark))
      BY <1>11
    <2>2. /\ p \in Pipeline /\ p.reviews = [tip.reviews EXCEPT ![tip.active] = scoped(mark)]
          /\ p.active = tip.active /\ p.reworks = tip.reworks /\ p.rework = tip.rework
          /\ p.put = tip.put /\ p.build = tip.build /\ p.blocked = tip.blocked
          /\ p.refused = tip.refused
      <3>1. scoped(mark) \in ReviewRecord /\ status \in Statuses
        BY <1>8 DEF Statuses, Verdicts
      <3> HIDE DEF p
      <3> QED
        BY <1>10, <2>1, <3>1
    <2> HIDE DEF p
    <2>3. Ordered(p) /\ Review(p) = scoped(mark)
      BY <1>1, <1>3, <1>5, <1>8, <2>2, RevisedReview DEF c
    <2>4. Cleared(tip) => Cleared(p)
      BY <1>1, <1>3, <1>8, <2>2, RevisedChecks DEF c
    <2>5. Judged(p)
      BY <1>1, <1>3, <1>8, <2>2, <2>3, <2>4 DEF Judged, c
    <2>6. Sound(p)
      BY <1>3, <2>2, <2>3, <2>5 DEF Sound, Blocked
    <2>7. AfterHumanReview(p) \in {"agent_review", "rework_analysis"}
      BY <1>8, <2>3 DEF AfterHumanReview
    <2> QED
      BY <1>1, <1>2, <2>2, <2>6, <2>7, ReturnKeeps DEF Stages, Restarts
  <1>12. CASE c.status # "scope_gate_pending"
    <2>1. p = answered(said, judged)
      BY <1>12
    <2>2. /\ p \in Pipeline /\ p.reviews = [tip.reviews EXCEPT ![tip.active] = judged]
          /\ p.active = tip.active /\ p.reworks = tip.reworks /\ p.rework = tip.rework
          /\ p.put = tip.put /\ p.build = tip.build /\ p.blocked = tip.blocked
          /\ p.refused = tip.refused
      <3>1. said \in Statuses
        BY <1>7 DEF Statuses
      <3> HIDE DEF p
      <3> QED
        BY <1>9, <1>10, <2>1, <3>1
    <2> HIDE DEF p
    <2>3. Ordered(p) /\ Review(p) = judged
      BY <1>1, <1>3, <1>5, <1>9, <2>2, RevisedReview DEF c
    <2>4. /\ Cleared(tip) => Cleared(p)
          /\ Cleared(tip) /\ ~ judged.checks => ~ Unresolved(p)
          /\ SourceSuite(p) = SourceSuite(tip)
      BY <1>1, <1>3, <1>9, <2>2, RevisedChecks DEF c
    <2>5. Judged(p)
      BY <1>1, <1>3, <1>9, <2>2, <2>3, <2>4 DEF Judged, c
    <2>6. Sound(p)
      BY <1>3, <2>2, <2>3, <2>5 DEF Sound, Blocked
    <2>7. AfterHumanReview(p) \in {"ship", "rework_analysis"}
          /\ (AfterHumanReview(p) = "ship" => said = "approved")
      BY <1>7, <1>9, <2>3 DEF AfterHumanReview, Verdicts
    <2>8. said = "approved" => Approved(p)
      <3> SUFFICES ASSUME said = "approved", ~ p.put PROVE Approved(p)
        BY DEF Approved
      <3>1. AgentDecision(c) = "approved" /\ answer.decision = "approved" /\ ~ answer.checks
        BY <1>6 DEF said
      <3>2. SourceSuite(tip) # "red" /\ Cleared(tip)
        BY <1>1, <1>12, <2>2, <3>1 DEF Asked, c
      <3>3. AgentDecision(judged) = "approved"
        BY <1>9, <3>1 DEF AgentDecision
      <3> QED
        BY <1>1, <1>9, <2>2, <2>3, <2>4, <3>1, <3>2, <3>3 DEF Approved
    <2> QED
      BY <1>1, <1>2, <2>2, <2>6, <2>7, <2>8, ReturnKeeps DEF Stages, Restarts
  <1> QED
    BY <1>11, <1>12

LEMMA AddReworkType ==
    ASSUME NEW p \in Pipeline, NEW r \in ReworkRecord
    PROVE  LET q == AddRework(p, r) IN
           /\ q \in Pipeline /\ q.reworks = Append(p.reworks, r) /\ q.rework = Len(p.reworks) + 1
           /\ q.reviews = p.reviews /\ q.active = p.active /\ q.put = p.put
           /\ q.build = p.build /\ q.blocked = p.blocked /\ q.refused = p.refused
  <1> DEFINE s == Append(p.reworks, r)
             n == Len(p.reworks) + 1
             q == [p EXCEPT !.reworks = s, !.rework = n]
  <1>1. s \in Seq(ReworkRecord) /\ n \in Nat
    BY Parts
  <1>2. AddRework(p, r) = q
    BY DEF AddRework
  <1> HIDE DEF s, n
  <1>3. /\ q \in Pipeline /\ q.reworks = s /\ q.rework = n
        /\ q.reviews = p.reviews /\ q.active = p.active /\ q.put = p.put
        /\ q.build = p.build /\ q.blocked = p.blocked /\ q.refused = p.refused
    BY <1>1 DEF Pipeline
  <1> QED
    BY <1>2, <1>3 DEF s, n

LEMMA AnalysisKeeps == ASSUME FlowInv, ReworkAnalysis PROVE FlowInv'
  <1> DEFINE p == [tip EXCEPT !.status = "running"]
             same == p.rework # 0 /\ p.reworks[p.rework].print = AnalysisPrint(p)
                     /\ p.reworks[p.rework].suite = None
             cycle == [source |-> ContextReview(p), print |-> AnalysisPrint(p), suite |-> None,
                       resolved |-> FALSE, status |-> "analysis_complete"]
             q == AddRework(p, cycle)
  <1>1. /\ tip \in Pipeline /\ Sound(tip) /\ tree \in Trees /\ tree' = tree /\ tip.active # 0
        /\ Return(IF same THEN p ELSE q, "rework_implementation")
    <2>1. tip \in Pipeline /\ Sound(tip) /\ tree \in Trees
      BY DEF FlowInv, FlowTypeOK
    <2>2. /\ tree' = tree /\ tip.active # 0
          /\ Return(IF same THEN p ELSE q, "rework_implementation")
      BY Zenon DEF ReworkAnalysis, Reads
    <2> QED
      BY <2>1, <2>2
  <1>2. /\ p \in Pipeline /\ SameReviews(tip, p) /\ p.put = tip.put /\ p.refused = tip.refused
        /\ p.blocked = tip.blocked /\ p.build = tip.build
    BY <1>1 DEF Pipeline, SameReviews, Statuses
  <1> HIDE DEF p
  <1>3. Sound(p) /\ p.active # 0
    BY <1>1, <1>2, SameReading DEF Sound, Blocked, SameReviews
  <1>4. Ordered(p) /\ Judged(p) /\ Blocked(p)
    BY <1>3 DEF Sound
  <1>5. AnalysisPrint(p) \in Nat \X Nat \X ReviewRecord \X BOOLEAN /\ AnalysisPrint(p)[1] = p.active
    <2>1. ContextReview(p) \in 1 .. p.active /\ p.active \in Nat /\ p.active = Len(p.reviews)
      BY <1>2, <1>3, <1>4, ContextIsThere, Parts DEF Ordered
    <2>2. p.reviews[ContextReview(p)] \in ReviewRecord
      BY <1>2, <2>1, Parts
    <2>3. RequiredChecks(p) \in BOOLEAN
      BY <1>2, <1>4, CheckedIsThere
    <2> QED
      BY <2>1, <2>2, <2>3 DEF AnalysisPrint
  <1>6. CASE same
    <2>1. /\ p.active \in 1 .. p.active /\ Review(p) = p.reviews[p.active] /\ p.active \in Nat
      BY <1>2, <1>3, <1>4, ActiveReview, Parts
    <2>2. p.reworks[p.rework].print[1] = p.active
      BY <1>5, <1>6
    <2>3. Review(p).rework # p.rework
      <3> SUFFICES ASSUME Review(p).rework = p.rework PROVE FALSE
        OBVIOUS
      <3>1. p.reworks[p.rework].print[1] < p.active
        BY <1>4, <1>6, <2>1 DEF Ordered
      <3> QED
        BY <2>1, <2>2, <3>1
    <2>4. Return(p, "rework_implementation") /\ Reworking(p)
      BY <1>1, <1>6, <2>3 DEF Reworking
    <2> QED
      BY <1>1, <1>2, <1>3, <2>4, ReturnKeeps DEF Stages, Restarts
  <1>7. CASE ~ same
    <2>1. /\ cycle \in ReworkRecord /\ cycle.source = ContextReview(p)
          /\ cycle.print[1] = p.active
      <3>1. ContextReview(p) \in Nat
        BY <1>2, <1>3, <1>4, ContextIsThere, Parts
      <3> QED
        BY <1>5, <3>1 DEF ReworkRecord
    <2>2. Return(q, "rework_implementation")
      BY <1>1, <1>7
    <2> HIDE DEF cycle
    <2>3. /\ q \in Pipeline /\ q.reworks = Append(p.reworks, cycle)
          /\ q.rework = Len(p.reworks) + 1
          /\ q.reviews = p.reviews /\ q.active = p.active /\ q.put = p.put
          /\ q.build = p.build /\ q.blocked = p.blocked /\ q.refused = p.refused
      BY <1>2, <2>1, AddReworkType
    <2> HIDE DEF q
    <2>4. Ordered(q) /\ Judged(q) /\ Reworking(q)
      BY <1>2, <1>3, <1>4, <2>1, <2>3, AddedRework
    <2>5. Sound(q)
      BY <1>4, <2>3, <2>4 DEF Sound, Blocked
    <2> QED
      BY <1>1, <2>2, <2>3, <2>4, <2>5, ReturnKeeps DEF Stages, Restarts
  <1> QED
    BY <1>6, <1>7

\* The review that a rework with files nobody allowed leaves to a person.
LEMMA ScopeGateKeeps ==
    ASSUME NEW p \in Pipeline, Ordered(p), Judged(p), Reworking(p), NEW out \in Trees,
           tree \in Trees
    PROVE  LET q == OpenScopeGate(p, out) IN
           /\ q \in Pipeline /\ Ordered(q) /\ Judged(q) /\ q.put = p.put
           /\ q.blocked = p.blocked /\ q.refused = p.refused
  <1> DEFINE pending == /\ p.active # 0 /\ Review(p).status = "scope_gate_pending"
                        /\ Review(p).rework = p.rework
  <1>1. CASE pending
    <2> DEFINE c == [Review(p) EXCEPT !.extra = out]
               s == [p.reviews EXCEPT ![p.active] = c]
               q == [p EXCEPT !.reviews = s]
    <2>1. /\ Review(p) \in ReviewRecord /\ Review(p) = p.reviews[p.active]
          /\ p.active \in DOMAIN p.reviews /\ p.active \in 1 .. p.active
      BY <1>1, ActiveReview
    <2>2. OpenScopeGate(p, out) = q
      <3>1. OpenScopeGate(p, out) = [p EXCEPT !.reviews[p.active].extra = out]
        BY <1>1 DEF OpenScopeGate
      <3>2. [p EXCEPT !.reviews[p.active].extra = out] = q
        BY <2>1
      <3> QED
        BY <3>1, <3>2
    <2>3. /\ c \in ReviewRecord /\ c.rework = Review(p).rework /\ c.agent = Review(p).agent
          /\ c.print = Review(p).print /\ c.escalation = Review(p).escalation
          /\ c.high = Review(p).high
      BY <2>1 DEF ReviewRecord, Outs
    <2> HIDE DEF c
    <2>4. s \in Seq(ReviewRecord)
      BY <2>1, <2>3, Parts
    <2> HIDE DEF s
    <2>5. /\ q \in Pipeline /\ q.reviews = s /\ q.active = p.active /\ q.reworks = p.reworks
          /\ q.rework = p.rework /\ q.put = p.put /\ q.blocked = p.blocked
          /\ q.refused = p.refused
      BY <2>4 DEF Pipeline
    <2> HIDE DEF q
    <2>6. /\ c.agent = None => c.escalation = None
          /\ ~ c.high => c.escalation = None
      BY <2>1, <2>3 DEF Ordered
    <2>7. Ordered(q)
      BY <1>1, <2>3, <2>5, <2>6, RevisedReview DEF s
    <2>8. p.put
      BY <1>1, Parts DEF Reworking
    <2> QED
      BY <2>2, <2>5, <2>7, <2>8 DEF Judged
  <1>2. CASE ~ pending
    <2> DEFINE c == [NewReview(p, None, FALSE) EXCEPT
                        !.print = None, !.extra = out, !.status = "scope_gate_pending"]
               q == AddReview(p, c)
    <2>1. OpenScopeGate(p, out) = q
      BY <1>2 DEF OpenScopeGate
    <2>2. /\ c \in ReviewRecord /\ c.rework = p.rework /\ c.escalation = None
          /\ c.agent = None
      BY Parts DEF NewReview, ReviewRecord, Says, Outs, Suites
    <2> HIDE DEF c
    <2>3. /\ q \in Pipeline /\ q.reviews = Append(p.reviews, c) /\ q.active = Len(p.reviews) + 1
          /\ q.reworks = p.reworks /\ q.rework = p.rework /\ q.put = p.put
          /\ q.blocked = p.blocked /\ q.refused = p.refused
      BY <2>2, AddReviewType
    <2> HIDE DEF q
    <2>4. Ordered(q) /\ Review(q) = c
      BY <2>2, <2>3, AddedReview
    <2>5. Judged(q)
      BY <2>2, <2>4, Words DEF Judged
    <2> QED
      BY <2>1, <2>3, <2>4, <2>5
  <1> QED
    BY <1>1, <1>2

LEMMA ReworkKeeps == ASSUME FlowInv, ReworkImplementation PROVE FlowInv'
  <1>1. /\ tip \in Pipeline /\ Sound(tip) /\ tree \in Trees
    BY DEF FlowInv, FlowTypeOK
  <1> DEFINE r(bad, suite, resolved) ==
                 [tip.reworks[tip.rework] EXCEPT
                      !.suite = suite, !.resolved = resolved,
                      !.status = IF bad THEN "blocked" ELSE "implementation_complete"]
             done(bad, suite, resolved) ==
                 [tip EXCEPT !.status = IF bad THEN "blocked" ELSE "running",
                             !.blocked = @ \/ bad,
                             !.reworks[tip.rework] = r(bad, suite, resolved)]
  <1>2. PICK t \in Trees \ {"clean"}, suite \in {"green", "red"}, resolved \in BOOLEAN :
           LET out == OutOfScope(tip, t)
               bad == out # None \/ suite = "red"
               p == IF out = None THEN done(bad, suite, resolved)
                    ELSE OpenScopeGate(done(bad, suite, resolved), out)
           IN tree' = t /\ Return(p, AfterRework(p))
    BY Zenon DEF ReworkImplementation
  <1>3. tip.rework # 0 /\ Reworking(tip)
    <2>1. tip.rework # 0 /\ next = "rework_implementation"
      BY Zenon DEF ReworkImplementation, At
    <2> QED
      BY <2>1 DEF FlowInv, Staged
  <1> DEFINE bad == OutOfScope(tip, t) # None \/ suite = "red"
             d == done(bad, suite, resolved)
             p == IF OutOfScope(tip, t) = None THEN d ELSE OpenScopeGate(d, OutOfScope(tip, t))
  <1>5. tree' = t /\ Return(p, AfterRework(p))
    BY <1>2, Zenon
  <1> HIDE DEF bad
  <1>6. /\ d \in Pipeline /\ d.active = tip.active /\ d.reviews = tip.reviews
        /\ d.rework = tip.rework /\ d.put = tip.put /\ d.refused = tip.refused
        /\ (tip.blocked => d.blocked)
        /\ d.reworks = [tip.reworks EXCEPT ![tip.rework] = r(bad, suite, resolved)]
        /\ r(bad, suite, resolved) \in ReworkRecord
        /\ r(bad, suite, resolved).source = tip.reworks[tip.rework].source
        /\ r(bad, suite, resolved).print = tip.reworks[tip.rework].print
    <2> DEFINE e == r(bad, suite, resolved)
               s == [tip.reworks EXCEPT ![tip.rework] = e]
               w == IF bad THEN "blocked" ELSE "running"
    <2>1. /\ tip.reworks[tip.rework] \in ReworkRecord /\ tip.rework \in DOMAIN tip.reworks
      BY <1>1, <1>3, ActiveRework DEF Sound
    <2>2. /\ e \in ReworkRecord /\ e.source = tip.reworks[tip.rework].source
          /\ e.print = tip.reworks[tip.rework].print
      BY <2>1 DEF ReworkRecord
    <2> HIDE DEF r
    <2>3. s \in Seq(ReworkRecord)
      BY <1>1, <2>1, <2>2, Parts
    <2>4. PICK b \in BOOLEAN : b = (tip.blocked \/ bad)
      OBVIOUS
    <2>5. d = [tip EXCEPT !.status = w, !.blocked = b, !.reworks = s]
      BY <2>4
    <2>6. w \in Statuses
      BY DEF Statuses
    <2> HIDE DEF s, w, d
    <2>7. /\ d \in Pipeline /\ d.active = tip.active /\ d.reviews = tip.reviews
          /\ d.rework = tip.rework /\ d.put = tip.put /\ d.refused = tip.refused
          /\ d.blocked = b /\ d.reworks = s
      BY <1>1, <2>3, <2>5, <2>6 DEF Pipeline
    <2> QED
      BY <2>2, <2>4, <2>7 DEF s
  <1> HIDE DEF d, r, done
  <1>7. Ordered(d)
    BY <1>1, <1>3, <1>6, RevisedRework DEF Sound
  <1>8. Reworking(d)
    BY <1>3, <1>6 DEF Reworking, Review
  <1>9. Judged(d) /\ Blocked(d)
    BY <1>1, <1>6, <1>8 DEF Judged, Blocked, Reworking, Sound
  <1>10. OutOfScope(tip, t) = None \/ OutOfScope(tip, t) \in Trees
    BY DEF OutOfScope
  <1>11. p \in Pipeline /\ Ordered(p) /\ Judged(p) /\ Blocked(p) /\ p.put = d.put
    BY <1>1, <1>6, <1>7, <1>8, <1>9, <1>10, ScopeGateKeeps DEF Blocked
  <1> HIDE DEF p
  <1>12. /\ AfterRework(p) \in {"human_review", "end", "agent_review"}
         /\ AfterRework(p) = "human_review" => Review(p).status = "scope_gate_pending"
    BY DEF AfterRework
  <1>13. AfterRework(p) = "human_review" => Asked(p)
    BY <1>12 DEF Asked
  <1>14. Sound(p)
    BY <1>11 DEF Sound
  <1> QED
    BY <1>5, <1>11, <1>12, <1>13, <1>14, ReturnKeeps DEF Stages, Restarts

(***************************************************************************)
(* The commands.                                                           *)
(***************************************************************************)
LEMMA CommandsKeep ==
    ASSUME FlowInv, NEW n, StepCommand(n) \/ All \/ SalvagePlan
    PROVE  FlowInv'
  <1>1. Existing \in Pipeline /\ Sound(Existing) /\ plan \in {1, 2}
    BY FreshIsSound DEF FlowInv, FlowTypeOK, Existing
  <1>2. CASE StepCommand(n)
    BY <1>1, <1>2, InvokeKeeps DEF StepCommand, Steps, Restarts
  <1>3. CASE All
    BY <1>3, FreshIsSound, InvokeKeeps DEF All, Restarts
  <1>4. CASE SalvagePlan
    <2> DEFINE q == [Existing EXCEPT !.plan = plan, !.status = "running"]
    <2>1. /\ q \in Pipeline /\ SameReviews(Existing, q) /\ q.put = Existing.put
          /\ q.blocked = Existing.blocked /\ q.refused = Existing.refused
      BY <1>1 DEF Pipeline, SameReviews, Statuses
    <2>2. Invoke(q, "human_approval_gate")
      BY <1>4 DEF SalvagePlan
    <2> HIDE DEF q
    <2>3. Sound(q)
      BY <1>1, <2>1, SameReading DEF Sound, Blocked
    <2> QED
      BY <2>1, <2>2, <2>3, InvokeKeeps DEF Restarts
  <1> QED
    BY <1>2, <1>3, <1>4

LEMMA RestoreKeeps ==
    ASSUME FlowInv, NEW n \in Entries, Restore(n)
    PROVE  FlowInv'
  <1> DEFINE gates == {"human_review", "human_approval_gate"}
             node == IF n \in gates /\ saved.gate \in gates THEN saved.gate ELSE n
             p == saved.pipeline
             past == node \in {"human_review", "rework_implementation"} /\ node # saved.gate
             q == [p EXCEPT !.status = IF @ \in {"waiting_for_human", "failed", "blocked"}
                                       THEN "running" ELSE @,
                            !.put = @ \/ past]
  <1>1. saved # None /\ Invoke(q, node)
    BY Zenon DEF Restore
  <1>2. /\ p \in Pipeline /\ Sound(p) /\ (saved.gate = "human_review" => Asked(p))
        /\ saved.gate # "rework_implementation"
    BY <1>1 DEF FlowInv, FlowTypeOK, SavedSound
  <1>3. node \in Restarts
    BY FlowAssumption DEF Restarts
  <1> HIDE DEF node
  <1>4. PICK b \in BOOLEAN : b = (p.put \/ past)
    OBVIOUS
  <1>5. PICK s \in Statuses : s = IF p.status \in {"waiting_for_human", "failed", "blocked"}
                                  THEN "running" ELSE p.status
    BY <1>2, Parts DEF Statuses
  <1>6. q = [p EXCEPT !.status = s, !.put = b]
    BY <1>4, <1>5
  <1> HIDE DEF q, past
  <1>7. /\ q \in Pipeline /\ SameReviews(p, q) /\ q.put = b /\ q.build = p.build
        /\ q.blocked = p.blocked /\ q.refused = p.refused
    BY <1>2, <1>6 DEF Pipeline, SameReviews
  <1>8. p.put \in BOOLEAN
    BY <1>2, Parts
  <1>9. Sound(q)
    <2>1. Ordered(q) /\ Blocked(q)
      BY <1>2, <1>7, SameReading DEF Sound, Blocked
    <2>2. Judged(q)
      <3>1. CASE b
        BY <1>7, <3>1 DEF Judged
      <3>2. CASE ~ b
        BY <1>2, <1>4, <1>7, <1>8, <3>2, SameReading DEF Sound
      <3> QED
        BY <3>1, <3>2
    <2> QED
      BY <2>1, <2>2 DEF Sound
  <1>10. node = "human_review" => Asked(q)
    <2>1. CASE b
      BY <1>7, <2>1 DEF Asked
    <2>2. CASE ~ b
      BY <1>2, <1>4, <1>7, <1>8, <2>2, SameReading DEF past
    <2> QED
      BY <2>1, <2>2
  <1>11. node = "rework_implementation" => q.put
    <2> SUFFICES ASSUME node = "rework_implementation" PROVE b
      BY <1>7
    <2> QED
      BY <1>2, <1>4 DEF past
  <1> QED
    BY <1>1, <1>3, <1>7, <1>9, <1>10, <1>11, InvokeKeeps

LEMMA ExportKeeps == ASSUME FlowInv, Export PROVE FlowInv'
  <1> DEFINE q == IF gate THEN [tip EXCEPT !.status = "waiting_for_human"] ELSE tip
             g == IF gate THEN next ELSE None
  <1>1. /\ saved' = [pipeline |-> q, gate |-> g]
        /\ UNCHANGED <<tip, last, next, gate, running, tree, plan>>
    BY DEF Export
  <1>2. tip \in Pipeline /\ Sound(tip) /\ next \in Stages
    BY DEF FlowInv, FlowTypeOK
  <1>3. /\ q \in Pipeline /\ SameReviews(tip, q) /\ q.put = tip.put /\ q.build = tip.build
        /\ q.blocked = tip.blocked /\ q.refused = tip.refused
    <2>1. CASE gate
      BY <1>2, <2>1 DEF Pipeline, SameReviews, Statuses
    <2>2. CASE ~ gate
      BY <1>2, <2>2 DEF SameReviews
    <2> QED
      BY <2>1, <2>2
  <1> HIDE DEF q
  <1>4. Sound(q)
    BY <1>2, <1>3, SameReading DEF Sound, Blocked
  <1>5. /\ g = "human_review" => Asked(q)
        /\ g # "rework_implementation"
    BY <1>3, Words, SameReading DEF FlowInv, Staged
  <1>6. g \in {None} \cup Stages
    BY <1>2
  <1> HIDE DEF g
  <1>7. SavedSound'
    BY <1>1, <1>4, <1>5 DEF SavedSound
  <1>8. FlowTypeOK'
    BY <1>1, <1>3, <1>6 DEF FlowInv, FlowTypeOK
  <1>9. Sound(tip)' /\ Sound(last)' /\ Staged'
    BY <1>1 DEF FlowInv, Staged
  <1> QED
    BY <1>7, <1>8, <1>9 DEF FlowInv

LEMMA EditKeeps == ASSUME FlowInv, Edit PROVE FlowInv'
  <1>1. UNCHANGED <<tip, last, next, gate, running, saved>>
    BY DEF Edit
  <1>2. tree' \in Trees /\ plan' \in {1, 2}
    BY DEF Edit, FlowInv, FlowTypeOK
  <1>3. FlowTypeOK'
    BY <1>1, <1>2 DEF FlowInv, FlowTypeOK
  <1> QED
    BY <1>1, <1>3 DEF FlowInv, Staged, SavedSound

LEMMA FlowStep == FlowInv /\ [FlowNext]_flowVars => FlowInv'
  <1> SUFFICES ASSUME FlowInv, [FlowNext]_flowVars PROVE FlowInv'
    OBVIOUS
  <1>1. CASE Prepare \/ Plan
    BY <1>1, PrepareKeeps
  <1>2. CASE AgentRun
    BY <1>2, AgentRunKeeps
  <1>3. CASE GatesRun
    BY <1>3, GatesKeep DEF GatesRun
  <1>4. CASE Build
    BY <1>4, BuildKeeps
  <1>5. CASE AgentReview
    BY <1>5, AgentReviewKeeps
  <1>6. CASE EscalationReview
    BY <1>6, EscalationKeeps
  <1>7. CASE ReworkAnalysis
    BY <1>7, AnalysisKeeps
  <1>8. CASE ReworkImplementation
    BY <1>8, ReworkKeeps
  <1>9. CASE Ship
    BY <1>9, ShipKeeps
  <1>10. CASE AskApproval \/ AskReview
    BY <1>10, AskKeeps
  <1>11. CASE Crash
    BY <1>11, CrashKeeps
  <1>12. CASE \E answer \in Answers : Resume(answer)
    BY <1>12, ApprovalKeeps, ReviewAnswerKeeps, GatesKeep DEF Resume
  <1>13. CASE \E n \in Entries : StepCommand(n) \/ Restore(n)
    BY <1>13, CommandsKeep, RestoreKeeps
  <1>14. CASE All \/ SalvagePlan
    BY <1>14, CommandsKeep
  <1>15. CASE Export
    BY <1>15, ExportKeeps
  <1>16. CASE Edit
    BY <1>16, EditKeeps
  <1>17. CASE UNCHANGED flowVars
    BY <1>17 DEF flowVars, FlowInv, FlowTypeOK, SavedSound, Staged
  <1> QED
    BY <1>1, <1>2, <1>3, <1>4, <1>5, <1>6, <1>7, <1>8, <1>9, <1>10, <1>11, <1>12, <1>13,
       <1>14, <1>15, <1>16, <1>17 DEF FlowNext

(***************************************************************************)
(* The theorems of the flow.                                               *)
(***************************************************************************)
LEMMA FlowAlways == FlowSpec => []FlowInv
  BY InitFlow, FlowStep, PTL DEF FlowSpec

\* Whatever is kept of a pipeline is of its type, at any node and for any worktrees.
THEOREM FlowTypeCorrect == FlowSpec => []FlowTypeOK
  <1>1. FlowInv => FlowTypeOK
    BY DEF FlowInv
  <1> QED
    BY <1>1, FlowAlways, PTL

\* The only node that ships is the one that refuses a pipeline with blockers.
LEMMA OnlyShipShips ==
    ASSUME FlowNext, Ships
    PROVE  ~ ShipRefuses(tip)
  <1>1. At("ship") /\ next' = "end" /\ tip'.status = "shipped"
    BY DEF Ships
  <1>2. CASE Ship
    BY <1>2 DEF Ship
  <1>3. CASE ~ Ship
    <2>1. running /\ next = "ship"
      BY <1>1 DEF At
    <2>2. /\ ~ Prepare /\ ~ Plan /\ ~ AgentRun /\ ~ GatesRun /\ ~ Build /\ ~ AgentReview
          /\ ~ EscalationReview /\ ~ ReworkAnalysis /\ ~ ReworkImplementation
          /\ ~ AskApproval /\ ~ AskReview
      BY <2>1 DEF At, Prepare, Plan, AgentRun, GatesRun, Build, AgentReview, EscalationReview,
                  ReworkAnalysis, ReworkImplementation, AskApproval, AskReview
    <2>3. ~ Crash
      BY <1>1, <2>1 DEF Crash
    <2>4. /\ \A answer \in Answers : ~ Resume(answer)
          /\ \A n \in Entries : ~ StepCommand(n) /\ ~ Restore(n)
          /\ ~ All /\ ~ SalvagePlan /\ ~ Export /\ ~ Edit
      BY <2>1 DEF Resume, StepCommand, Restore, All, SalvagePlan, Export, Edit, Invoke
    <2> QED
      BY <1>3, <2>2, <2>3, <2>4 DEF FlowNext
  <1> QED
    BY <1>2, <1>3

\* A pipeline whose gates said no last is not shipped: the refusal left a blocker that only
\* another run of the agent, or gates that say yes, clear, and the ship node refuses blockers.
THEOREM RefusedIsNeverShipped == FlowSpec => RefusedIsNotShipped
  <1>1. FlowInv /\ [FlowNext]_flowVars => [Ships => ~ tip.refused]_flowVars
    <2> SUFFICES ASSUME FlowInv, FlowNext, Ships PROVE ~ tip.refused
      OBVIOUS
    <2>1. ~ tip.blocked
      BY OnlyShipShips DEF ShipRefuses
    <2>2. Blocked(tip)
      BY DEF FlowInv, Sound
    <2> QED
      BY <2>1, <2>2 DEF Blocked
  <1> QED
    BY <1>1, FlowAlways, PTL DEF FlowSpec, RefusedIsNotShipped

\* A pipeline that comes to ship by its reviews was approved by a reviewer and by a person, its
\* required checks are resolved and its last suite is green.
THEOREM ReviewedShipsWereAlwaysApproved == FlowSpec => ReviewedShipsWereApproved
  <1>1. FlowInv /\ [FlowNext]_flowVars =>
           [Ships /\ ~ tip.direct /\ ~ tip.put =>
               /\ Review(tip).status = "approved" /\ Review(tip).human = "approved"
               /\ AgentDecision(Review(tip)) = "approved"
               /\ SourceSuite(tip) = "green" /\ ~ Unresolved(tip)]_flowVars
    <2> SUFFICES ASSUME FlowInv, FlowNext, Ships, ~ tip.direct, ~ tip.put
                 PROVE  /\ Review(tip).status = "approved" /\ Review(tip).human = "approved"
                        /\ AgentDecision(Review(tip)) = "approved"
                        /\ SourceSuite(tip) = "green" /\ ~ Unresolved(tip)
      OBVIOUS
    <2>1. tip.build = "green"
      BY OnlyShipShips DEF ShipRefuses
    <2>2. Approved(tip) /\ tip \in Pipeline /\ Ordered(tip)
      BY DEF FlowInv, FlowTypeOK, Staged, Ships, At, Sound
    <2>3. SourceSuite(tip) \in {"green", "red"}
      <3>1. tip.rework # 0 => tip.reworks[tip.rework].suite \in {None, "green", "red"}
        BY <2>2, ActiveRework DEF ReworkRecord
      <3> QED
        BY <2>1, <3>1 DEF SourceSuite
    <2> QED
      BY <2>2, <2>3 DEF Approved
  <1> QED
    BY <1>1, FlowAlways, PTL DEF FlowSpec, ReviewedShipsWereApproved

(***************************************************************************)
(* The daily jobs.                                                         *)
(*                                                                         *)
(* What a check goes by, the runs of its own slot (since), is never behind *)
(* what is stored of the present one (rec), so that a run it may still     *)
(* make is one that the present slot may still have.                       *)
(***************************************************************************)

\* The flawed runs of an item are counted where they are stored, and what a check still has to
\* run may still be flawed once more.
CapInv ==
    /\ capped \in [Items -> Nat] /\ repeated = FALSE
    /\ \A i \in Items : capped[i] <= rec[i].bad
    /\ kind = "ibkr" => \A i \in todo : capped[i] < Attempts
    /\ pc = "close" => todo = {}
    /\ pc # "idle" => \A i \in Items : rec[i].bad <= since[i].bad
    /\ kind = "wallet" =>
          \A i \in Items : (rec[i].bad > 0 => rec[i].ran) /\ (since[i].bad > 0 => since[i].ran)

\* What a check of this slot went by is what is stored, until time passes.
SlotInv ==
    /\ pc # "idle" /\ elapsed = 0 => since = rec
    /\ ChecksSettleTheSlot

LEMMA NoRunsType == NoRuns \in Record /\ NoRuns.bad = 0 /\ ~NoRuns.ran /\ ~NoRuns.flawed
  BY BoundsAssumption DEF NoRuns, Record

\* One more flawed run, if it counts.
More(x, result) ==
    IF result = "bad" \/ (result = "failed" /\ kind = "window") THEN AtMost(x.bad + 1, Attempts)
    ELSE x.bad

LEMMA FetchedKeeps ==
    ASSUME NEW x \in Record, NEW result
    PROVE  /\ Fetched(x, result) \in Record /\ Fetched(x, result).bad = x.bad
           /\ x.ran => Fetched(x, result).ran
           /\ result = "bad" /\ kind = "wallet" => Fetched(x, result).ran
  BY DEF Fetched, Record

LEMMA NotedKeeps ==
    ASSUME NEW x \in Record, NEW result
    PROVE  /\ Noted(x, result) \in Record /\ Noted(x, result).bad = More(x, result)
           /\ Noted(x, result).ran = x.ran
  <1>1. x.bad \in 0 .. Attempts /\ Attempts \in Nat \ {0}
    BY BoundsAssumption DEF Record
  <1>2. More(x, result) \in 0 .. Attempts
    BY <1>1 DEF More, AtMost
  <1> QED
    BY <1>2 DEF Noted, More, Record

LEMMA MoreGrows ==
    ASSUME NEW x \in Record, NEW result
    PROVE  /\ x.bad <= More(x, result) /\ More(x, result) \in 0 .. Attempts
           /\ \A y \in Record : x.bad <= y.bad => More(x, result) <= More(y, result)
           /\ result = "bad" =>
                 \A n \in Nat : n <= x.bad /\ n < Attempts => n + 1 <= More(x, result)
           /\ kind = "wallet" /\ result # "bad" => More(x, result) = x.bad
  <1>1. x.bad \in 0 .. Attempts /\ Attempts \in Nat \ {0}
    BY BoundsAssumption DEF Record
  <1>2. \A y \in Record : y.bad \in 0 .. Attempts
    BY DEF Record
  <1> QED
    BY <1>1, <1>2 DEF More, AtMost

LEMMA OlderType ==
    ASSUME NEW n \in 0 .. RetryAfter
    PROVE  Older(n) \in 0 .. RetryAfter /\ Older(n) # 0
  BY TimesAssumption DEF Older, AtMost

\* What one run, or one run by hand, adds to a record.
Ran(x, result) == Noted(Fetched(x, result), result)

LEMMA RanKeeps ==
    ASSUME NEW x \in Record, NEW result
    PROVE  /\ Ran(x, result) \in Record /\ x.bad <= Ran(x, result).bad
           /\ \A y \in Record : x.bad <= y.bad => Ran(x, result).bad <= Ran(y, result).bad
           /\ result = "bad" =>
                 \A n \in Nat : n <= x.bad /\ n < Attempts => n + 1 <= Ran(x, result).bad
           /\ kind = "wallet" /\ (x.bad > 0 => x.ran) =>
                 (Ran(x, result).bad > 0 => Ran(x, result).ran)
  <1>1. /\ Ran(x, result) \in Record /\ Ran(x, result).bad = More(Fetched(x, result), result)
        /\ Ran(x, result).ran = Fetched(x, result).ran
    BY FetchedKeeps, NotedKeeps DEF Ran
  <1>2. \A y \in Record : Ran(y, result).bad = More(y, result)
    BY FetchedKeeps, NotedKeeps DEF Ran, More
  <1>3. x.bad <= More(x, result)
    BY MoreGrows
  <1>4. \A y \in Record : x.bad <= y.bad => Ran(x, result).bad <= Ran(y, result).bad
    BY <1>2, MoreGrows
  <1>5. result = "bad" => \A n \in Nat : n <= x.bad /\ n < Attempts => n + 1 <= Ran(x, result).bad
    BY <1>2, MoreGrows
  <1>6. ASSUME kind = "wallet", x.bad > 0 => x.ran, Ran(x, result).bad > 0
        PROVE  Ran(x, result).ran
    <2>1. CASE result = "bad"
      BY <1>1, <1>6, <2>1, FetchedKeeps
    <2>2. CASE result # "bad"
      BY <1>1, <1>2, <1>6, <2>2, FetchedKeeps, MoreGrows
    <2> QED
      BY <2>1, <2>2
  <1> QED
    BY <1>1, <1>2, <1>3, <1>4, <1>5, <1>6

DailyInv == TypeOK /\ CapInv /\ SlotInv

LEMMA InitDaily == Init => DailyInv
  <1> SUFFICES ASSUME Init PROVE DailyInv
    OBVIOUS
  <1>1. TypeOK
    BY NoRunsType, TimesAssumption DEF Init, TypeOK
  <1>2. CapInv
    BY NoRunsType DEF Init, CapInv
  <1>3. SlotInv
    BY NoRunsType DEF Init, SlotInv, ChecksSettleTheSlot
  <1> QED
    BY <1>1, <1>2, <1>3 DEF DailyInv

LEMMA CheckDaily == ASSUME DailyInv, Check PROVE DailyInv'
  <1>1. CASE AnyDue(rec) /\ MayAttempt
    <2>1. /\ pc' = "run" /\ since' = rec /\ elapsed' = 0
          /\ todo' = IF kind = "ibkr" THEN {i \in Items : ItemDue(rec[i])} ELSE Items
          /\ UNCHANGED <<kind, phase, rec, gateAge, failures, fresh, capped, repeated>>
      BY <1>1 DEF Check
    <2>2. TypeOK'
      BY <2>1, TimesAssumption DEF DailyInv, TypeOK
    <2>3. \A i \in Items : rec[i].bad \in 0 .. Attempts
      BY DEF DailyInv, TypeOK, Record
    <2>4. ASSUME kind = "ibkr", NEW i \in todo' PROVE capped[i] < Attempts
      <3>1. i \in Items /\ rec[i].bad < Attempts
        BY <2>1, <2>4 DEF ItemDue
      <3>2. capped[i] <= rec[i].bad /\ capped[i] \in Nat /\ rec[i].bad \in Nat /\ Attempts \in Nat
        BY <2>3, <3>1, BoundsAssumption DEF DailyInv, CapInv
      <3> QED
        BY <3>1, <3>2
    <2>5. CapInv'
      BY <2>1, <2>3, <2>4 DEF DailyInv, CapInv
    <2>6. SlotInv'
      BY <2>1 DEF SlotInv, ChecksSettleTheSlot
    <2> QED
      BY <2>2, <2>5, <2>6 DEF DailyInv
  <1>2. CASE ~(AnyDue(rec) /\ MayAttempt)
    <2>1. /\ pc = "idle" /\ pc' = "idle"
          /\ UNCHANGED <<kind, phase, rec, gateAge, todo, since, elapsed, failures, capped, repeated>>
      BY <1>2 DEF Check
    <2>2. gateAge \in 0 .. RetryAfter /\ RetryAfter \in Nat
      BY TimesAssumption DEF DailyInv, TypeOK
    <2>3. AnyDue(rec)' <=> AnyDue(rec)
      BY <2>1 DEF AnyDue, ItemDue
    <2>4. SlotInv'
      BY <1>2, <2>1, <2>2, <2>3 DEF SlotInv, ChecksSettleTheSlot, MayAttempt
    <2> QED
      BY <2>1, <2>4 DEF DailyInv, TypeOK, CapInv
  <1> QED
    BY <1>1, <1>2

\* While a check goes on, its steps move neither the time nor the gate.
LEMMA SlotGoesOn ==
    ASSUME DailyInv, TypeOK', pc # "idle", pc' # "idle", UNCHANGED <<kind, elapsed>>,
           since = rec => since' = rec'
    PROVE  SlotInv'
  BY DEF DailyInv, SlotInv, ChecksSettleTheSlot

LEMMA LeaveAloneDaily == ASSUME DailyInv, NEW i \in Items, LeaveAlone(i) PROVE DailyInv'
  <1>1. /\ pc = "run" /\ todo' = todo \ {i}
        /\ UNCHANGED <<kind, phase, rec, gateAge, pc, since, elapsed, failures, capped, repeated>>
    BY DEF LeaveAlone, ghosts
  <1>2. TypeOK' /\ CapInv'
    BY <1>1 DEF DailyInv, TypeOK, CapInv
  <1> QED
    BY <1>1, <1>2, SlotGoesOn DEF DailyInv

\* The wallet that is refreshed is due by the runs the check goes by; the account was due when
\* the check listed it, and is run once.
LEMMA RunItemDaily ==
    ASSUME DailyInv, NEW i \in Items, NEW result \in Results, RunItem(i, result)
    PROVE  DailyInv'
  <1>1. PICK seen, stored :
            /\ seen = IF kind = "window" THEN Fetched(since[i], result) ELSE Ran(since[i], result)
            /\ stored = IF kind = "window" THEN Fetched(rec[i], result) ELSE Ran(rec[i], result)
    OBVIOUS
  <1>2. /\ pc = "run" /\ Wanted(i) /\ result \in Possible
        /\ todo' = todo \ {i}
        /\ rec' = [rec EXCEPT ![i] = stored] /\ since' = [since EXCEPT ![i] = seen]
        /\ failures' = (failures \/ (kind = "ibkr" /\ result \in {"failed", "locked"}))
        /\ capped' = IF result = "bad" /\ kind # "window"
                     THEN [capped EXCEPT ![i] = AtMost(@ + 1, Attempts + 1)] ELSE capped
        /\ repeated' = (repeated \/ (kind = "wallet" /\ ~ItemDue(since[i])))
        /\ UNCHANGED <<kind, phase, gateAge, pc, elapsed>>
    BY <1>1 DEF RunItem, Ran
  <1>3. /\ rec \in [Items -> Record] /\ since \in [Items -> Record]
        /\ rec[i] \in Record /\ since[i] \in Record
        /\ capped \in [Items -> Nat] /\ Attempts \in Nat \ {0}
    BY BoundsAssumption DEF DailyInv, TypeOK, CapInv
  <1>4. rec[i].bad \in 0 .. Attempts /\ since[i].bad \in 0 .. Attempts /\ rec[i].bad <= since[i].bad
    BY <1>2, <1>3 DEF DailyInv, CapInv, Record
  <1>5. /\ stored \in Record /\ seen \in Record /\ stored.bad <= seen.bad /\ rec[i].bad <= stored.bad
    BY <1>1, <1>3, <1>4, FetchedKeeps, RanKeeps
  <1>6. TypeOK'
    <2>1. rec' \in [Items -> Record] /\ since' \in [Items -> Record]
      BY <1>2, <1>3, <1>5
    <2> QED
      BY <1>2, <2>1 DEF DailyInv, TypeOK
  <1>7. ~repeated'
    BY <1>2 DEF DailyInv, CapInv, Wanted
  <1>8. capped[i] < Attempts \/ result # "bad" \/ kind \in {"window", "fx"}
    <2>1. CASE kind = "ibkr"
      BY <1>2, <2>1 DEF DailyInv, CapInv, Wanted
    <2>2. CASE kind = "wallet"
      <3>1. since[i].bad < Attempts
        BY <1>2, <1>3, <1>4, <2>2 DEF Wanted, ItemDue, DailyInv, CapInv
      <3>2. capped[i] \in Nat /\ capped[i] <= rec[i].bad
        BY <1>3 DEF DailyInv, CapInv
      <3> QED
        BY <1>3, <1>4, <3>1, <3>2
    <2> QED
      BY <2>1, <2>2 DEF DailyInv, TypeOK, Kinds
  <1>9. kind = "fx" => result # "bad"
    BY <1>2 DEF Possible
  <1>10. capped' \in [Items -> Nat] /\ capped'[i] <= stored.bad
    <2>1. CASE result = "bad" /\ kind # "window"
      <3>1. capped[i] \in Nat /\ capped[i] < Attempts /\ capped[i] <= rec[i].bad
        BY <1>3, <1>8, <1>9, <2>1 DEF DailyInv, CapInv
      <3>2. AtMost(capped[i] + 1, Attempts + 1) = capped[i] + 1
        BY <1>3, <3>1 DEF AtMost
      <3>3. capped' = [capped EXCEPT ![i] = capped[i] + 1]
        BY <1>2, <2>1, <3>2
      <3>4. capped[i] + 1 <= stored.bad
        BY <1>1, <1>3, <2>1, <3>1, RanKeeps
      <3> QED
        BY <1>3, <3>1, <3>3, <3>4
    <2>2. CASE ~(result = "bad" /\ kind # "window")
      <3>1. capped' = capped /\ capped[i] \in Nat /\ capped[i] <= rec[i].bad
        BY <1>2, <1>3, <2>2 DEF DailyInv, CapInv
      <3>2. stored.bad \in Nat
        BY <1>5 DEF Record
      <3> QED
        BY <1>3, <1>4, <1>5, <3>1, <3>2
    <2> QED
      BY <2>1, <2>2
  <1>11. \A j \in Items \ {i} : rec'[j] = rec[j] /\ since'[j] = since[j] /\ capped'[j] = capped[j]
    BY <1>2, <1>3
  <1>12. rec'[i] = stored /\ since'[i] = seen
    BY <1>2, <1>3
  <1>13. kind = "wallet" => (stored.bad > 0 => stored.ran) /\ (seen.bad > 0 => seen.ran)
    BY <1>1, <1>3, RanKeeps DEF DailyInv, CapInv
  <1>14. CapInv'
    <2>1. \A j \in Items : capped'[j] <= rec'[j].bad
      BY <1>10, <1>11, <1>12 DEF DailyInv, CapInv
    <2>2. kind = "ibkr" => \A j \in todo' : capped'[j] < Attempts
      BY <1>2, <1>11 DEF DailyInv, CapInv, TypeOK
    <2>3. \A j \in Items : rec'[j].bad <= since'[j].bad
      BY <1>2, <1>5, <1>11, <1>12 DEF DailyInv, CapInv
    <2>4. kind = "wallet" =>
             \A j \in Items : (rec'[j].bad > 0 => rec'[j].ran) /\ (since'[j].bad > 0 => since'[j].ran)
      BY <1>11, <1>12, <1>13 DEF DailyInv, CapInv
    <2>5. repeated' = FALSE
      BY <1>7
    <2> QED
      BY <1>2, <1>10, <2>1, <2>2, <2>3, <2>4, <2>5 DEF CapInv
  <1>15. since = rec => since' = rec'
    BY <1>1, <1>2
  <1> QED
    BY <1>2, <1>6, <1>14, <1>15, SlotGoesOn DEF DailyInv

\* A window's runs are recorded together.
LEMMA RecordWindowDaily ==
    ASSUME DailyInv, NEW found, RecordWindow(found), pc = "run", kind = "window", pc' = "close",
           todo' = {}, UNCHANGED <<kind, phase, gateAge, elapsed, failures, capped, repeated>>
    PROVE  DailyInv'
  <1>1. /\ rec' = [i \in Items |-> Noted(rec[i], found[i])]
        /\ since' = [i \in Items |-> Noted(since[i], found[i])]
        /\ \A i \in Items : rec[i] \in Record /\ since[i] \in Record
    BY DEF RecordWindow, DailyInv, TypeOK
  <1>2. ASSUME NEW i \in Items
        PROVE  /\ rec'[i] \in Record /\ since'[i] \in Record
               /\ rec[i].bad <= rec'[i].bad /\ rec'[i].bad <= since'[i].bad
    <2>1. rec[i].bad <= since[i].bad
      BY DEF DailyInv, CapInv
    <2>2. rec'[i] = Noted(rec[i], found[i]) /\ since'[i] = Noted(since[i], found[i])
      BY <1>1
    <2> QED
      BY <1>1, <2>1, <2>2, NotedKeeps, MoreGrows
  <1>3. TypeOK'
    BY <1>1, <1>2 DEF DailyInv, TypeOK
  <1>4. ASSUME NEW i \in Items PROVE capped[i] <= rec'[i].bad
    <2>1. capped[i] \in Nat /\ capped[i] <= rec[i].bad /\ rec[i].bad \in Nat /\ rec'[i].bad \in Nat
      BY <1>1, <1>2 DEF DailyInv, CapInv, Record
    <2> QED
      BY <1>2, <2>1
  <1>5. CapInv'
    BY <1>2, <1>4 DEF DailyInv, CapInv
  <1>6. since = rec => since' = rec'
    BY <1>1
  <1> QED
    BY <1>3, <1>5, <1>6, SlotGoesOn DEF DailyInv

LEMMA WindowDaily == ASSUME DailyInv, AllIn \/ Raise PROVE DailyInv'
  <1>1. CASE AllIn /\ kind # "window"
    <2>1. /\ pc = "run" /\ pc' = "close" /\ todo = {}
          /\ UNCHANGED <<kind, phase, rec, since, gateAge, todo, elapsed, failures, capped, repeated>>
      BY <1>1 DEF AllIn, ghosts
    <2>2. TypeOK' /\ CapInv'
      BY <2>1 DEF DailyInv, TypeOK, CapInv
    <2> QED
      BY <2>1, <2>2, SlotGoesOn DEF DailyInv
  <1>2. CASE AllIn /\ kind = "window"
    BY <1>2, RecordWindowDaily DEF AllIn, ghosts
  <1>3. CASE Raise
    <2>1. PICK found : RecordWindow(found)
      BY <1>3 DEF Raise
    <2> QED
      BY <1>3, <2>1, RecordWindowDaily DEF Raise
  <1> QED
    BY <1>1, <1>2, <1>3

\* The thread is idle again, by itself or by a restart.
LEMMA IdleAgain ==
    ASSUME DailyInv, pc' = "idle", todo' = {}, elapsed' = 0, ~failures',
           since' = [i \in Items |-> NoRuns], gateAge' \in 0 .. RetryAfter,
           UNCHANGED <<kind, phase, rec, capped, repeated>>
    PROVE  TypeOK' /\ CapInv'
  <1>1. TypeOK'
    BY NoRunsType, TimesAssumption DEF DailyInv, TypeOK
  <1>2. CapInv'
    BY NoRunsType DEF DailyInv, CapInv
  <1> QED
    BY <1>1, <1>2

LEMMA CloseDaily == ASSUME DailyInv, Close PROVE DailyInv'
  <1>1. /\ pc = "close" /\ pc' = "idle"
        /\ gateAge' = IF Succeeded THEN RetryAfter ELSE elapsed
        /\ fresh' = (elapsed = 0)
        /\ since' = [i \in Items |-> NoRuns] /\ elapsed' = 0 /\ failures' = FALSE
        /\ UNCHANGED <<kind, phase, rec, todo, capped, repeated>>
    BY DEF Close
  <1>2. elapsed \in 0 .. RetryAfter /\ RetryAfter \in Nat \ {0}
    BY TimesAssumption DEF DailyInv, TypeOK
  <1>3. gateAge' \in 0 .. RetryAfter
    BY <1>1, <1>2
  <1>4. todo = {}
    BY <1>1 DEF DailyInv, CapInv
  <1>5. TypeOK' /\ CapInv'
    BY <1>1, <1>3, <1>4, IdleAgain
  <1>6. ASSUME elapsed = 0, AnyDue(rec) PROVE ~Succeeded
    BY <1>1, <1>6 DEF Succeeded, DailyInv, SlotInv
  <1>7. AnyDue(rec)' <=> AnyDue(rec)
    BY <1>1 DEF AnyDue, ItemDue
  <1>8. ChecksSettleTheSlot'
    <2> SUFFICES ASSUME fresh', AnyDue(rec)' PROVE gateAge' < RetryAfter
      BY DEF ChecksSettleTheSlot
    <2>1. elapsed = 0 /\ ~Succeeded
      BY <1>1, <1>6, <1>7
    <2> QED
      BY <1>1, <1>2, <2>1
  <1>9. SlotInv'
    BY <1>1, <1>8 DEF SlotInv
  <1> QED
    BY <1>5, <1>9 DEF DailyInv

LEMMA RestartDaily == ASSUME DailyInv, Restart PROVE DailyInv'
  <1>1. RetryAfter \in 0 .. RetryAfter
    BY TimesAssumption
  <1>2. TypeOK' /\ CapInv'
    BY <1>1, IdleAgain DEF Restart
  <1>3. SlotInv'
    BY DEF Restart, SlotInv, ChecksSettleTheSlot
  <1> QED
    BY <1>2, <1>3 DEF DailyInv

LEMMA ManualDaily ==
    ASSUME DailyInv, NEW i \in Items, NEW result \in Results, Manual(i, result)
    PROVE  DailyInv'
  <1>1. /\ rec' = [rec EXCEPT ![i] = Ran(rec[i], result)]
        /\ since' = IF pc = "idle" THEN since ELSE [since EXCEPT ![i] = Ran(since[i], result)]
        /\ ~fresh'
        /\ UNCHANGED <<kind, phase, gateAge, pc, todo, elapsed, failures, capped, repeated>>
    BY DEF Manual, Ran
  <1>2. /\ rec \in [Items -> Record] /\ since \in [Items -> Record]
        /\ rec[i] \in Record /\ since[i] \in Record
        /\ Ran(rec[i], result) \in Record /\ Ran(since[i], result) \in Record
        /\ rec[i].bad <= Ran(rec[i], result).bad
    BY RanKeeps DEF DailyInv, TypeOK
  <1>3. /\ rec'[i] = Ran(rec[i], result)
        /\ since'[i] = IF pc = "idle" THEN since[i] ELSE Ran(since[i], result)
        /\ \A j \in Items \ {i} : rec'[j] = rec[j] /\ since'[j] = since[j]
    BY <1>1, <1>2
  <1>4. TypeOK'
    <2>1. rec' \in [Items -> Record] /\ since' \in [Items -> Record]
      BY <1>1, <1>2
    <2> QED
      BY <1>1, <2>1 DEF DailyInv, TypeOK
  <1>5. capped[i] <= rec'[i].bad
    <2>1. capped[i] \in Nat /\ capped[i] <= rec[i].bad
      BY DEF DailyInv, CapInv
    <2>2. rec[i].bad \in Nat /\ Ran(rec[i], result).bad \in Nat
      BY <1>2 DEF Record
    <2> QED
      BY <1>2, <1>3, <2>1, <2>2
  <1>6. pc # "idle" => rec'[i].bad <= since'[i].bad
    BY <1>2, <1>3, RanKeeps DEF DailyInv, CapInv
  <1>7. kind = "wallet" => (rec'[i].bad > 0 => rec'[i].ran) /\ (since'[i].bad > 0 => since'[i].ran)
    BY <1>2, <1>3, RanKeeps DEF DailyInv, CapInv
  <1>8. CapInv'
    <2>1. \A j \in Items : capped[j] <= rec'[j].bad
      BY <1>3, <1>5 DEF DailyInv, CapInv
    <2>2. pc # "idle" => \A j \in Items : rec'[j].bad <= since'[j].bad
      BY <1>3, <1>6 DEF DailyInv, CapInv
    <2>3. kind = "wallet" =>
             \A j \in Items : (rec'[j].bad > 0 => rec'[j].ran) /\ (since'[j].bad > 0 => since'[j].ran)
      BY <1>3, <1>7 DEF DailyInv, CapInv
    <2> QED
      BY <1>1, <2>1, <2>2, <2>3 DEF DailyInv, CapInv
  <1>9. SlotInv'
    BY <1>1 DEF DailyInv, SlotInv, ChecksSettleTheSlot
  <1> QED
    BY <1>4, <1>8, <1>9 DEF DailyInv

LEMMA TickDaily == ASSUME DailyInv, Tick PROVE DailyInv'
  <1>1. /\ phase' = (phase + 1) % SlotLength
        /\ gateAge' = Older(gateAge)
        /\ elapsed' = IF pc = "idle" THEN 0 ELSE Older(elapsed)
        /\ \/ UNCHANGED <<rec, capped>>
           \/ /\ rec' = [i \in Items |-> [NoRuns EXCEPT !.flawed = kind = "wallet" /\ rec[i].flawed]]
              /\ capped' = [i \in Items |-> 0]
        /\ ~fresh'
        /\ UNCHANGED <<kind, pc, todo, since, failures, repeated>>
    BY DEF Tick
  <1>2. phase' \in 0 .. SlotLength - 1
    BY <1>1, TimesAssumption DEF DailyInv, TypeOK
  <1>3. gateAge' \in 0 .. RetryAfter /\ elapsed' \in 0 .. RetryAfter
        /\ (pc # "idle" => elapsed' # 0) /\ (pc = "idle" => elapsed' = 0)
    BY <1>1, OlderType, TimesAssumption DEF DailyInv, TypeOK
  <1>4. \/ rec' = rec /\ capped' = capped
        \/ \A i \in Items : rec'[i].bad = 0 /\ ~rec'[i].ran /\ capped'[i] = 0
    BY <1>1, NoRunsType DEF NoRuns
  <1>5. rec' \in [Items -> Record] /\ capped' \in [Items -> Nat]
    <2>1. \A b \in BOOLEAN : [NoRuns EXCEPT !.flawed = b] \in Record
      BY NoRunsType DEF Record
    <2>2. \A i \in Items : (kind = "wallet" /\ rec[i].flawed) \in BOOLEAN
      BY DEF DailyInv, TypeOK, Record
    <2>3. \A i \in Items : [NoRuns EXCEPT !.flawed = kind = "wallet" /\ rec[i].flawed] \in Record
      BY <2>1, <2>2
    <2> QED
      BY <1>1, <2>3 DEF DailyInv, TypeOK, CapInv
  <1>6. TypeOK'
    BY <1>1, <1>2, <1>3, <1>5 DEF DailyInv, TypeOK
  <1>7. CapInv'
    <2>1. Attempts \in Nat \ {0} /\ \A i \in Items : since[i].bad \in Nat
      <3>1. \A i \in Items : since[i] \in Record
        BY DEF DailyInv, TypeOK
      <3>2. \A x \in Record : x.bad \in Nat
        BY BoundsAssumption DEF Record
      <3> QED
        BY <3>1, <3>2, BoundsAssumption
    <2>2. CASE rec' = rec /\ capped' = capped
      BY <1>1, <2>2 DEF DailyInv, CapInv
    <2>3. CASE \A i \in Items : rec'[i].bad = 0 /\ ~rec'[i].ran /\ capped'[i] = 0
      <3>1. \A i \in Items : /\ capped'[i] <= rec'[i].bad /\ capped'[i] < Attempts
                              /\ rec'[i].bad <= since[i].bad /\ ~(rec'[i].bad > 0)
        BY <2>1, <2>3
      <3>2. todo \subseteq Items
        BY DEF DailyInv, TypeOK
      <3> QED
        BY <1>1, <1>5, <3>1, <3>2 DEF DailyInv, CapInv
    <2> QED
      BY <1>4, <2>2, <2>3
  <1>8. SlotInv'
    BY <1>1, <1>3 DEF SlotInv, ChecksSettleTheSlot
  <1> QED
    BY <1>6, <1>7, <1>8 DEF DailyInv

LEMMA NextDaily == ASSUME DailyInv, [Next]_vars PROVE DailyInv'
  <1>1. ASSUME UNCHANGED <<kind, phase, rec, gateAge, thread, ghosts>> PROVE DailyInv'
    BY <1>1 DEF DailyInv, TypeOK, CapInv, SlotInv, ChecksSettleTheSlot, AnyDue, ItemDue, thread, ghosts
  <1>2. CASE UNCHANGED vars
    BY <1>1, <1>2 DEF vars
  <1>3. CASE Change
    BY <1>1, <1>3 DEF Change
  <1>4. CASE Work
    BY <1>4, CheckDaily, WindowDaily, CloseDaily, LeaveAloneDaily, RunItemDaily DEF Work
  <1>5. CASE Tick \/ Restart \/ \E i \in Items, result \in Results : Manual(i, result)
    BY <1>5, TickDaily, RestartDaily, ManualDaily
  <1> QED
    BY <1>2, <1>3, <1>4, <1>5 DEF Next

LEMMA DailyHolds == Spec => []DailyInv
  BY InitDaily, NextDaily, PTL DEF Spec

\* Every variable of the daily jobs keeps its type, and a check that ended leaves nothing.
THEOREM JobsTypeCorrect == Spec => []TypeOK
  <1>1. DailyInv => TypeOK
    BY DEF DailyInv
  <1> QED
    BY <1>1, DailyHolds, PTL

\* In a slot the scheduler makes no more flawed runs of an account or a wallet than the cap, and
\* refreshes no wallet that somebody has refreshed since its check read it, for any items, slot
\* lengths, caps, people's runs, outages and restarts (catchup.py, crypto/scheduler.py).
THEOREM NoRunIsEverWasted == Spec => []NoRunIsWasted
  <1>1. DailyInv => NoRunIsWasted
    <2> SUFFICES ASSUME DailyInv, NEW i \in Items PROVE capped[i] <= Attempts /\ ~repeated
      BY DEF NoRunIsWasted, DailyInv, CapInv
    <2>1. capped[i] \in Nat /\ capped[i] <= rec[i].bad /\ rec[i].bad \in 0 .. Attempts
          /\ Attempts \in Nat
      BY BoundsAssumption DEF DailyInv, CapInv, TypeOK, Record
    <2> QED
      BY <2>1 DEF DailyInv, CapInv
  <1> QED
    BY <1>1, DailyHolds, PTL

\* What a check leaves due is only what an attempt within the retry gap failed at, so that a run
\* missed while the machine slept is made up for by the first check (catchup.py).
THEOREM ChecksAlwaysSettleTheSlot == Spec => []ChecksSettleTheSlot
  <1>1. DailyInv => ChecksSettleTheSlot
    BY DEF DailyInv, SlotInv
  <1> QED
    BY <1>1, DailyHolds, PTL
==================================================================================

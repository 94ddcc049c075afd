------------------------------ MODULE Categories ------------------------------
(***************************************************************************)
(* What category a transaction counts in: the override table, one row per  *)
(* transaction, written by the user (one transaction or several at a time) *)
(* and by the rule runs that follow an upload or a press of "backfill".    *)
(* A rule run is one transaction of several statements at READ COMMITTED;  *)
(* each reads what is committed when it runs.                              *)
(***************************************************************************)
EXTENDS Integers, FiniteSets, Functions

CONSTANTS
    Txns,
    Rules,      \* rule ids
    Matches,    \* Matches[r]: the transactions rule r's patterns match
    Targets,    \* categories
    Runs,       \* rule runs that may overlap
    Seeded,     \* the rules a new installation comes with, each priority 2
    MaxEdits,   \* bound: rules saved and overrides set by the user
    MaxRuns,    \* bound: rule runs begun
    None

ASSUME RulesAssumption == Rules \subseteq Nat
ASSUME MatchesAssumption == Matches \in [Rules -> SUBSET Txns]
ASSUME BoundsAssumption == MaxEdits \in Nat /\ MaxRuns \in Nat

VARIABLES
    rules,      \* category_rules
    overrides,  \* category_overrides, by transaction
    inserted,   \* rows ever inserted for the transaction: the newest one's id
    run,        \* apply_rules, by run
    edit,       \* the user's single override: what it found
    edits, begun

catVars == <<rules, overrides, inserted, run, edit, edits, begun>>

Priorities == {1, 2}
Rule     == [active : BOOLEAN, priority : Priorities, target : Targets]
\* rule = None: source 'manual'.
Override == [id : Nat, target : Targets, rule : Rules \cup {None}]

ASSUME NoneAssumption == None \notin Rules /\ None \notin Runs /\ None \notin Override

Idle == [pc |-> "idle"]

\* Functions on some of the transactions.
Partial(S) == UNION {[T -> S] : T \in SUBSET Txns}

\* A run of rules under way: the transactions it was given and those that are not the user's,
\* what the rules say of them, the rules' rows among them, what it has written, which none sees
\* before it commits; ghost: nothing was committed since it began.
Running == [pc : {"match", "existing", "write", "commit"}, ids : SUBSET Txns,
            eligible : SUBSET Txns, matched : Partial([rule : Rules, target : Targets]),
            existing : Partial(Override), written : Partial(Override \cup {None}),
            done : SUBSET Txns, alone : BOOLEAN]

CatTypeOK ==
    /\ rules \in [Rules -> Rule \cup {None}]
    /\ overrides \in [Txns -> Override \cup {None}]
    /\ inserted \in [Txns -> Nat]
    /\ run \in [Runs -> Running \cup {Idle}]
    /\ edit \in [txn : Txns, target : Targets, found : Nat] \cup {None}
    /\ edits \in Nat /\ begun \in Nat

IsManual(row) == row # None /\ row.rule = None
IsOfRule(row) == row # None /\ row.rule # None

\* Mutant: rules tie-break on id alone.
Precedes_IdOnly(r, q) == r <= q

\* Priority first, then id.
Precedes(r, q) ==
    rules[r].priority < rules[q].priority \/ (rules[r].priority = rules[q].priority /\ r <= q)

Active(t)  == {r \in Rules : rules[r] # None /\ rules[r].active /\ t \in Matches[r]}
\* The first rule in rank that matches the transaction, None if no rule does.
FirstRule(t) ==
    IF Active(t) = {} THEN None
    ELSE CHOOSE r \in Active(t) : \A q \in Active(t) : Precedes(r, q)

----------------------------------------------------------------------------
(* The user. *)

\* Whatever another transaction commits, a run that is under way is not alone.
Disturbed(others) == [j \in Runs |-> IF j \in others /\ run[j] # Idle
                                     THEN [run[j] EXCEPT !.alone = FALSE] ELSE run[j]]

Edited == edits < MaxEdits /\ edits' = edits + 1 /\ run' = Disturbed(Runs)

SaveRule(r, rule) ==
    /\ Edited
    /\ rules[r] # rule
    /\ rules' = [rules EXCEPT ![r] = rule]
    /\ UNCHANGED <<overrides, inserted, edit, begun>>

DeleteRule(r) ==
    /\ rules[r] # None
    /\ Edited
    /\ rules' = [rules EXCEPT ![r].active = FALSE]
    /\ UNCHANGED <<overrides, inserted, edit, begun>>

\* A row written by a transaction that has not committed: others wait for it.
LockedFor(t, j) == \E i \in Runs \ {j} : run[i] # Idle /\ t \in DOMAIN run[i].written

Upserted(t, target) ==
    [id |-> IF overrides[t] = None THEN inserted[t] + 1 ELSE overrides[t].id,
     target |-> target, rule |-> None]

\* POST /categories/override-bulk: all of them, or none.
SetMany(S, target) ==
    /\ \A t \in S : ~LockedFor(t, None)
    /\ Edited
    /\ overrides' = [t \in Txns |-> IF t \in S THEN Upserted(t, target) ELSE overrides[t]]
    /\ inserted' = [t \in Txns |-> IF t \in S /\ overrides[t] = None
                                   THEN inserted[t] + 1 ELSE inserted[t]]
    /\ UNCHANGED <<rules, edit, begun>>

\* POST /categories/override: look for the row, then insert it, or update the one found.
LookUp(t, target) ==
    /\ edit = None
    /\ edits < MaxEdits
    /\ edits' = edits + 1
    /\ edit' = [txn |-> t, target |-> target,
                found |-> IF overrides[t] = None THEN 0 ELSE overrides[t].id]
    /\ UNCHANGED <<rules, overrides, inserted, run, begun>>

SetOne ==
    /\ edit # None
    /\ ~LockedFor(edit.txn, None)
    /\ LET t == edit.txn
           row == overrides[t]
       IN \/ /\ edit.found = 0 /\ row = None
             /\ inserted' = [inserted EXCEPT ![t] = @ + 1]
             /\ overrides' = [overrides EXCEPT ![t] = Upserted(t, edit.target)]
             /\ run' = Disturbed(Runs)
          \/ /\ edit.found # 0 /\ row # None /\ row.id = edit.found
             /\ overrides' = [overrides EXCEPT ![t] = Upserted(t, edit.target)]
             /\ run' = Disturbed(Runs)
             /\ UNCHANGED inserted
          \* the row it found is gone: nothing is updated; or one is there now: the insert fails
          \/ /\ edit.found # (IF row = None THEN 0 ELSE row.id)
             /\ UNCHANGED <<overrides, inserted, run>>
    /\ edit' = None
    /\ UNCHANGED <<rules, edits, begun>>

----------------------------------------------------------------------------
(* apply_rules, a statement at a time. *)

\* What is written on top of what there is.
Overlay(new, old) ==
    [t \in DOMAIN new \cup DOMAIN old |-> IF t \in DOMAIN new THEN new[t] ELSE old[t]]

Moves(j, next) == run' = [run EXCEPT ![j] = next]
Reading == UNCHANGED <<rules, overrides, inserted, edit, edits>>

Begin(j, ids) ==
    LET eligible == {t \in ids : ~IsManual(overrides[t])}
    IN  /\ run[j] = Idle
        /\ begun < MaxRuns
        /\ begun' = begun + 1
        /\ Moves(j, IF eligible = {} THEN Idle
                    ELSE [pc |-> "match", ids |-> ids, eligible |-> eligible,
                          matched |-> <<>>, existing |-> <<>>, written |-> <<>>,
                          done |-> {}, alone |-> TRUE])
        /\ Reading

ReadMatches(j) ==
    LET ofRule == {t \in run[j].eligible : ~IsManual(overrides[t]) /\ FirstRule(t) # None}
    IN  /\ run[j].pc = "match"
        /\ Moves(j, [run[j] EXCEPT !.pc = "existing",
              !.matched = [t \in ofRule |-> [rule |-> FirstRule(t),
                                             target |-> rules[FirstRule(t)].target]]])
        /\ Reading /\ UNCHANGED begun

ReadExisting(j) ==
    /\ run[j].pc = "existing"
    /\ Moves(j, [run[j] EXCEPT !.pc = "write",
          !.existing = Restrict(overrides, {t \in run[j].eligible : IsOfRule(overrides[t])})])
    /\ Reading /\ UNCHANGED begun

\* Insert a row that was not there, update one that says something else.
Write(j, t) ==
    LET match == run[j].matched[t]
        found == t \in DOMAIN run[j].existing
        old   == run[j].existing[t]
        row   == [id |-> IF found THEN old.id ELSE inserted[t] + 1,
                  target |-> match.target, rule |-> match.rule]
        asIs  == found /\ old.target = match.target /\ old.rule = match.rule
        gone  == found /\ (overrides[t] = None \/ overrides[t].id # old.id)
        next  == [run[j] EXCEPT !.done = @ \cup {t}]
    IN  /\ run[j].pc = "write"
        /\ t \in DOMAIN run[j].matched \ run[j].done
        /\ \/ /\ asIs \/ gone
              /\ Moves(j, next)
              /\ UNCHANGED inserted
           \/ /\ ~asIs /\ ~gone
              /\ ~LockedFor(t, j)
              /\ found \/ overrides[t] = None
              /\ Moves(j, [next EXCEPT !.written = Overlay([u \in {t} |-> row], @)])
              /\ inserted' = IF found THEN inserted ELSE [inserted EXCEPT ![t] = @ + 1]
        /\ UNCHANGED <<rules, overrides, edit, edits, begun>>

\* Mutant: DELETE ... WHERE transaction_id IN (...), without source = 'rule'.
Deletable_Any(j, t) == overrides[t] # None

\* The rows of rules that match no more, whatever the user has made of them meanwhile.
Deletable(j, t) == IsOfRule(overrides[t])

Stale(j) == {t \in DOMAIN run[j].existing \ DOMAIN run[j].matched : Deletable(j, t)}

DeleteStale(j) ==
    /\ run[j].pc = "write"
    /\ run[j].done = DOMAIN run[j].matched
    /\ \A t \in Stale(j) : ~LockedFor(t, j)
    /\ Moves(j, [run[j] EXCEPT !.pc = "commit",
                               !.written = Overlay([t \in Stale(j) |-> None], @)])
    /\ Reading /\ UNCHANGED begun

After(j, t) == IF t \in DOMAIN run[j].written THEN run[j].written[t] ELSE overrides[t]

CommitRun(j) ==
    /\ run[j].pc = "commit"
    /\ overrides' = [t \in Txns |-> After(j, t)]
    /\ run' = [Disturbed(IF run[j].written = <<>> THEN {} ELSE Runs \ {j}) EXCEPT ![j] = Idle]
    /\ UNCHANGED <<rules, inserted, edit, edits, begun>>

\* A unique conflict, a deadlock's victim, or the process stops: the transaction leaves nothing.
FailRun(j) ==
    /\ run[j] # Idle
    /\ Moves(j, Idle)
    /\ UNCHANGED <<rules, overrides, inserted, edit, edits, begun>>

----------------------------------------------------------------------------
CatInit ==
    /\ \E seed \in [Rules -> Targets] :
           rules = [r \in Rules |-> IF r \in Seeded
                      THEN [active |-> TRUE, priority |-> 2, target |-> seed[r]] ELSE None]
    /\ overrides = [t \in Txns |-> None]
    /\ inserted = [t \in Txns |-> 0]
    /\ run = [j \in Runs |-> Idle]
    /\ edit = None
    /\ edits = 0
    /\ begun = 0

CatNext ==
    \/ \E r \in Rules, rule \in [active : {TRUE}, priority : Priorities, target : Targets] :
           SaveRule(r, rule)
    \/ \E r \in Rules : DeleteRule(r)
    \/ \E S \in (SUBSET Txns) \ {{}}, c \in Targets : SetMany(S, c)
    \/ \E t \in Txns, c \in Targets : LookUp(t, c)
    \/ SetOne
    \/ \E j \in Runs, ids \in (SUBSET Txns) \ {{}} : Begin(j, ids)
    \/ \E j \in Runs : ReadMatches(j) \/ ReadExisting(j) \/ DeleteStale(j) \/ CommitRun(j)
                       \/ FailRun(j)
    \/ \E j \in Runs, t \in Txns : Write(j, t)

CatSpec == CatInit /\ [][CatNext]_catVars

----------------------------------------------------------------------------
(* What the table says. *)

\* What the rules in force make of a transaction: the user's own word stands, else the first
\* rule in rank names the category, else nothing does.
Says(row, t) ==
    \/ IsManual(row)
    \/ row = None /\ Active(t) = {}
    \/ /\ IsOfRule(row)
       /\ row.rule \in Active(t)
       /\ row.target = rules[row.rule].target
       /\ \A q \in Active(t) : rules[q].priority > rules[row.rule].priority
                               \/ (rules[q].priority = rules[row.rule].priority /\ q >= row.rule)

\* A rule run during which nothing else was committed leaves every transaction it was given as
\* the rules in force say (category_engine.apply_rules): a rule that was changed, deleted or
\* outranked since the last run has no row left, and no row of the user's is touched.
RulesSettle ==
    \A j \in Runs :
        run[j] # Idle /\ run[j].pc = "commit" /\ run[j].alone =>
            \A t \in run[j].ids :
                /\ Says(After(j, t), t)
                /\ IsManual(overrides[t]) => After(j, t) = overrides[t]

\* However runs, edits of rules and edits of transactions overlap, a transaction the user has
\* given a category never goes back to having none (the DELETE of stale rows names source
\* 'rule'; the rows it deletes were found by an earlier statement).
ManualIsNotErased ==
    [][\A t \in Txns : IsManual(overrides[t]) => overrides'[t] # None]_overrides

\* "When both a manual and a rule override could apply, manual always wins."
\* (tasks/issue-115-category-mapping.md:63.)  Not so when the user sets the category between a
\* run's reading of the row and its UPDATE, which names the row's id alone.
ManualWins ==
    [][\A t \in Txns : IsManual(overrides[t]) => IsManual(overrides'[t])]_overrides
===============================================================================

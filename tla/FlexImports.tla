------------------------------ MODULE FlexImports ------------------------------
(***************************************************************************)
(* The daily IBKR Flex import of one broker account.  A run commits its    *)
(* row and the raw statement, then takes the account's import lock in a    *)
(* transaction of its own, then replaces the facts its statement speaks    *)
(* for in a third one that also releases the lock.  The lock is a row with *)
(* an owner and a time: a process that dies leaves it, and a later run     *)
(* takes it over once it is older than StaleAfter.                         *)
(*                                                                         *)
(* The writing transaction runs one DELETE per table and then its INSERTs. *)
(* Postgres makes a DELETE wait for the transaction that deleted a row it  *)
(* found, and an INSERT for one that inserted or deleted the same key.     *)
(*                                                                         *)
(* One row stands for all rows of a table and day that a run wrote.        *)
(***************************************************************************)
EXTENDS FlexReports, Sequences

CONSTANTS
    Runs,        \* broker_import_runs
    Statements,  \* the statements IBKR may send
    Past,        \* runs that are over at the start
    Known,       \* the statements one of them may have stored
    Cutovers,    \* start dates an import may ask for
    StaleAfter,  \* import_lock_stale_after(), in ticks
    MaxClock,    \* bound on the clock
    MaxMoves,    \* bound on moves of the authority window
    NoRun, Open, NoWindow

ASSUME StatementsAssumption == Statements \subseteq Statement
\* "a report carries NAV for every day, but positions and cash only for the period end"
ASSUME PeriodEndAssumption ==
    \A s \in Statements : s.positions \cup s.cash \subseteq {s.to} /\ (Valid(s) => s.to \in s.nav)
ASSUME PastAssumption == Past \subseteq Runs /\ Known \subseteq Statements
ASSUME CutoversAssumption == Cutovers \subseteq Days
ASSUME StaleAfterAssumption == StaleAfter \in Nat
ASSUME BoundsAssumption == MaxClock \in Nat /\ MaxMoves \in Nat
ASSUME NoRunAssumption == NoRun \notin Runs
ASSUME OpenAssumption == Open \notin Days
ASSUME WindowAssumption == NoWindow \notin [from : Days, to : Days \cup {Open}]

VARIABLES
    clock,     \* hours or minutes that have passed
    lock,      \* portfolio_import_locks: owner and locked_at
    window,    \* the account's Flex authority window
    rows,      \* committed fact rows and completeness rows
    status,    \* broker_import_runs.status
    moves,
    pc,        \* per run, where its process is
    statement, \* the statement it imports
    authority, \* the window it read
    table,     \* the DELETE it is at
    found,     \* rows a waiting DELETE has found
    deleted,   \* rows its open transaction has deleted and inserted
    inserted,
    overtaken, \* ghost: runs whose lock was taken over while they were working
    straddled  \* ghost: runs that were working when the window was moved

dbVars    == <<lock, window, rows, status>>
localVars == <<statement, authority, table, found, deleted, inserted>>
ghostVars == <<overtaken, straddled>>
vars == <<clock, dbVars, moves, pc, localVars, ghostVars>>

Free == [owner |-> NoRun, at |-> 0]

\* _clear_existing_authoritative_facts: the tables in the order it clears them.
ClearOrder == <<"positions", "cash", "nav", "completeness">>

FactStatuses == {"authoritative", "reference"}
Completeness == {"complete", "nav_only", "failed"}
Row == [table : FactTables, day : Days, run : Runs, status : FactStatuses]
       \cup [table : {"completeness"}, day : Days, run : Runs, status : Completeness]

\* A run between the commit of its lock and the end of its last transaction.
Working == {r \in Runs : pc[r] \in {"locked", "delete", "waiting", "insert", "finish"}}

-----------------------------------------------------------------------------
(* The database *)

\* The unique indexes: one authoritative row per table and day, one
\* completeness row per day.
SameKey(x, y) ==
    /\ x.table = y.table /\ x.day = y.day
    /\ x.table = "completeness" \/ (x.status = "authoritative" /\ y.status = "authoritative")

View(r) == (rows \ deleted[r]) \cup inserted[r]

\* An INSERT of rows by run r waits for an open transaction with the same key.
MustWait(r, new) ==
    \E s \in Runs \ {r}, x \in new, y \in Row :
        y \in inserted[s] \cup (deleted[s] \ deleted[r]) /\ SameKey(x, y)

\* ... and fails when a committed row has it.
Duplicate(r, new) == \E x \in new, y \in rows \ deleted[r] : SameKey(x, y)

\* The process's transaction and locals are gone.
Forget(r) ==
    /\ authority' = [authority EXCEPT ![r] = NoWindow]
    /\ table' = [table EXCEPT ![r] = 1]
    /\ found' = [found EXCEPT ![r] = {}]
    /\ deleted' = [deleted EXCEPT ![r] = {}]
    /\ inserted' = [inserted EXCEPT ![r] = {}]

\* _release_lock
Release(r) == lock' = IF lock.owner = r THEN Free ELSE lock

-----------------------------------------------------------------------------
(* Taking the lock *)

\* The run row and the raw statement are committed before anything is parsed.
Begin(r, s) ==
    /\ pc[r] = "idle"
    /\ pc' = [pc EXCEPT ![r] = "parsed"]
    /\ status' = [status EXCEPT ![r] = "started"]
    /\ statement' = [statement EXCEPT ![r] = s]
    /\ UNCHANGED <<clock, lock, window, rows, moves, authority, table, found, deleted, inserted,
                   ghostVars>>

\* An import makes the window when the account has none, and never moves one.
EnsuredWindow(from) ==
    IF window = NoWindow THEN [from |-> from, to |-> Open] ELSE window

\* _try_acquire_lock: a free lock, or one that is too old to be live.
MayTake == lock = Free \/ clock - lock.at > StaleAfter

\* The account, the window and the lock, in one transaction.
Acquire(r, from) ==
    /\ pc[r] = "parsed"
    /\ MayTake
    /\ lock' = [owner |-> r, at |-> clock]
    /\ window' = EnsuredWindow(from)
    /\ authority' = [authority EXCEPT ![r] = window']
    /\ pc' = [pc EXCEPT ![r] = "locked"]
    /\ overtaken' = overtaken \cup ({lock.owner} \cap Working)
    /\ UNCHANGED <<clock, rows, status, moves, statement, table, found, deleted, inserted,
                   straddled>>

\* Mutant: the row count of the INSERT is not looked at.
Refuse_GoesOn(r) ==
    /\ pc[r] = "parsed"
    /\ pc' = [pc EXCEPT ![r] = "locked"]
    /\ authority' = [authority EXCEPT ![r] = EnsuredWindow(statement[r].from)]
    /\ window' = authority'[r]
    /\ UNCHANGED <<clock, lock, rows, status, moves, statement, table, found, deleted, inserted,
                   ghostVars>>

\* Mutant: an import waits for a lock it cannot take.
Refuse_Waits(r) ==
    /\ pc[r] = "parsed"
    /\ MayTake
    /\ pc' = [pc EXCEPT ![r] = "done"]
    /\ status' = [status EXCEPT ![r] = "failed"]
    /\ UNCHANGED <<clock, lock, window, rows, moves, localVars, ghostVars>>

\* The transaction rolls back, and the run is recorded as failed: the lock is
\* held, the statement cannot be read, or the database refused something.
Refuse(r) ==
    /\ pc[r] = "parsed"
    /\ pc' = [pc EXCEPT ![r] = "done"]
    /\ status' = [status EXCEPT ![r] = "failed"]
    /\ UNCHANGED <<clock, lock, window, rows, moves, localVars, ghostVars>>

-----------------------------------------------------------------------------
(* The writing transaction *)

Accept(r) ==
    /\ pc[r] = "locked"
    /\ Valid(statement[r])
    /\ pc' = [pc EXCEPT ![r] = "delete"]
    /\ table' = [table EXCEPT ![r] = 1]
    /\ UNCHANGED <<clock, dbVars, moves, statement, authority, found, deleted, inserted, ghostVars>>

FailedRow(r) == [table |-> "completeness", day |-> statement[r].to, run |-> r,
                 status |-> "failed"]

\* IbkrFlexImportError: the day is marked failed and the lock released, all in
\* one transaction ...
Reject(r) ==
    /\ pc[r] = "locked"
    /\ ~Valid(statement[r])
    /\ ~MustWait(r, {FailedRow(r)}) /\ ~Duplicate(r, {FailedRow(r)})
    /\ rows' = rows \cup {FailedRow(r)}
    /\ status' = [status EXCEPT ![r] = "failed"]
    /\ Release(r)
    /\ Forget(r)
    /\ pc' = [pc EXCEPT ![r] = "done"]
    /\ UNCHANGED <<clock, window, moves, statement, ghostVars>>

\* ... which fails as a whole when the day has a completeness row already.
RejectRaises(r) ==
    /\ pc[r] = "locked"
    /\ ~Valid(statement[r])
    /\ ~MustWait(r, {FailedRow(r)}) /\ Duplicate(r, {FailedRow(r)})
    /\ Forget(r)
    /\ pc' = [pc EXCEPT ![r] = "raised"]
    /\ UNCHANGED <<clock, dbVars, moves, statement, ghostVars>>

\* The DELETE of table number n of run r is over: it deleted gone.
Cleared(r, n, gone) ==
    /\ deleted' = [deleted EXCEPT ![r] = @ \cup gone]
    /\ found' = [found EXCEPT ![r] = {}]
    /\ table' = [table EXCEPT ![r] = n + 1]
    /\ pc' = [pc EXCEPT ![r] = IF n = Len(ClearOrder) THEN "insert" ELSE "delete"]

Spoken(r, t) == {x \in rows \ deleted[r] : x.table = t /\ x.day \in Scope(statement[r], t)}

Contested(r, some) == \E s \in Runs \ {r} : deleted[s] \cap some # {}

Delete(r) ==
    /\ pc[r] = "delete"
    /\ LET some == Spoken(r, ClearOrder[table[r]])
       IN  IF Contested(r, some)
           THEN /\ pc' = [pc EXCEPT ![r] = "waiting"]
                /\ found' = [found EXCEPT ![r] = some]
                /\ UNCHANGED <<deleted, table>>
           ELSE Cleared(r, table[r], some)
    /\ UNCHANGED <<clock, dbVars, moves, statement, authority, inserted, ghostVars>>

\* The rows it found are free: it deletes those still there, and none that
\* were inserted in the meantime.
Resume(r) ==
    /\ pc[r] = "waiting"
    /\ ~Contested(r, found[r])
    /\ Cleared(r, table[r], found[r] \cap rows)
    /\ UNCHANGED <<clock, dbVars, moves, statement, authority, inserted, ghostVars>>

Covers(w, d) == w.from <= d /\ (w.to = Open \/ d <= w.to)

\* Mutant: every fact of an import counts.
StatusFor_Always(w, d) == "authoritative"

StatusFor(w, d) == IF Covers(w, d) THEN "authoritative" ELSE "reference"

NewFacts(r, w) ==
    UNION {{[table |-> t, day |-> d, run |-> r, status |-> StatusFor(w, d)] :
               d \in statement[r][t]} : t \in FactTables}

\* Mutant: what was written before the error is committed with the failed run.
Abort_Keeps(r) ==
    /\ Forget(r)
    /\ status' = [status EXCEPT ![r] = "failed"]
    /\ Release(r)
    /\ pc' = [pc EXCEPT ![r] = "done"]
    /\ rows' = View(r)

\* Nothing of the run stays but its row, marked failed, and the lock is released.
Abort(r) ==
    /\ Forget(r)
    /\ status' = [status EXCEPT ![r] = "failed"]
    /\ Release(r)
    /\ pc' = [pc EXCEPT ![r] = "done"]
    /\ UNCHANGED rows

Insert(r) ==
    /\ pc[r] = "insert"
    /\ ~MustWait(r, NewFacts(r, authority[r]))
    /\ IF Duplicate(r, NewFacts(r, authority[r]))
       THEN Abort(r)
       ELSE /\ inserted' = [inserted EXCEPT ![r] = NewFacts(r, authority[r])]
            /\ pc' = [pc EXCEPT ![r] = "finish"]
            /\ UNCHANGED <<lock, rows, status, authority, table, found, deleted>>
    /\ UNCHANGED <<clock, window, moves, statement, ghostVars>>

HasRow(r, t, d) == \E x \in View(r) : x.table = t /\ x.day = d

\* Mutant: a day with a NAV is a complete day.
CompletenessOf_Nav(r, d) == "complete"

\* _holdings_completeness_status, for days the statement has only NAV for.
CompletenessOf(r, d) ==
    IF \/ d \in Holdings(statement[r])
       \/ /\ HasRow(r, "cash", d)
          /\ HasRow(r, "positions", d) \/ d \notin statement[r].invested
    THEN "complete" ELSE "nav_only"

NewCompleteness(r) ==
    {[table |-> "completeness", day |-> d, run |-> r, status |-> CompletenessOf(r, d)] :
        d \in Scope(statement[r], "completeness")}

\* The completeness rows, "completed", the History mark, the lock, the commit.
Finish(r) ==
    /\ pc[r] = "finish"
    /\ ~MustWait(r, NewCompleteness(r))
    /\ IF Duplicate(r, NewCompleteness(r))
       THEN Abort(r)
       ELSE /\ rows' = View(r) \cup NewCompleteness(r)
            /\ status' = [status EXCEPT ![r] = "completed"]
            /\ Release(r)
            /\ Forget(r)
            /\ pc' = [pc EXCEPT ![r] = "done"]
    /\ UNCHANGED <<clock, window, moves, statement, ghostVars>>

\* The database fails the run (a deadlock, a lost row): the generic handler.
DatabaseError(r) ==
    /\ r \in Working
    /\ Abort(r)
    /\ UNCHANGED <<clock, window, moves, statement, ghostVars>>

\* The process is killed, or its handler fails as well.
Crash(r) ==
    /\ pc[r] = "parsed" \/ r \in Working
    /\ pc' = [pc EXCEPT ![r] = "dead"]
    /\ Forget(r)
    /\ UNCHANGED <<clock, dbVars, moves, statement, ghostVars>>

-----------------------------------------------------------------------------
(* Time, and the owner's command *)

Tick ==
    /\ clock < MaxClock
    /\ clock' = clock + 1
    /\ UNCHANGED <<dbVars, moves, pc, localVars, ghostVars>>

Restamp(x, w) ==
    IF x.table = "completeness" THEN x ELSE [x EXCEPT !.status = StatusFor(w, x.day)]

\* authority.move_window, by make authority-window-move: it restamps what is
\* committed, waits for rows an import has deleted, and is refused when two
\* rows would count for one key.
MoveWindow(w) ==
    /\ moves < MaxMoves
    /\ window # NoWindow
    /\ w.to # Open => w.from <= w.to
    /\ \A x \in rows : Restamp(x, w) # x => \A r \in Runs : x \notin deleted[r]
    /\ \A x, y \in rows : x # y => ~SameKey(Restamp(x, w), Restamp(y, w))
    /\ \A x \in rows, r \in Runs :
          Restamp(x, w) # x => \A y \in inserted[r] : ~SameKey(Restamp(x, w), y)
    /\ rows' = {Restamp(x, w) : x \in rows}
    /\ window' = w
    /\ moves' = moves + 1
    /\ straddled' = straddled \cup Working
    /\ UNCHANGED <<clock, lock, status, pc, localVars, overtaken>>

-----------------------------------------------------------------------------

\* The rows that run r leaves in an empty account.
Imported(r, w) ==
    NewFacts(r, w) \cup {[table |-> "completeness", day |-> d, run |-> r,
                       status |-> IF d \in Holdings(statement[r]) THEN "complete" ELSE "nav_only"] :
                         d \in Scope(statement[r], "completeness")}

\* A new account, or one that has the statement of run r; the other runs of the
\* past had failed.
Init ==
    /\ clock = 0 /\ moves = 0
    /\ lock = Free
    /\ \E kept \in {{}} \cup {{r} : r \in Past}, s \in Statements :
          /\ IF kept = {} THEN s = CHOOSE t \in Statements : TRUE ELSE s \in Known /\ Valid(s)
          /\ statement = [r \in Runs |-> s]
          /\ window = IF kept = {} THEN NoWindow ELSE [from |-> s.from, to |-> Open]
          /\ rows = UNION {Imported(r, window) : r \in kept}
          /\ status = [r \in Runs |-> IF r \in kept THEN "completed"
                                      ELSE IF r \in Past THEN "failed" ELSE "none"]
    /\ pc = [r \in Runs |-> IF r \in Past THEN "done" ELSE "idle"]
    /\ authority = [r \in Runs |-> NoWindow] /\ table = [r \in Runs |-> 1]
    /\ found = [r \in Runs |-> {}]
    /\ deleted = [r \in Runs |-> {}] /\ inserted = [r \in Runs |-> {}]
    /\ overtaken = {} /\ straddled = {}

\* The steps of a process that is alive.
Step(r) ==
    \/ \E from \in {statement[r].from} \cup Cutovers : Acquire(r, from)
    \/ Refuse(r) \/ Accept(r) \/ Reject(r) \/ RejectRaises(r)
    \/ Delete(r) \/ Resume(r) \/ Insert(r) \/ Finish(r)

Next ==
    \/ \E r \in Runs, s \in Statements : Begin(r, s)
    \/ \E r \in Runs : Step(r) \/ DatabaseError(r) \/ Crash(r)
    \/ Tick
    \/ \E w \in [from : Days, to : Days \cup {Open}] : MoveWindow(w)

Spec == Init /\ [][Next]_vars

FairSpec == Spec /\ \A r \in Runs : WF_vars(Step(r))

-----------------------------------------------------------------------------
(* Properties *)

TypeOK ==
    /\ clock \in Nat /\ moves \in Nat
    /\ lock \in [owner : Runs \cup {NoRun}, at : Nat]
    /\ window \in [from : Days, to : Days \cup {Open}] \cup {NoWindow}
    /\ rows \subseteq Row
    /\ status \in [Runs -> {"none", "started", "completed", "failed"}]
    /\ pc \in [Runs -> {"idle", "parsed", "locked", "delete", "waiting", "insert", "finish",
                        "done", "raised", "dead"}]
    /\ statement \in [Runs -> Statements]
    /\ authority \in [Runs -> [from : Days, to : Days \cup {Open}] \cup {NoWindow}]
    /\ table \in [Runs -> 1..Len(ClearOrder) + 1]
    /\ found \in [Runs -> SUBSET Row]
    /\ deleted \in [Runs -> SUBSET Row] /\ inserted \in [Runs -> SUBSET Row]
    /\ overtaken \subseteq Runs /\ straddled \subseteq Runs

\* While no live import has been taken for dead, one run at a time works on
\* the account (issue 135).
ImportsExclude ==
    overtaken = {} => \A r, s \in Working : r = s

\* Only its owner ends a live run's lock, or a run that finds it stale: a run
\* that was overtaken and finishes late does not free its successor's lock.
LiveLocksEndByRule ==
    [][\A r \in Working :
          lock.owner = r /\ lock'.owner # r =>
              r \notin Working' \/ clock - lock.at > StaleAfter]_vars

\* A run that ended in order holds no lock: no import waits for one that is over.
EndedRunsHoldNoLock == \A r \in Runs : pc[r] = "done" => lock.owner # r

\* As above for every run whose process reported its end, good or ill: the
\* handler's own words are that the error is recorded afresh (issue 136), and
\* issue 135 that a lock must not wedge later imports.
FailedImportsFreeTheAccount ==
    \A r \in Runs : pc[r] \in {"done", "raised"} => lock.owner # r

\* A stored fact counts exactly when the window covers its day, but for runs
\* that were working when the window was moved.
StampsFollowWindow ==
    \A x \in rows :
        x.table \in FactTables /\ x.run \notin straddled =>
            (x.status = "authoritative" <=> Covers(window, x.day))

\* "complete" is the truth: of the day's cash rows are stored, or the report that the mark is of
\* carried cash for the day and had none; of its positions too, or its NAV says there are none.
\* A day marked failed has no facts.
CompletenessIsTrue ==
    overtaken = {} =>
        \A c \in rows : c.table = "completeness" =>
            LET has(t) == \E x \in rows : x.table = t /\ x.day = c.day
                known(t) == has(t) \/ c.day \in Scope(statement[c.run], t)
                noStock == \E x \in rows : /\ x.table = "nav" /\ x.day = c.day
                                           /\ c.day \notin statement[x.run].invested
            IN  IF c.status = "failed"
                THEN \A t \in FactTables : ~has(t)
                ELSE c.status = "complete" <=> known("cash") /\ (known("positions") \/ noStock)

\* Every run that is not killed comes to an end: waiting for the rows of an
\* import it overtook does not last.
RunsEnd ==
    \A r \in Runs : (pc[r] = "parsed") ~> (pc[r] \in {"done", "raised", "dead"})

\* The facts, as the runs that gave them.
Facts == INSTANCE BrokerFacts WITH
    facts <- [t \in FactTables |-> {[day |-> x.day, run |-> x.run] :
                                        x \in {y \in rows : y.table = t}}],
    imported <- {r \in Runs : status[r] = "completed"}

\* As long as no live import is overtaken, a step stores a whole statement or
\* changes no fact, whatever fails and whoever dies.
ImportsAreAtomic ==
    [][overtaken' = {} => \E r \in Runs : Facts!Import(r, statement[r])]_(Facts!vars)
================================================================================

---------------------------- MODULE HistoryRollups ----------------------------
(***************************************************************************)
(* The History rows of one user (wealth_monthly_rollups) and the dirty     *)
(* mark that says which of them are out of date (wealth_rollup_dirty).     *)
(*                                                                         *)
(* Imports are database transactions: one writes facts dated from some day *)
(* on and, in the same transaction, marks the user dirty.  Refreshers are  *)
(* the threads that bring the rows up to date: a read of the timeline, the *)
(* backfill button, the hook that runs after a scheduled job.  Postgres    *)
(* runs them READ COMMITTED, so every statement of a refresher sees what   *)
(* has been committed by then, and a commit may fall between any two.      *)
(*                                                                         *)
(* A day is one of the months' anchors: month m is computed from the facts *)
(* dated up to m.  What a row was computed from is the set of imports its  *)
(* statements saw (basis).                                                 *)
(***************************************************************************)
EXTENDS Naturals, FiniteSets

CONSTANTS
    Imports,      \* write transactions, each of which runs once
    Refreshers,   \* threads that may be refreshing at the same time
    Currencies,   \* base currencies the user looks at History in
    LastMonth,    \* months (and days) are 1..LastMonth
    MaxFailures   \* bound: refreshes that fail half way

ASSUME LastMonthAssumption == LastMonth \in Nat \ {0}
ASSUME MaxFailuresAssumption == MaxFailures \in Nat

Months == 1 .. LastMonth
NoDate == 0        \* from_date IS NULL; also "no row" as an anchor
Dates  == 0 .. LastMonth

\* The lock on the user's wealth_rollup_dirty row, held until the end of the
\* transaction that wrote it.
Free == [by |-> "none"]
ImportHolds(i)    == [by |-> "import", who |-> i]
RefresherHolds(r) == [by |-> "refresher", who |-> r]

Row   == [gen : Nat, anchor : Dates, basis : SUBSET Imports]
NoRow == [gen |-> 0, anchor |-> NoDate, basis |-> {}]

VARIABLES
    completed,  \* latest month whose anchor has passed
    fromDate,   \* wealth_rollup_dirty.from_date
    generation, \* wealth_rollup_dirty.generation
    markLock,   \* who holds the lock on that row
    rows,       \* wealth_monthly_rollups, as committed
    istate,     \* per import: "idle", "open", "committed", "rolledback"
    idate,      \* earliest date the import changed
    imarked,    \* whether it marked the user dirty
    igen,       \* the generation its mark got
    pc,         \* per refresher: the statement it is about to execute
    kind,       \* "page", "backfill", "job"
    jobLeft,    \* currencies the hook has yet to refresh
    cur,        \* the currency being refreshed
    todo,       \* months yet to consider
    month,      \* the month being computed
    dirtyFrom,  \* what dirty_state() returned
    dirtyGen,
    stored,     \* the stored rows as they were read
    seen,       \* imports committed when the current computation began
    buffer,     \* rows written and not committed
    touched,    \* months written or deleted and not committed
    wrote,      \* whether a row was computed
    settleFrom, \* from_date as settle read it, then the one it moves to
    failures

markVars   == <<fromDate, generation, markLock>>
importVars == <<istate, idate, imarked, igen>>
taskVars   == <<kind, jobLeft, cur>>
readVars   == <<dirtyFrom, dirtyGen>>
writeVars  == <<buffer, touched, wrote>>
loopVars   == <<todo, month>>
vars == <<completed, markVars, rows, importVars, pc, taskVars, loopVars, readVars,
          stored, seen, writeVars, settleFrom, failures>>

Committed == {i \in Imports : istate[i] = "committed"}

\* The earliest of a set of dates: MIN() in SQL, NULL for no row at all.
Earliest(S) == IF S = {} THEN {NoDate}
               ELSE {d \in S : \A e \in S : d <= e}

-----------------------------------------------------------------------------
(* Imports *)

\* An import writes its facts and calls mark_rollups_dirty, which marks only
\* a change on or before the latest completed anchor.  The INSERT .. ON
\* CONFLICT locks the mark.
ImportWrite(i, d) ==
    /\ istate[i] = "idle"
    /\ d <= completed => markLock = Free
    /\ istate' = [istate EXCEPT ![i] = "open"]
    /\ idate' = [idate EXCEPT ![i] = d]
    /\ imarked' = [imarked EXCEPT ![i] = (d <= completed)]
    /\ markLock' = IF d <= completed THEN ImportHolds(i) ELSE markLock
    /\ UNCHANGED <<completed, fromDate, generation, rows, igen, pc, taskVars,
                   loopVars, readVars, stored, seen, writeVars, settleFrom, failures>>

\* The mark keeps the earliest pending date and moves to the next generation.
MergedFrom(d) == IF fromDate = NoDate \/ d < fromDate THEN d ELSE fromDate

ImportCommit(i) ==
    /\ istate[i] = "open"
    /\ istate' = [istate EXCEPT ![i] = "committed"]
    /\ IF imarked[i]
       THEN /\ fromDate' = MergedFrom(idate[i])
            /\ generation' = generation + 1
            /\ igen' = [igen EXCEPT ![i] = generation + 1]
            /\ markLock' = Free
       ELSE UNCHANGED <<markVars, igen>>
    /\ UNCHANGED <<completed, rows, idate, imarked, pc, taskVars, loopVars,
                   readVars, stored, seen, writeVars, settleFrom, failures>>

ImportRollback(i) ==
    /\ istate[i] = "open"
    /\ istate' = [istate EXCEPT ![i] = "rolledback"]
    /\ markLock' = IF imarked[i] THEN Free ELSE markLock
    /\ UNCHANGED <<completed, fromDate, generation, rows, idate, imarked, igen,
                   pc, taskVars, loopVars, readVars, stored, seen, writeVars,
                   settleFrom, failures>>

\* The next month's anchor passes (midnight in the user's timezone).
MonthCompletes ==
    /\ completed < LastMonth
    /\ completed' = completed + 1
    /\ UNCHANGED <<markVars, rows, importVars, pc, taskVars, loopVars, readVars,
                   stored, seen, writeVars, settleFrom, failures>>

-----------------------------------------------------------------------------
(* A refresh of one currency: _refresh_wealth_rollups *)

\* dirty_state() is its first statement.
BeginRefresh(r, c) ==
    /\ pc' = [pc EXCEPT ![r] = "readStored"]
    /\ cur' = [cur EXCEPT ![r] = c]
    /\ dirtyFrom' = [dirtyFrom EXCEPT ![r] = fromDate]
    /\ dirtyGen' = [dirtyGen EXCEPT ![r] = generation]

\* The last n months, the open one included.
TrailingMonths(n) == {m \in Months : m <= completed + 1 /\ completed + 1 < m + n}

\* The timeline read ("page") and the "Generate history" button ("backfill").
StartRequest(r, k, c, n) ==
    /\ pc[r] = "idle"
    /\ kind' = [kind EXCEPT ![r] = k]
    /\ todo' = [todo EXCEPT ![r] = TrailingMonths(n)]
    /\ BeginRefresh(r, c)
    /\ UNCHANGED <<completed, markVars, rows, importVars, jobLeft, month, stored,
                   seen, writeVars, settleFrom, failures>>

\* The hook after a scheduled job: only for a user with a pending mark, every
\* currency that has a row.
StartJob(r) ==
    /\ pc[r] = "idle"
    /\ fromDate # NoDate
    /\ kind' = [kind EXCEPT ![r] = "job"]
    /\ LET withRows == {c \in Currencies : \E m \in Months : rows[c][m].anchor # NoDate}
       IN /\ jobLeft' = [jobLeft EXCEPT ![r] = withRows]
          /\ pc' = [pc EXCEPT ![r] = IF withRows = {} THEN "jobBare" ELSE "job"]
    /\ UNCHANGED <<completed, markVars, rows, importVars, cur, loopVars, readVars,
                   stored, seen, writeVars, settleFrom, failures>>

\* No row in any currency: the mark is settled with the generation it has now.
JobBare(r) ==
    /\ pc[r] = "jobBare"
    /\ dirtyGen' = [dirtyGen EXCEPT ![r] = generation]
    /\ pc' = [pc EXCEPT ![r] = "settle"]
    /\ UNCHANGED <<completed, markVars, rows, importVars, taskVars, loopVars,
                   dirtyFrom, stored, seen, writeVars, settleFrom, failures>>

JobNext(r) ==
    /\ pc[r] = "job"
    /\ \/ \E c \in jobLeft[r] :
             /\ jobLeft' = [jobLeft EXCEPT ![r] = @ \ {c}]
             /\ BeginRefresh(r, c)
       \/ /\ jobLeft[r] = {}
          /\ pc' = [pc EXCEPT ![r] = "idle"]
          /\ UNCHANGED <<jobLeft, cur, readVars>>
    /\ UNCHANGED <<completed, markVars, rows, importVars, kind, loopVars, stored,
                   seen, writeVars, settleFrom, failures>>

\* The stored rows of the currency.  A job considers all of them.
ReadStored(r) ==
    /\ pc[r] = "readStored"
    /\ stored' = [stored EXCEPT ![r] = rows[cur[r]]]
    /\ todo' = [todo EXCEPT ![r] =
                  IF kind[r] = "job"
                  THEN {m \in Months : rows[cur[r]][m].anchor # NoDate}
                  ELSE @]
    /\ pc' = [pc EXCEPT ![r] = "loop"]
    /\ UNCHANGED <<completed, markVars, rows, importVars, taskVars, month,
                   readVars, seen, writeVars, settleFrom, failures>>

Stored(r, m) == stored[r][m].anchor # NoDate

\* Mutant: the month the pending date falls on is left out.
Needed_AfterMark(r, m) ==
    \/ kind[r] = "backfill"
    \/ /\ ~Stored(r, m)
       /\ kind[r] = "page"
       /\ \E f \in Months : Stored(r, f) /\ f <= m
    \/ /\ Stored(r, m)
       /\ \/ stored[r][m].anchor # m
          \/ /\ dirtyFrom[r] # NoDate
             /\ m > dirtyFrom[r]
             /\ stored[r][m].gen < dirtyGen[r]

\* Whether a completed month is (re)computed.
Needed(r, m) ==
    \/ kind[r] = "backfill"
    \/ /\ ~Stored(r, m)
       /\ kind[r] = "page"
       /\ \E f \in Months : Stored(r, f) /\ f <= m
    \/ /\ Stored(r, m)
       /\ \/ stored[r][m].anchor # m
          \/ /\ dirtyFrom[r] # NoDate
             /\ m >= dirtyFrom[r]
             /\ stored[r][m].gen < dirtyGen[r]

\* A row another transaction has written and not committed is locked.
RowFree(r, m) == \A q \in Refreshers \ {r} : ~(cur[q] = cur[r] /\ m \in touched[q])

\* The next month of the loop: its provisional row is deleted while it is
\* open, it is skipped, or its computation begins.
NextMonth(r, m) ==
    /\ pc[r] = "loop"
    /\ todo[r] # {} /\ m \in Earliest(todo[r])
    /\ todo' = [todo EXCEPT ![r] = @ \ {m}]
    /\ IF m > completed
       THEN /\ IF Stored(r, m)
               THEN /\ RowFree(r, m)
                    /\ buffer' = [buffer EXCEPT ![r] = [@ EXCEPT ![m] = NoRow]]
                    /\ touched' = [touched EXCEPT ![r] = @ \cup {m}]
               ELSE UNCHANGED <<buffer, touched>>
            /\ UNCHANGED <<pc, month, seen>>
       ELSE /\ IF Needed(r, m)
               THEN /\ pc' = [pc EXCEPT ![r] = "compute"]
                    /\ month' = [month EXCEPT ![r] = m]
                    /\ seen' = [seen EXCEPT ![r] = Committed]
               ELSE UNCHANGED <<pc, month, seen>>
            /\ UNCHANGED <<buffer, touched>>
    /\ UNCHANGED <<completed, markVars, rows, importVars, taskVars, readVars,
                   stored, wrote, settleFrom, failures>>

\* Mutant: the row is stamped with the generation at the time it is written.
Upsert_StampedLate(r, m, basis) ==
    /\ pc[r] = "compute" /\ m = month[r]
    /\ RowFree(r, m)
    /\ seen[r] \subseteq basis
    /\ buffer' = [buffer EXCEPT ![r] =
                    [@ EXCEPT ![m] = [gen |-> generation, anchor |-> m, basis |-> basis]]]
    /\ touched' = [touched EXCEPT ![r] = @ \cup {m}]
    /\ wrote' = [wrote EXCEPT ![r] = TRUE]
    /\ pc' = [pc EXCEPT ![r] = "loop"]
    /\ UNCHANGED <<completed, markVars, rows, importVars, taskVars, loopVars,
                   readVars, stored, seen, settleFrom, failures>>

\* _wealth_rollup_row takes many statements: it sees every import committed
\* before it began and any of those committed since.  The upsert overwrites
\* whatever is stored, and waits for a transaction that has the row locked.
Upsert(r, m, basis) ==
    /\ pc[r] = "compute" /\ m = month[r]
    /\ RowFree(r, m)
    /\ seen[r] \subseteq basis
    /\ buffer' = [buffer EXCEPT ![r] =
                    [@ EXCEPT ![m] = [gen |-> dirtyGen[r], anchor |-> m, basis |-> basis]]]
    /\ touched' = [touched EXCEPT ![r] = @ \cup {m}]
    /\ wrote' = [wrote EXCEPT ![r] = TRUE]
    /\ pc' = [pc EXCEPT ![r] = "loop"]
    /\ UNCHANGED <<completed, markVars, rows, importVars, taskVars, loopVars,
                   readVars, stored, seen, settleFrom, failures>>

\* Settle if a row was computed or the mark was pending; else finish.
EndLoop(r) ==
    /\ pc[r] = "loop"
    /\ todo[r] = {}
    /\ pc' = [pc EXCEPT ![r] = IF wrote[r] \/ dirtyFrom[r] # NoDate
                               THEN "settle" ELSE "commit"]
    /\ UNCHANGED <<completed, markVars, rows, importVars, taskVars, loopVars,
                   readVars, stored, seen, writeVars, settleFrom, failures>>

-----------------------------------------------------------------------------
(* settle_dirty_mark, and the end of the transaction *)

\* Its own dirty_state(): nothing to do if a newer mark has arrived.
SettleRead(r) ==
    /\ pc[r] = "settle"
    /\ settleFrom' = [settleFrom EXCEPT ![r] = fromDate]
    /\ pc' = [pc EXCEPT ![r] = IF fromDate = NoDate \/ generation # dirtyGen[r]
                               THEN "commit" ELSE "remaining"]
    /\ UNCHANGED <<completed, markVars, rows, importVars, taskVars, loopVars,
                   readVars, stored, seen, writeVars, failures>>

\* What the transaction sees of the table: its own writes over the committed.
View(r, c, m) == IF c = cur[r] /\ m \in touched[r] THEN buffer[r][m] ELSE rows[c][m]

\* Mutant: only the rows of the currency just refreshed.
Remaining_OneCurrency(r) ==
    {d \in Months : /\ d >= settleFrom[r]
                    /\ \E m \in Months :
                          /\ View(r, cur[r], m).anchor = d
                          /\ View(r, cur[r], m).gen < dirtyGen[r]}

\* MIN(anchor_date) over the rows that are still out of date, any currency.
Remaining(r) ==
    {d \in Months : /\ d >= settleFrom[r]
                    /\ \E c \in Currencies, m \in Months :
                          /\ View(r, c, m).anchor = d
                          /\ View(r, c, m).gen < dirtyGen[r]}

SettleRemaining(r, d) ==
    /\ pc[r] = "remaining"
    /\ d \in Earliest(Remaining(r))
    /\ settleFrom' = [settleFrom EXCEPT ![r] = d]
    /\ pc' = [pc EXCEPT ![r] = IF d = settleFrom[r] THEN "commit" ELSE "settleUpdate"]
    /\ UNCHANGED <<completed, markVars, rows, importVars, taskVars, loopVars,
                   readVars, stored, seen, writeVars, failures>>

\* UPDATE .. WHERE generation = :generation.  It waits for the lock, then
\* looks at the generation again; the new date is seen at commit.
SettleUpdate(r) ==
    /\ pc[r] = "settleUpdate"
    /\ markLock = Free
    /\ markLock' = IF generation = dirtyGen[r] THEN RefresherHolds(r) ELSE markLock
    /\ pc' = [pc EXCEPT ![r] = "commit"]
    /\ UNCHANGED <<completed, fromDate, generation, rows, importVars, taskVars,
                   loopVars, readVars, stored, seen, writeVars, settleFrom, failures>>

\* The call's own variables go with it.
ForgetLocals(r) ==
    /\ todo' = [todo EXCEPT ![r] = {}]
    /\ month' = [month EXCEPT ![r] = LastMonth]
    /\ dirtyFrom' = [dirtyFrom EXCEPT ![r] = NoDate]
    /\ dirtyGen' = [dirtyGen EXCEPT ![r] = 0]
    /\ stored' = [stored EXCEPT ![r] = [m \in Months |-> NoRow]]
    /\ seen' = [seen EXCEPT ![r] = {}]
    /\ settleFrom' = [settleFrom EXCEPT ![r] = NoDate]

EndTransaction(r) ==
    /\ touched' = [touched EXCEPT ![r] = {}]
    /\ buffer' = [buffer EXCEPT ![r] = [m \in Months |-> NoRow]]
    /\ wrote' = [wrote EXCEPT ![r] = FALSE]
    /\ markLock' = IF markLock = RefresherHolds(r) THEN Free ELSE markLock

Commit(r) ==
    /\ pc[r] = "commit"
    /\ rows' = [rows EXCEPT ![cur[r]] =
                  [m \in Months |-> IF m \in touched[r] THEN buffer[r][m] ELSE @[m]]]
    /\ fromDate' = IF markLock = RefresherHolds(r) THEN settleFrom[r] ELSE fromDate
    /\ EndTransaction(r)
    /\ pc' = [pc EXCEPT ![r] = IF kind[r] = "job" THEN "job" ELSE "idle"]
    /\ ForgetLocals(r)
    /\ UNCHANGED <<completed, generation, importVars, taskVars, failures>>

\* A statement fails, or the process stops: the transaction is rolled back and
\* the request (the hook) ends.
Fail(r) ==
    /\ pc[r] # "idle"
    /\ failures < MaxFailures
    /\ failures' = failures + 1
    /\ pc' = [pc EXCEPT ![r] = "idle"]
    /\ EndTransaction(r)
    /\ ForgetLocals(r)
    /\ UNCHANGED <<completed, fromDate, generation, rows, importVars, taskVars>>

-----------------------------------------------------------------------------
RequestKinds == {"page", "backfill"}

\* Rows written before marks existed: stored at the month before's anchor.
LegacyRow(m) == [gen |-> 0, anchor |-> m - 1, basis |-> {}]

\* A mark may be pending from before.
Init ==
    /\ completed \in {m \in Months : m < LastMonth}
    /\ fromDate \in {NoDate} \cup {d \in Dates : d <= completed}
    /\ generation = IF fromDate = NoDate THEN 0 ELSE 1
    /\ markLock = Free
    /\ \E legacy \in SUBSET {m \in Months : 1 < m /\ m <= completed + 1} :
          rows \in [Currencies -> {[m \in Months |-> NoRow],
                                   [m \in Months |-> IF m \in legacy THEN LegacyRow(m) ELSE NoRow]}]
    /\ istate = [i \in Imports |-> "idle"]
    /\ idate = [i \in Imports |-> LastMonth]
    /\ imarked = [i \in Imports |-> FALSE]
    /\ igen = [i \in Imports |-> 0]
    /\ pc = [r \in Refreshers |-> "idle"]
    /\ kind = [r \in Refreshers |-> "page"]
    /\ jobLeft = [r \in Refreshers |-> {}]
    /\ cur \in [Refreshers -> Currencies]
    /\ todo = [r \in Refreshers |-> {}]
    /\ month = [r \in Refreshers |-> LastMonth]
    /\ dirtyFrom = [r \in Refreshers |-> NoDate]
    /\ dirtyGen = [r \in Refreshers |-> 0]
    /\ stored = [r \in Refreshers |-> [m \in Months |-> NoRow]]
    /\ seen = [r \in Refreshers |-> {}]
    /\ buffer = [r \in Refreshers |-> [m \in Months |-> NoRow]]
    /\ touched = [r \in Refreshers |-> {}]
    /\ wrote = [r \in Refreshers |-> FALSE]
    /\ settleFrom = [r \in Refreshers |-> NoDate]
    /\ failures = 0

ImportStep(i) == \/ \E d \in Months : ImportWrite(i, d)
                 \/ ImportCommit(i)
                 \/ ImportRollback(i)

RefreshStep(r) == \/ JobBare(r)
                  \/ JobNext(r)
                  \/ ReadStored(r)
                  \/ \E m \in Months : NextMonth(r, m)
                  \/ \E m \in Months, basis \in SUBSET Committed : Upsert(r, m, basis)
                  \/ EndLoop(r)
                  \/ SettleRead(r)
                  \/ \E d \in Dates : SettleRemaining(r, d)
                  \/ SettleUpdate(r)
                  \/ Commit(r)

Next == \/ \E i \in Imports : ImportStep(i)
        \/ MonthCompletes
        \/ \E r \in Refreshers :
              \/ \E k \in RequestKinds, c \in Currencies, n \in Months : StartRequest(r, k, c, n)
              \/ StartJob(r)
              \/ RefreshStep(r)
              \/ Fail(r)

Spec == Init /\ [][Next]_vars

\* A transaction that was opened ends and a refresh that began goes on.  The
\* hook runs after each day's jobs, however often pages are read meanwhile.
Fairness == /\ \A i \in Imports : WF_vars(ImportCommit(i) \/ ImportRollback(i))
            /\ \A r \in Refreshers : WF_vars(RefreshStep(r)) /\ SF_vars(StartJob(r))

FairSpec == Spec /\ Fairness

-----------------------------------------------------------------------------
(* Properties *)

Statements == {"idle", "job", "jobBare", "readStored", "loop", "compute", "settle",
               "remaining", "settleUpdate", "commit"}

\* Every variable has its type; a NULL date is 0 and an absent row has no anchor.
TypeOK ==
    /\ completed \in Dates
    /\ fromDate \in Dates
    /\ generation \in Nat
    /\ markLock \in {Free} \cup {ImportHolds(i) : i \in Imports}
                           \cup {RefresherHolds(r) : r \in Refreshers}
    /\ rows \in [Currencies -> [Months -> Row]]
    /\ istate \in [Imports -> {"idle", "open", "committed", "rolledback"}]
    /\ idate \in [Imports -> Months]
    /\ imarked \in [Imports -> BOOLEAN]
    /\ igen \in [Imports -> Nat]
    /\ pc \in [Refreshers -> Statements]
    /\ kind \in [Refreshers -> RequestKinds \cup {"job"}]
    /\ jobLeft \in [Refreshers -> SUBSET Currencies]
    /\ cur \in [Refreshers -> Currencies]
    /\ todo \in [Refreshers -> SUBSET Months]
    /\ month \in [Refreshers -> Months]
    /\ dirtyFrom \in [Refreshers -> Dates]
    /\ dirtyGen \in [Refreshers -> Nat]
    /\ stored \in [Refreshers -> [Months -> Row]]
    /\ seen \in [Refreshers -> SUBSET Imports]
    /\ buffer \in [Refreshers -> [Months -> Row]]
    /\ touched \in [Refreshers -> SUBSET Months]
    /\ wrote \in [Refreshers -> BOOLEAN]
    /\ settleFrom \in [Refreshers -> Dates]
    /\ failures \in Nat

\* Row m of currency c was computed without import i, which is committed and
\* changed something the row is made of.
Misses(c, m, i) ==
    /\ istate[i] = "committed"
    /\ i \notin rows[c][m].basis
    /\ idate[i] <= rows[c][m].anchor

\* A row stamped with a generation was computed from everything marked up to
\* that generation: the generation is read before any fact is, in
\* _refresh_wealth_rollups, however imports and refreshers interleave.
StampIsHonest ==
    \A c \in Currencies, m \in Months, i \in Imports :
        Misses(c, m, i) /\ imarked[i] => rows[c][m].gen < igen[i]

\* The pending mark covers the row: the next refresh of its currency that
\* considers the month recomputes it.
Covered(c, m) ==
    /\ fromDate # NoDate
    /\ fromDate <= rows[c][m].anchor
    /\ rows[c][m].gen < generation

\* No row is silently out of date: one that misses a change that was marked
\* is covered by the pending mark, whatever was settled since (settle_dirty_mark).
NoMarkedChangeIsLost ==
    \A c \in Currencies, m \in Months, i \in Imports :
        Misses(c, m, i) /\ imarked[i] => Covered(c, m)

\* The same of every change, marked or not: what mark_rollups_dirty leaves out
\* "can't touch any stored row".
NoUnmarkedChangeIsMissed ==
    \A c \in Currencies, m \in Months, i \in Imports :
        Misses(c, m, i) /\ ~imarked[i] => Covered(c, m)

\* A refresher gives up part of a pending mark (moves it later or clears it)
\* only if no import has marked since the refresher read the generation: a
\* mark that arrives during a recompute outlives its settling.
SettlesOnlyWhatItRead ==
    [][\A r \in Refreshers :
          /\ Commit(r)
          /\ fromDate # NoDate
          /\ fromDate' = NoDate \/ fromDate' > fromDate
          => generation = dirtyGen[r]]_vars

\* Once imports stop, the marks are worked off: no mark stays pending and no
\* row misses a marked change.
HistoryCatchesUp ==
    <>[](/\ fromDate = NoDate
         /\ \A c \in Currencies, m \in Months, i \in Imports :
                imarked[i] => ~Misses(c, m, i))
===============================================================================

------------------------- MODULE HistoryRollupsProofs -------------------------
(***************************************************************************)
(* What HistoryRollups guarantees for any number of imports, refreshers,   *)
(* currencies and months.                                                  *)
(***************************************************************************)
EXTENDS HistoryRollups, TLAPS

\* Import i is committed and marked the user dirty.
Marked(i) == istate[i] = "committed" /\ imarked[i]

\* Row w was computed from every change marked up to the generation it bears.
Honest(w) ==
    \A i \in Imports :
        /\ Marked(i)
        /\ i \notin w.basis
        /\ idate[i] <= w.anchor
        => w.gen < igen[i]

\* Generations are handed out once, and no refresher is ahead of them.
GenerationsBounded ==
    /\ \A i \in Imports : Marked(i) => igen[i] <= generation
    /\ \A r \in Refreshers : dirtyGen[r] <= generation
    /\ \A c \in Currencies, m \in Months : rows[c][m].gen <= generation
    /\ \A r \in Refreshers, m \in Months : buffer[r][m].gen <= generation

\* What a computation in progress is bound to see.
SeesWhatItRead ==
    \A r \in Refreshers, i \in Imports :
        pc[r] = "compute" /\ Marked(i) /\ i \notin seen[r] => dirtyGen[r] < igen[i]

\* The inductive invariant behind StampIsHonest.
StampInv ==
    /\ TypeOK
    /\ GenerationsBounded
    /\ SeesWhatItRead
    /\ \A c \in Currencies, m \in Months : Honest(rows[c][m])
    /\ \A r \in Refreshers, m \in Months : Honest(buffer[r][m])

-----------------------------------------------------------------------------
\* The refresh of one currency is under way: dirty_state() has been read.
InRefresh(r) == pc[r] \notin {"idle", "job", "jobBare"}

\* While a refresh is under way nobody else settles: what was marked since it
\* read the generation is still pending.
PendingSinceRead(r) ==
    InRefresh(r) =>
        \A i \in Imports :
            Marked(i) /\ dirtyGen[r] < igen[i]
            => fromDate # NoDate /\ fromDate <= idate[i]

\* What a transaction has written: rows of the generation it read, or nothing.
BufferStamped(r) ==
    /\ ~InRefresh(r) => touched[r] = {}
    /\ \A m \in touched[r] : buffer[r][m].gen = dirtyGen[r] \/ buffer[r][m] = NoRow

\* The date the mark is about to move to leaves out no row that is out of date.
SettlesAll(r) ==
    generation = dirtyGen[r] =>
        \A c \in Currencies, m \in Months :
            /\ View(r, c, m).anchor # NoDate
            /\ View(r, c, m).gen < generation
            /\ fromDate # NoDate
            /\ fromDate <= View(r, c, m).anchor
            => settleFrom[r] # NoDate /\ settleFrom[r] <= View(r, c, m).anchor

Settling(r) ==
    /\ pc[r] = "remaining" /\ generation = dirtyGen[r] => settleFrom[r] = fromDate
    /\ pc[r] = "settleUpdate" => SettlesAll(r)
    /\ markLock = RefresherHolds(r) =>
          pc[r] = "commit" /\ generation = dirtyGen[r] /\ SettlesAll(r)

\* While a transaction has the mark locked no import can commit a mark.
LockExcludes ==
    \A i \in Imports : istate[i] = "open" /\ imarked[i] => markLock = ImportHolds(i)

\* The inductive invariant behind NoMarkedChangeIsLost.
CoverInv ==
    /\ StampInv
    /\ LockExcludes
    /\ \A r \in Refreshers : PendingSinceRead(r) /\ BufferStamped(r) /\ Settling(r)
    /\ NoMarkedChangeIsLost

-----------------------------------------------------------------------------
(* Types *)

LEMMA NoRowType == NoRow \in Row
  BY LastMonthAssumption DEF NoRow, Row, NoDate, Dates

LEMMA MonthsAreDates == Months \subseteq Dates /\ NoDate \in Dates /\ Dates \subseteq Nat
  BY LastMonthAssumption DEF Months, Dates, NoDate

LEMMA LocalsType == LastMonth \in Months /\ [m \in Months |-> NoRow] \in [Months -> Row]
  BY LastMonthAssumption, NoRowType DEF Months

LEMMA InitType == Init => TypeOK
  <1> SUFFICES ASSUME Init PROVE TypeOK
    OBVIOUS
  <1> USE LastMonthAssumption, MonthsAreDates, NoRowType DEF Init
  <1>1. \A m \in Months : 1 < m => LegacyRow(m) \in Row
    BY DEF LegacyRow, Row, Months, Dates
  <1>2. rows \in [Currencies -> [Months -> Row]]
    <2>1. PICK legacy \in SUBSET {m \in Months : 1 < m /\ m <= completed + 1} :
             rows \in [Currencies -> {[m \in Months |-> NoRow],
                                      [m \in Months |-> IF m \in legacy THEN LegacyRow(m) ELSE NoRow]}]
      OBVIOUS
    <2>2. [m \in Months |-> IF m \in legacy THEN LegacyRow(m) ELSE NoRow] \in [Months -> Row]
      BY <1>1
    <2>3. [m \in Months |-> NoRow] \in [Months -> Row]
      OBVIOUS
    <2> QED
      BY <2>1, <2>2, <2>3
  <1> QED
    BY <1>2, LocalsType DEF TypeOK, Statements, RequestKinds, Months, NoDate

LEMMA NextType == TypeOK /\ [Next]_vars => TypeOK'
  <1> SUFFICES ASSUME TypeOK, [Next]_vars PROVE TypeOK'
    OBVIOUS
  <1> USE LastMonthAssumption, MaxFailuresAssumption, MonthsAreDates, NoRowType
      DEF TypeOK, Statements, RequestKinds, markVars, importVars, taskVars,
          loopVars, readVars, writeVars
  <1>1. ASSUME NEW i \in Imports, NEW d \in Months, ImportWrite(i, d) PROVE TypeOK'
    BY <1>1 DEF ImportWrite
  <1>2. ASSUME NEW i \in Imports, ImportCommit(i) PROVE TypeOK'
    <2>1. MergedFrom(idate[i]) \in Dates
      BY DEF MergedFrom
    <2>2. CASE imarked[i]
      <3>1. /\ fromDate' = MergedFrom(idate[i])
            /\ generation' = generation + 1
            /\ igen' = [igen EXCEPT ![i] = generation + 1]
            /\ markLock' = Free
        BY <1>2, <2>2 DEF ImportCommit
      <3>3. generation' \in Nat /\ igen' \in [Imports -> Nat]
        BY <3>1
      <3>2. /\ istate' \in [Imports -> {"idle", "open", "committed", "rolledback"}]
            /\ UNCHANGED <<completed, rows, idate, imarked, pc, taskVars, loopVars,
                           readVars, stored, seen, writeVars, settleFrom, failures>>
        BY <1>2 DEF ImportCommit
      <3> QED
        BY ONLY TypeOK, <2>1, <3>1, <3>2, <3>3
    <2>3. CASE ~imarked[i]
      BY <1>2, <2>3 DEF ImportCommit
    <2> QED
      BY <2>2, <2>3
  <1>3. ASSUME NEW i \in Imports, ImportRollback(i) PROVE TypeOK'
    BY <1>3 DEF ImportRollback
  <1>4. CASE MonthCompletes
    BY <1>4 DEF MonthCompletes, Dates
  <1>5. ASSUME NEW r \in Refreshers, NEW k \in RequestKinds, NEW c \in Currencies, NEW n \in Months, StartRequest(r, k, c, n) PROVE TypeOK'
    BY <1>5 DEF StartRequest, BeginRefresh, TrailingMonths, RequestKinds
  <1>6. ASSUME NEW r \in Refreshers, StartJob(r) PROVE TypeOK'
    BY <1>6 DEF StartJob
  <1>7. ASSUME NEW r \in Refreshers, JobBare(r) PROVE TypeOK'
    BY <1>7 DEF JobBare
  <1>8. ASSUME NEW r \in Refreshers, JobNext(r) PROVE TypeOK'
    <2>1. CASE \E c \in jobLeft[r] : /\ jobLeft' = [jobLeft EXCEPT ![r] = @ \ {c}]
                                     /\ BeginRefresh(r, c)
      BY <1>8, <2>1 DEF JobNext, BeginRefresh
    <2>2. CASE pc' = [pc EXCEPT ![r] = "idle"] /\ UNCHANGED <<jobLeft, cur, readVars>>
      BY <1>8, <2>2 DEF JobNext
    <2> QED
      BY <1>8, <2>1, <2>2 DEF JobNext
  <1>9. ASSUME NEW r \in Refreshers, ReadStored(r) PROVE TypeOK'
    BY <1>9 DEF ReadStored
  <1>10. ASSUME NEW r \in Refreshers, NEW m \in Months, NextMonth(r, m) PROVE TypeOK'
    <2>1. [buffer[r] EXCEPT ![m] = NoRow] \in [Months -> Row]
      OBVIOUS
    <2>2. buffer' \in [Refreshers -> [Months -> Row]]
      BY <1>10, <2>1 DEF NextMonth
    <2>3. /\ seen' \in [Refreshers -> SUBSET Imports]
          /\ pc' \in [Refreshers -> Statements]
          /\ month' \in [Refreshers -> Months]
      <3>1. CASE UNCHANGED <<pc, month, seen>>
        BY <3>1
      <3>2. CASE /\ pc' = [pc EXCEPT ![r] = "compute"]
                 /\ month' = [month EXCEPT ![r] = m]
                 /\ seen' = [seen EXCEPT ![r] = Committed]
        BY <3>2 DEF Committed
      <3> QED
        BY <1>10, <3>1, <3>2 DEF NextMonth
    <2>4. /\ todo' \in [Refreshers -> SUBSET Months]
          /\ touched' \in [Refreshers -> SUBSET Months]
      <3>1. todo' = [todo EXCEPT ![r] = todo[r] \ {m}]
        BY <1>10 DEF NextMonth
      <3>2. touched' = [touched EXCEPT ![r] = touched[r] \cup {m}] \/ touched' = touched
        BY <1>10 DEF NextMonth
      <3>3. todo[r] \ {m} \in SUBSET Months /\ touched[r] \cup {m} \in SUBSET Months
        OBVIOUS
      <3>4. todo' \in [Refreshers -> SUBSET Months]
        BY <3>1, <3>3
      <3>5. touched' \in [Refreshers -> SUBSET Months]
        BY <3>2, <3>3
      <3> QED
        BY <3>4, <3>5
    <2>5. UNCHANGED <<completed, markVars, rows, importVars, taskVars, readVars,
                      stored, wrote, settleFrom, failures>>
      BY <1>10 DEF NextMonth
    <2> QED
      BY ONLY TypeOK, <2>2, <2>3, <2>4, <2>5
  <1>11. ASSUME NEW r \in Refreshers, NEW m \in Months, NEW basis \in SUBSET Committed, Upsert(r, m, basis) PROVE TypeOK'
    <2> DEFINE row == [gen |-> dirtyGen[r], anchor |-> m, basis |-> basis]
    <2>1. row \in Row
      BY DEF Row, Committed
    <2>2. [buffer[r] EXCEPT ![m] = row] \in [Months -> Row]
      BY <2>1
    <2>3. buffer' \in [Refreshers -> [Months -> Row]]
      BY <1>11, <2>2 DEF Upsert
    <2> QED
      BY <1>11, <2>3 DEF Upsert
  <1>12. ASSUME NEW r \in Refreshers, EndLoop(r) PROVE TypeOK'
    BY <1>12 DEF EndLoop
  <1>13. ASSUME NEW r \in Refreshers, SettleRead(r) PROVE TypeOK'
    BY <1>13 DEF SettleRead
  <1>14. ASSUME NEW r \in Refreshers, NEW d \in Dates, SettleRemaining(r, d) PROVE TypeOK'
    BY <1>14 DEF SettleRemaining
  <1>15. ASSUME NEW r \in Refreshers, SettleUpdate(r) PROVE TypeOK'
    BY <1>15 DEF SettleUpdate
  <1>16. ASSUME NEW r \in Refreshers, Commit(r) PROVE TypeOK'
    <2>1. [m \in Months |-> IF m \in touched[r] THEN buffer[r][m] ELSE rows[cur[r]][m]]
             \in [Months -> Row]
      OBVIOUS
    <2>2. rows' \in [Currencies -> [Months -> Row]]
      BY <1>16, <2>1 DEF Commit
    <2>3. /\ markLock' \in {Free} \cup {ImportHolds(i) : i \in Imports}
                               \cup {RefresherHolds(q) : q \in Refreshers}
          /\ fromDate' \in Dates
      BY <1>16 DEF Commit, EndTransaction
    <2> QED
      BY <1>16, <2>2, <2>3, LocalsType DEF Commit, EndTransaction, ForgetLocals
  <1>17. ASSUME NEW r \in Refreshers, Fail(r) PROVE TypeOK'
    BY <1>17, LocalsType DEF Fail, EndTransaction, ForgetLocals
  <1>18. CASE UNCHANGED vars
    BY <1>18 DEF vars
  <1> QED
    BY <1>1, <1>2, <1>3, <1>4, <1>5, <1>6, <1>7, <1>8, <1>9, <1>10, <1>11, <1>12, <1>13, <1>14, <1>15, <1>16, <1>17, <1>18 DEF Next, ImportStep, RefreshStep

\* Every reachable state is well typed.
THEOREM TypeCorrect == Spec => []TypeOK
  BY InitType, NextType, PTL DEF Spec
-----------------------------------------------------------------------------
(* A row's generation is honest *)

LEMMA NoRowSound == TypeOK => Honest(NoRow) /\ NoRow.gen <= generation
  BY LastMonthAssumption DEF TypeOK, Honest, NoRow, NoDate, Months

LEMMA InitStamp == Init => StampInv
  <1> SUFFICES ASSUME Init PROVE StampInv
    OBVIOUS
  <1>1. TypeOK
    BY InitType
  <1>2. \A i \in Imports : ~Marked(i)
    BY DEF Init, Marked
  <1>3. \A w : Honest(w)
    BY <1>2 DEF Honest
  <1>4. \A c \in Currencies, m \in Months : rows[c][m].gen = 0
    BY DEF Init, NoRow, LegacyRow
  <1>5. GenerationsBounded
    BY <1>2, <1>4 DEF GenerationsBounded, Init, NoRow
  <1>6. SeesWhatItRead
    BY <1>2 DEF SeesWhatItRead
  <1> QED
    BY <1>1, <1>3, <1>5, <1>6 DEF StampInv

\* A step of anyone but an import's commit: nothing becomes marked, and every
\* row written is one of those there were, or sound.
LEMMA StampFrame ==
  ASSUME StampInv, TypeOK',
         generation' = generation,
         \A i \in Imports : Marked(i)' => /\ Marked(i)
                                          /\ igen'[i] = igen[i]
                                          /\ idate'[i] = idate[i],
         \A r \in Refreshers : dirtyGen'[r] <= generation,
         \A r \in Refreshers : pc'[r] = "compute" =>
            \/ pc[r] = "compute" /\ dirtyGen'[r] = dirtyGen[r] /\ seen'[r] = seen[r]
            \/ seen'[r] = Committed,
         \A c \in Currencies, m \in Months :
            Honest(rows'[c][m]) /\ rows'[c][m].gen <= generation,
         \A r \in Refreshers, m \in Months :
            Honest(buffer'[r][m]) /\ buffer'[r][m].gen <= generation
  PROVE  StampInv'
  <1>1. GenerationsBounded'
    BY DEF GenerationsBounded, StampInv
  <1>2. SeesWhatItRead'
    <2> SUFFICES ASSUME NEW r \in Refreshers, NEW i \in Imports,
                        pc'[r] = "compute", Marked(i)', i \notin seen'[r]
                 PROVE  dirtyGen'[r] < igen'[i]
      BY DEF SeesWhatItRead
    <2>1. Marked(i) /\ igen'[i] = igen[i] /\ i \in Committed
      BY DEF Marked, Committed
    <2>2. pc[r] = "compute" /\ dirtyGen'[r] = dirtyGen[r] /\ seen'[r] = seen[r]
      BY <2>1
    <2> QED
      BY <2>1, <2>2 DEF StampInv, SeesWhatItRead
  <1>3. ASSUME NEW w, Honest(w) PROVE Honest(w)'
    BY <1>3 DEF Honest
  <1> QED
    BY <1>1, <1>2, <1>3 DEF StampInv

LEMMA NextStamp == StampInv /\ [Next]_vars => StampInv'
  <1> SUFFICES ASSUME StampInv, [Next]_vars PROVE StampInv'
    OBVIOUS
  <1> USE DEF markVars, importVars, taskVars, loopVars, readVars, writeVars
  <1>t. TypeOK /\ TypeOK'
    BY NextType DEF StampInv
  <1>n. Honest(NoRow) /\ NoRow.gen <= generation
    BY <1>t, NoRowSound
  <1>g. \A r \in Refreshers : dirtyGen[r] <= generation
    BY DEF StampInv, GenerationsBounded
  <1>r. \A c \in Currencies, m \in Months : Honest(rows[c][m]) /\ rows[c][m].gen <= generation
    BY DEF StampInv, GenerationsBounded
  <1>b. \A r \in Refreshers, m \in Months : Honest(buffer[r][m]) /\ buffer[r][m].gen <= generation
    BY DEF StampInv, GenerationsBounded
  <1>0. generation \in Nat /\ generation <= generation
    BY <1>t DEF TypeOK
  <1>1. ASSUME NEW i \in Imports, NEW d \in Months, ImportWrite(i, d) PROVE StampInv'
    <2>1. \A j \in Imports : Marked(j)' => Marked(j) /\ igen'[j] = igen[j] /\ idate'[j] = idate[j]
      BY <1>1, <1>t DEF ImportWrite, Marked, TypeOK
    <2> QED
      BY <1>1, <1>t, <1>g, <1>r, <1>b, <2>1, StampFrame DEF ImportWrite
  <1>2. ASSUME NEW i \in Imports, ImportCommit(i) PROVE StampInv'
    <2>1. CASE imarked[i]
      <3>1. /\ generation' = generation + 1
            /\ igen' = [igen EXCEPT ![i] = generation + 1]
            /\ istate' = [istate EXCEPT ![i] = "committed"]
            /\ UNCHANGED <<rows, idate, imarked, pc, readVars, seen, buffer>>
        BY <1>2, <2>1 DEF ImportCommit
      <3>2. \A j \in Imports : Marked(j)' /\ j # i =>
               Marked(j) /\ igen'[j] = igen[j] /\ igen[j] <= generation
        BY <3>1, <1>t DEF Marked, TypeOK, StampInv, GenerationsBounded
      <3>3. igen'[i] = generation + 1
        BY <3>1, <1>t DEF TypeOK
      <3>4. ASSUME NEW w \in Row, Honest(w), w.gen <= generation PROVE Honest(w)'
        <4> SUFFICES ASSUME NEW j \in Imports, Marked(j)', j \notin w.basis,
                            idate'[j] <= w.anchor
                     PROVE  w.gen < igen'[j]
          BY DEF Honest
        <4>1. CASE j = i
          BY <4>1, <3>3, <3>4, <1>0 DEF Row
        <4>2. CASE j # i
          BY <4>2, <3>1, <3>2, <3>4 DEF Honest
        <4> QED
          BY <4>1, <4>2
      <3>5. ASSUME NEW c \in Currencies, NEW m \in Months PROVE Honest(rows[c][m])'
        <4>1. rows[c][m] \in Row /\ Honest(rows[c][m]) /\ rows[c][m].gen <= generation
          BY <1>r, <1>t DEF TypeOK
        <4>2. \A w \in Row : Honest(w) /\ w.gen <= generation => Honest(w)'
          BY <3>4
        <4> QED
          BY <4>1, <4>2, <3>1 DEF Honest
      <3>6. ASSUME NEW r \in Refreshers, NEW m \in Months PROVE Honest(buffer[r][m])'
        <4>1. buffer[r][m] \in Row /\ Honest(buffer[r][m]) /\ buffer[r][m].gen <= generation
          BY <1>b, <1>t DEF TypeOK
        <4>2. \A w \in Row : Honest(w) /\ w.gen <= generation => Honest(w)'
          BY <3>4
        <4> QED
          BY <4>1, <4>2, <3>1 DEF Honest
      <3>7. SeesWhatItRead'
        <4> SUFFICES ASSUME NEW r \in Refreshers, NEW j \in Imports,
                            pc'[r] = "compute", Marked(j)', j \notin seen'[r]
                     PROVE  dirtyGen'[r] < igen'[j]
          BY DEF SeesWhatItRead
        <4>1. CASE j = i
          BY <4>1, <3>1, <3>3, <1>g, <1>0, <1>t DEF TypeOK
        <4>2. CASE j # i
          BY <4>2, <3>1, <3>2 DEF StampInv, SeesWhatItRead
        <4> QED
          BY <4>1, <4>2
      <3>8. GenerationsBounded'
        <4>1. \A j \in Imports : Marked(j)' => igen'[j] <= generation'
          BY <3>1, <3>2, <3>3, <1>t DEF TypeOK
        <4>2. \A r \in Refreshers : dirtyGen'[r] <= generation'
          BY <3>1, <1>g, <1>t DEF TypeOK
        <4>3. \A c \in Currencies, m \in Months : rows'[c][m].gen <= generation'
          BY <3>1, <1>r, <1>t DEF TypeOK, Row
        <4>4. \A r \in Refreshers, m \in Months : buffer'[r][m].gen <= generation'
          BY <3>1, <1>b, <1>t DEF TypeOK, Row
        <4> QED
          BY <4>1, <4>2, <4>3, <4>4 DEF GenerationsBounded
      <3> QED
        BY <1>t, <3>5, <3>6, <3>7, <3>8 DEF StampInv
    <2>2. CASE ~imarked[i]
      <3>1. \A j \in Imports : Marked(j)' => Marked(j) /\ igen'[j] = igen[j] /\ idate'[j] = idate[j]
        BY <1>2, <2>2, <1>t DEF ImportCommit, Marked, TypeOK
      <3> QED
        BY <1>2, <2>2, <1>t, <1>g, <1>r, <1>b, <3>1, StampFrame DEF ImportCommit
    <2> QED
      BY <2>1, <2>2
  <1>3. ASSUME NEW i \in Imports, ImportRollback(i) PROVE StampInv'
    <2>1. \A j \in Imports : Marked(j)' => Marked(j) /\ igen'[j] = igen[j] /\ idate'[j] = idate[j]
      BY <1>3, <1>t DEF ImportRollback, Marked, TypeOK
    <2> QED
      BY <1>3, <1>t, <1>g, <1>r, <1>b, <2>1, StampFrame DEF ImportRollback
  <1>m. UNCHANGED importVars =>
           \A j \in Imports : Marked(j)' => Marked(j) /\ igen'[j] = igen[j] /\ idate'[j] = idate[j]
    BY DEF Marked
  <1>4. CASE MonthCompletes
    BY <1>4, <1>t, <1>m, <1>g, <1>r, <1>b, StampFrame DEF MonthCompletes
  <1>5. ASSUME NEW r \in Refreshers, NEW c \in Currencies, BeginRefresh(r, c),
               UNCHANGED <<generation, importVars, rows, seen, buffer>>
        PROVE  StampInv'
    <2>1. \A q \in Refreshers : dirtyGen'[q] <= generation
      BY <1>5, <1>t, <1>g, <1>0 DEF BeginRefresh, TypeOK
    <2>2. \A q \in Refreshers : pc'[q] = "compute" =>
             pc[q] = "compute" /\ dirtyGen'[q] = dirtyGen[q] /\ seen'[q] = seen[q]
      BY <1>5, <1>t DEF BeginRefresh, TypeOK
    <2> QED
      BY <1>5, <1>t, <1>m, <1>r, <1>b, <2>1, <2>2, StampFrame
  <1>6. ASSUME NEW r \in Refreshers,
               UNCHANGED <<generation, importVars, rows, seen, buffer, dirtyGen>>,
               \A q \in Refreshers : pc'[q] = "compute" => pc[q] = "compute"
        PROVE  StampInv'
    BY <1>6, <1>t, <1>m, <1>g, <1>r, <1>b, StampFrame
  <1>7. ASSUME NEW r \in Refreshers, NEW k \in RequestKinds, NEW c \in Currencies,
               NEW n \in Months, StartRequest(r, k, c, n)
        PROVE  StampInv'
    BY <1>7, <1>5 DEF StartRequest
  <1>8. ASSUME NEW r \in Refreshers, StartJob(r) PROVE StampInv'
    BY <1>8, <1>6, <1>t DEF StartJob, TypeOK
  <1>9. ASSUME NEW r \in Refreshers, JobBare(r) PROVE StampInv'
    <2>1. \A q \in Refreshers : dirtyGen'[q] <= generation
      BY <1>9, <1>t, <1>g, <1>0 DEF JobBare, TypeOK
    <2>2. \A q \in Refreshers : pc'[q] = "compute" =>
             pc[q] = "compute" /\ dirtyGen'[q] = dirtyGen[q] /\ seen'[q] = seen[q]
      BY <1>9, <1>t DEF JobBare, TypeOK
    <2> QED
      BY <1>9, <1>t, <1>m, <1>r, <1>b, <2>1, <2>2, StampFrame DEF JobBare
  <1>10. ASSUME NEW r \in Refreshers, JobNext(r) PROVE StampInv'
    <2>1. ASSUME NEW c \in jobLeft[r], BeginRefresh(r, c) PROVE StampInv'
      BY <1>10, <1>5, <1>t, <2>1 DEF JobNext, TypeOK
    <2>2. CASE pc' = [pc EXCEPT ![r] = "idle"] /\ UNCHANGED <<jobLeft, cur, readVars>>
      BY <1>10, <1>6, <1>t, <2>2 DEF JobNext, TypeOK
    <2> QED
      BY <1>10, <2>1, <2>2 DEF JobNext
  <1>11. ASSUME NEW r \in Refreshers, ReadStored(r) PROVE StampInv'
    BY <1>11, <1>6, <1>t DEF ReadStored, TypeOK
  <1>12. ASSUME NEW r \in Refreshers, NEW m \in Months, NextMonth(r, m) PROVE StampInv'
    <2>1. \A q \in Refreshers : pc'[q] = "compute" =>
            \/ pc[q] = "compute" /\ dirtyGen'[q] = dirtyGen[q] /\ seen'[q] = seen[q]
            \/ seen'[q] = Committed
      BY <1>12, <1>t DEF NextMonth, TypeOK
    <2>2. \A q \in Refreshers, l \in Months :
             buffer'[q][l] = buffer[q][l] \/ buffer'[q][l] = NoRow
      <3>1. \/ buffer' = [buffer EXCEPT ![r] = [buffer[r] EXCEPT ![m] = NoRow]]
            \/ buffer' = buffer
        BY <1>12 DEF NextMonth
      <3>2. buffer \in [Refreshers -> [Months -> Row]]
        BY <1>t DEF TypeOK
      <3> QED
        BY ONLY <3>1, <3>2, r \in Refreshers, m \in Months
    <2>3. \A q \in Refreshers, l \in Months :
             Honest(buffer'[q][l]) /\ buffer'[q][l].gen <= generation
      BY <2>2, <1>b, <1>n
    <2> QED
      BY <1>12, <1>t, <1>m, <1>g, <1>r, <2>1, <2>3, StampFrame DEF NextMonth
  <1>13. ASSUME NEW r \in Refreshers, NEW m \in Months, NEW basis \in SUBSET Committed,
                Upsert(r, m, basis)
         PROVE  StampInv'
    <2> DEFINE w == [gen |-> dirtyGen[r], anchor |-> m, basis |-> basis]
    <2>1. Honest(w) /\ w.gen <= generation
      <3>1. \A i \in Imports : Marked(i) /\ i \notin basis => dirtyGen[r] < igen[i]
        BY <1>13 DEF Upsert, StampInv, SeesWhatItRead
      <3> QED
        BY <3>1, <1>g DEF Honest
    <2>2. \A q \in Refreshers, l \in Months :
             buffer'[q][l] = buffer[q][l] \/ buffer'[q][l] = w
      BY <1>13, <1>t DEF Upsert, TypeOK
    <2>3. \A q \in Refreshers, l \in Months :
             Honest(buffer'[q][l]) /\ buffer'[q][l].gen <= generation
      <3> HIDE DEF w
      <3> QED
        BY <2>2, <1>b, <2>1
    <2>4. \A q \in Refreshers : pc'[q] = "compute" => pc[q] = "compute"
      BY <1>13, <1>t DEF Upsert, TypeOK
    <2> QED
      BY <1>13, <1>t, <1>m, <1>g, <1>r, <2>3, <2>4, StampFrame DEF Upsert
  <1>14. ASSUME NEW r \in Refreshers, EndLoop(r) PROVE StampInv'
    BY <1>14, <1>6, <1>t DEF EndLoop, TypeOK
  <1>15. ASSUME NEW r \in Refreshers, SettleRead(r) PROVE StampInv'
    BY <1>15, <1>6, <1>t DEF SettleRead, TypeOK
  <1>16. ASSUME NEW r \in Refreshers, NEW d \in Dates, SettleRemaining(r, d) PROVE StampInv'
    BY <1>16, <1>6, <1>t DEF SettleRemaining, TypeOK
  <1>17. ASSUME NEW r \in Refreshers, SettleUpdate(r) PROVE StampInv'
    BY <1>17, <1>6, <1>t DEF SettleUpdate, TypeOK
  <1>18. ASSUME NEW r \in Refreshers, EndTransaction(r), ForgetLocals(r),
                pc' = [pc EXCEPT ![r] = "idle"] \/ pc' = [pc EXCEPT ![r] = "job"],
                UNCHANGED <<generation, importVars>>,
                \A c \in Currencies, m \in Months :
                   Honest(rows'[c][m]) /\ rows'[c][m].gen <= generation
         PROVE  StampInv'
    <2>1. \A q \in Refreshers, l \in Months :
             buffer'[q][l] = buffer[q][l] \/ buffer'[q][l] = NoRow
      BY <1>18, <1>t DEF EndTransaction, TypeOK
    <2>2. \A q \in Refreshers, l \in Months :
             Honest(buffer'[q][l]) /\ buffer'[q][l].gen <= generation
      BY <2>1, <1>b, <1>n
    <2>3. \A q \in Refreshers : dirtyGen'[q] <= generation
      BY <1>18, <1>t, <1>g, <1>0 DEF ForgetLocals, TypeOK
    <2>4. \A q \in Refreshers : pc'[q] = "compute" =>
             pc[q] = "compute" /\ dirtyGen'[q] = dirtyGen[q] /\ seen'[q] = seen[q]
      BY <1>18, <1>t DEF ForgetLocals, TypeOK
    <2> QED
      BY <1>18, <1>t, <1>m, <2>2, <2>3, <2>4, StampFrame
  <1>19. ASSUME NEW r \in Refreshers, Commit(r) PROVE StampInv'
    <2>1. \A c \in Currencies, m \in Months :
             rows'[c][m] = rows[c][m] \/ rows'[c][m] = buffer[r][m]
      BY <1>19, <1>t DEF Commit, TypeOK
    <2>2. \A c \in Currencies, m \in Months :
             Honest(rows'[c][m]) /\ rows'[c][m].gen <= generation
      BY <2>1, <1>r, <1>b
    <2> QED
      BY <1>19, <1>18, <2>2 DEF Commit
  <1>20. ASSUME NEW r \in Refreshers, Fail(r) PROVE StampInv'
    BY <1>20, <1>18, <1>r DEF Fail
  <1>21. CASE UNCHANGED vars
    BY <1>21, <1>t, <1>m, <1>g, <1>r, <1>b, StampFrame DEF vars
  <1> QED
    BY <1>1, <1>2, <1>3, <1>4, <1>7, <1>8, <1>9, <1>10, <1>11, <1>12, <1>13, <1>14,
       <1>15, <1>16, <1>17, <1>19, <1>20, <1>21
       DEF Next, ImportStep, RefreshStep

\* A stored row bears no generation whose marks it was not computed from,
\* however many refreshers run at once.
THEOREM StampIsAlwaysHonest == Spec => []StampIsHonest
  <1>1. StampInv => StampIsHonest
    BY DEF StampInv, Honest, Marked, StampIsHonest, Misses
  <1> QED
    BY InitStamp, NextStamp, <1>1, PTL DEF Spec
-----------------------------------------------------------------------------
(* No marked change is lost, if refreshes do not overlap *)

OneAtATime == \A p, q \in Refreshers : p = q

LEMMA InitCover == Init => CoverInv
  <1> SUFFICES ASSUME Init PROVE CoverInv
    OBVIOUS
  <1>1. StampInv
    BY InitStamp
  <1>2. \A i \in Imports : istate[i] = "idle"
    BY DEF Init
  <1>3. LockExcludes /\ NoMarkedChangeIsLost
    BY <1>2 DEF LockExcludes, NoMarkedChangeIsLost, Misses
  <1>4. ASSUME NEW r \in Refreshers PROVE PendingSinceRead(r) /\ BufferStamped(r) /\ Settling(r)
    <2>1. pc[r] = "idle" /\ touched[r] = {} /\ markLock = Free
      BY DEF Init
    <2> QED
      BY <2>1 DEF PendingSinceRead, BufferStamped, Settling, InRefresh, Free, RefresherHolds
  <1> QED
    BY <1>1, <1>3, <1>4 DEF CoverInv

\* A step that changes neither what is marked nor what is stored keeps every
\* row covered.
LEMMA CoverFrame ==
  ASSUME NoMarkedChangeIsLost, UNCHANGED <<fromDate, generation, rows>>,
         \A i \in Imports : Marked(i)' => Marked(i) /\ idate'[i] = idate[i]
  PROVE  NoMarkedChangeIsLost'
  BY DEF NoMarkedChangeIsLost, Misses, Covered, Marked

\* An open import's lock keeps refreshers and the other imports from the mark.
LEMMA LocksDiffer ==
  /\ \A i, j \in Imports : ImportHolds(i) = ImportHolds(j) => i = j
  /\ \A i \in Imports, r \in Refreshers : ImportHolds(i) # RefresherHolds(r)
  /\ \A i \in Imports : ImportHolds(i) # Free
  /\ \A r \in Refreshers : RefresherHolds(r) # Free
  <1>1. \A i : ImportHolds(i).by = "import" /\ ImportHolds(i).who = i
    BY DEF ImportHolds
  <1>2. \A r : RefresherHolds(r).by = "refresher"
    BY DEF RefresherHolds
  <1>3. Free.by = "none"
    BY DEF Free
  <1> QED
    BY <1>1, <1>2, <1>3

LEMMA ImportCover ==
  ASSUME CoverInv, TypeOK', NEW i \in Imports, ImportStep(i)
  PROVE  /\ LockExcludes'
         /\ NoMarkedChangeIsLost'
         /\ \A r \in Refreshers : PendingSinceRead(r)' /\ BufferStamped(r)' /\ Settling(r)'
  <1> USE LocksDiffer DEF markVars, importVars, taskVars, loopVars, readVars, writeVars
  <1>t. TypeOK
    BY DEF CoverInv, StampInv
  <1>v. \A r \in Refreshers, c \in Currencies, m \in Months :
           UNCHANGED <<cur, touched, buffer, rows>> => View(r, c, m)' = View(r, c, m)
    BY DEF View
  <1>q. ASSUME UNCHANGED <<fromDate, generation, rows, pc, taskVars, readVars, writeVars, settleFrom>>,
               \A j \in Imports : Marked(j)' => /\ Marked(j)
                                                /\ igen'[j] = igen[j]
                                                /\ idate'[j] = idate[j],
               \A r \in Refreshers : markLock' = RefresherHolds(r) => markLock = RefresherHolds(r)
        PROVE  /\ NoMarkedChangeIsLost'
               /\ \A r \in Refreshers : PendingSinceRead(r)' /\ BufferStamped(r)' /\ Settling(r)'
    <2>1. NoMarkedChangeIsLost'
      BY <1>q, CoverFrame DEF CoverInv
    <2>2. ASSUME NEW r \in Refreshers PROVE PendingSinceRead(r)' /\ BufferStamped(r)' /\ Settling(r)'
      <3>1. PendingSinceRead(r)' /\ BufferStamped(r)'
        BY <1>q DEF CoverInv, PendingSinceRead, BufferStamped, InRefresh
      <3>2. SettlesAll(r) => SettlesAll(r)'
        BY <1>q, <1>v DEF SettlesAll
      <3> QED
        BY <1>q, <3>1, <3>2 DEF CoverInv, Settling
    <2> QED
      BY <2>1, <2>2
  <1>1. ASSUME NEW d \in Months, ImportWrite(i, d)
        PROVE  /\ LockExcludes'
               /\ NoMarkedChangeIsLost'
               /\ \A r \in Refreshers : PendingSinceRead(r)' /\ BufferStamped(r)' /\ Settling(r)'
    <2>1. LockExcludes'
      BY <1>1, <1>t DEF ImportWrite, CoverInv, LockExcludes, TypeOK
    <2>2. \A j \in Imports : Marked(j)' => Marked(j) /\ igen'[j] = igen[j] /\ idate'[j] = idate[j]
      BY <1>1, <1>t DEF ImportWrite, Marked, TypeOK
    <2> QED
      BY <1>1, <1>q, <2>1, <2>2 DEF ImportWrite
  <1>2. ASSUME ImportCommit(i), ~imarked[i]
        PROVE  /\ LockExcludes'
               /\ NoMarkedChangeIsLost'
               /\ \A r \in Refreshers : PendingSinceRead(r)' /\ BufferStamped(r)' /\ Settling(r)'
    <2>1. LockExcludes'
      BY <1>2, <1>t DEF ImportCommit, CoverInv, LockExcludes, TypeOK
    <2>2. \A j \in Imports : Marked(j)' => Marked(j) /\ igen'[j] = igen[j] /\ idate'[j] = idate[j]
      BY <1>2, <1>t DEF ImportCommit, Marked, TypeOK
    <2> QED
      BY <1>2, <1>q, <2>1, <2>2 DEF ImportCommit
  <1>3. ASSUME ImportRollback(i)
        PROVE  /\ LockExcludes'
               /\ NoMarkedChangeIsLost'
               /\ \A r \in Refreshers : PendingSinceRead(r)' /\ BufferStamped(r)' /\ Settling(r)'
    <2>1. LockExcludes'
      BY <1>3, <1>t DEF ImportRollback, CoverInv, LockExcludes, TypeOK
    <2>2. \A j \in Imports : Marked(j)' => Marked(j) /\ igen'[j] = igen[j] /\ idate'[j] = idate[j]
      BY <1>3, <1>t DEF ImportRollback, Marked, TypeOK
    <2> QED
      BY <1>3, <1>q, <2>1, <2>2 DEF ImportRollback
  <1>4. ASSUME ImportCommit(i), imarked[i]
        PROVE  /\ LockExcludes'
               /\ NoMarkedChangeIsLost'
               /\ \A r \in Refreshers : PendingSinceRead(r)' /\ BufferStamped(r)' /\ Settling(r)'
    <2>1. /\ istate[i] = "open" /\ markLock = ImportHolds(i)
          /\ istate' = [istate EXCEPT ![i] = "committed"]
          /\ fromDate' = MergedFrom(idate[i])
          /\ generation' = generation + 1
          /\ igen' = [igen EXCEPT ![i] = generation + 1]
          /\ markLock' = Free
          /\ UNCHANGED <<rows, idate, imarked, pc, taskVars, readVars, writeVars, settleFrom>>
      BY <1>4 DEF ImportCommit, CoverInv, LockExcludes
    <2>2. /\ generation \in Nat /\ fromDate \in Nat /\ idate[i] \in Nat /\ idate[i] # NoDate
          /\ \A c \in Currencies, m \in Months : rows[c][m].gen \in Nat /\ rows[c][m].anchor \in Nat
      <3>1. generation \in Nat /\ fromDate \in Nat
        BY <1>t, MonthsAreDates DEF TypeOK
      <3>2. idate[i] \in Months
        BY <1>t DEF TypeOK
      <3>3. idate[i] \in Nat /\ idate[i] # NoDate
        BY <3>2 DEF Months, NoDate
      <3>4. \A c \in Currencies, m \in Months : rows[c][m] \in Row
        BY <1>t DEF TypeOK
      <3> QED
        BY <3>1, <3>3, <3>4, MonthsAreDates DEF Row
    <2>3. /\ fromDate' \in Nat /\ fromDate' # NoDate /\ fromDate' <= idate[i]
          /\ fromDate # NoDate => fromDate' <= fromDate
      BY <2>1, <2>2 DEF MergedFrom, NoDate
    <2>4. \A j \in Imports : Marked(j)' /\ j # i =>
             Marked(j) /\ igen'[j] = igen[j] /\ idate'[j] = idate[j]
      BY <2>1, <1>t DEF Marked, TypeOK
    <2>5. LockExcludes'
      BY <2>1, <1>t DEF CoverInv, LockExcludes, TypeOK
    <2>6. NoMarkedChangeIsLost'
      <3> SUFFICES ASSUME NEW c \in Currencies, NEW m \in Months, NEW j \in Imports,
                          Marked(j)', j \notin rows[c][m].basis, idate[j] <= rows[c][m].anchor
                   PROVE  /\ fromDate' <= rows[c][m].anchor
                          /\ rows[c][m].gen < generation'
        BY <2>1, <2>3 DEF NoMarkedChangeIsLost, Misses, Covered, Marked
      <3>1. CASE j = i
        <4>1. rows[c][m].gen <= generation
          BY DEF CoverInv, StampInv, GenerationsBounded
        <4> QED
          BY <3>1, <4>1, <2>1, <2>2, <2>3
      <3>2. CASE j # i
        <4>1. Covered(c, m)
          BY <3>2, <2>4 DEF CoverInv, NoMarkedChangeIsLost, Misses, Marked
        <4> QED
          BY <4>1, <2>1, <2>2, <2>3 DEF Covered
      <3> QED
        BY <3>1, <3>2
    <2>7. ASSUME NEW r \in Refreshers PROVE PendingSinceRead(r)' /\ BufferStamped(r)' /\ Settling(r)'
      <3>1. dirtyGen[r] \in Nat /\ dirtyGen[r] <= generation
        BY <1>t DEF TypeOK, CoverInv, StampInv, GenerationsBounded
      <3>2. BufferStamped(r)'
        BY <2>1 DEF CoverInv, BufferStamped, InRefresh
      <3>3. Settling(r)'
        BY <2>1, <2>2, <3>1 DEF Settling, SettlesAll
      <3>4. PendingSinceRead(r)'
        <4> SUFFICES ASSUME InRefresh(r), NEW j \in Imports, Marked(j)', dirtyGen[r] < igen'[j]
                     PROVE  fromDate' <= idate[j]
          BY <2>1, <2>3 DEF PendingSinceRead, InRefresh
        <4>1. CASE j = i
          BY <4>1, <2>3
        <4>2. CASE j # i
          <5>1. fromDate # NoDate /\ fromDate <= idate[j]
            BY <4>2, <2>1, <2>4 DEF CoverInv, PendingSinceRead
          <5>2. idate[j] \in Nat
            BY <1>t DEF TypeOK, Months
          <5> QED
            BY <5>1, <5>2, <2>2, <2>3
        <4> QED
          BY <4>1, <4>2
      <3> QED
        BY <3>2, <3>3, <3>4
    <2> QED
      BY <2>5, <2>6, <2>7
  <1> QED
    BY <1>1, <1>2, <1>3, <1>4 DEF ImportStep
\* What one refresher does while no other is at work.
LEMMA RefreshCover ==
  ASSUME CoverInv, TypeOK', NEW r \in Refreshers,
         \/ \E k \in RequestKinds, c \in Currencies, n \in Months : StartRequest(r, k, c, n)
         \/ StartJob(r)
         \/ RefreshStep(r)
         \/ Fail(r)
  PROVE  /\ LockExcludes'
         /\ NoMarkedChangeIsLost'
         /\ PendingSinceRead(r)' /\ BufferStamped(r)' /\ Settling(r)'
  <1> DEFINE Kept == /\ LockExcludes'
                     /\ NoMarkedChangeIsLost'
                     /\ PendingSinceRead(r)' /\ BufferStamped(r)' /\ Settling(r)'
  <1> USE LocksDiffer DEF markVars, importVars, taskVars, loopVars, readVars, writeVars
  <1>t. TypeOK /\ StampInv
    BY DEF CoverInv, StampInv
  <1>c. /\ LockExcludes /\ NoMarkedChangeIsLost
        /\ PendingSinceRead(r) /\ BufferStamped(r) /\ Settling(r)
    BY DEF CoverInv
  <1>n. /\ generation \in Nat /\ dirtyGen[r] \in Nat /\ dirtyGen[r] <= generation
        /\ fromDate \in Nat /\ settleFrom[r] \in Nat
        /\ \A i \in Imports : /\ idate[i] \in Nat /\ idate[i] # NoDate /\ igen[i] \in Nat
                              /\ Marked(i) => igen[i] <= generation
        /\ \A c \in Currencies, m \in Months : rows[c][m] \in Row
        /\ \A m \in Months : buffer[r][m] \in Row
        /\ \A w \in Row : w.gen \in Nat /\ w.anchor \in Dates /\ w.anchor \in Nat
    <2>1. \A i \in Imports : idate[i] \in Nat /\ idate[i] # NoDate /\ igen[i] \in Nat
      <3>1. \A i \in Imports : idate[i] \in Months /\ igen[i] \in Nat
        BY <1>t DEF TypeOK
      <3>2. \A d \in Months : d \in Nat /\ d # NoDate
        BY LastMonthAssumption DEF Months, NoDate
      <3> QED
        BY <3>1, <3>2
    <2>2. \A i \in Imports : Marked(i) => igen[i] <= generation
      BY <1>t DEF StampInv, GenerationsBounded
    <2>3. /\ generation \in Nat /\ dirtyGen[r] \in Nat /\ dirtyGen[r] <= generation
          /\ fromDate \in Nat /\ settleFrom[r] \in Nat
      BY <1>t, MonthsAreDates DEF TypeOK, StampInv, GenerationsBounded
    <2>4. /\ \A c \in Currencies, m \in Months : rows[c][m] \in Row
          /\ \A m \in Months : buffer[r][m] \in Row
      BY <1>t DEF TypeOK
    <2>5. \A w \in Row : w.gen \in Nat /\ w.anchor \in Dates /\ w.anchor \in Nat
      BY MonthsAreDates DEF Row
    <2> QED
      BY <2>1, <2>2, <2>3, <2>4, <2>5
  \* Steps before the settling that neither end the transaction nor begin one.
  <1>q. ASSUME UNCHANGED <<fromDate, generation, markLock, rows, importVars, dirtyGen>>,
               pc[r] # "commit",
               pc'[r] \notin {"remaining", "settleUpdate"},
               InRefresh(r)' => InRefresh(r),
               BufferStamped(r)'
        PROVE  Kept
    <2>1. NoMarkedChangeIsLost'
      BY <1>q, <1>c, CoverFrame DEF Marked
    <2>2. PendingSinceRead(r)'
      BY <1>q, <1>c DEF PendingSinceRead, Marked
    <2>3. Settling(r)' /\ LockExcludes'
      BY <1>q, <1>c DEF Settling, LockExcludes
    <2> QED
      BY <1>q, <2>1, <2>2, <2>3
  <1>b. ASSUME UNCHANGED <<fromDate, generation, markLock, rows, importVars, writeVars>>,
               ~InRefresh(r), dirtyGen'[r] = generation, pc'[r] \in {"readStored", "settle"}
        PROVE  Kept
    <2>1. NoMarkedChangeIsLost'
      BY <1>b, <1>c, CoverFrame DEF Marked
    <2>2. PendingSinceRead(r)'
      <3>1. \A i \in Imports : Marked(i)' => ~(dirtyGen'[r] < igen'[i])
        BY <1>b, <1>n DEF Marked
      <3> QED
        BY <3>1 DEF PendingSinceRead
    <2>3. BufferStamped(r)'
      BY <1>b, <1>c DEF BufferStamped
    <2>4. Settling(r)' /\ LockExcludes'
      BY <1>b, <1>c DEF Settling, LockExcludes, InRefresh
    <2> QED
      BY <2>1, <2>2, <2>3, <2>4
  <1>1. ASSUME NEW k \in RequestKinds, NEW c \in Currencies, NEW n \in Months,
               StartRequest(r, k, c, n)
        PROVE  Kept
    BY <1>1, <1>b, <1>t DEF StartRequest, BeginRefresh, InRefresh, TypeOK
  <1>2. CASE StartJob(r)
    BY <1>2, <1>q, <1>t, <1>c DEF StartJob, InRefresh, BufferStamped, TypeOK
  <1>3. CASE JobBare(r)
    BY <1>3, <1>b, <1>t DEF JobBare, InRefresh, TypeOK
  <1>4. CASE JobNext(r)
    <2>1. ASSUME NEW c \in jobLeft[r], BeginRefresh(r, c) PROVE Kept
      BY <1>4, <2>1, <1>b, <1>t DEF JobNext, BeginRefresh, InRefresh, TypeOK
    <2>2. CASE pc' = [pc EXCEPT ![r] = "idle"] /\ UNCHANGED <<jobLeft, cur, readVars>>
      BY <1>4, <2>2, <1>q, <1>t, <1>c DEF JobNext, InRefresh, BufferStamped, TypeOK
    <2> QED
      BY <1>4, <2>1, <2>2 DEF JobNext
  <1>5. CASE ReadStored(r)
    BY <1>5, <1>q, <1>t, <1>c DEF ReadStored, InRefresh, BufferStamped, TypeOK
  <1>6. ASSUME NEW m \in Months, NextMonth(r, m) PROVE Kept
    <2>1. pc[r] = "loop" /\ pc'[r] \in {"loop", "compute"}
      BY <1>6, <1>t DEF NextMonth, TypeOK
    <2>2. \/ touched'[r] = touched[r] /\ buffer' = buffer
          \/ /\ touched'[r] = touched[r] \cup {m}
             /\ buffer' = [buffer EXCEPT ![r] = [buffer[r] EXCEPT ![m] = NoRow]]
      BY <1>6, <1>t DEF NextMonth, TypeOK
    <2>3. \A l \in touched'[r] : buffer'[r][l] = NoRow \/ (l \in touched[r] /\ buffer'[r][l] = buffer[r][l])
      <3>1. buffer \in [Refreshers -> [Months -> Row]] /\ touched[r] \subseteq Months
        BY <1>t DEF TypeOK
      <3> QED
        BY ONLY <2>2, <3>1, r \in Refreshers, m \in Months
    <2>4. dirtyGen' = dirtyGen /\ InRefresh(r) /\ InRefresh(r)'
      BY <1>6, <2>1 DEF NextMonth, InRefresh
    <2>5. BufferStamped(r)'
      BY <2>3, <2>4, <1>c DEF BufferStamped
    <2> QED
      BY <1>6, <2>1, <2>4, <2>5, <1>q DEF NextMonth
  <1>7. ASSUME NEW m \in Months, NEW basis \in SUBSET Committed, Upsert(r, m, basis) PROVE Kept
    <2> DEFINE w == [gen |-> dirtyGen[r], anchor |-> m, basis |-> basis]
    <2>1. pc[r] = "compute" /\ pc'[r] = "loop"
      BY <1>7, <1>t DEF Upsert, TypeOK
    <2>2. /\ touched'[r] = touched[r] \cup {m}
          /\ buffer' = [buffer EXCEPT ![r] = [buffer[r] EXCEPT ![m] = w]]
      BY <1>7, <1>t DEF Upsert, TypeOK
    <2>3. \A l \in touched'[r] : buffer'[r][l] = w \/ (l \in touched[r] /\ buffer'[r][l] = buffer[r][l])
      <3>1. buffer \in [Refreshers -> [Months -> Row]] /\ touched[r] \subseteq Months
        BY <1>t DEF TypeOK
      <3> HIDE DEF w
      <3> QED
        BY ONLY <2>2, <3>1, r \in Refreshers, m \in Months
    <2>4. dirtyGen' = dirtyGen /\ InRefresh(r) /\ InRefresh(r)'
      BY <1>7, <2>1 DEF Upsert, InRefresh
    <2>5. w.gen = dirtyGen[r]
      OBVIOUS
    <2>6. BufferStamped(r)'
      <3> HIDE DEF w
      <3> QED
        BY <2>3, <2>4, <2>5, <1>c DEF BufferStamped
    <2> QED
      BY <1>7, <2>1, <2>4, <2>6, <1>q DEF Upsert
  <1>8. CASE EndLoop(r)
    BY <1>8, <1>q, <1>t, <1>c DEF EndLoop, InRefresh, BufferStamped, TypeOK
  \* The settling.
  <1>s. ASSUME UNCHANGED <<fromDate, generation, rows, importVars, dirtyGen, touched, buffer, cur>>,
               InRefresh(r), InRefresh(r)'
        PROVE  /\ NoMarkedChangeIsLost' /\ PendingSinceRead(r)' /\ BufferStamped(r)'
               /\ markLock' = markLock => LockExcludes'
    BY <1>s, <1>c, CoverFrame DEF PendingSinceRead, BufferStamped, LockExcludes, Marked
  <1>9. CASE SettleRead(r)
    <2>1. Settling(r)'
      BY <1>9, <1>t, <1>c DEF SettleRead, Settling, TypeOK
    <2> QED
      BY <1>9, <1>t, <1>s, <2>1 DEF SettleRead, InRefresh, TypeOK
  <1>10. ASSUME NEW d \in Dates, SettleRemaining(r, d) PROVE Kept
    <2>1. /\ pc[r] = "remaining" /\ pc'[r] \in {"commit", "settleUpdate"}
          /\ settleFrom'[r] = d /\ d \in Earliest(Remaining(r))
          /\ UNCHANGED <<fromDate, generation, markLock, rows, cur, touched, buffer, dirtyGen>>
      BY <1>10, <1>t DEF SettleRemaining, TypeOK
    <2>2. SettlesAll(r)'
      <3> SUFFICES ASSUME generation = dirtyGen[r],
                          NEW c \in Currencies, NEW m \in Months,
                          View(r, c, m).anchor # NoDate,
                          View(r, c, m).gen < generation,
                          fromDate # NoDate,
                          fromDate <= View(r, c, m).anchor
                   PROVE  d # NoDate /\ d <= View(r, c, m).anchor
        BY <2>1 DEF SettlesAll, View
      <3>1. settleFrom[r] = fromDate
        BY <2>1, <1>c DEF Settling
      <3>2. View(r, c, m) \in Row
        BY <1>n DEF View
      <3>3. View(r, c, m).anchor \in Months
        BY <3>2, <1>n DEF Dates, Months, NoDate
      <3>4. View(r, c, m).anchor \in Remaining(r)
        BY <3>1, <3>3 DEF Remaining
      <3>5. d \in Remaining(r) /\ \A e \in Remaining(r) : d <= e
        BY <2>1, <3>4 DEF Earliest
      <3>6. d \in Months
        BY <3>5 DEF Remaining
      <3>7. d # NoDate
        BY <3>6, LastMonthAssumption DEF Months, NoDate
      <3> QED
        BY <3>4, <3>5, <3>7
    <2>3. Settling(r)'
      BY <2>1, <2>2, <1>c DEF Settling
    <2> QED
      BY <1>10, <2>1, <2>3, <1>s DEF SettleRemaining, InRefresh
  <1>11. CASE SettleUpdate(r)
    <2>1. /\ pc[r] = "settleUpdate" /\ pc'[r] = "commit" /\ markLock = Free
          /\ markLock' = IF generation = dirtyGen[r] THEN RefresherHolds(r) ELSE markLock
          /\ UNCHANGED <<fromDate, generation, rows, importVars, cur, touched, buffer, dirtyGen, settleFrom>>
      BY <1>11, <1>t DEF SettleUpdate, TypeOK
    <2>2. SettlesAll(r)'
      BY <2>1, <1>c DEF Settling, SettlesAll, View
    <2>3. Settling(r)'
      BY <2>1, <2>2 DEF Settling
    <2>4. LockExcludes'
      BY <2>1, <1>c DEF LockExcludes
    <2> QED
      BY <2>1, <2>3, <2>4, <1>s DEF InRefresh
  \* The end of the transaction.
  <1>e. ASSUME EndTransaction(r), UNCHANGED importVars, pc'[r] \in {"idle", "job"}
        PROVE  LockExcludes' /\ PendingSinceRead(r)' /\ BufferStamped(r)' /\ Settling(r)'
    <2>1. markLock' # RefresherHolds(r) /\ touched'[r] = {}
      BY <1>e, <1>t DEF EndTransaction, TypeOK
    <2>2. LockExcludes'
      BY <1>e, <1>c DEF EndTransaction, LockExcludes
    <2> QED
      BY <1>e, <2>1, <2>2 DEF PendingSinceRead, BufferStamped, Settling, InRefresh
  <1>12. CASE Commit(r)
    <2>1. /\ pc[r] = "commit" /\ InRefresh(r)
          /\ generation' = generation /\ UNCHANGED importVars
          /\ fromDate' = IF markLock = RefresherHolds(r) THEN settleFrom[r] ELSE fromDate
          /\ pc'[r] \in {"idle", "job"}
          /\ EndTransaction(r)
      BY <1>12, <1>t DEF Commit, InRefresh, TypeOK
    <2>2. \A c \in Currencies, m \in Months : rows'[c][m] = View(r, c, m)
      BY <1>12, <1>t DEF Commit, View, TypeOK
    <2>3. ASSUME NEW c \in Currencies, NEW m \in Months, NEW i \in Imports,
                 Marked(i), i \notin View(r, c, m).basis, idate[i] <= View(r, c, m).anchor
          PROVE  /\ fromDate' # NoDate
                 /\ fromDate' <= View(r, c, m).anchor
                 /\ View(r, c, m).gen < generation
      <3> DEFINE w == View(r, c, m)
      <3>1. w \in Row /\ w.anchor # NoDate
        BY <2>3, <1>n DEF View, NoDate
      <3>2. CASE c = cur[r] /\ m \in touched[r]
        <4>1. w = buffer[r][m] /\ w # NoRow
          BY <3>1, <3>2 DEF View, NoRow
        <4>2. w.gen = dirtyGen[r]
          BY <4>1, <3>2, <1>c DEF BufferStamped
        <4>3. w.gen < igen[i]
          BY <2>3, <4>1, <1>t DEF StampInv, Honest
        <4>4. fromDate # NoDate /\ fromDate <= idate[i]
          BY <2>1, <2>3, <4>2, <4>3, <1>c DEF PendingSinceRead
        <4>5. w.gen < generation /\ generation # dirtyGen[r]
          BY <2>3, <3>1, <4>2, <4>3, <1>n
        <4>6. fromDate' = fromDate
          BY <2>1, <4>5, <1>c DEF Settling
        <4> QED
          BY <2>3, <3>1, <4>4, <4>5, <4>6, <1>n
      <3>3. CASE ~(c = cur[r] /\ m \in touched[r])
        <4>1. w = rows[c][m]
          BY <3>3 DEF View
        <4>2. fromDate # NoDate /\ fromDate <= w.anchor /\ w.gen < generation
          BY <2>3, <4>1, <1>c DEF NoMarkedChangeIsLost, Misses, Covered, Marked
        <4>3. CASE markLock = RefresherHolds(r)
          <5>1. generation = dirtyGen[r] /\ SettlesAll(r)
            BY <4>3, <1>c DEF Settling
          <5>2. settleFrom[r] # NoDate /\ settleFrom[r] <= w.anchor
            BY <3>1, <4>2, <5>1 DEF SettlesAll
          <5> QED
            BY <2>1, <4>2, <4>3, <5>2
        <4> QED
          BY <2>1, <4>2, <4>3
      <3> QED
        BY <3>2, <3>3
    <2>4. NoMarkedChangeIsLost'
      BY <2>1, <2>2, <2>3 DEF NoMarkedChangeIsLost, Misses, Covered, Marked
    <2> QED
      BY <2>1, <2>4, <1>e
  <1>13. CASE Fail(r)
    <2>1. EndTransaction(r) /\ UNCHANGED <<importVars, fromDate, generation, rows>> /\ pc'[r] = "idle"
      BY <1>13, <1>t DEF Fail, TypeOK
    <2> QED
      BY <2>1, <1>e, <1>c, CoverFrame DEF Marked
  <1> QED
    BY <1>1, <1>2, <1>3, <1>4, <1>5, <1>6, <1>7, <1>8, <1>9, <1>10, <1>11, <1>12, <1>13
       DEF RefreshStep

LEMMA NextCover == ASSUME OneAtATime PROVE CoverInv /\ [Next]_vars => CoverInv'
  <1> SUFFICES ASSUME CoverInv, [Next]_vars PROVE CoverInv'
    OBVIOUS
  <1>1. StampInv' /\ TypeOK'
    BY NextStamp DEF CoverInv, StampInv
  <1>2. ASSUME NEW i \in Imports, ImportStep(i) PROVE CoverInv'
    BY <1>1, <1>2, ImportCover DEF CoverInv
  <1>3. ASSUME NEW r \in Refreshers,
               \/ \E k \in RequestKinds, c \in Currencies, n \in Months : StartRequest(r, k, c, n)
               \/ StartJob(r)
               \/ RefreshStep(r)
               \/ Fail(r)
        PROVE  CoverInv'
    <2>1. /\ LockExcludes' /\ NoMarkedChangeIsLost'
          /\ PendingSinceRead(r)' /\ BufferStamped(r)' /\ Settling(r)'
      BY <1>1, <1>3, RefreshCover
    <2>2. \A q \in Refreshers : q = r
      BY DEF OneAtATime
    <2> QED
      BY <1>1, <2>1, <2>2 DEF CoverInv
  <1>4. CASE MonthCompletes \/ UNCHANGED vars
    <2>1. UNCHANGED <<fromDate, generation, markLock, rows, importVars, pc, cur, dirtyGen,
                      touched, buffer, settleFrom>>
      BY <1>4 DEF MonthCompletes, vars, markVars, importVars, taskVars, readVars, writeVars
    <2>2. NoMarkedChangeIsLost' /\ LockExcludes'
      BY <2>1, CoverFrame DEF CoverInv, LockExcludes, Marked, importVars
    <2>3. ASSUME NEW r \in Refreshers PROVE PendingSinceRead(r)' /\ BufferStamped(r)' /\ Settling(r)'
      <3>1. PendingSinceRead(r)' /\ BufferStamped(r)'
        BY <2>1 DEF CoverInv, PendingSinceRead, BufferStamped, InRefresh, Marked, importVars
      <3>2. SettlesAll(r)' <=> SettlesAll(r)
        BY <2>1 DEF SettlesAll, View
      <3> QED
        BY <2>1, <3>1, <3>2 DEF CoverInv, Settling
    <2> QED
      BY <1>1, <2>2, <2>3 DEF CoverInv
  <1> QED
    BY <1>2, <1>3, <1>4 DEF Next

\* While refreshes of one user do not overlap, no stored row ever misses a
\* marked change without the pending mark covering it: it will be recomputed.
THEOREM SerialRefreshLosesNothing ==
  ASSUME OneAtATime
  PROVE  Spec => []NoMarkedChangeIsLost
  <1>1. Init => CoverInv
    BY InitCover
  <1>2. CoverInv /\ [Next]_vars => CoverInv'
    BY NextCover
  <1>3. CoverInv => NoMarkedChangeIsLost
    BY DEF CoverInv
  <1> QED
    BY <1>1, <1>2, <1>3, PTL DEF Spec
===============================================================================

--------------------------- MODULE FlexImportsProofs ---------------------------
(***************************************************************************)
(* What FlexImports guarantees for any number of imports, days, statements *)
(* and moves of the authority window.                                      *)
(*                                                                         *)
(* FlexLines, at the end: whatever reports of whatever days are imported,  *)
(* in whatever order, the rows are the broker's lines as last reported     *)
(* (RowsAreTheBrokersLines).  The invariant it needs is of the broker's    *)
(* books: the lines of one transaction are of one day, one of each.        *)
(***************************************************************************)
EXTENDS FlexImports, FlexLines, FiniteSetTheorems, WellFoundedInduction, TLAPS

Window == [from : Days, to : Days \cup {Open}]

\* Where a run is, and what its transaction has done by then.
RunStage(r) ==
    /\ pc[r] \in {"idle", "parsed"} \/ r \in Working => status[r] # "completed"
    /\ r \notin Working \/ pc[r] = "locked" => deleted[r] = {} /\ table[r] = 1
    /\ pc[r] \in {"delete", "waiting"} => table[r] \in 1..4
    /\ pc[r] \in {"insert", "finish"} => table[r] = 5
    /\ pc[r] \in {"delete", "waiting", "insert", "finish"} => Valid(statement[r])
    /\ inserted[r] = IF pc[r] = "finish" THEN NewFacts(r, authority[r]) ELSE {}

\* Rows are of runs that are over: no statement a row stands for changes.
RowsAreSettled == \A x \in rows : pc[x.run] = "done"

\* Before the first window there is nothing it could speak of.
WindowIsKnown ==
    /\ window = NoWindow => Working = {} /\ \A x \in rows : x.table \notin FactTables
    /\ \A r \in Working \ straddled : authority[r] = window

OwnerWorks == overtaken = {} => \A r \in Working : lock.owner = r

\* What a run has deleted by now, when nobody else is at work.
Gone(r) == {x \in rows : \E i \in 1..table[r] - 1 :
                            x.table = ClearOrder[i] /\ x.day \in Scope(statement[r], x.table)}

WorksAlone ==
    overtaken = {} => \A r \in Working : pc[r] # "waiting" /\ deleted[r] = Gone(r)

\* No day has facts that its completeness does not tell of.
FactsAreTold ==
    overtaken = {} => \A x \in rows : x.table \in FactTables =>
                          \E c \in rows : c.table = "completeness" /\ c.day = x.day

\* The inductive invariant behind the properties of imports.
ImportInv ==
    /\ TypeOK
    /\ \A r \in Runs : RunStage(r)
    /\ RowsAreSettled
    /\ WindowIsKnown
    /\ StampsFollowWindow
    /\ OwnerWorks
    /\ WorksAlone
    /\ FactsAreTold
    /\ CompletenessIsTrue
-----------------------------------------------------------------------------
(* What statements say, and the rows they become *)

LEMMA StatementIs ==
    ASSUME NEW s \in Statements
    PROVE  /\ s \in Statement
           /\ s.to \in Days /\ s.nav \subseteq Days
           /\ s.positions \subseteq {s.to} /\ s.cash \subseteq {s.to}
           /\ Valid(s) => s.to \in s.nav
           /\ \A t \in FactTables : s[t] \subseteq Days
           /\ s["nav"] = s.nav /\ s["positions"] = s.positions /\ s["cash"] = s.cash
  BY StatementsAssumption, PeriodEndAssumption DEF Statement, FactTables

LEMMA ScopeIs ==
    ASSUME NEW s \in Statements
    PROVE  /\ Scope(s, "nav") = s.nav
           /\ Scope(s, "positions") = s.positions \cup ({s.to} \cap s.nav)
           /\ Scope(s, "cash") = s.cash \cup ({s.to} \cap s.nav)
           /\ Scope(s, "completeness") = s.nav \cup s.positions \cup s.cash
  BY StatementIs DEF Scope

LEMMA ScopesNest ==
    ASSUME NEW s \in Statements, NEW t \in FactTables
    PROVE  s[t] \subseteq Scope(s, t) /\ Scope(s, t) \subseteq Scope(s, "completeness")
           /\ Scope(s, t) \subseteq Days
  BY StatementIs, ScopeIs DEF FactTables

LEMMA NewFactsAre ==
    ASSUME NEW r \in Runs, statement[r] \in Statements, NEW w
    PROVE  /\ NewFacts(r, w) \subseteq Row
           /\ \A x \in NewFacts(r, w) : /\ x.table \in FactTables /\ x.run = r
                                        /\ x.day \in statement[r][x.table]
                                        /\ x.status = StatusFor(w, x.day)
           /\ \A t \in FactTables : \A d \in statement[r][t] :
                 \E x \in NewFacts(r, w) : x.table = t /\ x.day = d
  <1>1. \A t \in FactTables : statement[r][t] \subseteq Days
    BY StatementIs
  <1>2. \A x \in NewFacts(r, w) : \E t \in FactTables : \E d \in statement[r][t] :
            x = [table |-> t, day |-> d, run |-> r, status |-> StatusFor(w, d)]
    BY DEF NewFacts
  <1>3. \A d : StatusFor(w, d) \in FactStatuses
    BY DEF StatusFor, FactStatuses
  <1>4. ASSUME NEW t \in FactTables, NEW d \in statement[r][t]
        PROVE  [table |-> t, day |-> d, run |-> r, status |-> StatusFor(w, d)] \in NewFacts(r, w)
    BY DEF NewFacts
  <1>5. ASSUME NEW t \in FactTables, NEW d \in statement[r][t]
        PROVE  \E x \in NewFacts(r, w) : x.table = t /\ x.day = d
    <2>1. [table |-> t, day |-> d, run |-> r, status |-> StatusFor(w, d)] \in NewFacts(r, w)
      BY <1>4
    <2> QED
      BY <2>1
  <1> QED
    BY <1>1, <1>2, <1>3, <1>5 DEF Row

LEMMA NewCompletenessIs ==
    ASSUME NEW r \in Runs, statement[r] \in Statements
    PROVE  /\ NewCompleteness(r) \subseteq Row
           /\ \A x \in NewCompleteness(r) :
                 /\ x.table = "completeness" /\ x.run = r
                 /\ x.day \in Scope(statement[r], "completeness")
                 /\ x.status = CompletenessOf(r, x.day)
           /\ \A d \in Scope(statement[r], "completeness") :
                 \E x \in NewCompleteness(r) : x.day = d
  <1>1. Scope(statement[r], "completeness") \subseteq Days
    BY StatementIs, ScopeIs
  <1>2. \A d : CompletenessOf(r, d) \in Completeness
    BY DEF CompletenessOf, Completeness
  <1>3. ASSUME NEW d \in Scope(statement[r], "completeness")
        PROVE  \E x \in NewCompleteness(r) : x.day = d
    <2> DEFINE x == [table |-> "completeness", day |-> d, run |-> r,
                     status |-> CompletenessOf(r, d)]
    <2>1. x \in NewCompleteness(r) /\ x.day = d
      BY DEF NewCompleteness
    <2> QED
      BY <2>1
  <1> QED
    BY <1>1, <1>2, <1>3 DEF NewCompleteness, Row

LEMMA RestampIs ==
    ASSUME NEW x \in Row, NEW w
    PROVE  /\ Restamp(x, w) \in Row
           /\ Restamp(x, w).table = x.table /\ Restamp(x, w).day = x.day
           /\ Restamp(x, w).run = x.run
           /\ x.table \in FactTables => Restamp(x, w).status = StatusFor(w, x.day)
           /\ x.table = "completeness" => Restamp(x, w) = x
  BY DEF Restamp, Row, StatusFor, FactStatuses, FactTables

-----------------------------------------------------------------------------
(* Types *)

LEMMA InitType == Init => TypeOK
  <1> SUFFICES ASSUME Init PROVE TypeOK
    OBVIOUS
  <1>1. PICK kept \in {{}} \cup {{r} : r \in Past}, s \in Statements :
          /\ kept # {} => s \in Known /\ Valid(s)
          /\ statement = [r \in Runs |-> s]
          /\ window = IF kept = {} THEN NoWindow ELSE [from |-> s.from, to |-> Open]
          /\ rows = UNION {Imported(r, window) : r \in kept}
          /\ status = [r \in Runs |-> IF r \in kept THEN "completed"
                                      ELSE IF r \in Past THEN "failed" ELSE "none"]
    BY DEF Init
  <1>2. kept \subseteq Runs /\ s.from \in Days
    BY PastAssumption, StatementIs DEF Statement
  <1>3. ASSUME NEW r \in kept PROVE Imported(r, window) \subseteq Row
    <2>1. statement[r] = s /\ Scope(s, "completeness") \subseteq Days
      BY <1>1, <1>2, StatementIs, ScopeIs
    <2> QED
      BY <1>2, <2>1, NewFactsAre DEF Imported, Row, Completeness
  <1>4. rows \subseteq Row
    BY <1>1, <1>3
  <1>5. window \in Window \cup {NoWindow}
    BY <1>1, <1>2 DEF Window
  <1>6. table \in [Runs -> 1..Len(ClearOrder) + 1]
    BY DEF Init, ClearOrder
  <1> QED
    BY <1>1, <1>4, <1>5, <1>6 DEF Init, TypeOK, Free, Window

LEMMA ForgetType ==
    ASSUME TypeOK, NEW r \in Runs, Forget(r)
    PROVE  /\ authority' \in [Runs -> Window \cup {NoWindow}]
           /\ table' \in [Runs -> 1..Len(ClearOrder) + 1]
           /\ found' \in [Runs -> SUBSET Row]
           /\ deleted' \in [Runs -> SUBSET Row] /\ inserted' \in [Runs -> SUBSET Row]
  BY DEF Forget, TypeOK, ClearOrder, Window

LEMMA ReleaseType ==
    ASSUME TypeOK, NEW r \in Runs, Release(r)
    PROVE  lock' \in [owner : Runs \cup {NoRun}, at : Nat]
  BY DEF Release, TypeOK, Free

LEMMA AbortType ==
    ASSUME TypeOK, NEW r \in Runs, Abort(r),
           UNCHANGED <<clock, window, moves, statement, ghostVars>>
    PROVE  TypeOK'
  BY ForgetType, ReleaseType DEF Abort, TypeOK, ghostVars, Window

LEMMA ClearedType ==
    ASSUME TypeOK, NEW r \in Runs, table[r] \in 1..4, NEW gone \in SUBSET Row,
           Cleared(r, table[r], gone),
           UNCHANGED <<clock, dbVars, moves, statement, authority, inserted, ghostVars>>
    PROVE  TypeOK'
  BY DEF Cleared, TypeOK, dbVars, ghostVars, ClearOrder

LEMMA SpokenType ==
    ASSUME TypeOK, NEW r \in Runs, NEW t PROVE Spoken(r, t) \subseteq rows /\ rows \subseteq Row
  BY DEF Spoken, TypeOK

LEMMA NextType ==
    ASSUME TypeOK, \A r \in Runs : RunStage(r), [Next]_vars PROVE TypeOK'
  <1> USE DEF dbVars, localVars, ghostVars
  <1>1. ASSUME NEW r \in Runs, NEW s \in Statements, Begin(r, s) PROVE TypeOK'
    BY <1>1 DEF Begin, TypeOK
  <1>2. ASSUME NEW r \in Runs, NEW from \in {statement[r].from} \cup Cutovers, Acquire(r, from)
        PROVE  TypeOK'
    <2>1. from \in Days
      BY StatementIs, CutoversAssumption DEF TypeOK, Statement
    <2>2. window' \in Window \cup {NoWindow}
      BY <1>2, <2>1 DEF Acquire, EnsuredWindow, TypeOK, Window
    <2>3. overtaken' \subseteq Runs
      BY <1>2 DEF Acquire, TypeOK, Working
    <2> QED
      BY <1>2, <2>2, <2>3 DEF Acquire, TypeOK, Window
  <1>3. ASSUME NEW r \in Runs, Refuse(r) PROVE TypeOK'
    BY <1>3 DEF Refuse, TypeOK
  <1>4. ASSUME NEW r \in Runs, Accept(r) PROVE TypeOK'
    BY <1>4 DEF Accept, TypeOK, ClearOrder
  <1>5. ASSUME NEW r \in Runs, Reject(r) PROVE TypeOK'
    <2>1. FailedRow(r) \in Row
      BY StatementIs DEF TypeOK, FailedRow, Row, Completeness
    <2> QED
      BY <1>5, <2>1, ForgetType, ReleaseType DEF Reject, TypeOK, Window
  <1>6. ASSUME NEW r \in Runs, RejectRaises(r) PROVE TypeOK'
    BY <1>6, ForgetType DEF RejectRaises, TypeOK, Window
  <1>7. ASSUME NEW r \in Runs, Delete(r) PROVE TypeOK'
    <2> DEFINE some == Spoken(r, ClearOrder[table[r]])
    <2>1. some \subseteq Row /\ table[r] \in 1..4
      BY <1>7, SpokenType DEF Delete, RunStage
    <2> HIDE DEF some
    <2>2. CASE Contested(r, some)
      <3>1. /\ pc' = [pc EXCEPT ![r] = "waiting"] /\ found' = [found EXCEPT ![r] = some]
            /\ UNCHANGED <<deleted, table, clock, dbVars, moves, statement, authority, inserted,
                           ghostVars>>
        BY <1>7, <2>2 DEF Delete, some
      <3> QED
        BY <2>1, <3>1 DEF TypeOK
    <2>3. CASE ~Contested(r, some)
      BY <1>7, <2>1, <2>3, ClearedType DEF Delete, some
    <2> QED
      BY <2>2, <2>3
  <1>8. ASSUME NEW r \in Runs, Resume(r) PROVE TypeOK'
    <2>1. found[r] \cap rows \in SUBSET Row /\ table[r] \in 1..4
      BY <1>8 DEF Resume, RunStage, TypeOK
    <2> QED
      BY <1>8, <2>1, ClearedType DEF Resume
  <1>9. ASSUME NEW r \in Runs, Insert(r) PROVE TypeOK'
    <2>1. NewFacts(r, authority[r]) \subseteq Row
      BY NewFactsAre DEF TypeOK
    <2>2. CASE Duplicate(r, NewFacts(r, authority[r]))
      BY <1>9, <2>2, AbortType DEF Insert
    <2>3. CASE ~Duplicate(r, NewFacts(r, authority[r]))
      <3>1. /\ pc' = [pc EXCEPT ![r] = "finish"]
            /\ inserted' = [inserted EXCEPT ![r] = NewFacts(r, authority[r])]
            /\ UNCHANGED <<lock, rows, status, authority, table, found, deleted, clock, window,
                           moves, statement, ghostVars>>
        BY <1>9, <2>3 DEF Insert
      <3> QED
        BY <2>1, <3>1 DEF TypeOK
    <2> QED
      BY <2>2, <2>3
  <1>10. ASSUME NEW r \in Runs, Finish(r) PROVE TypeOK'
    <2>1. CASE Duplicate(r, NewCompleteness(r))
      BY <1>10, <2>1, AbortType DEF Finish
    <2>2. CASE ~Duplicate(r, NewCompleteness(r))
      <3>1. rows' \subseteq Row
        BY <1>10, <2>2, NewCompletenessIs DEF Finish, TypeOK, View
      <3> QED
        BY <1>10, <2>2, <3>1, ForgetType, ReleaseType DEF Finish, TypeOK, Window
    <2> QED
      BY <2>1, <2>2
  <1>11. ASSUME NEW r \in Runs, DatabaseError(r) PROVE TypeOK'
    BY <1>11, AbortType DEF DatabaseError
  <1>12. ASSUME NEW r \in Runs, Crash(r) PROVE TypeOK'
    BY <1>12, ForgetType DEF Crash, TypeOK, Window
  <1>13. ASSUME Tick PROVE TypeOK'
    BY <1>13 DEF Tick, TypeOK
  <1>14. ASSUME NEW w \in Window, MoveWindow(w) PROVE TypeOK'
    <2>1. \A x \in rows : Restamp(x, w) \in Row
      BY RestampIs DEF TypeOK
    <2> QED
      BY <1>14, <2>1 DEF MoveWindow, TypeOK, Window, Working
  <1>15. CASE UNCHANGED vars
    BY <1>15 DEF vars, TypeOK
  <1>16. ASSUME NEW r \in Runs, Step(r) PROVE TypeOK'
    BY <1>16, <1>2, <1>3, <1>4, <1>5, <1>6, <1>7, <1>8, <1>9, <1>10 DEF Step
  <1> QED
    BY <1>1, <1>11, <1>12, <1>13, <1>14, <1>15, <1>16 DEF Next, Window

-----------------------------------------------------------------------------
(* Where a run is *)

\* What a step of one run leaves of another.
Untouched(q) ==
    /\ pc'[q] = pc[q] /\ status'[q] = status[q] /\ statement'[q] = statement[q]
    /\ authority'[q] = authority[q] /\ table'[q] = table[q]
    /\ deleted'[q] = deleted[q] /\ inserted'[q] = inserted[q]

LEMMA StepsAreLocal ==
    ASSUME TypeOK, NEW r \in Runs, NEW q \in Runs \ {r},
           \/ \E s \in Statements : Begin(r, s)
           \/ Step(r) \/ DatabaseError(r) \/ Crash(r)
    PROVE  Untouched(q)
  <1> USE DEF dbVars, localVars, ghostVars, TypeOK, Untouched
  <1>1. CASE \E s \in Statements : Begin(r, s)
    BY <1>1 DEF Begin
  <1>2. CASE \E from \in {statement[r].from} \cup Cutovers : Acquire(r, from)
    BY <1>2 DEF Acquire
  <1>3. CASE Refuse(r) \/ Accept(r)
    BY <1>3 DEF Refuse, Accept
  <1>4. CASE Reject(r) \/ RejectRaises(r)
    BY <1>4 DEF Reject, RejectRaises, Forget
  <1>5. CASE Delete(r) \/ Resume(r)
    BY <1>5 DEF Delete, Resume, Cleared
  <1>6. CASE Insert(r)
    BY <1>6 DEF Insert, Abort, Forget
  <1>7. CASE Finish(r)
    BY <1>7 DEF Finish, Abort, Forget
  <1>8. CASE DatabaseError(r) \/ Crash(r)
    BY <1>8 DEF DatabaseError, Crash, Abort, Forget
  <1> QED
    BY <1>1, <1>2, <1>3, <1>4, <1>5, <1>6, <1>7, <1>8 DEF Step

LEMMA StageKept ==
    ASSUME NEW q \in Runs, RunStage(q), Untouched(q) PROVE RunStage(q)'
  <1>1. NewFacts(q, authority[q])' = NewFacts(q, authority[q])
    BY DEF Untouched, NewFacts
  <1> QED
    BY <1>1 DEF RunStage, Untouched, Working

LEMMA EndedStage ==
    ASSUME TypeOK, NEW r \in Runs, Forget(r), pc' = [pc EXCEPT ![r] = "done"]
    PROVE  RunStage(r)' /\ r \notin Working'
  <1>1. pc'[r] = "done"
    BY DEF TypeOK
  <1>2. deleted'[r] = {} /\ table'[r] = 1 /\ inserted'[r] = {}
    BY DEF Forget, TypeOK
  <1> QED
    BY <1>1, <1>2 DEF RunStage, Working

LEMMA StageMoves ==
    ASSUME TypeOK, NEW r \in Runs, RunStage(r),
           \/ \E s \in Statements : Begin(r, s)
           \/ Step(r) \/ DatabaseError(r) \/ Crash(r)
    PROVE  RunStage(r)'
  <1> USE DEF dbVars, localVars, ghostVars
  <1>1. CASE \E s \in Statements : Begin(r, s)
    BY <1>1 DEF Begin, TypeOK, RunStage, Working
  <1>2. CASE \E from \in {statement[r].from} \cup Cutovers : Acquire(r, from)
    BY <1>2 DEF Acquire, TypeOK, RunStage, Working
  <1>3. CASE Refuse(r)
    BY <1>3 DEF Refuse, TypeOK, RunStage, Working
  <1>4. CASE Accept(r)
    BY <1>4 DEF Accept, TypeOK, RunStage, Working
  <1>5. CASE Reject(r)
    BY <1>5, EndedStage DEF Reject
  <1>6. CASE RejectRaises(r)
    BY <1>6 DEF RejectRaises, Forget, TypeOK, RunStage, Working
  <1>7. ASSUME NEW gone, Cleared(r, table[r], gone), pc[r] \in {"delete", "waiting"},
               UNCHANGED <<status, statement, authority, inserted>>
        PROVE  RunStage(r)'
    <2>1. table[r] \in 1..4 /\ inserted[r] = {} /\ Valid(statement[r])
      BY <1>7 DEF RunStage
    <2>2. /\ table'[r] = table[r] + 1
          /\ pc'[r] = IF table[r] = 4 THEN "insert" ELSE "delete"
      BY <1>7 DEF Cleared, TypeOK, ClearOrder
    <2> QED
      BY <1>7, <2>1, <2>2 DEF RunStage, Working
  <1>8. CASE Delete(r)
    <2> DEFINE some == Spoken(r, ClearOrder[table[r]])
    <2>1. CASE Contested(r, some)
      <3>1. /\ pc' = [pc EXCEPT ![r] = "waiting"] /\ pc[r] = "delete"
            /\ UNCHANGED <<deleted, table, status, statement, authority, inserted>>
        BY <1>8, <2>1 DEF Delete
      <3> QED
        BY <3>1 DEF TypeOK, RunStage, Working
    <2>2. CASE ~Contested(r, some)
      BY <1>7, <1>8, <2>2 DEF Delete
    <2> QED
      BY <2>1, <2>2
  <1>9. CASE Resume(r)
    BY <1>7, <1>9 DEF Resume
  <1>10. CASE Insert(r)
    <2>1. CASE Duplicate(r, NewFacts(r, authority[r]))
      BY <1>10, <2>1, EndedStage DEF Insert, Abort
    <2>2. CASE ~Duplicate(r, NewFacts(r, authority[r]))
      <3>1. /\ pc[r] = "insert" /\ pc' = [pc EXCEPT ![r] = "finish"]
            /\ inserted' = [inserted EXCEPT ![r] = NewFacts(r, authority[r])]
            /\ UNCHANGED <<status, authority, table, deleted, statement>>
        BY <1>10, <2>2 DEF Insert
      <3>2. inserted'[r] = NewFacts(r, authority[r])
        BY <3>1 DEF TypeOK
      <3>3. NewFacts(r, authority[r])' = NewFacts(r, authority[r])
        BY <3>1 DEF NewFacts
      <3> QED
        BY <3>1, <3>2, <3>3 DEF TypeOK, RunStage, Working
    <2> QED
      BY <2>1, <2>2
  <1>11. CASE Finish(r)
    BY <1>11, EndedStage DEF Finish, Abort
  <1>12. CASE DatabaseError(r)
    BY <1>12, EndedStage DEF DatabaseError, Abort
  <1>13. CASE Crash(r)
    BY <1>13 DEF Crash, Forget, TypeOK, RunStage, Working
  <1> QED
    BY <1>1, <1>2, <1>3, <1>4, <1>5, <1>6, <1>8, <1>9, <1>10, <1>11, <1>12, <1>13 DEF Step

\* A step is one of a run, or leaves all runs where they are.
LEMMA StepKinds ==
    ASSUME TypeOK, [Next]_vars
    PROVE  \/ \E r \in Runs : \/ \E s \in Statements : Begin(r, s)
                              \/ Step(r) \/ DatabaseError(r) \/ Crash(r)
           \/ /\ \A q \in Runs : Untouched(q)
              /\ UNCHANGED <<pc, lock, overtaken>>
              /\ \/ UNCHANGED <<rows, window, straddled>>
                 \/ \E w \in Window : MoveWindow(w)
  <1>1. CASE Tick
    BY <1>1 DEF Tick, Untouched, dbVars, localVars, ghostVars
  <1>2. CASE \E w \in Window : MoveWindow(w)
    BY <1>2 DEF MoveWindow, Untouched, localVars
  <1>3. CASE UNCHANGED vars
    BY <1>3 DEF vars, Untouched, dbVars, localVars, ghostVars
  <1> QED
    BY <1>1, <1>2, <1>3 DEF Next, Window

LEMMA NextStage ==
    ASSUME TypeOK, \A r \in Runs : RunStage(r), [Next]_vars PROVE \A q \in Runs : RunStage(q)'
  <1>1. ASSUME NEW r \in Runs,
               \/ \E s \in Statements : Begin(r, s)
               \/ Step(r) \/ DatabaseError(r) \/ Crash(r)
        PROVE  \A q \in Runs : RunStage(q)'
    BY <1>1, StageMoves, StepsAreLocal, StageKept
  <1> QED
    BY <1>1, StepKinds, StageKept

LEMMA InitStage == Init => \A r \in Runs : RunStage(r)
  <1> SUFFICES ASSUME Init, NEW r \in Runs PROVE RunStage(r)
    OBVIOUS
  <1>1. pc[r] = (IF r \in Past THEN "done" ELSE "idle") /\ r \notin Working
    BY DEF Init, Working
  <1>2. status[r] = "completed" => r \in Past
    BY DEF Init
  <1> QED
    BY <1>1, <1>2 DEF Init, RunStage

-----------------------------------------------------------------------------
(* One import at a time *)

\* A run at work after the step was at work before, or has just taken the lock.
LEMMA WorkStarts ==
    ASSUME TypeOK, NEW r \in Runs, r \in Working', r \notin Working,
           \/ \E s \in Statements : Begin(r, s)
           \/ Step(r) \/ DatabaseError(r) \/ Crash(r)
    PROVE  \E from \in {statement[r].from} \cup Cutovers : Acquire(r, from)
  <1> USE DEF Working, TypeOK
  <1>1. CASE \E s \in Statements : Begin(r, s)
    BY <1>1 DEF Begin
  <1>2. CASE Refuse(r) \/ Accept(r) \/ Reject(r) \/ RejectRaises(r)
    BY <1>2 DEF Refuse, Accept, Reject, RejectRaises
  <1>3. CASE Delete(r) \/ Resume(r) \/ Insert(r) \/ Finish(r)
    BY <1>3 DEF Delete, Resume, Insert, Finish
  <1>4. CASE DatabaseError(r) \/ Crash(r)
    BY <1>4 DEF DatabaseError, Crash, Abort
  <1> QED
    BY <1>1, <1>2, <1>3, <1>4 DEF Step

LEMMA LockMoves ==
    ASSUME TypeOK, NEW r \in Runs,
           \/ \E s \in Statements : Begin(r, s)
           \/ Step(r) \/ DatabaseError(r) \/ Crash(r),
           ~ \E from \in {statement[r].from} \cup Cutovers : Acquire(r, from)
    PROVE  /\ UNCHANGED <<window, ghostVars>>
           /\ lock' = lock \/ (lock.owner = r /\ r \notin Working')
  <1> USE DEF Working, TypeOK, dbVars, localVars, ghostVars
  <1>1. CASE \E s \in Statements : Begin(r, s)
    BY <1>1 DEF Begin
  <1>2. CASE Refuse(r) \/ Accept(r) \/ RejectRaises(r)
    BY <1>2 DEF Refuse, Accept, RejectRaises
  <1>3. CASE Reject(r)
    BY <1>3 DEF Reject, Release
  <1>4. CASE Delete(r) \/ Resume(r)
    BY <1>4 DEF Delete, Resume
  <1>5. CASE Insert(r)
    BY <1>5 DEF Insert, Abort, Release
  <1>6. CASE Finish(r)
    BY <1>6 DEF Finish, Abort, Release
  <1>7. CASE DatabaseError(r) \/ Crash(r)
    BY <1>7 DEF DatabaseError, Crash, Abort, Release
  <1> QED
    BY <1>1, <1>2, <1>3, <1>4, <1>5, <1>6, <1>7 DEF Step

LEMMA NextOwner ==
    ASSUME TypeOK, TypeOK', OwnerWorks, [Next]_vars
    PROVE  OwnerWorks' /\ overtaken \subseteq overtaken'
  <1>1. CASE /\ \A q \in Runs : Untouched(q)
             /\ UNCHANGED <<pc, lock, overtaken>>
    BY <1>1 DEF OwnerWorks, Working
  <1>2. ASSUME NEW r \in Runs, NEW from, Acquire(r, from)
        PROVE  OwnerWorks' /\ overtaken \subseteq overtaken'
    <2>1. /\ overtaken' = overtaken \cup ({lock.owner} \cap Working)
          /\ lock'.owner = r /\ pc' = [pc EXCEPT ![r] = "locked"]
      BY <1>2 DEF Acquire
    <2>2. ASSUME overtaken' = {}, NEW q \in Working' PROVE q = r
      <3>1. q # r => q \in Working
        BY <2>1 DEF Working, TypeOK
      <3> QED
        BY <2>1, <2>2, <3>1 DEF OwnerWorks
    <2> QED
      BY <2>1, <2>2 DEF OwnerWorks
  <1>3. ASSUME NEW r \in Runs,
               \/ \E s \in Statements : Begin(r, s)
               \/ Step(r) \/ DatabaseError(r) \/ Crash(r),
               ~ \E from \in {statement[r].from} \cup Cutovers : Acquire(r, from)
        PROVE  OwnerWorks' /\ overtaken \subseteq overtaken'
    <2>1. /\ UNCHANGED <<window, ghostVars>>
          /\ lock' = lock \/ (lock.owner = r /\ r \notin Working')
      BY <1>3, LockMoves
    <2>2. ASSUME NEW q \in Working' PROVE q \in Working
      <3>1. q # r => Untouched(q)
        BY <1>3, StepsAreLocal DEF Working
      <3>2. q = r => q \in Working
        BY <1>3, <2>2, WorkStarts
      <3> QED
        BY <2>2, <3>1, <3>2 DEF Untouched, Working
    <2> QED
      BY <2>1, <2>2 DEF OwnerWorks, ghostVars, Working
  <1> QED
    BY <1>1, <1>2, <1>3, StepKinds

-----------------------------------------------------------------------------
(* The rows, and the window they follow *)

\* A run that ends well.
Stores(r) ==
    /\ pc[r] = "finish" /\ pc' = [pc EXCEPT ![r] = "done"]
    /\ rows' = View(r) \cup NewCompleteness(r)
    /\ status' = [status EXCEPT ![r] = "completed"]
    /\ UNCHANGED statement

LEMMA RowsMove ==
    ASSUME TypeOK, NEW r \in Runs,
           \/ \E s \in Statements : Begin(r, s)
           \/ Step(r) \/ DatabaseError(r) \/ Crash(r)
    PROVE  \/ UNCHANGED rows \/ Reject(r) \/ Stores(r)
  <1> USE DEF dbVars, localVars, ghostVars
  <1>1. CASE \E s \in Statements : Begin(r, s)
    BY <1>1 DEF Begin
  <1>2. CASE \E from \in {statement[r].from} \cup Cutovers : Acquire(r, from)
    BY <1>2 DEF Acquire
  <1>3. CASE Refuse(r) \/ Accept(r) \/ RejectRaises(r) \/ Delete(r) \/ Resume(r)
    BY <1>3 DEF Refuse, Accept, RejectRaises, Delete, Resume
  <1>4. CASE Insert(r)
    BY <1>4 DEF Insert, Abort
  <1>5. CASE Finish(r)
    BY <1>5 DEF Finish, Abort, Stores
  <1>6. CASE DatabaseError(r) \/ Crash(r)
    BY <1>6 DEF DatabaseError, Crash, Abort
  <1> QED
    BY <1>1, <1>2, <1>3, <1>4, <1>5, <1>6 DEF Step

LEMMA EndedRunsStay ==
    ASSUME TypeOK, [Next]_vars, NEW q \in Runs, pc[q] = "done"
    PROVE  pc'[q] = "done" /\ statement'[q] = statement[q]
  <1>1. ASSUME NEW r \in Runs,
               \/ \E s \in Statements : Begin(r, s)
               \/ Step(r) \/ DatabaseError(r) \/ Crash(r)
        PROVE  pc'[q] = "done" /\ statement'[q] = statement[q]
    <2>1. q # r
      BY <1>1 DEF Step, Begin, Acquire, Refuse, Accept, Reject, RejectRaises, Delete, Resume,
                  Insert, Finish, DatabaseError, Crash, Working
    <2> QED
      BY <1>1, <2>1, StepsAreLocal DEF Untouched
  <1> QED
    BY <1>1, StepKinds DEF Untouched

LEMMA FailedRowIs ==
    ASSUME NEW r \in Runs
    PROVE  FailedRow(r).table = "completeness" /\ FailedRow(r).run = r
           /\ FailedRow(r).day = statement[r].to /\ FailedRow(r).status = "failed"
  BY DEF FailedRow

LEMMA NextSettled ==
    ASSUME TypeOK, TypeOK', \A r \in Runs : RunStage(r), RowsAreSettled, [Next]_vars
    PROVE  RowsAreSettled'
  <1>0. \A x \in rows : x.run \in Runs /\ pc'[x.run] = "done"
    <2>1. \A x \in rows : x.run \in Runs /\ pc[x.run] = "done"
      BY DEF RowsAreSettled, TypeOK, Row
    <2> QED
      BY <2>1, EndedRunsStay
  <1>1. CASE UNCHANGED rows
    BY <1>0, <1>1 DEF RowsAreSettled
  <1>2. ASSUME NEW w \in Window, MoveWindow(w) PROVE RowsAreSettled'
    <2>1. \A x \in rows : Restamp(x, w).run = x.run
      BY RestampIs DEF TypeOK
    <2> QED
      BY <1>0, <1>2, <2>1 DEF RowsAreSettled, MoveWindow
  <1>3. ASSUME NEW r \in Runs, Reject(r) PROVE RowsAreSettled'
    BY <1>0, <1>3, FailedRowIs DEF RowsAreSettled, Reject, TypeOK
  <1>4. ASSUME NEW r \in Runs, Stores(r) PROVE RowsAreSettled'
    <2>1. pc'[r] = "done" /\ statement[r] \in Statements
      BY <1>4 DEF Stores, TypeOK
    <2>2. \A x \in inserted[r] : x.run = r
      BY <1>4, <2>1, NewFactsAre DEF RunStage, Stores
    <2>3. \A x \in NewCompleteness(r) : x.run = r
      BY <2>1, NewCompletenessIs
    <2> QED
      BY <1>0, <1>4, <2>1, <2>2, <2>3 DEF RowsAreSettled, Stores, View
  <1> QED
    BY <1>1, <1>2, <1>3, <1>4, RowsMove, StepKinds

LEMMA AuthorityStays ==
    ASSUME TypeOK, NEW r \in Runs, r \in Working',
           \/ \E s \in Statements : Begin(r, s)
           \/ Step(r) \/ DatabaseError(r) \/ Crash(r),
           ~ \E from \in {statement[r].from} \cup Cutovers : Acquire(r, from)
    PROVE  r \in Working /\ authority'[r] = authority[r]
  <1>1. r \in Working
    BY WorkStarts
  <1> USE DEF Working, TypeOK, dbVars, localVars, ghostVars
  <1>2. CASE \E s \in Statements : Begin(r, s)
    BY <1>2 DEF Begin
  <1>3. CASE Refuse(r) \/ Accept(r) \/ Reject(r) \/ RejectRaises(r)
    BY <1>3 DEF Refuse, Accept, Reject, RejectRaises
  <1>4. CASE Delete(r) \/ Resume(r)
    BY <1>4 DEF Delete, Resume
  <1>5. CASE Insert(r)
    BY <1>5 DEF Insert, Abort
  <1>6. CASE Finish(r) \/ DatabaseError(r) \/ Crash(r)
    BY <1>6 DEF Finish, DatabaseError, Crash, Abort
  <1> QED
    BY <1>1, <1>2, <1>3, <1>4, <1>5, <1>6 DEF Step

LEMMA WorkingStages ==
    ASSUME NEW r \in Runs, Reject(r) \/ Stores(r) PROVE r \in Working
  BY DEF Reject, Stores, Working

LEMMA NextWindow ==
    ASSUME TypeOK, TypeOK', WindowIsKnown, [Next]_vars PROVE WindowIsKnown'
  <1>1. CASE /\ \A q \in Runs : Untouched(q)
             /\ UNCHANGED <<pc, rows, window, straddled>>
    BY <1>1 DEF WindowIsKnown, Untouched, Working
  <1>2. ASSUME NEW w \in Window, MoveWindow(w) PROVE WindowIsKnown'
    BY <1>2, WindowAssumption DEF WindowIsKnown, MoveWindow, Window, Working
  <1>3. ASSUME NEW r \in Runs, NEW from \in Days, Acquire(r, from) PROVE WindowIsKnown'
    <2>1. /\ window' = EnsuredWindow(from) /\ authority' = [authority EXCEPT ![r] = window']
          /\ pc' = [pc EXCEPT ![r] = "locked"] /\ UNCHANGED <<rows, straddled>>
      BY <1>3 DEF Acquire
    <2>2. window' # NoWindow /\ (window # NoWindow => window' = window)
      BY <2>1, WindowAssumption DEF EnsuredWindow
    <2>3. authority'[r] = window'
      BY <2>1 DEF TypeOK
    <2>4. ASSUME NEW q \in Working', q # r PROVE q \in Working /\ authority'[q] = authority[q]
      BY <2>1, <2>4 DEF Working, TypeOK
    <2> QED
      BY <2>1, <2>2, <2>3, <2>4 DEF WindowIsKnown
  <1>4. ASSUME NEW r \in Runs,
               \/ \E s \in Statements : Begin(r, s)
               \/ Step(r) \/ DatabaseError(r) \/ Crash(r),
               ~ \E from \in {statement[r].from} \cup Cutovers : Acquire(r, from)
        PROVE  WindowIsKnown'
    <2>1. UNCHANGED <<window, straddled>>
      BY <1>4, LockMoves DEF ghostVars
    <2>2. ASSUME NEW q \in Working' PROVE q \in Working /\ authority'[q] = authority[q]
      <3>1. q \in Runs
        BY <2>2 DEF Working
      <3>2. CASE q = r
        BY <1>4, <2>2, <3>2, AuthorityStays
      <3>3. CASE q # r
        BY <1>4, <2>2, <3>1, <3>3, StepsAreLocal DEF Untouched, Working
      <3> QED
        BY <3>2, <3>3
    <2>3. window = NoWindow => UNCHANGED rows
      BY <1>4, RowsMove, WorkingStages DEF WindowIsKnown
    <2> QED
      BY <2>1, <2>2, <2>3 DEF WindowIsKnown
  <1>5. \A r \in Runs : {statement[r].from} \cup Cutovers \subseteq Days
    BY CutoversAssumption, StatementIs DEF TypeOK, Statement
  <1> QED
    BY <1>1, <1>2, <1>3, <1>4, <1>5, StepKinds

LEMMA NextStamps ==
    ASSUME TypeOK, TypeOK', \A r \in Runs : RunStage(r), WindowIsKnown, StampsFollowWindow,
           [Next]_vars
    PROVE  StampsFollowWindow'
  <1>1. CASE UNCHANGED <<rows, window, straddled>>
    BY <1>1 DEF StampsFollowWindow, Covers
  <1>2. ASSUME NEW w \in Window, MoveWindow(w) PROVE StampsFollowWindow'
    <2>1. ASSUME NEW y \in rows', y.table \in FactTables
          PROVE  y.status = "authoritative" <=> Covers(w, y.day)
      <3>1. PICK x \in rows : y = Restamp(x, w)
        BY <1>2 DEF MoveWindow
      <3> QED
        BY <2>1, <3>1, RestampIs DEF TypeOK, StatusFor
    <2>2. window' = w
      BY <1>2 DEF MoveWindow
    <2> QED
      BY <2>1, <2>2 DEF StampsFollowWindow, Covers
  <1>3. ASSUME NEW r \in Runs, NEW from, Acquire(r, from) PROVE StampsFollowWindow'
    <2>1. window' = EnsuredWindow(from) /\ UNCHANGED <<rows, straddled>>
      BY <1>3 DEF Acquire
    <2>2. window = NoWindow \/ window' = window
      BY <2>1 DEF EnsuredWindow
    <2> QED
      BY <2>1, <2>2 DEF StampsFollowWindow, WindowIsKnown, Covers
  <1>4. ASSUME NEW r \in Runs,
               \/ \E s \in Statements : Begin(r, s)
               \/ Step(r) \/ DatabaseError(r) \/ Crash(r),
               ~ \E from \in {statement[r].from} \cup Cutovers : Acquire(r, from)
        PROVE  StampsFollowWindow'
    <2>1. UNCHANGED <<window, straddled>>
      BY <1>4, LockMoves DEF ghostVars
    <2>2. CASE Reject(r)
      <3>1. rows' = rows \cup {FailedRow(r)} /\ FailedRow(r).table \notin FactTables
        BY <2>2, FailedRowIs DEF Reject, FactTables
      <3> QED
        BY <2>1, <3>1 DEF StampsFollowWindow, Covers
    <2>3. CASE Stores(r)
      <3>1. rows' = View(r) \cup NewCompleteness(r) /\ statement[r] \in Statements
        BY <2>3 DEF Stores, TypeOK
      <3>2. ASSUME NEW x \in inserted[r], r \notin straddled
            PROVE  x.status = "authoritative" <=> Covers(window, x.day)
        <4>1. authority[r] = window
          BY <2>3, <3>2, WorkingStages DEF WindowIsKnown
        <4>2. x \in NewFacts(r, authority[r])
          BY <2>3 DEF RunStage, Stores
        <4> QED
          BY <3>1, <4>1, <4>2, NewFactsAre DEF StatusFor
      <3>3. \A x \in inserted[r] : x.run = r
        BY <2>3, <3>1, NewFactsAre DEF RunStage, Stores
      <3>4. \A x \in NewCompleteness(r) : x.table \notin FactTables
        BY <3>1, NewCompletenessIs DEF FactTables
      <3> QED
        BY <2>1, <3>1, <3>2, <3>3, <3>4 DEF StampsFollowWindow, View, Covers
    <2> QED
      BY <1>1, <1>4, <2>1, <2>2, <2>3, RowsMove
  <1> QED
    BY <1>1, <1>2, <1>3, <1>4, StepKinds

-----------------------------------------------------------------------------
(* What a run that works alone deletes and stores *)

\* While no live run has been overtaken, one is at work at most.
LEMMA OneWorks == OwnerWorks => ImportsExclude
  BY DEF OwnerWorks, ImportsExclude

LEMMA NotContested ==
    ASSUME \A q \in Runs : RunStage(q), OwnerWorks, overtaken = {},
           NEW r \in Working, NEW some
    PROVE  ~Contested(r, some)
  <1>1. ASSUME NEW q \in Runs \ {r} PROVE deleted[q] = {}
    <2>1. q \notin Working
      BY <1>1, OneWorks DEF ImportsExclude
    <2> QED
      BY <2>1 DEF RunStage
  <1> QED
    BY <1>1 DEF Contested

LEMMA GoneKept ==
    ASSUME NEW r \in Runs, UNCHANGED rows, table'[r] = table[r], statement'[r] = statement[r]
    PROVE  Gone(r)' = Gone(r)
  BY DEF Gone

LEMMA AloneCleared ==
    ASSUME TypeOK, NEW r \in Runs, table[r] \in 1..4, deleted[r] = Gone(r),
           Cleared(r, table[r], Spoken(r, ClearOrder[table[r]])), UNCHANGED <<rows, statement>>
    PROVE  deleted'[r] = Gone(r)' /\ pc'[r] # "waiting"
  <1> DEFINE n == table[r]
             at(i) == {x \in rows : x.table = ClearOrder[i]
                                    /\ x.day \in Scope(statement[r], x.table)}
  <1>1. deleted'[r] = deleted[r] \cup Spoken(r, ClearOrder[n]) /\ table'[r] = n + 1
    BY DEF Cleared, TypeOK
  <1>2. Spoken(r, ClearOrder[n]) = at(n) \ deleted[r]
    BY DEF Spoken
  <1>3. Gone(r) = UNION {at(i) : i \in 1..n - 1}
    BY DEF Gone
  <1>4. Gone(r)' = UNION {at(i) : i \in 1..n}
    <2>1. n + 1 - 1 = n
      OBVIOUS
    <2>2. Gone(r)' = {x \in rows : \E i \in 1..(n + 1) - 1 :
                         x.table = ClearOrder[i] /\ x.day \in Scope(statement[r], x.table)}
      BY <1>1 DEF Gone
    <2> QED
      BY <2>1, <2>2
  <1>5. 1..n = (1..n - 1) \cup {n}
    OBVIOUS
  <1>6. Gone(r)' = Gone(r) \cup at(n)
    BY <1>3, <1>4, <1>5
  <1>7. pc'[r] # "waiting"
    BY DEF Cleared, TypeOK
  <1> QED
    BY <1>1, <1>2, <1>6, <1>7

\* The run itself goes on.
LEMMA AloneMoves ==
    ASSUME TypeOK, \A q \in Runs : RunStage(q), OwnerWorks, WorksAlone, overtaken = {},
           NEW r \in Working, r \in Working',
           Step(r) \/ DatabaseError(r) \/ Crash(r)
    PROVE  pc'[r] # "waiting" /\ deleted'[r] = Gone(r)'
  <1> USE DEF dbVars, localVars, ghostVars
  <1>0. r \in Runs /\ pc[r] # "waiting" /\ deleted[r] = Gone(r)
    BY DEF WorksAlone, Working
  <1>1. CASE Accept(r)
    <2>1. /\ pc'[r] = "delete" /\ table'[r] = 1 /\ deleted'[r] = {}
      BY <1>0, <1>1 DEF Accept, TypeOK, RunStage
    <2>2. Gone(r)' = {}
      BY <2>1 DEF Gone
    <2> QED
      BY <2>1, <2>2
  <1>2. CASE Delete(r)
    <2>1. table[r] \in 1..4
      BY <1>0, <1>2 DEF Delete, RunStage
    <2>2. Cleared(r, table[r], Spoken(r, ClearOrder[table[r]])) /\ UNCHANGED <<rows, statement>>
      BY <1>2, NotContested DEF Delete
    <2> QED
      BY <1>0, <2>1, <2>2, AloneCleared
  <1>3. CASE Insert(r)
    <2>1. pc'[r] = "finish" /\ UNCHANGED <<rows, table, deleted, statement>>
      BY <1>0, <1>3 DEF Insert, Abort, TypeOK, Working
    <2> QED
      BY <1>0, <2>1, GoneKept
  <1>4. ASSUME Acquire(r, statement[r].from) \/ \E from \in Cutovers : Acquire(r, from) PROVE FALSE
    BY <1>4 DEF Acquire, Working
  <1>5. ASSUME Refuse(r) \/ Reject(r) \/ RejectRaises(r) \/ Finish(r) \/ DatabaseError(r) \/ Crash(r)
        PROVE FALSE
    BY <1>0, <1>5 DEF Refuse, Reject, RejectRaises, Finish, DatabaseError, Crash, Abort, Working,
                      TypeOK
  <1>6. ASSUME Resume(r) PROVE FALSE
    BY <1>0, <1>6 DEF Resume
  <1> QED
    BY <1>1, <1>2, <1>3, <1>4, <1>5, <1>6 DEF Step

LEMMA NextAlone ==
    ASSUME TypeOK, TypeOK', \A q \in Runs : RunStage(q), OwnerWorks, WorksAlone, [Next]_vars
    PROVE  WorksAlone'
  <1> SUFFICES ASSUME overtaken' = {}, NEW q \in Working'
               PROVE  pc'[q] # "waiting" /\ deleted'[q] = Gone(q)'
    BY DEF WorksAlone
  <1>0. overtaken = {} /\ OwnerWorks' /\ q \in Runs
    BY NextOwner DEF Working
  <1>1. CASE /\ \A r \in Runs : Untouched(r)
             /\ UNCHANGED <<pc, rows>>
    BY <1>0, <1>1, GoneKept DEF WorksAlone, Working, Untouched
  <1>2. ASSUME NEW w \in Window, MoveWindow(w)
        PROVE  pc'[q] # "waiting" /\ deleted'[q] = Gone(q)'
    <2>1. q \in Working /\ pc'[q] # "waiting" /\ deleted'[q] = Gone(q)
      BY <1>0, <1>2 DEF WorksAlone, MoveWindow, Working, localVars
    <2>2. \A x \in Gone(q) : Restamp(x, w) = x
      <3>1. \A x \in rows : Restamp(x, w) # x => x \notin deleted[q]
        BY <1>0, <1>2 DEF MoveWindow
      <3>2. deleted[q] = Gone(q)
        BY <1>0, <2>1 DEF WorksAlone
      <3> QED
        BY <3>1, <3>2 DEF Gone
    <2>3. rows' = {Restamp(x, w) : x \in rows} /\ UNCHANGED <<table, statement>>
      BY <1>2 DEF MoveWindow, localVars
    <2>4. ASSUME NEW x \in rows PROVE Restamp(x, w) \in Gone(q)' <=> x \in Gone(q)
      <3>1. Restamp(x, w).table = x.table /\ Restamp(x, w).day = x.day
        BY RestampIs DEF TypeOK
      <3> QED
        BY <2>3, <3>1 DEF Gone
    <2>5. Gone(q)' \subseteq rows' /\ Gone(q) \subseteq rows
      BY DEF Gone
    <2>6. Gone(q)' = Gone(q)
      BY <2>2, <2>3, <2>4, <2>5
    <2> QED
      BY <2>1, <2>6
  <1>3. ASSUME NEW r \in Runs, NEW from, Acquire(r, from)
        PROVE  pc'[q] # "waiting" /\ deleted'[q] = Gone(q)'
    <2>1. lock'.owner = r /\ pc[r] = "parsed" /\ pc' = [pc EXCEPT ![r] = "locked"]
          /\ UNCHANGED <<deleted, table>>
      BY <1>3 DEF Acquire
    <2>2. q = r
      BY <1>0, <2>1 DEF OwnerWorks
    <2>3. deleted'[q] = {} /\ table'[q] = 1 /\ pc'[q] = "locked"
      BY <1>0, <2>1, <2>2 DEF RunStage, Working, TypeOK
    <2>4. Gone(q)' = {}
      BY <2>3 DEF Gone
    <2> QED
      BY <2>3, <2>4
  <1>4. ASSUME NEW r \in Runs,
               \/ \E s \in Statements : Begin(r, s)
               \/ Step(r) \/ DatabaseError(r) \/ Crash(r),
               ~ \E from \in {statement[r].from} \cup Cutovers : Acquire(r, from)
        PROVE  pc'[q] # "waiting" /\ deleted'[q] = Gone(q)'
    <2>1. CASE q = r
      <3>1. r \in Working
        BY <1>4, <2>1, AuthorityStays
      <3>2. ~ \E s \in Statements : Begin(r, s)
        BY <3>1 DEF Begin, Working
      <3> QED
        BY <1>0, <1>4, <2>1, <3>1, <3>2, AloneMoves
    <2>2. CASE q # r
      <3>1. Untouched(q) /\ q \in Working
        BY <1>0, <1>4, <2>2, StepsAreLocal DEF Untouched, Working
      <3>2. r \notin Working
        BY <1>0, <2>2, <3>1, OneWorks DEF ImportsExclude
      <3>3. UNCHANGED rows
        BY <1>4, <3>2, RowsMove, WorkingStages
      <3> QED
        BY <1>0, <3>1, <3>3, GoneKept DEF WorksAlone, Untouched
    <2> QED
      BY <2>1, <2>2
  <1> QED
    BY <1>1, <1>2, <1>3, <1>4, StepKinds

\* The rows after a run that stores: of what its statement speaks for its own, and of the rest
\* what was there.
LEMMA StoredRows ==
    ASSUME TypeOK, NEW r \in Runs, RunStage(r), WorksAlone, overtaken = {}, Stores(r)
    PROVE  LET s == statement[r]
               left == {x \in rows : x.day \notin Scope(s, x.table)}
           IN  /\ View(r) = left \cup NewFacts(r, authority[r])
               /\ rows' = left \cup NewFacts(r, authority[r]) \cup NewCompleteness(r)
  <1>1. pc[r] = "finish" /\ table[r] = 5 /\ inserted[r] = NewFacts(r, authority[r])
    BY DEF Stores, RunStage
  <1>2. deleted[r] = Gone(r)
    BY <1>1 DEF WorksAlone, Working
  <1>3. \A x \in rows : x.table \in {"positions", "cash", "nav", "completeness"}
    BY DEF TypeOK, Row, FactTables
  <1>4. \A x \in rows : \E i \in 1..5 - 1 : x.table = ClearOrder[i]
    <2>1. /\ ClearOrder[1] = "positions" /\ ClearOrder[2] = "cash"
          /\ ClearOrder[3] = "nav" /\ ClearOrder[4] = "completeness"
      BY DEF ClearOrder
    <2> QED
      BY <1>3, <2>1
  <1>5. Gone(r) = {x \in rows : x.day \in Scope(statement[r], x.table)}
    BY <1>1, <1>4 DEF Gone
  <1> QED
    BY <1>1, <1>2, <1>5 DEF View, Stores

-----------------------------------------------------------------------------
(* What completeness says *)

LEMMA NextTold ==
    ASSUME TypeOK, TypeOK', \A q \in Runs : RunStage(q), OwnerWorks, WorksAlone, FactsAreTold,
           [Next]_vars
    PROVE  FactsAreTold'
  <1> SUFFICES ASSUME overtaken' = {}, NEW x \in rows', x.table \in FactTables
               PROVE  \E c \in rows' : c.table = "completeness" /\ c.day = x.day
    BY DEF FactsAreTold
  <1>0. overtaken = {}
    BY NextOwner
  <1>1. CASE UNCHANGED rows
    BY <1>0, <1>1 DEF FactsAreTold
  <1>2. ASSUME NEW w \in Window, MoveWindow(w)
        PROVE  \E c \in rows' : c.table = "completeness" /\ c.day = x.day
    <2>1. rows' = {Restamp(y, w) : y \in rows} /\ rows \subseteq Row
      BY <1>2 DEF MoveWindow, TypeOK
    <2>2. PICK y \in rows : x = Restamp(y, w)
      BY <2>1
    <2>3. y.table \in FactTables /\ y.day = x.day
      BY <2>1, <2>2, RestampIs
    <2>4. PICK c \in rows : c.table = "completeness" /\ c.day = y.day
      BY <1>0, <2>3 DEF FactsAreTold
    <2>5. Restamp(c, w) = c
      BY <2>1, <2>4, RestampIs
    <2> QED
      BY <2>1, <2>3, <2>4, <2>5
  <1>3. ASSUME NEW r \in Runs, Reject(r)
        PROVE  \E c \in rows' : c.table = "completeness" /\ c.day = x.day
    <2>1. rows' = rows \cup {FailedRow(r)} /\ FailedRow(r).table \notin FactTables
      BY <1>3, FailedRowIs DEF Reject, FactTables
    <2> QED
      BY <1>0, <2>1 DEF FactsAreTold
  <1>4. ASSUME NEW r \in Runs, Stores(r)
        PROVE  \E c \in rows' : c.table = "completeness" /\ c.day = x.day
    <2> DEFINE s == statement[r]
               left == {y \in rows : y.day \notin Scope(s, y.table)}
    <2>1. rows' = left \cup NewFacts(r, authority[r]) \cup NewCompleteness(r) /\ s \in Statements
      BY <1>0, <1>4, StoredRows DEF TypeOK
    <2>2. CASE x.day \in Scope(s, "completeness")
      BY <2>1, <2>2, NewCompletenessIs
    <2>3. CASE x.day \notin Scope(s, "completeness")
      <3>1. x \notin NewFacts(r, authority[r])
        BY <2>1, <2>3, NewFactsAre, ScopesNest
      <3>2. x \in rows
        BY <2>1, <3>1, NewCompletenessIs DEF FactTables
      <3>3. PICK c \in rows : c.table = "completeness" /\ c.day = x.day
        BY <1>0, <3>2 DEF FactsAreTold
      <3> QED
        BY <2>1, <2>3, <3>3
    <2> QED
      BY <2>2, <2>3
  <1> QED
    BY <1>1, <1>2, <1>3, <1>4, RowsMove, StepKinds

\* What CompletenessIsTrue says of one row, in terms of stored rows and of the runs' statements.
TellsTruth(c, stored, of) ==
    LET has(t) == \E x \in stored : x.table = t /\ x.day = c.day
        known(t) == has(t) \/ c.day \in Scope(of[c.run], t)
        noStock == \E x \in stored : /\ x.table = "nav" /\ x.day = c.day
                                     /\ c.day \notin of[x.run].invested
    IN  IF c.status = "failed"
        THEN \A t \in FactTables : ~has(t)
        ELSE c.status = "complete" <=> known("cash") /\ (known("positions") \/ noStock)

LEMMA TruthIs ==
    CompletenessIsTrue <=>
        (overtaken = {} => \A c \in rows : c.table = "completeness" => TellsTruth(c, rows, statement))
  BY DEF CompletenessIsTrue, TellsTruth

\* It is about the day's facts only.
LEMMA TruthKept ==
    ASSUME NEW c, NEW S, NEW T, NEW of, NEW then, TellsTruth(c, S, of),
           then[c.run] = of[c.run],
           \A x \in S : x.table \in FactTables /\ x.day = c.day =>
               \E y \in T : y.table = x.table /\ y.day = x.day /\ then[y.run] = of[x.run],
           \A y \in T : y.table \in FactTables /\ y.day = c.day =>
               \E x \in S : x.table = y.table /\ x.day = y.day /\ then[y.run] = of[x.run]
    PROVE  TellsTruth(c, T, then)
  <1>1. \A t \in FactTables : (\E x \in S : x.table = t /\ x.day = c.day)
                              <=> (\E y \in T : y.table = t /\ y.day = c.day)
    OBVIOUS
  <1>2. (\E x \in S : x.table = "nav" /\ x.day = c.day /\ c.day \notin of[x.run].invested)
        <=> (\E y \in T : y.table = "nav" /\ y.day = c.day /\ c.day \notin then[y.run].invested)
    BY DEF FactTables
  <1>3. "cash" \in FactTables /\ "positions" \in FactTables
    BY DEF FactTables
  <1> QED
    BY <1>1, <1>2, <1>3 DEF TellsTruth

\* The completeness a run stores.
LEMMA StoredTruth ==
    ASSUME TypeOK, TypeOK', NEW r \in Runs, RunStage(r), WorksAlone, overtaken = {}, Stores(r),
           NEW c \in NewCompleteness(r)
    PROVE  TellsTruth(c, rows', statement')
  <1> DEFINE s == statement[r]
             d == c.day
             left == {y \in rows : y.day \notin Scope(s, y.table)}
             has(t) == \E x \in rows' : x.table = t /\ x.day = d
             noStock == \E x \in rows' : /\ x.table = "nav" /\ x.day = d
                                         /\ d \notin statement'[x.run].invested
  <1>1. /\ View(r) = left \cup NewFacts(r, authority[r])
        /\ rows' = left \cup NewFacts(r, authority[r]) \cup NewCompleteness(r)
    BY StoredRows
  <1>2. /\ s \in Statements /\ statement' = statement /\ Valid(s)
        /\ c.run = r /\ c.table = "completeness"
        /\ d \in Scope(s, "completeness") /\ c.status = CompletenessOf(r, d)
    BY NewCompletenessIs DEF TypeOK, Stores, RunStage
  <1>3. \A t \in FactTables : has(t) <=> HasRow(r, t, d)
    BY <1>1, <1>2, NewCompletenessIs DEF HasRow, FactTables
  <1>4. c.status # "failed"
    BY <1>2 DEF CompletenessOf
  <1>5. CASE d \in Holdings(s)
    <2>1. d = s.to /\ s.to \in s.nav
      BY <1>2, <1>5, StatementIs, ScopeIs DEF Holdings
    <2>2. d \in Scope(s, "cash") /\ d \in Scope(s, "positions")
      BY <1>2, <2>1, ScopeIs
    <2>3. c.status = "complete"
      BY <1>2, <1>5 DEF CompletenessOf
    <2> QED
      BY <1>2, <2>2, <2>3 DEF TellsTruth
  <1>6. CASE d \notin Holdings(s)
    <2>1. d \notin Scope(s, "cash") /\ d \notin Scope(s, "positions") /\ d \in s.nav
      BY <1>2, <1>6, ScopeIs DEF Holdings
    <2>2. noStock <=> d \notin s.invested
      <3>1. \A x \in rows' : x.table = "nav" /\ x.day = d => x.run = r
        <4>1. \A x \in left : x.table = "nav" => x.day # d
          BY <1>2, <2>1, ScopeIs
        <4> QED
          BY <1>1, <1>2, <4>1, NewFactsAre, NewCompletenessIs
      <3>2. \E x \in rows' : x.table = "nav" /\ x.day = d
        <4>1. s["nav"] = s.nav /\ "nav" \in FactTables
          BY <1>2, StatementIs DEF FactTables
        <4> QED
          BY <1>1, <1>2, <2>1, <4>1, NewFactsAre
      <3> QED
        BY <1>2, <3>1, <3>2
    <2>3. c.status = "complete" <=>
             HasRow(r, "cash", d) /\ (HasRow(r, "positions", d) \/ d \notin s.invested)
      BY <1>2, <1>6 DEF CompletenessOf
    <2>4. "cash" \in FactTables /\ "positions" \in FactTables
      BY DEF FactTables
    <2> QED
      BY <1>2, <1>3, <1>4, <2>1, <2>2, <2>3, <2>4 DEF TellsTruth
  <1> QED
    BY <1>5, <1>6

\* A report that is refused marks a day that has no facts.
LEMMA RejectedTruth ==
    ASSUME TypeOK, NEW r \in Runs, RunStage(r), FactsAreTold, overtaken = {}, Reject(r)
    PROVE  TellsTruth(FailedRow(r), rows', statement')
  <1>1. /\ pc[r] = "locked" /\ ~Duplicate(r, {FailedRow(r)})
        /\ rows' = rows \cup {FailedRow(r)}
    BY DEF Reject
  <1>2. deleted[r] = {}
    BY <1>1 DEF RunStage
  <1>3. \A c \in rows : c.table = "completeness" => c.day # FailedRow(r).day
    BY <1>1, <1>2, FailedRowIs DEF Duplicate, SameKey
  <1>4. \A x \in rows : x.table \in FactTables => x.day # FailedRow(r).day
    BY <1>3 DEF FactsAreTold
  <1>5. \A x \in rows' : x.table \in FactTables => x.day # FailedRow(r).day
    BY <1>1, <1>4, FailedRowIs DEF FactTables
  <1> QED
    BY <1>5, FailedRowIs DEF TellsTruth

LEMMA NextTruth ==
    ASSUME TypeOK, TypeOK', \A q \in Runs : RunStage(q), RowsAreSettled, OwnerWorks, WorksAlone,
           FactsAreTold, CompletenessIsTrue, [Next]_vars
    PROVE  CompletenessIsTrue'
  <1> SUFFICES ASSUME overtaken' = {}, NEW c \in rows', c.table = "completeness"
               PROVE  TellsTruth(c, rows', statement')
    BY DEF CompletenessIsTrue, TellsTruth
  <1>0. overtaken = {}
    BY NextOwner
  <1>1. \A x \in rows : statement'[x.run] = statement[x.run]
    <2>1. \A x \in rows : x.run \in Runs /\ pc[x.run] = "done"
      BY DEF RowsAreSettled, TypeOK, Row
    <2> QED
      BY <2>1, EndedRunsStay
  <1>2. \A o \in rows : o.table = "completeness" => TellsTruth(o, rows, statement)
    BY <1>0, TruthIs
  <1>3. CASE UNCHANGED rows
    BY <1>1, <1>2, <1>3, TruthKept
  <1>4. ASSUME NEW w \in Window, MoveWindow(w) PROVE TellsTruth(c, rows', statement')
    <2>1. rows' = {Restamp(y, w) : y \in rows} /\ rows \subseteq Row
      BY <1>4 DEF MoveWindow, TypeOK
    <2>2. \A y \in rows : /\ Restamp(y, w).table = y.table /\ Restamp(y, w).day = y.day
                          /\ Restamp(y, w).run = y.run
                          /\ y.table = "completeness" => Restamp(y, w) = y
      BY <2>1, RestampIs
    <2>3. c \in rows
      BY <2>1, <2>2
    <2>4. \A x \in rows : \E y \in rows' : /\ y.table = x.table /\ y.day = x.day
                                            /\ statement'[y.run] = statement[x.run]
      BY <1>1, <2>1, <2>2
    <2>5. \A y \in rows' : \E x \in rows : /\ x.table = y.table /\ x.day = y.day
                                            /\ statement'[y.run] = statement[x.run]
      BY <1>1, <2>1, <2>2
    <2> QED
      BY <1>1, <1>2, <2>3, <2>4, <2>5, TruthKept
  <1>5. ASSUME NEW r \in Runs, Reject(r) PROVE TellsTruth(c, rows', statement')
    <2>1. rows' = rows \cup {FailedRow(r)} /\ FailedRow(r).table \notin FactTables
      BY <1>5, FailedRowIs DEF Reject, FactTables
    <2>2. CASE c = FailedRow(r)
      BY <1>0, <1>5, <2>2, RejectedTruth
    <2>3. CASE c \in rows
      BY <1>1, <1>2, <2>1, <2>3, TruthKept
    <2> QED
      BY <2>1, <2>2, <2>3
  <1>6. ASSUME NEW r \in Runs, Stores(r) PROVE TellsTruth(c, rows', statement')
    <2> DEFINE s == statement[r]
               left == {y \in rows : y.day \notin Scope(s, y.table)}
    <2>1. rows' = left \cup NewFacts(r, authority[r]) \cup NewCompleteness(r) /\ s \in Statements
      BY <1>0, <1>6, StoredRows DEF TypeOK
    <2>2. CASE c \in NewCompleteness(r)
      BY <1>0, <1>6, <2>2, StoredTruth
    <2>3. CASE c \notin NewCompleteness(r)
      <3>1. c \in left
        BY <2>1, <2>3, NewFactsAre DEF FactTables
      <3>2. \A t \in FactTables : c.day \notin Scope(s, t) /\ c.day \notin s[t]
        BY <2>1, <3>1, ScopesNest
      <3>3. \A x \in rows : x.table \in FactTables /\ x.day = c.day => x \in rows'
        BY <2>1, <3>2
      <3>4. \A y \in rows' : y.table \in FactTables /\ y.day = c.day => y \in rows
        BY <2>1, <3>2, NewFactsAre, NewCompletenessIs DEF FactTables
      <3> QED
        BY <1>1, <1>2, <3>1, <3>3, <3>4, TruthKept
    <2> QED
      BY <2>2, <2>3
  <1> QED
    BY <1>3, <1>4, <1>5, <1>6, RowsMove, StepKinds

LEMMA InitRows ==
    Init => RowsAreSettled /\ WindowIsKnown /\ StampsFollowWindow /\ FactsAreTold /\ CompletenessIsTrue
  <1> SUFFICES ASSUME Init
               PROVE  /\ RowsAreSettled /\ WindowIsKnown /\ StampsFollowWindow /\ FactsAreTold
                      /\ CompletenessIsTrue
    OBVIOUS
  <1>1. PICK kept \in {{}} \cup {{r} : r \in Past}, s \in Statements :
          /\ kept # {} => s \in Known /\ Valid(s)
          /\ statement = [r \in Runs |-> s]
          /\ window = IF kept = {} THEN NoWindow ELSE [from |-> s.from, to |-> Open]
          /\ rows = UNION {Imported(r, window) : r \in kept}
    BY DEF Init
  <1>2. Working = {}
    BY DEF Init, Working
  <1>3. CASE kept = {}
    <2>1. rows = {}
      BY <1>1, <1>3
    <2> QED
      BY <1>2, <2>1 DEF RowsAreSettled, WindowIsKnown, StampsFollowWindow, FactsAreTold,
                        CompletenessIsTrue
  <1>4. ASSUME NEW r \in Past, kept = {r}
        PROVE  /\ RowsAreSettled /\ WindowIsKnown /\ StampsFollowWindow /\ FactsAreTold
               /\ CompletenessIsTrue
    <2> DEFINE told == {[table |-> "completeness", day |-> d, run |-> r,
                         status |-> IF d \in Holdings(s) THEN "complete" ELSE "nav_only"] :
                           d \in Scope(s, "completeness")}
    <2>1. r \in Runs /\ statement[r] = s /\ pc[r] = "done" /\ Valid(s) /\ window # NoWindow
      BY <1>1, <1>4, PastAssumption, WindowAssumption, StatementIs DEF Init, Statement
    <2>2. rows = NewFacts(r, window) \cup told
      BY <1>1, <1>4, <2>1 DEF Imported
    <2>3. \A x \in NewFacts(r, window) : /\ x.table \in FactTables /\ x.run = r
                                         /\ x.day \in s[x.table]
                                         /\ x.day \in Scope(s, "completeness")
                                         /\ x.status = StatusFor(window, x.day)
      BY <2>1, NewFactsAre, ScopesNest
    <2>4. \A c \in told : /\ c.table = "completeness" /\ c.run = r
                          /\ c.day \in Scope(s, "completeness")
                          /\ c.status = IF c.day \in Holdings(s) THEN "complete" ELSE "nav_only"
      OBVIOUS
    <2>5. \A d \in Scope(s, "completeness") : \E c \in told : c.day = d
      <3>1. ASSUME NEW d \in Scope(s, "completeness") PROVE \E c \in told : c.day = d
        <4> DEFINE c == [table |-> "completeness", day |-> d, run |-> r,
                         status |-> IF d \in Holdings(s) THEN "complete" ELSE "nav_only"]
        <4>1. c \in told /\ c.day = d
          OBVIOUS
        <4> QED
          BY <4>1
      <3> QED
        BY <3>1
    <2> HIDE DEF told
    <2>6. RowsAreSettled
      BY <2>1, <2>2, <2>3, <2>4 DEF RowsAreSettled
    <2>7. WindowIsKnown
      BY <1>2, <2>1 DEF WindowIsKnown
    <2>8. StampsFollowWindow
      BY <2>2, <2>3, <2>4 DEF StampsFollowWindow, StatusFor, FactTables
    <2>9. FactsAreTold
      BY <2>2, <2>3, <2>4, <2>5 DEF FactsAreTold, FactTables
    <2>10. ASSUME NEW c \in rows, c.table = "completeness" PROVE TellsTruth(c, rows, statement)
      <3>1. c \in told
        BY <2>2, <2>3, <2>10 DEF FactTables
      <3>2. /\ Scope(s, "cash") = s.cash \cup ({s.to} \cap s.nav)
            /\ Scope(s, "positions") = s.positions \cup ({s.to} \cap s.nav)
            /\ s["cash"] = s.cash
        BY ScopeIs, StatementIs
      <3>3. CASE c.day \in Holdings(s)
        <4>1. c.day = s.to /\ s.to \in s.nav
          BY <2>1, <3>2, <3>3, StatementIs DEF Holdings
        <4> QED
          BY <2>1, <2>4, <3>1, <3>2, <3>3, <4>1 DEF TellsTruth
      <3>4. CASE c.day \notin Holdings(s)
        <4>1. c.day \notin Scope(s, "cash")
          BY <3>4 DEF Holdings
        <4>2. ~ \E x \in rows : x.table = "cash" /\ x.day = c.day
          BY <2>2, <2>3, <2>4, <3>2, <4>1
        <4>3. c.status = "nav_only" /\ c.run = r
          BY <2>4, <3>1, <3>4
        <4> QED
          BY <2>1, <4>1, <4>2, <4>3 DEF TellsTruth
      <3> QED
        BY <3>3, <3>4
    <2> QED
      BY <2>6, <2>7, <2>8, <2>9, <2>10, TruthIs
  <1> QED
    BY <1>1, <1>3, <1>4

LEMMA InitInv == Init => ImportInv
  <1> SUFFICES ASSUME Init PROVE ImportInv
    OBVIOUS
  <1>1. OwnerWorks /\ WorksAlone
    BY DEF Init, OwnerWorks, WorksAlone, Working
  <1> QED
    BY <1>1, InitType, InitStage, InitRows DEF ImportInv

LEMMA NextInv == ImportInv /\ [Next]_vars => ImportInv'
  <1> SUFFICES ASSUME ImportInv, [Next]_vars PROVE ImportInv'
    OBVIOUS
  <1> USE DEF ImportInv
  <1>1. TypeOK' /\ \A r \in Runs : RunStage(r)'
    BY NextType, NextStage
  <1>2. RowsAreSettled' /\ WindowIsKnown' /\ StampsFollowWindow'
    BY <1>1, NextSettled, NextWindow, NextStamps
  <1>3. OwnerWorks' /\ WorksAlone' /\ FactsAreTold' /\ CompletenessIsTrue'
    BY <1>1, NextOwner, NextAlone, NextTold, NextTruth
  <1> QED
    BY <1>1, <1>2, <1>3

\* What holds in every reachable state.
LEMMA AlwaysInv == Spec => []ImportInv
  BY InitInv, NextInv, PTL DEF Spec

-----------------------------------------------------------------------------
(* The theorems *)

\* Every variable keeps its type, whatever imports, crashes and moves of the window there are.
THEOREM TypeCorrect == Spec => []TypeOK
  BY AlwaysInv, PTL DEF ImportInv

\* While no live import has been taken for dead, one run at a time works on the account: the lock
\* row with its takeover excludes (_try_acquire_lock, _release_lock).
THEOREM OneImportAtATime == Spec => []ImportsExclude
  <1>1. ImportInv => ImportsExclude
    BY OneWorks DEF ImportInv
  <1> QED
    BY <1>1, AlwaysInv, PTL

\* A stored fact counts exactly when the window covers its day, whatever moved the window and
\* whichever imports ran, overtaken or not, but for those at work at the move.
THEOREM StampsAlwaysFollow == Spec => []StampsFollowWindow
  BY AlwaysInv, PTL DEF ImportInv

\* What a day's completeness says is true of its stored facts, as long as no live import is
\* overtaken, for statements that carry holdings for the end of their period only.
THEOREM CompletenessIsAlwaysTrue == Spec => []CompletenessIsTrue
  BY AlwaysInv, PTL DEF ImportInv

-----------------------------------------------------------------------------
(* BrokerFacts *)

LEMMA FactsScope == \A s, t : Facts!Scope(s, t) = Scope(s, t) /\ Facts!Valid(s) = Valid(s)
  BY DEF Facts!Scope, Scope, Facts!Valid, Valid

\* A table's facts, as BrokerFacts sees them.
Seen(t) == {[day |-> x.day, run |-> x.run] : x \in {y \in rows : y.table = t}}
Completed == {r \in Runs : status[r] = "completed"}

LEMMA SeenKept ==
    ASSUME \A t \in FactTables : Seen(t)' = Seen(t), Completed' = Completed
    PROVE  UNCHANGED Facts!vars
  BY DEF Facts!vars, Seen, Completed

LEMMA CompletedMoves ==
    ASSUME TypeOK, NEW r \in Runs, RunStage(r),
           \/ \E s \in Statements : Begin(r, s)
           \/ Step(r) \/ DatabaseError(r) \/ Crash(r),
           ~Stores(r)
    PROVE  Completed' = Completed
  <1> USE DEF dbVars, localVars, ghostVars
  <1>1. ASSUME NEW new \in {"started", "failed"}, status' = [status EXCEPT ![r] = new],
               status[r] # "completed"
        PROVE  Completed' = Completed
    BY <1>1 DEF Completed, TypeOK
  <1>2. CASE \E s \in Statements : Begin(r, s)
    BY <1>1, <1>2 DEF Begin, RunStage
  <1>3. CASE \E from \in {statement[r].from} \cup Cutovers : Acquire(r, from)
    BY <1>3 DEF Acquire, Completed
  <1>4. CASE Refuse(r)
    BY <1>1, <1>4 DEF Refuse, RunStage
  <1>5. CASE Reject(r)
    BY <1>1, <1>5 DEF Reject, RunStage, Working
  <1>6. CASE Accept(r) \/ RejectRaises(r) \/ Delete(r) \/ Resume(r) \/ Crash(r)
    BY <1>6 DEF Accept, RejectRaises, Delete, Resume, Crash, Completed
  <1>7. CASE Insert(r)
    <2>1. CASE Duplicate(r, NewFacts(r, authority[r]))
      BY <1>1, <1>7, <2>1 DEF Insert, Abort, RunStage, Working
    <2>2. CASE ~Duplicate(r, NewFacts(r, authority[r]))
      BY <1>7, <2>2 DEF Insert, Completed
    <2> QED
      BY <2>1, <2>2
  <1>8. CASE Finish(r)
    BY <1>1, <1>8 DEF Finish, Abort, Stores, RunStage, Working
  <1>9. CASE DatabaseError(r)
    BY <1>1, <1>9 DEF DatabaseError, Abort, RunStage
  <1> QED
    BY <1>2, <1>3, <1>4, <1>5, <1>6, <1>7, <1>8, <1>9 DEF Step

\* A run that stores does what BrokerFacts calls an import.
LEMMA StoresImports ==
    ASSUME TypeOK, NEW r \in Runs, RunStage(r), WorksAlone, overtaken = {}, Stores(r)
    PROVE  Facts!Import(r, statement[r])
  <1> DEFINE s == statement[r]
             left == {y \in rows : y.day \notin Scope(s, y.table)}
  <1>1. /\ s \in Statements /\ Valid(s) /\ status[r] # "completed"
        /\ status' = [status EXCEPT ![r] = "completed"]
    BY DEF TypeOK, Stores, RunStage, Working
  <1>2. r \in Runs \ Completed /\ Completed' = Completed \cup {r}
    BY <1>1 DEF Completed, TypeOK
  <1>3. rows' = left \cup NewFacts(r, authority[r]) \cup NewCompleteness(r)
    BY StoredRows
  <1>4. ASSUME NEW t \in FactTables
        PROVE  Seen(t)' = {f \in Seen(t) : f.day \notin Scope(s, t)}
                          \cup {[day |-> d, run |-> r] : d \in s[t]}
    <2>1. {x \in rows' : x.table = t} =
            {x \in left : x.table = t} \cup {x \in NewFacts(r, authority[r]) : x.table = t}
      BY <1>1, <1>3, NewCompletenessIs DEF FactTables
    <2>2. {[day |-> x.day, run |-> x.run] : x \in {y \in left : y.table = t}}
            = {f \in Seen(t) : f.day \notin Scope(s, t)}
      BY DEF Seen
    <2>3. {[day |-> x.day, run |-> x.run] : x \in {y \in NewFacts(r, authority[r]) : y.table = t}}
            = {[day |-> d, run |-> r] : d \in s[t]}
      BY <1>1, NewFactsAre
    <2> QED
      BY <2>1, <2>2, <2>3 DEF Seen
  <1> QED
    BY <1>1, <1>2, <1>4, FactsScope DEF Facts!Import, Seen, Completed, FactTables, Facts!FactTables

ImportsStatement(r) == Facts!Import(r, statement[r])

LEMMA StepImports ==
    ASSUME ImportInv, [Next]_vars
    PROVE  [overtaken' = {} => \E r \in Runs : Facts!Import(r, statement[r])]_(Facts!vars)
  <1> USE DEF ImportInv
  <1> SUFFICES \/ UNCHANGED Facts!vars
               \/ overtaken' = {} => \E r \in Runs : ImportsStatement(r)
    BY DEF ImportsStatement
  <1>1. CASE UNCHANGED rows /\ Completed' = Completed
    BY <1>1, SeenKept DEF Seen
  <1>2. ASSUME NEW w \in Window, MoveWindow(w) PROVE UNCHANGED Facts!vars
    <2>1. rows' = {Restamp(x, w) : x \in rows} /\ rows \subseteq Row /\ UNCHANGED status
      BY <1>2 DEF MoveWindow, TypeOK
    <2>2. \A x \in rows : /\ Restamp(x, w).table = x.table /\ Restamp(x, w).day = x.day
                          /\ Restamp(x, w).run = x.run
      BY <2>1, RestampIs
    <2>3. \A t \in FactTables : Seen(t)' = Seen(t)
      BY <2>1, <2>2 DEF Seen
    <2> QED
      BY <2>1, <2>3, SeenKept DEF Completed
  <1>3. ASSUME NEW r \in Runs,
               \/ \E s \in Statements : Begin(r, s)
               \/ Step(r) \/ DatabaseError(r) \/ Crash(r)
        PROVE  \/ UNCHANGED Facts!vars
               \/ overtaken' = {} => \E q \in Runs : ImportsStatement(q)
    <2>1. CASE Stores(r)
      <3>1. overtaken' = {} => overtaken = {}
        BY NextOwner, NextType
      <3>2. overtaken = {} => ImportsStatement(r)
        BY <2>1, StoresImports DEF ImportsStatement
      <3> QED
        BY <3>1, <3>2
    <2>2. CASE ~Stores(r) /\ Reject(r)
      <3>1. rows' = rows \cup {FailedRow(r)} /\ FailedRow(r).table \notin FactTables
        BY <2>2, FailedRowIs DEF Reject, FactTables
      <3>2. \A t \in FactTables : Seen(t)' = Seen(t)
        BY <3>1 DEF Seen
      <3> QED
        BY <1>3, <2>2, <3>2, CompletedMoves, SeenKept
    <2>3. CASE ~Stores(r) /\ ~Reject(r)
      <3>1. UNCHANGED rows
        BY <1>3, <2>3, RowsMove
      <3> QED
        BY <1>3, <2>3, <3>1, CompletedMoves, SeenKept DEF Seen
    <2> QED
      BY <2>1, <2>2, <2>3
  <1>4. CASE /\ \A q \in Runs : Untouched(q)
             /\ UNCHANGED rows
    <2>1. Completed' = Completed
      BY <1>4 DEF Completed, Untouched
    <2> QED
      BY <1>1, <1>4, <2>1
  <1> QED
    BY <1>2, <1>3, <1>4, StepKinds

\* As long as no live import is overtaken, a step stores a whole statement or changes no fact: the
\* imports implement BrokerFacts, whatever fails and whoever dies.
THEOREM ImportsAreAlwaysAtomic == Spec => ImportsAreAtomic
  <1>1. ImportInv /\ [Next]_vars
        => [overtaken' = {} => \E r \in Runs : Facts!Import(r, statement[r])]_(Facts!vars)
    BY StepImports
  <1> QED
    BY <1>1, AlwaysInv, PTL DEF Spec, ImportsAreAtomic

(***************************************************************************)
(* FlexLines.                                                              *)
(***************************************************************************)

\* What the broker's books hold: the lines of one transaction are of one day, and there is one of
\* each; but for the ledger a transaction has one line.
BooksInOrder ==
    /\ \A l, m \in Line : l.id \in Ids /\ l.id = m.id /\ broker[l] > 0 /\ broker[m] > 0
          => l.day = m.day /\ broker[l] = 1 /\ (kind # "ledger" => l = m)
    /\ kind = "actions" =>
          \A l, m \in Line : SameValues(l, m) /\ broker[l] > 0 /\ broker[m] > 0
              => l = m /\ broker[l] = 1

LinesInv ==
    /\ kind \in Kinds
    /\ broker \in [Line -> Nat] /\ lines \in [Line -> Nat] /\ unread \subseteq Line
    /\ BooksInOrder
    /\ RowsAreTheBrokersLines

\* A set of numbers up to n that is not empty has a greatest one: the number whose distance to n
\* is the least.
LEMMA BoundedHasMax ==
    ASSUME NEW n \in Nat, NEW S \in SUBSET (0 .. n), S # {}
    PROVE  /\ Max(S) \in S
           /\ \A d \in S : d <= Max(S)
  <1> DEFINE Far == {n - d : d \in S}
  <1>1. PICK s \in S : TRUE
    OBVIOUS
  <1>2. n - s \in Far
    OBVIOUS
  <1>3. Far \subseteq Nat /\ Far # {}
    BY <1>2
  <1>4. \E x \in Far : \A y \in Far : ~ (<<y, x>> \in OpToRel(<, Nat))
    <2> HIDE DEF Far
    <2> QED
      BY <1>3, WFMin, NatLessThanWellFounded
  <1>5. PICK x \in Far : \A y \in Far : ~ (y < x)
    BY <1>3, <1>4 DEF OpToRel
  <1>6. PICK m \in S : x = n - m
    OBVIOUS
  <1>7. \A d \in S : d <= m
    <2> SUFFICES ASSUME NEW d \in S PROVE d <= m
      OBVIOUS
    <2>1. n - d \in Far
      OBVIOUS
    <2>2. ~ (n - d < n - m)
      BY <1>5, <1>6, <2>1
    <2> QED
      BY <2>2
  <1>8. \E y \in S : \A d \in S : y >= d
    BY <1>7
  <1>9. Max(S) = CHOOSE y \in S : \A d \in S : y >= d
    BY DEF Max
  <1> QED
    BY <1>8, <1>9

\* There are finitely many lines.
LEMMA LinesAreFinite == IsFiniteSet(Line)
  <1> DEFINE S == ((Ids \cup {NoId}) \X Dates) \X Texts
             f == [l \in Line |-> <<<<l.id, l.day>>, l.text>>]
  <1>1. IsFiniteSet(S)
    <2>1. IsFiniteSet(Ids \cup {NoId})
      BY LinesAssumption, FS_AddElement
    <2>2. IsFiniteSet((Ids \cup {NoId}) \X Dates)
      BY <2>1, LinesAssumption, FS_Product
    <2> QED
      BY <2>2, LinesAssumption, FS_Product
  <1>2. f \in Injection(Line, S)
    <2>1. f \in [Line -> S]
      BY DEF Line
    <2>2. ASSUME NEW a \in Line, NEW b \in Line, f[a] = f[b] PROVE a = b
      <3>1. a.id = b.id /\ a.day = b.day /\ a.text = b.text
        BY <2>2
      <3> QED
        BY <3>1 DEF Line
    <2> QED
      BY <2>1, <2>2 DEF Injection, IsInjective
  <1> QED
    <2> HIDE DEF S, f
    <2> QED
      BY <1>1, <1>2, FS_Injection

\* The copies a report lists: so many of each line of its days.
LEMMA CopiesAre ==
    ASSUME broker \in [Line -> Nat], NEW W, NEW twice
    PROVE  /\ IsFiniteSet(Copies(W, twice))
           /\ \A x : x \in Copies(W, twice) <=>
                 \E l \in Line, n \in Nat :
                    /\ x = <<l, n>> /\ l.day \in W /\ n >= 1
                    /\ n <= broker[l] + (IF l \in twice THEN 1 ELSE 0)
  <1> DEFINE of(l) == {l} \X (1 .. broker[l] + (IF l \in twice THEN 1 ELSE 0))
             D == {k \in Line : k.day \in W}
             f == [l \in D |-> of(l)]
             T == {of(l) : l \in D}
  <1>1. IsFiniteSet(D)
    BY LinesAreFinite, FS_Subset
  <1>2. f \in Surjection(D, T)
    BY DEF Surjection
  <1>3. IsFiniteSet(T)
    <2> HIDE DEF D, T, f
    <2> QED
      BY <1>1, <1>2, FS_Surjection
  <1>4. ASSUME NEW l \in D PROVE IsFiniteSet(of(l))
    <2>1. broker[l] + (IF l \in twice THEN 1 ELSE 0) \in Int
      OBVIOUS
    <2>2. IsFiniteSet(1 .. broker[l] + (IF l \in twice THEN 1 ELSE 0))
      BY <2>1, FS_Interval
    <2>3. IsFiniteSet({l})
      BY FS_Singleton
    <2> QED
      BY <2>2, <2>3, FS_Product
  <1>5. Copies(W, twice) = UNION T
    BY DEF Copies
  <1>6. IsFiniteSet(UNION T)
    <2>1. \A U \in T : IsFiniteSet(U)
      BY <1>4
    <2> HIDE DEF T
    <2> QED
      BY <1>3, <2>1, FS_UNION
  <1>7. ASSUME NEW x
        PROVE  x \in Copies(W, twice) <=>
                 \E l \in Line, n \in Nat :
                    /\ x = <<l, n>> /\ l.day \in W /\ n >= 1
                    /\ n <= broker[l] + (IF l \in twice THEN 1 ELSE 0)
    <2>1. x \in Copies(W, twice) <=> \E l \in D : x \in of(l)
      BY <1>5
    <2>2. ASSUME NEW l \in Line
          PROVE  x \in of(l) <=> \E n \in Nat : /\ x = <<l, n>> /\ n >= 1
                                   /\ n <= broker[l] + (IF l \in twice THEN 1 ELSE 0)
      <3>1. broker[l] + (IF l \in twice THEN 1 ELSE 0) \in Nat
        OBVIOUS
      <3> QED
        BY <3>1
    <2> QED
      BY <2>1, <2>2
  <1> QED
    BY <1>5, <1>6, <1>7

\* A listing has every copy once.
LEMMA ListingsAre ==
    ASSUME broker \in [Line -> Nat], NEW W, NEW twice, NEW report \in Listings(W, twice)
    PROVE  \E s : /\ s \in Bijection(DOMAIN report, Copies(W, twice))
                  /\ report \in Seq(Line)
                  /\ \A n \in DOMAIN report : report[n] = s[n][1]
  <1> DEFINE C == Copies(W, twice)
             D == 1 .. Cardinality(C)
  <1>1. IsFiniteSet(C) /\ Cardinality(C) \in Nat
    BY CopiesAre, FS_CardinalityType
  <1>2. PICK s \in [D -> C] : /\ \A i, j \in D : i # j => s[i] # s[j]
                              /\ report = [n \in DOMAIN s |-> s[n][1]]
    BY DEF Listings, SetToSeqs
  <1>3. s \in Injection(D, C)
    BY <1>2 DEF Injection, IsInjective
  <1>4. Cardinality(D) = Cardinality(C)
    BY <1>1, FS_Interval
  <1>5. s \in Surjection(D, C)
    <2> HIDE DEF D, C
    <2> QED
      BY <1>1, <1>3, <1>4, FS_Injection
  <1>6. DOMAIN report = D
    BY <1>2
  <1>7. \A n \in D : report[n] = s[n][1] /\ s[n][1] \in Line
    <2>1. ASSUME NEW n \in D PROVE s[n][1] \in Line
      <3>1. s[n] \in C
        BY <1>2
      <3> QED
        BY <3>1, CopiesAre
    <2> QED
      BY <1>2, <2>1
  <1>8. report \in Seq(Line)
    <2>1. report = [n \in 1 .. Cardinality(C) |-> report[n]]
      BY <1>2
    <2> QED
      BY <1>1, <1>7, <2>1
  <1> QED
    BY <1>3, <1>5, <1>6, <1>7, <1>8 DEF Bijection

\* A report of some days has every line of them, those without an id as often as they are booked.
LEMMA ReportsAre ==
    ASSUME broker \in [Line -> Nat], NEW W, NEW twice \in Repeated(W),
           NEW report \in Listings(W, twice)
    PROVE  /\ report \in Seq(Line)
           /\ \A n \in DOMAIN report : report[n].day \in W /\ broker[report[n]] > 0
           /\ \A l \in Line : l.day \in W /\ broker[l] > 0 => \E n \in DOMAIN report : report[n] = l
           /\ \A l \in Line : Times(report, l) \in Nat
                              /\ (Times(report, l) > 0 <=> \E n \in DOMAIN report : report[n] = l)
           /\ \A l \in Of(NoId) : l.day \in W => Times(report, l) = broker[l]
  <1> DEFINE C == Copies(W, twice)
             more(l) == IF l \in twice THEN 1 ELSE 0
  <1>1. PICK s : /\ s \in Bijection(DOMAIN report, C)
                 /\ report \in Seq(Line)
                 /\ \A n \in DOMAIN report : report[n] = s[n][1]
    BY ListingsAre
  <1>2. /\ \A n \in DOMAIN report : s[n] \in C
        /\ \A x \in C : \E n \in DOMAIN report : s[n] = x
        /\ \A m, n \in DOMAIN report : s[m] = s[n] => m = n
        /\ s \in [DOMAIN report -> C]
    BY <1>1 DEF Bijection, Injection, Surjection, IsInjective
  <1> HIDE DEF C
  <1>3. \A x : x \in C <=> \E l \in Line, n \in Nat : /\ x = <<l, n>> /\ l.day \in W /\ n >= 1
                                                       /\ n <= broker[l] + more(l)
    BY CopiesAre DEF C
  <1>4. \A l \in twice : l \in Line /\ broker[l] > 0 /\ l.id # NoId
    BY DEF Repeated
  <1>5. \A n \in DOMAIN report : report[n].day \in W /\ broker[report[n]] > 0
    <2> TAKE n \in DOMAIN report
    <2>1. PICK l \in Line, k \in Nat : /\ s[n] = <<l, k>> /\ l.day \in W /\ k >= 1
                                       /\ k <= broker[l] + more(l)
      BY <1>2, <1>3
    <2>2. report[n] = l
      BY <1>1, <2>1
    <2>3. broker[l] \in Nat
      OBVIOUS
    <2> QED
      BY <1>4, <2>1, <2>2, <2>3
  <1>6. ASSUME NEW l \in Line, l.day \in W, broker[l] > 0
        PROVE  \E n \in DOMAIN report : report[n] = l
    <2>1. <<l, 1>> \in C
      BY <1>3, <1>6
    <2>2. PICK n \in DOMAIN report : s[n] = <<l, 1>>
      BY <1>2, <2>1
    <2> QED
      BY <1>1, <2>2
  <1>7. ASSUME NEW l \in Line
        PROVE  /\ Times(report, l) \in Nat
               /\ Times(report, l) > 0 <=> \E n \in DOMAIN report : report[n] = l
    <2> DEFINE U == {n \in DOMAIN report : report[n] = l}
    <2>1. IsFiniteSet(DOMAIN report)
      <3>1. DOMAIN report = 1 .. Len(report) /\ Len(report) \in Nat
        BY <1>1
      <3> QED
        BY <3>1, FS_Interval
    <2>2. IsFiniteSet(U)
      BY <2>1, FS_Subset
    <2>3. Cardinality(U) \in Nat /\ (Cardinality(U) = 0 <=> U = {})
      <3> HIDE DEF U
      <3> QED
        BY <2>2, FS_CardinalityType, FS_EmptySet
    <2> QED
      BY <2>3 DEF Times
  <1>8. ASSUME NEW l \in Of(NoId), l.day \in W
        PROVE  Times(report, l) = broker[l]
    <2> DEFINE U == {n \in DOMAIN report : report[n] = l}
               K == 1 .. broker[l]
               f == [n \in U |-> s[n][2]]
    <2>0. l \in Line /\ broker[l] \in Nat /\ more(l) = 0
      BY <1>4 DEF Of
    <2>1. ASSUME NEW n \in U PROVE s[n] = <<l, s[n][2]>> /\ s[n][2] \in K
      <3>1. PICK k \in Line, i \in Nat : /\ s[n] = <<k, i>> /\ k.day \in W /\ i >= 1
                                         /\ i <= broker[k] + more(k)
        BY <1>2, <1>3
      <3>2. k = l
        BY <1>1, <3>1
      <3> QED
        BY <2>0, <3>1, <3>2
    <2>2. f \in Injection(U, K)
      <3>1. \A m, n \in U : f[m] = f[n] => m = n
        BY <1>2, <2>1
      <3> QED
        BY <2>1, <3>1 DEF Injection, IsInjective
    <2>3. f \in Surjection(U, K)
      <3>1. ASSUME NEW k \in K PROVE \E n \in U : f[n] = k
        <4>1. <<l, k>> \in C
          BY <1>3, <1>8, <2>0
        <4>2. PICK n \in DOMAIN report : s[n] = <<l, k>>
          BY <1>2, <4>1
        <4>3. n \in U
          BY <1>1, <4>2
        <4> QED
          BY <4>2, <4>3
      <3> QED
        BY <2>1, <3>1 DEF Surjection
    <2>4. IsFiniteSet(K) /\ Cardinality(K) = broker[l]
      BY <2>0, FS_Interval
    <2>5. Cardinality(U) = Cardinality(K)
      <3> HIDE DEF U, K, f
      <3> QED
        BY <2>2, <2>3, <2>4, FS_Injection
    <2> QED
      BY <2>4, <2>5 DEF Times
  <1> QED
    BY <1>1, <1>5, <1>6, <1>7, <1>8

\* What a statement's import makes of the rows: those of the lines it has are the broker's, all
\* others stay, but for actions alike one without an id.
LEMMA ImportsReplace ==
    ASSUME LinesInv, NEW W, NEW twice \in Repeated(W), NEW report \in Listings(W, twice)
    PROVE  /\ After(lines, report) \in [Line -> Nat]
           /\ \A l \in Of(NoId) :
                 After(lines, report)[l] = IF l.day \in W /\ broker[l] > 0 THEN broker[l] ELSE lines[l]
           /\ \A l \in Line : l.id \in Ids /\ Lists(report, l.id) => After(lines, report)[l] = broker[l]
           /\ \A l \in Line : l.id \in Ids /\ ~Lists(report, l.id) =>
                 \/ After(lines, report)[l] = lines[l]
                 \/ After(lines, report)[l] = 0 /\ broker[l] = 0
  <1> DEFINE after == After(lines, report)
             has(l) == \E n \in DOMAIN report : report[n] = l
  <1>0. /\ broker \in [Line -> Nat] /\ lines \in [Line -> Nat] /\ kind \in Kinds
        /\ NoId \notin Ids
    BY LinesAssumption DEF LinesInv
  <1>1. /\ report \in Seq(Line)
        /\ \A n \in DOMAIN report : report[n] \in Line /\ report[n].day \in W /\ broker[report[n]] > 0
        /\ \A l \in Line : l.day \in W /\ broker[l] > 0 => has(l)
        /\ \A l \in Line : Times(report, l) \in Nat /\ (Times(report, l) > 0 <=> has(l))
        /\ \A l \in Of(NoId) : l.day \in W => Times(report, l) = broker[l]
    BY <1>0, ReportsAre
  <1>2. ASSUME NEW l \in Of(NoId)
        PROVE  /\ l \in Line /\ l.id = NoId /\ l.id \notin Ids
               /\ has(l) <=> l.day \in W /\ broker[l] > 0
    BY <1>0, <1>1 DEF Of
  \* A transaction the report has: its line there is the line the broker has of it.
  <1>3. ASSUME NEW l \in Line, l.id \in Ids, NEW n \in DOMAIN report, report[n].id = l.id
        PROVE  /\ report[n] \in Line /\ broker[report[n]] = 1
               /\ broker[l] > 0 => l.day \in W /\ broker[l] = 1 /\ has(l)
               /\ kind # "ledger" /\ broker[l] > 0 => report[n] = l
    <2>1. report[n] \in Line /\ report[n].day \in W /\ broker[report[n]] > 0
      BY <1>1
    <2>2. broker[report[n]] = 1
      BY <1>3, <2>1 DEF LinesInv, BooksInOrder
    <2>3. broker[l] > 0 => l.day = report[n].day /\ broker[l] = 1 /\ (kind # "ledger" => report[n] = l)
      BY <1>3, <2>1 DEF LinesInv, BooksInOrder
    <2> QED
      BY <1>1, <2>1, <2>2, <2>3
  <1>4. ASSUME NEW l \in Line PROVE broker[l] \in Nat /\ lines[l] \in Nat /\ (broker[l] > 0 <=> broker[l] # 0)
    BY <1>0
  <1>5. CASE kind = "ledger"
    <2>1. after = AfterLedger(lines, report)
      BY <1>5 DEF After
    <2>2. after \in [Line -> Nat]
      BY <1>1, <1>4, <2>1 DEF AfterLedger
    <2>3. ASSUME NEW l \in Of(NoId)
          PROVE  after[l] = IF l.day \in W /\ broker[l] > 0 THEN broker[l] ELSE lines[l]
      <3>1. after[l] = IF Times(report, l) > 0 THEN Times(report, l) ELSE lines[l]
        BY <1>2, <2>1 DEF AfterLedger
      <3> QED
        BY <1>1, <1>2, <3>1
    <2>4. ASSUME NEW l \in Line, l.id \in Ids, Lists(report, l.id)
          PROVE  after[l] = broker[l]
      <3>1. after[l] = IF Times(report, l) > 0 THEN 1 ELSE 0
        BY <1>0, <2>1, <2>4 DEF AfterLedger
      <3>2. PICK n \in DOMAIN report : report[n].id = l.id
        BY <2>4 DEF Lists
      <3>3. broker[l] > 0 => broker[l] = 1 /\ has(l)
        BY <1>3, <2>4, <3>2
      <3>4. has(l) => broker[l] > 0
        BY <1>1
      <3> QED
        BY <1>1, <1>4, <3>1, <3>3, <3>4
    <2>5. ASSUME NEW l \in Line, l.id \in Ids, ~Lists(report, l.id)
          PROVE  after[l] = lines[l]
      BY <1>0, <2>1, <2>5 DEF AfterLedger
    <2> QED
      BY <2>2, <2>3, <2>4, <2>5
  <1>6. CASE kind = "trades"
    <2>1. after = AfterTrades(lines, report)
      BY <1>6 DEF After
    <2>2. after \in [Line -> Nat]
      BY <1>1, <1>4, <2>1 DEF AfterTrades
    <2>3. ASSUME NEW l \in Of(NoId)
          PROVE  after[l] = IF l.day \in W /\ broker[l] > 0 THEN broker[l] ELSE lines[l]
      <3>1. after[l] = IF Times(report, l) > 0 THEN Times(report, l) ELSE lines[l]
        BY <1>2, <2>1 DEF AfterTrades
      <3> QED
        BY <1>1, <1>2, <3>1
    <2>4. ASSUME NEW l \in Line, l.id \in Ids, Lists(report, l.id)
          PROVE  after[l] = broker[l]
      <3> DEFINE I == {n \in 1 .. Len(report) : report[n].id = l.id}
      <3>1. I # {} /\ I \in SUBSET (0 .. Len(report)) /\ Len(report) \in Nat
            /\ I \subseteq DOMAIN report
        BY <1>1, <2>4 DEF Lists
      <3>2. Max(I) \in I
        <4> HIDE DEF I
        <4> QED
          BY <3>1, BoundedHasMax
      <3>3. after[l] = IF report[Max(I)] = l THEN 1 ELSE 0
        BY <1>0, <2>1, <2>4, <3>1 DEF AfterTrades, SelectLastInSeq
      <3>4. PICK n \in I : n = Max(I)
        BY <3>2
      <3>5. n \in DOMAIN report /\ report[n].id = l.id
        BY <3>1
      <3>6. broker[report[n]] = 1 /\ (broker[l] > 0 => report[n] = l)
        BY <1>3, <1>6, <2>4, <3>5
      <3> HIDE DEF I
      <3> QED
        BY <1>4, <3>3, <3>4, <3>6
    <2>5. ASSUME NEW l \in Line, l.id \in Ids, ~Lists(report, l.id)
          PROVE  after[l] = lines[l]
      BY <1>0, <2>1, <2>5 DEF AfterTrades
    <2> QED
      BY <2>2, <2>3, <2>4, <2>5
  <1>7. CASE kind = "actions"
    <2>1. after = AfterActions(lines, report)
      BY <1>7 DEF After
    <2> DEFINE I(l) == {n \in 1 .. Len(report) : Replaces(report[n], l)}
    <2>2. ASSUME NEW l \in Line
          PROVE  /\ I(l) \subseteq DOMAIN report
                 /\ I(l) = {} => after[l] = lines[l]
                 /\ I(l) # {} => \E n \in I(l) : after[l] = IF report[n] = l THEN 1 ELSE 0
      <3>1. I(l) \in SUBSET (0 .. Len(report)) /\ Len(report) \in Nat /\ I(l) \subseteq DOMAIN report
        BY <1>1
      <3>2. CASE I(l) = {}
        BY <2>1, <3>1, <3>2 DEF AfterActions, SelectLastInSeq
      <3>3. CASE I(l) # {}
        <4>1. Max(I(l)) \in I(l)
          <5> HIDE DEF I
          <5> QED
            BY <3>1, <3>3, BoundedHasMax
        <4>2. Max(I(l)) # 0
          BY <4>1
        <4>3. after[l] = IF report[Max(I(l))] = l THEN 1 ELSE 0
          BY <2>1, <3>3, <4>2 DEF AfterActions, SelectLastInSeq
        <4> HIDE DEF I
        <4> QED
          BY <3>1, <3>3, <4>1, <4>3
      <3> QED
        BY <3>2, <3>3
    <2>3. after \in [Line -> Nat]
      <3>1. after = [l \in Line |-> after[l]]
        BY <2>1 DEF AfterActions
      <3>2. \A l \in Line : after[l] \in Nat
        BY <1>4, <2>2
      <3> HIDE DEF after
      <3> QED
        BY <3>1, <3>2
    <2>4. ASSUME NEW l \in Of(NoId)
          PROVE  after[l] = IF l.day \in W /\ broker[l] > 0 THEN broker[l] ELSE lines[l]
      <3>1. ASSUME NEW n \in I(l) PROVE report[n] = l
        <4>1. report[n] \in Line /\ Replaces(report[n], l)
          BY <1>1, <1>2, <2>2
        <4>2. report[n].id = NoId /\ report[n].day = l.day /\ report[n].text = l.text
          BY <1>2, <4>1 DEF Replaces, SameValues, Line
        <4> QED
          BY <1>2, <4>1, <4>2 DEF Line
      <3>2. has(l) <=> I(l) # {}
        <4>1. ASSUME NEW n \in DOMAIN report, report[n] = l PROVE n \in I(l)
          <5>1. n \in 1 .. Len(report)
            BY <1>1
          <5> QED
            BY <1>2, <4>1, <5>1 DEF Replaces, SameValues
        <4> QED
          BY <1>2, <2>2, <3>1, <4>1
      <3>3. broker[l] > 0 => broker[l] = 1
        BY <1>2, <1>7 DEF LinesInv, BooksInOrder, SameValues
      <3> HIDE DEF I, after
      <3> QED
        BY <1>2, <2>2, <3>1, <3>2, <3>3
    \* A row that gives way to another transaction's line gives way to one alike, so it is none
    \* of the broker's.
    <2>5. ASSUME NEW l \in Line, l.id \in Ids, NEW n \in I(l), report[n].id # l.id
          PROVE  broker[l] = 0
      <3>1. report[n] \in Line /\ broker[report[n]] > 0 /\ Replaces(report[n], l)
        BY <1>1, <2>2
      <3>2. SameValues(l, report[n])
        BY <2>5, <3>1 DEF Replaces
      <3>3. broker[l] > 0 => l = report[n]
        BY <1>7, <3>1, <3>2 DEF LinesInv, BooksInOrder
      <3> QED
        BY <1>4, <2>5, <3>3
    <2>6. ASSUME NEW l \in Line, l.id \in Ids, Lists(report, l.id)
          PROVE  after[l] = broker[l]
      <3>1. PICK k \in DOMAIN report : report[k].id = l.id
        BY <2>6 DEF Lists
      <3>2. k \in I(l)
        <4>1. k \in 1 .. Len(report)
          BY <1>1
        <4> QED
          BY <1>0, <2>6, <3>1, <4>1 DEF Replaces
      <3>3. PICK n \in I(l) : after[l] = IF report[n] = l THEN 1 ELSE 0
        BY <2>2, <3>2
      <3>4. CASE report[n].id # l.id
        BY <2>5, <2>6, <3>3, <3>4
      <3>5. CASE report[n].id = l.id
        <4>1. n \in DOMAIN report
          BY <2>2
        <4>2. broker[report[n]] = 1 /\ (broker[l] > 0 => report[n] = l)
          BY <1>3, <1>7, <2>6, <3>5, <4>1
        <4> HIDE DEF after
        <4> QED
          BY <1>4, <3>3, <4>2
      <3> QED
        BY <3>4, <3>5
    <2>7. ASSUME NEW l \in Line, l.id \in Ids, ~Lists(report, l.id)
          PROVE  after[l] = lines[l] \/ (after[l] = 0 /\ broker[l] = 0)
      <3>1. CASE I(l) = {}
        BY <2>2, <3>1
      <3>2. CASE I(l) # {}
        <4>1. PICK n \in I(l) : after[l] = IF report[n] = l THEN 1 ELSE 0
          BY <2>2, <3>2
        <4>2. report[n].id # l.id
          BY <2>2, <2>7 DEF Lists
        <4>3. broker[l] = 0
          BY <2>5, <2>7, <4>2
        <4> HIDE DEF after, I
        <4> QED
          BY <4>1, <4>2, <4>3
      <3> QED
        BY <3>1, <3>2
    <2> QED
      BY <2>3, <2>4, <2>6, <2>7
  <1> QED
    BY <1>0, <1>5, <1>6, <1>7 DEF Kinds

\* The broker books and books again: the books stay in order.
LEMMA BooksStayInOrder ==
    ASSUME LinesInv, NEW i \in Ids, NEW d \in Dates, NEW body \in Bodies(i, d), MayBook(body)
    PROVE  /\ Rebook(i, body) \in [Line -> Nat]
           /\ \A l \in Line : Rebook(i, body)[l] =
                 IF l.id = i THEN IF l \in body THEN 1 ELSE 0 ELSE broker[l]
           /\ body \subseteq Of(i)
           /\ \A l, m \in body : l.day = m.day /\ (kind # "ledger" => l = m)
           /\ kind = "actions" => \A l \in body, m \in Line :
                  SameValues(l, m) /\ l.id # m.id => broker[m] = 0
  <1>1. PICK T \in SUBSET Texts : /\ body = {[id |-> i, day |-> d, text |-> t] : t \in T}
                                  /\ T # {} /\ (Cardinality(T) = 1 \/ kind = "ledger")
    BY DEF Bodies
  <1>2. body \subseteq Of(i)
    BY <1>1 DEF Of, Line
  <1>3. ASSUME kind # "ledger", NEW l \in body, NEW m \in body PROVE l = m
    <2>1. IsFiniteSet(T)
      BY LinesAssumption, FS_Subset
    <2>2. PICK t : T = {t}
      BY <1>1, <1>3, <2>1, FS_Singleton
    <2> QED
      BY <1>1, <2>2
  <1>4. Rebook(i, body) \in [Line -> Nat]
    BY DEF Rebook, LinesInv
  <1> QED
    BY <1>1, <1>2, <1>3, <1>4 DEF Rebook, MayBook

LEMMA LinesInvHolds == LinesSpec => []LinesInv
  <1>1. LinesInit => LinesInv
    BY DEF LinesInit, LinesInv, BooksInOrder, RowsAreTheBrokersLines, Of
  <1>2. LinesInv /\ [LinesNext]_linesVars => LinesInv'
    <2> SUFFICES ASSUME LinesInv, [LinesNext]_linesVars PROVE LinesInv'
      OBVIOUS
    <2>0. /\ broker \in [Line -> Nat] /\ lines \in [Line -> Nat] /\ unread \subseteq Line
          /\ kind \in Kinds /\ NoId \notin Ids
      BY LinesAssumption DEF LinesInv
    <2>1. ASSUME NEW i \in Ids, NEW d \in Dates, NEW body \in Bodies(i, d), Issue(i, body)
          PROVE  LinesInv'
      <3>1. /\ MayBook(body) /\ broker' = Rebook(i, body) /\ unread' = unread \cup Of(i)
            /\ kind' = kind /\ lines' = lines
        BY <2>1 DEF Issue
      <3>2. /\ broker' \in [Line -> Nat]
            /\ \A l \in Line : broker'[l] = IF l.id = i THEN IF l \in body THEN 1 ELSE 0 ELSE broker[l]
            /\ body \subseteq Of(i)
            /\ \A l, m \in body : l.day = m.day /\ (kind # "ledger" => l = m)
            /\ kind = "actions" => \A l \in body, m \in Line :
                  SameValues(l, m) /\ l.id # m.id => broker[m] = 0
        BY <3>1, BooksStayInOrder
      <3>3. BooksInOrder'
        <4>1. ASSUME NEW l \in Line, NEW m \in Line, l.id \in Ids, l.id = m.id, broker'[l] > 0, broker'[m] > 0
              PROVE  l.day = m.day /\ broker'[l] = 1 /\ (kind # "ledger" => l = m)
          <5>1. CASE l.id = i
            <6>1. broker'[l] = (IF l \in body THEN 1 ELSE 0) /\ broker'[m] = (IF m \in body THEN 1 ELSE 0)
              BY <3>2, <4>1, <5>1
            <6>2. l \in body /\ m \in body /\ broker'[l] = 1
              BY <4>1, <6>1
            <6> QED
              BY <3>2, <6>2
          <5>2. CASE l.id # i
            BY <3>2, <4>1, <5>2 DEF LinesInv, BooksInOrder
          <5> QED
            BY <5>1, <5>2
        <4>2. ASSUME kind = "actions", NEW l \in Line, NEW m \in Line, SameValues(l, m),
                     broker'[l] > 0, broker'[m] > 0
              PROVE  l = m /\ broker'[l] = 1
          <5>1. CASE l.id # i /\ m.id # i
            BY <3>2, <4>2, <5>1 DEF LinesInv, BooksInOrder
          <5>2. CASE l.id = i /\ m.id = i
            BY <3>2, <4>2, <5>2
          <5>3. CASE l.id = i /\ m.id # i
            BY <3>2, <4>2, <5>3
          <5>4. CASE l.id # i /\ m.id = i
            <6>1. SameValues(m, l)
              BY <4>2 DEF SameValues
            <6> QED
              BY <3>2, <4>2, <5>4, <6>1
          <5> QED
            BY <5>1, <5>2, <5>3, <5>4
        <4> QED
          BY <3>1, <4>1, <4>2 DEF BooksInOrder
      <3>4. RowsAreTheBrokersLines'
        <4>1. ASSUME NEW l \in Line, l \notin unread' PROVE lines[l] = broker'[l]
          <5>1. l \notin unread /\ l.id # i
            BY <3>1, <4>1 DEF Of
          <5> QED
            BY <3>2, <5>1 DEF LinesInv, RowsAreTheBrokersLines
        <4>2. ASSUME NEW l \in Of(NoId) PROVE lines[l] <= broker'[l]
          <5>1. l \in Line /\ l.id # i
            BY <2>0 DEF Of
          <5> QED
            BY <3>2, <5>1 DEF LinesInv, RowsAreTheBrokersLines
        <4>3. \A j \in Ids : \A l, m \in Of(j) :
                 lines[l] > 0 /\ lines[m] > 0 => l.day = m.day /\ lines[l] = 1
          BY DEF LinesInv, RowsAreTheBrokersLines
        <4> QED
          BY <3>1, <4>1, <4>2, <4>3 DEF RowsAreTheBrokersLines, Of
      <3>5. unread' \subseteq Line
        BY <2>0, <3>1 DEF Of
      <3> QED
        BY <2>0, <3>1, <3>2, <3>3, <3>4, <3>5 DEF LinesInv
    <2>2. ASSUME NEW c \in Of(NoId), Charge(c) PROVE LinesInv'
      <3>1. /\ MayBook({c}) /\ (kind = "actions" => broker[c] = 0)
            /\ broker' = [broker EXCEPT ![c] = broker[c] + 1] /\ unread' = unread \cup {c}
            /\ kind' = kind /\ lines' = lines
        BY <2>2 DEF Charge
      <3>2. c \in Line /\ c.id = NoId
        BY DEF Of
      <3>3. /\ broker' \in [Line -> Nat]
            /\ \A l \in Line : broker'[l] = IF l = c THEN broker[l] + 1 ELSE broker[l]
        BY <2>0, <3>1, <3>2
      <3>4. BooksInOrder'
        <4>1. ASSUME NEW l \in Line, NEW m \in Line, l.id \in Ids, l.id = m.id, broker'[l] > 0, broker'[m] > 0
              PROVE  l.day = m.day /\ broker'[l] = 1 /\ (kind # "ledger" => l = m)
          <5>1. l # c /\ m # c
            BY <2>0, <3>2, <4>1
          <5> QED
            BY <3>3, <4>1, <5>1 DEF LinesInv, BooksInOrder
        <4>2. ASSUME kind = "actions", NEW l \in Line, NEW m \in Line, SameValues(l, m),
                     broker'[l] > 0, broker'[m] > 0
              PROVE  l = m /\ broker'[l] = 1
          <5>1. \A k \in Line : SameValues(c, k) /\ k.id # c.id => broker[k] = 0
            BY <3>1, <4>2 DEF MayBook
          <5>2. \A k \in Line : SameValues(c, k) /\ k.id = c.id => k = c
            BY <3>2 DEF SameValues, Line
          <5>3. CASE l # c /\ m # c
            BY <3>3, <4>2, <5>3 DEF LinesInv, BooksInOrder
          <5>4. CASE l = c
            BY <2>0, <3>1, <3>3, <4>2, <5>1, <5>2, <5>4
          <5>5. CASE m = c
            <6>1. SameValues(c, l)
              BY <4>2, <5>5 DEF SameValues
            <6> QED
              BY <2>0, <3>1, <3>3, <4>2, <5>1, <5>2, <5>5, <6>1
          <5> QED
            BY <5>3, <5>4, <5>5
        <4> QED
          BY <3>1, <4>1, <4>2 DEF BooksInOrder
      <3>5. RowsAreTheBrokersLines'
        <4>1. ASSUME NEW l \in Line, l \notin unread' PROVE lines[l] = broker'[l]
          BY <3>1, <3>3, <4>1 DEF LinesInv, RowsAreTheBrokersLines
        <4>2. ASSUME NEW l \in Of(NoId) PROVE lines[l] <= broker'[l]
          <5>1. l \in Line /\ lines[l] <= broker[l] /\ lines[l] \in Nat /\ broker[l] \in Nat
            BY <2>0 DEF LinesInv, RowsAreTheBrokersLines, Of
          <5> QED
            BY <3>3, <5>1
        <4>3. \A j \in Ids : \A l, m \in Of(j) :
                 lines[l] > 0 /\ lines[m] > 0 => l.day = m.day /\ lines[l] = 1
          BY DEF LinesInv, RowsAreTheBrokersLines
        <4> QED
          BY <3>1, <4>1, <4>2, <4>3 DEF RowsAreTheBrokersLines, Of
      <3> QED
        BY <2>0, <3>1, <3>2, <3>3, <3>4, <3>5 DEF LinesInv
    <2>3. ASSUME NEW W \in (SUBSET Dates) \ {{}}, NEW twice \in Repeated(W),
                 NEW report \in Listings(W, twice), Import(W, report)
          PROVE  LinesInv'
      <3>1. /\ lines' = After(lines, report) /\ kind' = kind /\ broker' = broker
            /\ unread' = {l \in unread : IF l.id = NoId THEN l.day \notin W ELSE ~Lists(report, l.id)}
        BY <2>3 DEF Import
      <3>2. /\ lines' \in [Line -> Nat]
            /\ \A l \in Of(NoId) :
                  lines'[l] = IF l.day \in W /\ broker[l] > 0 THEN broker[l] ELSE lines[l]
            /\ \A l \in Line : l.id \in Ids /\ Lists(report, l.id) => lines'[l] = broker[l]
            /\ \A l \in Line : l.id \in Ids /\ ~Lists(report, l.id) =>
                  lines'[l] = lines[l] \/ (lines'[l] = 0 /\ broker[l] = 0)
        BY <3>1, ImportsReplace
      <3>3. BooksInOrder'
        BY <3>1 DEF LinesInv, BooksInOrder
      <3>4. RowsAreTheBrokersLines'
        <4>1. ASSUME NEW l \in Line, l \notin unread' PROVE lines'[l] = broker[l]
          <5>1. CASE l.id = NoId
            <6>1. l \in Of(NoId) /\ lines[l] <= broker[l] /\ lines[l] \in Nat /\ broker[l] \in Nat
              BY <2>0, <5>1 DEF LinesInv, RowsAreTheBrokersLines, Of
            <6>2. l \notin unread => lines[l] = broker[l]
              BY DEF LinesInv, RowsAreTheBrokersLines
            <6>3. l \notin unread \/ l.day \in W
              BY <3>1, <4>1, <5>1
            <6> QED
              BY <3>2, <6>1, <6>2, <6>3
          <5>2. CASE l.id \in Ids
            <6>1. l \notin unread => lines[l] = broker[l]
              BY DEF LinesInv, RowsAreTheBrokersLines
            <6>2. l \notin unread \/ Lists(report, l.id)
              BY <2>0, <3>1, <4>1, <5>2
            <6> QED
              BY <3>2, <5>2, <6>1, <6>2
          <5> QED
            BY <5>1, <5>2 DEF Line
        <4>2. ASSUME NEW l \in Of(NoId) PROVE lines'[l] <= broker[l]
          <5>1. lines[l] <= broker[l] /\ broker[l] \in Nat
            BY <2>0 DEF LinesInv, RowsAreTheBrokersLines, Of
          <5> QED
            BY <3>2, <5>1
        <4>3. ASSUME NEW i \in Ids, NEW l \in Of(i), NEW m \in Of(i), lines'[l] > 0, lines'[m] > 0
              PROVE  l.day = m.day /\ lines'[l] = 1
          <5>1. l \in Line /\ m \in Line /\ l.id = i /\ m.id = i
            BY DEF Of
          <5>2. CASE Lists(report, i)
            BY <3>2, <4>3, <5>1, <5>2 DEF LinesInv, BooksInOrder
          <5>3. CASE ~Lists(report, i)
            <6>1. lines'[l] = lines[l] /\ lines'[m] = lines[m]
              BY <3>2, <4>3, <5>1, <5>3
            <6> QED
              BY <4>3, <6>1 DEF LinesInv, RowsAreTheBrokersLines
          <5> QED
            BY <5>2, <5>3
        <4> QED
          BY <3>1, <4>1, <4>2, <4>3 DEF RowsAreTheBrokersLines, Of
      <3>5. unread' \subseteq Line
        BY <2>0, <3>1
      <3> QED
        BY <2>0, <3>1, <3>2, <3>3, <3>4, <3>5 DEF LinesInv
    <2>4. CASE UNCHANGED linesVars
      <3>1. kind' = kind /\ broker' = broker /\ lines' = lines /\ unread' = unread
        BY <2>4 DEF linesVars
      <3> QED
        BY <3>1 DEF LinesInv, BooksInOrder, RowsAreTheBrokersLines
    <2> QED
      BY <2>1, <2>2, <2>3, <2>4 DEF LinesNext
  <1> QED
    BY <1>1, <1>2, PTL DEF LinesSpec

\* FlexLines: the rows are the broker's lines as last reported, none twice, none lost, none in two
\* versions, whatever reports overlap, repeat or revise (RowsAreTheBrokersLines).
THEOREM RowsAreAlwaysTheBrokersLines == LinesSpec => []RowsAreTheBrokersLines
  <1>1. LinesInv => RowsAreTheBrokersLines
    BY DEF LinesInv
  <1> QED
    BY <1>1, LinesInvHolds, PTL

================================================================================

-------------------------------- MODULE FxRates --------------------------------
(***************************************************************************)
(* Exchange rates: the stored rows of one currency pair, the rates the API *)
(* process keeps in memory per date, and the threads that read, fetch and  *)
(* store.  A read of a date takes the latest row on or before it: current  *)
(* within the lookback, stale beyond it, missing when there is none.  It   *)
(* asks the provider when the table has nothing recent, stores the answer, *)
(* and keeps what it found in memory.                                      *)
(*                                                                         *)
(* Storing a changed row drops what memory has from its date on, before    *)
(* the commit and again after it.  The provider's answers are kept too,    *)
(* per range, so that an outage costs one call and not one per read.  Time *)
(* is left out: whatever is kept may expire at any moment.  One provider   *)
(* stands for the two, and one range per date for the ranges asked for.    *)
(***************************************************************************)
EXTENDS Integers, FiniteSets

CONSTANTS
    Threads,        \* requests, jobs and imports
    Days, Today,
    Rates,          \* what a row may say
    None,
    Lookback,       \* FX_LOOKBACK_DAYS
    RefreshAfter,   \* _REFRESH_AFTER_DAYS
    StaleMax,       \* FX_STALE_MAX_DAYS
    MaxStores       \* bound on the times that rows come from outside

ASSUME DaysAssumption == Days \subseteq Nat /\ Today \in Days
ASSUME RatesAssumption == None \notin Rates

VARIABLES
    stored,   \* committed rows: day -> rate
    kept,     \* _CACHE, the rates: day -> entry
    answers,  \* _CACHE, the provider's answers: day asked for -> outcome
    lock,     \* _FETCH_LOCKS: day asked for -> thread
    doing,    \* where a thread is
    job,      \* what it is at: see Jobs
    asked,    \* ghost: calls per range since its answer was last dropped
    stores

fxVars == <<stored, kept, answers, lock, doing, job, asked, stores>>

Table == [Days -> Rates \cup {None}]
Blank == [d \in Days |-> None]

\* A read, the daily fill or an import; the date it is for; the rows a thread
\* has read, or received; ghost: rows it has read have changed since.
Jobs == [task : {"none", "read", "fill", "import"}, day : Days, rows : Table, late : BOOLEAN]
NoJob == [task |-> "none", day |-> Today, rows |-> Blank, late |-> FALSE]
Places == {"idle", "ask", "lock", "call", "store", "commit", "drop", "reread", "keep",
           "keep unstored"}

\* What memory keeps of a date, and of a call.
Entries  == [rate : Rates \cup {None}, unstored : BOOLEAN, late : BOOLEAN]
Outcomes == [ok : BOOLEAN, unstored : Table]

ASSUME NoneAssumption == None \notin Threads /\ None \notin Outcomes

FxTypeOK ==
    /\ stored \in Table
    /\ kept \in [Days -> Entries \cup {None}] /\ answers \in [Days -> Outcomes \cup {None}]
    /\ lock \in [Days -> Threads \cup {None}]
    /\ doing \in [Threads -> Places] /\ job \in [Threads -> Jobs]
    /\ asked \in [Days -> Nat] /\ stores \in Nat

Job(task, d, table) == [NoJob EXCEPT !.task = task, !.day = d, !.rows = table]
Day(t) == job[t].day

\* _find: the latest day with a row, not before d - age.
Latest(table, d, age) ==
    LET with == {e \in Days : e <= d /\ d - e <= age /\ table[e] # None}
    IN  IF with = {} THEN None ELSE CHOOSE e \in with : \A f \in with : f <= e

\* _resolve, its two passes: the day whose row gives the rate of d.
Found(table, d) ==
    IF Latest(table, d, Lookback) # None THEN Latest(table, d, Lookback)
                                         ELSE Latest(table, d, StaleMax)

\* _attempt: the provider might know better.
Wanted(table, d) ==
    LET e == Latest(table, d, Lookback)
    IN  e = None \/ (e # None /\ d >= Today - Lookback /\ d - e > RefreshAfter)

Over(new, old) == [d \in Days |-> IF new[d] # None THEN new[d] ELSE old[d]]
Changed(new)   == {d \in Days : new[d] # None /\ new[d] # stored[d]}
Earliest(S)    == CHOOSE d \in S : \A e \in S : d <= e

\* Mutant: only the date of the row is dropped.
Dropped_Day(from) == [d \in Days |-> IF d = from THEN None ELSE kept[d]]

\* forget_rates_from
Dropped(from) == [d \in Days |-> IF d >= from THEN None ELSE kept[d]]

Goto(t, label) == doing' = [doing EXCEPT ![t] = label]
Begin(t, j)    == job' = [job EXCEPT ![t] = j]
Rest(t)        == Begin(t, NoJob) /\ Goto(t, "idle")

-----------------------------------------------------------------------------
(* Reading *)

\* get_rates_by_date: memory answers, or the rows are read.
Read(t, d) ==
    /\ doing[t] = "idle"
    /\ kept[d] = None
    /\ Begin(t, Job("read", d, stored))
    /\ Goto(t, IF Wanted(stored, d) THEN "ask" ELSE "keep")
    /\ UNCHANGED <<stored, kept, answers, lock, asked, stores>>

\* fill_daily: a scheduled run always asks again.
FillDaily(t) ==
    /\ doing[t] = "idle"
    /\ answers' = [d \in Days |-> None]
    /\ asked' = [d \in Days |-> 0]
    /\ Begin(t, Job("fill", Today, Blank))
    /\ Goto(t, "ask")
    /\ UNCHANGED <<stored, kept, lock, stores>>

\* What is kept of a call: whether it answered, and the rows not stored.
Failed == [ok |-> FALSE, unstored |-> Blank]
Answered(unstored) == [ok |-> TRUE, unstored |-> unstored]

\* A read goes on with the rows it had when there was no answer and they do.
Take(t, answer) ==
    IF job[t].task # "read" THEN Rest(t)
    ELSE IF ~answer.ok /\ Latest(job[t].rows, Day(t), Lookback) # None
    THEN Goto(t, "keep") /\ UNCHANGED job
    ELSE Goto(t, "reread") /\ Begin(t, Job("read", Day(t), answer.unstored))

\* _provider_once: it was asked a moment ago, or this thread has to queue.
Look(t) ==
    /\ doing[t] = "ask"
    /\ IF answers[Day(t)] # None THEN Take(t, answers[Day(t)])
                                 ELSE Goto(t, "lock") /\ UNCHANGED job
    /\ UNCHANGED <<stored, kept, answers, lock, asked, stores>>

\* The fetch lock: whoever waited for it looks at the answers again.
Enter(t) ==
    /\ doing[t] = "lock"
    /\ lock[Day(t)] = None
    /\ IF answers[Day(t)] # None
       THEN Take(t, answers[Day(t)]) /\ UNCHANGED <<lock, asked>>
       ELSE /\ lock' = [lock EXCEPT ![Day(t)] = t]
            /\ asked' = [asked EXCEPT ![Day(t)] = @ + 1]
            /\ Goto(t, "call") /\ UNCHANGED job
    /\ UNCHANGED <<stored, kept, answers, stores>>

\* The answer is kept, the lock released.
Leave(t, answer) ==
    /\ answers' = [answers EXCEPT ![Day(t)] = answer]
    /\ lock' = [lock EXCEPT ![Day(t)] = None]
    /\ Take(t, answer)

\* No answer, or an empty one.
CallFails(t) ==
    /\ doing[t] = "call"
    /\ Leave(t, Failed)
    /\ UNCHANGED <<stored, kept, asked, stores>>

\* Rows for days up to the one asked for, to be stored.
CallReturns(t, new) ==
    /\ doing[t] = "call"
    /\ new # Blank
    /\ \A d \in Days : new[d] # None => d <= Day(t)
    /\ stores < MaxStores
    /\ stores' = stores + 1
    /\ job' = [job EXCEPT ![t].rows = new]
    /\ Goto(t, "store")
    /\ UNCHANGED <<stored, kept, answers, lock, asked>>

\* A rate that was fetched is used even if it cannot be stored.
StoreFails(t) ==
    /\ doing[t] = "store" /\ job[t].task # "import"
    /\ Leave(t, Answered(job[t].rows))
    /\ UNCHANGED <<stored, kept, asked, stores>>

\* The rows again, with those that could not be stored.
Reread(t) ==
    /\ doing[t] = "reread"
    /\ Begin(t, Job("read", Day(t), Over(stored, job[t].rows)))
    /\ Goto(t, IF job[t].rows = Blank THEN "keep" ELSE "keep unstored")
    /\ UNCHANGED <<stored, kept, answers, lock, asked, stores>>

RateIn(table, d) == IF Found(table, d) = None THEN None ELSE table[Found(table, d)]

\* What was found, a miss as well, is kept for the next read.
Keep(t) ==
    /\ doing[t] \in {"keep", "keep unstored"}
    /\ kept' = [kept EXCEPT ![Day(t)] = [rate |-> RateIn(job[t].rows, Day(t)),
                                         unstored |-> doing[t] = "keep unstored",
                                         late |-> job[t].late]]
    /\ Rest(t)
    /\ UNCHANGED <<stored, answers, lock, asked, stores>>

-----------------------------------------------------------------------------
(* Storing *)

\* The back-fill, or an import of a statement: rows come from elsewhere.
Bring(t, new) ==
    /\ doing[t] = "idle"
    /\ new # Blank
    /\ stores < MaxStores
    /\ stores' = stores + 1
    /\ Begin(t, Job("import", Today, new))
    /\ Goto(t, "store")
    /\ UNCHANGED <<stored, kept, answers, lock, asked>>

\* A second writer of the same rows waits for the first.
MayStore(t) == doing[t] = "store" /\ \A u \in Threads : doing[u] # "commit"

Done(t) ==
    IF job[t].task = "import" THEN Rest(t) /\ UNCHANGED <<answers, lock>>
                              ELSE Leave(t, Answered(Blank))

\* _store_rows up to its commit: memory is dropped and History marked.
Upsert(t) ==
    /\ MayStore(t)
    /\ Changed(job[t].rows) # {}
    /\ kept' = Dropped(Earliest(Changed(job[t].rows)))
    /\ Goto(t, "commit")
    /\ UNCHANGED <<stored, answers, lock, job, asked, stores>>

\* The rows are known already: nothing is dropped.
StoreNothing(t) ==
    /\ MayStore(t)
    /\ Changed(job[t].rows) = {}
    /\ Done(t)
    /\ UNCHANGED <<stored, kept, asked, stores>>

\* Reads that have their rows.
Reading(u) == job[u].task = "read" /\ doing[u] \in {"ask", "lock", "call", "keep", "keep unstored"}

Commit(t) ==
    /\ doing[t] = "commit"
    /\ LET changed == Changed(job[t].rows)
           new == [d \in Days |-> IF d \in changed THEN job[t].rows[d] ELSE None]
       IN  job' = [u \in Threads |->
                      IF u = t THEN [job[t] EXCEPT !.rows = new]
                      ELSE [job[u] EXCEPT !.late = @ \/ (Reading(u) /\ Earliest(changed) <= Day(u))]]
    /\ stored' = Over(job[t].rows, stored)
    /\ Goto(t, "drop")
    /\ UNCHANGED <<kept, answers, lock, asked, stores>>

First(t) == Earliest({d \in Days : job[t].rows[d] # None})

\* Memory is dropped again, for reads that met the old rows in between.
DropAgain(t) ==
    /\ doing[t] = "drop"
    /\ kept' = Dropped(First(t))
    /\ Done(t)
    /\ UNCHANGED <<stored, asked, stores>>

-----------------------------------------------------------------------------

\* _TTL_SECONDS, _NEGATIVE_TTL_SECONDS
Expire(d) ==
    \/ /\ kept[d] # None
       /\ kept' = [kept EXCEPT ![d] = None]
       /\ UNCHANGED <<stored, answers, lock, doing, job, asked, stores>>
    \/ /\ answers[d] # None
       /\ answers' = [answers EXCEPT ![d] = None]
       /\ asked' = [asked EXCEPT ![d] = 0]
       /\ UNCHANGED <<stored, kept, lock, doing, job, stores>>

FxInit ==
    /\ stored \in Table
    /\ kept = [d \in Days |-> None] /\ answers = [d \in Days |-> None]
    /\ lock = [d \in Days |-> None]
    /\ doing = [t \in Threads |-> "idle"] /\ job = [t \in Threads |-> NoJob]
    /\ asked = [d \in Days |-> 0]
    /\ stores = 0

Step(t) ==
    \/ \E d \in Days : Read(t, d)
    \/ FillDaily(t)
    \/ Look(t) \/ Enter(t) \/ CallFails(t) \/ StoreFails(t) \/ Reread(t) \/ Keep(t)
    \/ \E new \in Table : CallReturns(t, new) \/ Bring(t, new)
    \/ Upsert(t) \/ StoreNothing(t) \/ Commit(t) \/ DropAgain(t)

FxNext == (\E t \in Threads : Step(t)) \/ (\E d \in Days : Expire(d))

FxSpec == FxInit /\ [][FxNext]_fxVars

-----------------------------------------------------------------------------

Dropping(d) == \E t \in Threads : doing[t] = "drop" /\ First(t) <= d
Agrees(d)   == kept[d].rate = RateIn(stored, d)

\* A rate kept in memory is the rate of the rows stored, from the moment the
\* transaction that changed them has dropped what memory had (#188); what a
\* read keeps that was under way during the commit is left out.
KeptRatesAreStored ==
    \A d \in Days :
        kept[d] # None /\ ~Dropping(d) => kept[d].unstored \/ kept[d].late \/ Agrees(d)

\* As above for every read: "so the recompute reads the new rate".
NewRatesAreRead ==
    \A d \in Days : kept[d] # None /\ ~Dropping(d) => kept[d].unstored \/ Agrees(d)

\* An outage costs one call per range: of all the reads that find no answer
\* kept, and wait for each other, one asks.
OneAsks ==
    \A d \in Days : asked[d] <= 1
================================================================================

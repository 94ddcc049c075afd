---------------------------- MODULE ValuationCache ----------------------------
(***************************************************************************)
(* The valuation cache of the API process: what a GET request computed is  *)
(* remembered for the rest of the request (memo) and, in a shared LRU, for *)
(* later requests that find the data watermark unchanged.  The watermark   *)
(* is the process's count of commits and, on Postgres, the position in the *)
(* write-ahead log.                                                        *)
(*                                                                         *)
(* A value is known by the commits it reflects (basis) and by whether an   *)
(* input was incomplete (degraded).                                        *)
(***************************************************************************)
EXTENDS Naturals, FiniteSets

CONSTANTS
    Requests,   \* GET requests
    Updaters,   \* those that may themselves commit a write, once
    Writers,    \* transactions of Sessions in this process
    Outsiders,  \* transactions of other processes, or of a bare connection
    Keys,       \* (helper, arguments) pairs, the user among the arguments
    HasLog,     \* Postgres; FALSE is SQLite, which has no log position
    MaxLookups, \* bound: cached helpers a request calls
    NoOne

ASSUME NoOneAssumption == NoOne \notin Requests
ASSUME UpdatersAssumption == Updaters \subseteq Requests
ASSUME HasLogAssumption == HasLog \in BOOLEAN
ASSUME MaxLookupsAssumption == MaxLookups \in Nat
ASSUME DistinctAssumption ==
    Requests \cap Writers = {} /\ Requests \cap Outsiders = {} /\ Writers \cap Outsiders = {}

Commits == Requests \cup Writers \cup Outsiders
Value   == [basis : SUBSET Commits, degraded : BOOLEAN]
NoValue == [basis |-> {}, degraded |-> FALSE]
Entry   == [gen : Nat, log : Nat, value : Value]
NoEntry == [gen |-> 0, log |-> 0, value |-> NoValue]

VARIABLES
    generation, \* _write_generation
    logPos,     \* pg_current_wal_insert_lsn(), counted in commits
    wstate,     \* per commit: how far it has come
    visible,    \* commits other transactions see
    returnedAt, \* ghost: the count when commit() returned
    cached,     \* keys in the shared LRU, and their entries
    entry,
    holder,     \* _KeyLocks: the request holding the key's lock
    pc,         \* per request
    lookups,    \* cached helpers called so far
    key,        \* the one it is calling
    marked,     \* whether scope.watermark is set, and its two parts
    gen,
    log,
    memoed,     \* keys in scope.memo, and their values
    memo,
    degraded,   \* scope.degraded
    seen,       \* commits visible when the computation began
    mustSee     \* commits that had returned to their caller when the request
                \* came in, and the request's own

dbVars      == <<generation, logPos, wstate, visible, returnedAt>>
cacheVars   == <<cached, entry>>
scopeVars   == <<marked, gen, log>>
memoVars    == <<memoed, memo>>
vars == <<dbVars, cacheVars, holder, pc, lookups, key, scopeVars, memoVars,
          degraded, seen, mustSee>>

Returned == {w \in Commits : wstate[w] = "returned"}

-----------------------------------------------------------------------------
(* Commits *)

\* The Engine "commit" event: the count goes up before the commit.
Announce(w) ==
    /\ wstate' = [wstate EXCEPT ![w] = "announced"]
    /\ generation' = generation + 1

\* The commit record is in the log, and then other transactions see it.
Log(w, from) ==
    /\ wstate[w] = from
    /\ wstate' = [wstate EXCEPT ![w] = "logged"]
    /\ logPos' = IF HasLog THEN logPos + 1 ELSE logPos
    /\ UNCHANGED <<generation, visible, returnedAt, cacheVars, holder, pc, lookups, key,
                   scopeVars, memoVars, degraded, seen, mustSee>>

Show(w, to) ==
    /\ wstate[w] = "logged"
    /\ wstate' = [wstate EXCEPT ![w] = to]
    /\ visible' = visible \cup {w}
    /\ returnedAt' = [returnedAt EXCEPT ![w] = generation]
    /\ UNCHANGED <<generation, logPos, cacheVars, holder, pc, lookups, key,
                   scopeVars, memoVars, degraded, seen, mustSee>>

\* Session "after_commit": the count goes up again, then commit() returns.
BumpAfter(w) ==
    /\ wstate[w] = "visible"
    /\ wstate' = [wstate EXCEPT ![w] = "returned"]
    /\ generation' = generation + 1
    /\ returnedAt' = [returnedAt EXCEPT ![w] = generation + 1]

WriterStep(w) ==
    \/ /\ wstate[w] = "open"
       /\ Announce(w)
       /\ UNCHANGED <<logPos, visible, returnedAt, cacheVars, holder, pc, lookups, key,
                      scopeVars, memoVars, degraded, seen, mustSee>>
    \/ Log(w, "announced")
    \/ Show(w, "visible")
    \/ /\ BumpAfter(w)
       /\ UNCHANGED <<logPos, visible, cacheVars, holder, pc, lookups, key,
                      scopeVars, memoVars, degraded, seen, mustSee>>

\* Nothing in this process hears of it.
OutsiderStep(w) == Log(w, "open") \/ Show(w, "returned")

-----------------------------------------------------------------------------
(* A request *)

Start(r) ==
    /\ pc[r] = "idle"
    /\ pc' = [pc EXCEPT ![r] = "serving"]
    /\ mustSee' = [mustSee EXCEPT ![r] = Returned]
    /\ UNCHANGED <<dbVars, cacheVars, holder, lookups, key, scopeVars, memoVars,
                   degraded, seen>>

\* A cached helper is called: from the memo if it is there, else by its stamp.
Call(r, k) ==
    /\ pc[r] = "serving"
    /\ lookups[r] < MaxLookups
    /\ lookups' = [lookups EXCEPT ![r] = @ + 1]
    /\ key' = [key EXCEPT ![r] = k]
    /\ IF k \in memoed[r]
       THEN UNCHANGED pc
       ELSE pc' = [pc EXCEPT ![r] = IF marked[r] THEN "get" ELSE "readGeneration"]
    /\ UNCHANGED <<dbVars, cacheVars, holder, scopeVars, memoVars, degraded, seen, mustSee>>

\* The watermark, once per request: the count, then the log position.
ReadGeneration(r) ==
    /\ pc[r] = "readGeneration"
    /\ gen' = [gen EXCEPT ![r] = generation]
    /\ pc' = [pc EXCEPT ![r] = "readLog"]
    /\ UNCHANGED <<dbVars, cacheVars, holder, lookups, key, marked, log, memoVars,
                   degraded, seen, mustSee>>

ReadLog(r) ==
    /\ pc[r] = "readLog"
    /\ log' = [log EXCEPT ![r] = logPos]
    /\ marked' = [marked EXCEPT ![r] = TRUE]
    /\ pc' = [pc EXCEPT ![r] = "get"]
    /\ UNCHANGED <<dbVars, cacheVars, holder, lookups, key, gen, memoVars,
                   degraded, seen, mustSee>>

Hit(r) == /\ key[r] \in cached
          /\ entry[key[r]].gen = gen[r]
          /\ entry[key[r]].log = log[r]

\* The value is returned and memoed.
Answer(r, v) ==
    /\ memoed' = [memoed EXCEPT ![r] = @ \cup {key[r]}]
    /\ memo' = [memo EXCEPT ![r] = [@ EXCEPT ![key[r]] = v]]
    /\ pc' = [pc EXCEPT ![r] = "serving"]

ReleaseKey(r) ==
    holder' = IF holder[key[r]] = r THEN [holder EXCEPT ![key[r]] = NoOne] ELSE holder

\* Mutant: a miss under the lock goes round again.
AfterMiss_Again(stage) == "wait"

\* The first miss takes the key's lock, the second computes.
AfterMiss(stage) == IF stage = "get" THEN "wait" ELSE "compute"

\* shared_cache.get: an entry of another stamp is dropped.
Get(r) ==
    /\ pc[r] \in {"get", "getAgain"}
    /\ IF Hit(r)
       THEN /\ Answer(r, entry[key[r]].value)
            /\ IF pc[r] = "getAgain" THEN ReleaseKey(r) ELSE UNCHANGED holder
            /\ UNCHANGED <<cached, seen>>
       ELSE /\ cached' = cached \ {key[r]}
            /\ pc' = [pc EXCEPT ![r] = AfterMiss(@)]
            /\ seen' = IF pc[r] = "getAgain" THEN [seen EXCEPT ![r] = visible] ELSE seen
            /\ UNCHANGED <<memoVars, holder>>
    /\ UNCHANGED <<dbVars, entry, lookups, key, scopeVars, degraded, mustSee>>

\* The key's lock; after 30 s the value is computed without it.
AcquireKey(r) ==
    /\ pc[r] = "wait"
    /\ holder[key[r]] = NoOne
    /\ holder' = [holder EXCEPT ![key[r]] = r]
    /\ pc' = [pc EXCEPT ![r] = "getAgain"]
    /\ UNCHANGED <<dbVars, cacheVars, lookups, key, scopeVars, memoVars, degraded,
                   seen, mustSee>>

WaitTimesOut(r) ==
    /\ pc[r] = "wait"
    /\ holder[key[r]] # NoOne
    /\ pc' = [pc EXCEPT ![r] = "getAgain"]
    /\ UNCHANGED <<dbVars, cacheVars, holder, lookups, key, scopeVars, memoVars,
                   degraded, seen, mustSee>>

\* The computation ends.  Its statements saw basis; it also used what the
\* request's memo holds for some helpers it called (inner), and it may have met
\* an incomplete input (d).  It is shared unless the request is degraded.
ComputedValue(r, basis, inner, d) ==
    [basis |-> {w \in basis : \A k \in inner : w \in memo[r][k].basis},
     degraded |-> d \/ \E k \in inner : memo[r][k].degraded]

\* Mutant: only what this computation itself met keeps it from being shared.
Shareable_OwnInputs(r, d) == ~d

\* Whether the value goes to the shared cache: nothing in the request was degraded.
Shareable(r, d) == ~degraded[r] /\ ~d

Compute(r, basis, inner, d) ==
    /\ pc[r] = "compute"
    /\ seen[r] \subseteq basis
    /\ inner \subseteq memoed[r] \ {key[r]}
    /\ degraded' = [degraded EXCEPT ![r] = @ \/ d]
    /\ LET v == ComputedValue(r, basis, inner, d)
       IN /\ Answer(r, v)
          /\ IF Shareable(r, d)
             THEN /\ cached' = cached \cup {key[r]}
                  /\ entry' = [entry EXCEPT ![key[r]] =
                                 [gen |-> gen[r], log |-> log[r], value |-> v]]
             ELSE UNCHANGED cacheVars
    /\ ReleaseKey(r)
    /\ seen' = [seen EXCEPT ![r] = {}]
    /\ UNCHANGED <<dbVars, lookups, key, scopeVars, mustSee>>

\* The middleware drops the scope.
CloseScope(r) ==
    /\ pc' = [pc EXCEPT ![r] = "done"]
    /\ memoed' = [memoed EXCEPT ![r] = {}]
    /\ memo' = [memo EXCEPT ![r] = [k \in Keys |-> NoValue]]
    /\ marked' = [marked EXCEPT ![r] = FALSE]
    /\ gen' = [gen EXCEPT ![r] = 0]
    /\ log' = [log EXCEPT ![r] = 0]
    /\ degraded' = [degraded EXCEPT ![r] = FALSE]
    /\ seen' = [seen EXCEPT ![r] = {}]

\* The computation raises: nothing is stored, and the request ends.
ComputeFails(r) ==
    /\ pc[r] = "compute"
    /\ CloseScope(r)
    /\ ReleaseKey(r)
    /\ UNCHANGED <<dbVars, cacheVars, lookups, key, mustSee>>

\* A GET that writes (History rows brought up to date): its own commit, after
\* which the scope's memo and watermark are dropped.
BeginWrite(r) ==
    /\ pc[r] = "serving"
    /\ r \in Updaters /\ wstate[r] = "open"
    /\ Announce(r)
    /\ pc' = [pc EXCEPT ![r] = "writing"]
    /\ UNCHANGED <<logPos, visible, returnedAt, cacheVars, holder, lookups, key, scopeVars,
                   memoVars, degraded, seen, mustSee>>

\* Mutant: the scope keeps the values it computed before its own write.
EndWrite_KeepsMemo(r) ==
    /\ BumpAfter(r)
    /\ pc' = [pc EXCEPT ![r] = "serving"]
    /\ mustSee' = [mustSee EXCEPT ![r] = @ \cup {r}]
    /\ UNCHANGED <<logPos, visible, cacheVars, holder, lookups, key, scopeVars,
                   memoVars, degraded, seen>>

EndWrite(r) ==
    /\ BumpAfter(r)
    /\ pc' = [pc EXCEPT ![r] = "serving"]
    /\ memoed' = [memoed EXCEPT ![r] = {}]
    /\ marked' = [marked EXCEPT ![r] = FALSE]
    /\ mustSee' = [mustSee EXCEPT ![r] = @ \cup {r}]
    /\ UNCHANGED <<logPos, visible, cacheVars, holder, lookups, key, gen, log,
                   memo, degraded, seen>>

Finish(r) ==
    /\ pc[r] = "serving"
    /\ CloseScope(r)
    /\ UNCHANGED <<dbVars, cacheVars, holder, lookups, key, mustSee>>

\* Its age, or the LRU's size, drops an entry.
Evict(k) ==
    /\ k \in cached
    /\ cached' = cached \ {k}
    /\ UNCHANGED <<dbVars, entry, holder, pc, lookups, key, scopeVars, memoVars,
                   degraded, seen, mustSee>>

-----------------------------------------------------------------------------
Init ==
    /\ generation = 0
    /\ logPos = 0
    /\ wstate = [w \in Commits |-> "open"]
    /\ visible = {}
    /\ returnedAt = [w \in Commits |-> 0]
    /\ cached = {}
    /\ entry = [k \in Keys |-> NoEntry]
    /\ holder = [k \in Keys |-> NoOne]
    /\ pc = [r \in Requests |-> "idle"]
    /\ lookups = [r \in Requests |-> 0]
    /\ key \in [Requests -> Keys]
    /\ marked = [r \in Requests |-> FALSE]
    /\ gen = [r \in Requests |-> 0]
    /\ log = [r \in Requests |-> 0]
    /\ memoed = [r \in Requests |-> {}]
    /\ memo = [r \in Requests |-> [k \in Keys |-> NoValue]]
    /\ degraded = [r \in Requests |-> FALSE]
    /\ seen = [r \in Requests |-> {}]
    /\ mustSee = [r \in Requests |-> {}]

RequestStep(r) ==
    \/ ReadGeneration(r)
    \/ ReadLog(r)
    \/ Get(r)
    \/ AcquireKey(r)
    \/ WaitTimesOut(r)
    \/ \E basis \in SUBSET visible, inner \in SUBSET Keys, d \in BOOLEAN :
          Compute(r, basis, inner, d)
    \/ ComputeFails(r)
    \/ Log(r, "announced")
    \/ Show(r, "visible")
    \/ EndWrite(r)

Next ==
    \/ \E w \in Writers : WriterStep(w)
    \/ \E w \in Outsiders : OutsiderStep(w)
    \/ \E r \in Requests :
          \/ Start(r)
          \/ \E k \in Keys : Call(r, k)
          \/ BeginWrite(r)
          \/ Finish(r)
          \/ RequestStep(r)
    \/ \E k \in Keys : Evict(k)

Spec == Init /\ [][Next]_vars

\* A thread that is running goes on running.
FairSpec == Spec /\ \A r \in Requests : WF_vars(RequestStep(r))

-----------------------------------------------------------------------------
TypeOK ==
    /\ generation \in Nat
    /\ logPos \in Nat
    /\ wstate \in [Commits -> {"open", "announced", "logged", "visible", "returned"}]
    /\ visible \in SUBSET Commits
    /\ returnedAt \in [Commits -> Nat]
    /\ cached \in SUBSET Keys
    /\ entry \in [Keys -> Entry]
    /\ holder \in [Keys -> Requests \cup {NoOne}]
    /\ pc \in [Requests -> {"idle", "serving", "readGeneration", "readLog", "get", "wait",
                            "getAgain", "compute", "writing", "done"}]
    /\ lookups \in [Requests -> Nat]
    /\ key \in [Requests -> Keys]
    /\ marked \in [Requests -> BOOLEAN]
    /\ gen \in [Requests -> Nat]
    /\ log \in [Requests -> Nat]
    /\ memoed \in [Requests -> SUBSET Keys]
    /\ memo \in [Requests -> [Keys -> Value]]
    /\ degraded \in [Requests -> BOOLEAN]
    /\ seen \in [Requests -> SUBSET Commits]
    /\ mustSee \in [Requests -> SUBSET Commits]

\* A helper never answers with data older than the request: whatever had been
\* committed and acknowledged when the request came in, and whatever the
\* request itself committed since, is in every value the wrapper returns, from
\* the memo, from the shared cache or computed from either.
AnswersAreFresh ==
    \A r \in Requests :
        pc[r] = "serving" => \A k \in memoed[r] : mustSee[r] \subseteq memo[r][k].basis

\* The same of this process's own writes, whatever other processes commit: the
\* count alone makes a request see what a Session here had committed.
OwnWritesAreSeen ==
    \A r \in Requests :
        pc[r] = "serving" =>
            \A k \in memoed[r] : mustSee[r] \ Outsiders \subseteq memo[r][k].basis

\* An outage is not remembered: no value an incomplete input went into,
\* directly or through another helper's memoed value, is in the shared cache.
OutageIsNotShared == \A k \in cached : ~entry[k].value.degraded

\* Two requests compute the same key at once only when a wait timed out, and a
\* lock is never left behind by a request that is done with the key.
LocksAreHeldInUse ==
    \A k \in Keys : holder[k] # NoOne =>
        key[holder[k]] = k /\ pc[holder[k]] \in {"getAgain", "compute"}

\* A request whose helper has been called is answered (or fails), whatever the
\* other requests hold: no wait on a key's lock is for ever.
CallsAreAnswered ==
    \A r \in Requests : pc[r] = "wait" ~> pc[r] \in {"serving", "done"}
===============================================================================

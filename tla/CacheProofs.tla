------------------------------ MODULE CacheProofs ------------------------------
(***************************************************************************)
(* What values kept in memory are worth.  ValuationCache: what a page sees *)
(* of the commits before it, for any number of requests, writers, other    *)
(* processes and cached helpers.  FxRates: what memory keeps of the rates  *)
(* that the table has, for any number of threads and days.                 *)
(***************************************************************************)
EXTENDS ValuationCache, FxRates, WellFoundedInduction, TLAPS

\* The commits basis has to reflect for a value stamped with count g.
Sound(basis, g) ==
    \A w \in Commits \ Outsiders :
        wstate[w] = "returned" /\ returnedAt[w] <= g => w \in basis

\* The count is not behind any commit that has returned.
CommitsCounted ==
    \A w \in Commits :
        /\ wstate[w] \in {"visible", "returned"} => w \in visible
        /\ wstate[w] = "returned" => returnedAt[w] <= generation

EntriesSound ==
    \A k \in cached :
        entry[k].gen <= generation /\ Sound(entry[k].value.basis, entry[k].gen)

\* What request r relies on: its mark was read after everything it must see
\* had been counted, and all it holds is sound for that mark.
Stages(r) ==
    /\ pc[r] \in {"idle", "readGeneration", "readLog"} => ~marked[r]
    /\ pc[r] \in {"get", "wait", "getAgain", "compute"} => marked[r]
    /\ ~marked[r] => memoed[r] = {}

MarkCovers(r) ==
    /\ mustSee[r] \subseteq Returned
    /\ marked[r] \/ pc[r] = "readLog" =>
          /\ gen[r] <= generation
          /\ \A w \in mustSee[r] : returnedAt[w] <= gen[r]

HoldsSound(r) ==
    /\ \A k \in memoed[r] : Sound(memo[r][k].basis, gen[r])
    /\ pc[r] = "compute" => Sound(seen[r], gen[r])

\* The inductive invariant behind OwnWritesAreSeen.
FreshInv ==
    /\ TypeOK
    /\ CommitsCounted
    /\ EntriesSound
    /\ \A r \in Requests : Stages(r) /\ MarkCovers(r) /\ HoldsSound(r)

-----------------------------------------------------------------------------
(* Types *)

LEMMA InitType == Init => TypeOK
  BY DEF Init, TypeOK, NoEntry, Entry, NoValue, Value, Commits

LEMMA ComputedType ==
    ASSUME TypeOK, NEW r \in Requests, NEW basis \in SUBSET Commits,
           NEW inner \in SUBSET Keys, NEW d \in BOOLEAN
    PROVE  ComputedValue(r, basis, inner, d) \in Value
  <1>1. {w \in basis : \A k \in inner : w \in memo[r][k].basis} \in SUBSET Commits
    OBVIOUS
  <1>2. (d \/ \E k \in inner : memo[r][k].degraded) \in BOOLEAN
    OBVIOUS
  <1> QED
    BY <1>1, <1>2 DEF ComputedValue, Value

LEMMA AnswerType ==
    ASSUME TypeOK, NEW r \in Requests, NEW v \in Value, Answer(r, v)
    PROVE  /\ memoed' \in [Requests -> SUBSET Keys]
           /\ memo' \in [Requests -> [Keys -> Value]]
           /\ pc' = [pc EXCEPT ![r] = "serving"]
  <1>1. memoed' = [memoed EXCEPT ![r] = memoed[r] \cup {key[r]}]
    BY DEF Answer
  <1>2. memo' = [memo EXCEPT ![r] = [memo[r] EXCEPT ![key[r]] = v]]
    BY DEF Answer
  <1>3. key[r] \in Keys /\ memo[r] \in [Keys -> Value] /\ memoed[r] \in SUBSET Keys
    BY DEF TypeOK
  <1>4. [memo[r] EXCEPT ![key[r]] = v] \in [Keys -> Value]
    BY <1>3
  <1> QED
    BY <1>1, <1>2, <1>3, <1>4 DEF Answer, TypeOK

LEMMA ReleaseType ==
    ASSUME TypeOK, NEW r \in Requests, ReleaseKey(r)
    PROVE  holder' \in [Keys -> Requests \cup {NoOne}]
  BY DEF ReleaseKey, TypeOK

LEMMA CloseType ==
    ASSUME TypeOK, NEW r \in Requests, CloseScope(r)
    PROVE  /\ pc' = [pc EXCEPT ![r] = "done"]
           /\ memoed' \in [Requests -> SUBSET Keys]
           /\ memo' \in [Requests -> [Keys -> Value]]
           /\ marked' \in [Requests -> BOOLEAN]
           /\ gen' \in [Requests -> Nat]
           /\ log' \in [Requests -> Nat]
           /\ degraded' \in [Requests -> BOOLEAN]
           /\ seen' \in [Requests -> SUBSET Commits]
  BY DEF CloseScope, TypeOK, NoValue, Value

LEMMA NextType == TypeOK /\ [Next]_vars => TypeOK'
  <1> SUFFICES ASSUME TypeOK, [Next]_vars PROVE TypeOK'
    OBVIOUS
  <1> USE DEF dbVars, cacheVars, scopeVars, memoVars
  <1>1. ASSUME NEW w \in Commits, NEW from \in {"announced", "open"}, Log(w, from) PROVE TypeOK'
    BY <1>1 DEF Log, TypeOK
  <1>2. ASSUME NEW w \in Commits, NEW to \in {"visible", "returned"}, Show(w, to) PROVE TypeOK'
    BY <1>2 DEF Show, TypeOK
  <1>3. ASSUME NEW w \in Writers, WriterStep(w) PROVE TypeOK'
    <2>1. w \in Commits
      BY DEF Commits
    <2>2. CASE /\ wstate[w] = "open"
               /\ Announce(w)
               /\ UNCHANGED <<logPos, visible, returnedAt, cacheVars, holder, pc, lookups, key,
                              scopeVars, memoVars, degraded, seen, mustSee>>
      BY <2>1, <2>2 DEF Announce, TypeOK
    <2>3. CASE /\ BumpAfter(w)
               /\ UNCHANGED <<logPos, visible, cacheVars, holder, pc, lookups, key,
                              scopeVars, memoVars, degraded, seen, mustSee>>
      BY <2>1, <2>3 DEF BumpAfter, TypeOK
    <2> QED
      BY <1>1, <1>2, <1>3, <2>1, <2>2, <2>3 DEF WriterStep
  <1>4. ASSUME NEW w \in Outsiders, OutsiderStep(w) PROVE TypeOK'
    BY <1>1, <1>2, <1>4 DEF OutsiderStep, Commits
  <1>5. ASSUME NEW r \in Requests, Start(r) PROVE TypeOK'
    BY <1>5 DEF Start, TypeOK, Returned
  <1>6. ASSUME NEW r \in Requests, NEW k \in Keys, Call(r, k) PROVE TypeOK'
    BY <1>6 DEF Call, TypeOK
  <1>7. ASSUME NEW r \in Requests, BeginWrite(r) PROVE TypeOK'
    BY <1>7 DEF BeginWrite, Announce, TypeOK, Commits
  <1>8. ASSUME NEW r \in Requests, Finish(r) PROVE TypeOK'
    BY <1>8, CloseType DEF Finish, TypeOK
  <1>9. ASSUME NEW r \in Requests, ReadGeneration(r) PROVE TypeOK'
    BY <1>9 DEF ReadGeneration, TypeOK
  <1>10. ASSUME NEW r \in Requests, ReadLog(r) PROVE TypeOK'
    BY <1>10 DEF ReadLog, TypeOK
  <1>11. ASSUME NEW r \in Requests, Get(r) PROVE TypeOK'
    <2>1. CASE Hit(r)
      <3>1. Answer(r, entry[key[r]].value) /\ entry[key[r]].value \in Value
        BY <1>11, <2>1 DEF Get, TypeOK, Entry
      <3>2. holder' \in [Keys -> Requests \cup {NoOne}]
        BY <1>11, <2>1, ReleaseType DEF Get, TypeOK
      <3>3. UNCHANGED <<cached, seen, dbVars, entry, lookups, key, scopeVars, degraded, mustSee>>
        BY <1>11, <2>1 DEF Get
      <3> QED
        BY <3>1, <3>2, <3>3, AnswerType DEF TypeOK
    <2>2. CASE ~Hit(r)
      BY <1>11, <2>2 DEF Get, AfterMiss, TypeOK
    <2> QED
      BY <2>1, <2>2
  <1>12. ASSUME NEW r \in Requests, AcquireKey(r) PROVE TypeOK'
    BY <1>12 DEF AcquireKey, TypeOK
  <1>13. ASSUME NEW r \in Requests, WaitTimesOut(r) PROVE TypeOK'
    BY <1>13 DEF WaitTimesOut, TypeOK
  <1>14. ASSUME NEW r \in Requests, NEW basis \in SUBSET visible, NEW inner \in SUBSET Keys,
                NEW d \in BOOLEAN, Compute(r, basis, inner, d)
         PROVE TypeOK'
    <2> DEFINE v == ComputedValue(r, basis, inner, d)
    <2>1. v \in Value
      BY ComputedType DEF TypeOK
    <2>2. degraded' \in [Requests -> BOOLEAN]
      BY <1>14 DEF Compute, TypeOK
    <2>3. /\ memoed' \in [Requests -> SUBSET Keys]
          /\ memo' \in [Requests -> [Keys -> Value]]
          /\ pc' = [pc EXCEPT ![r] = "serving"]
      BY <1>14, <2>1, AnswerType DEF Compute
    <2>4. cached' \in SUBSET Keys /\ entry' \in [Keys -> Entry]
      <3>1. [gen |-> gen[r], log |-> log[r], value |-> v] \in Entry
        BY <2>1 DEF Entry, TypeOK
      <3> HIDE DEF v
      <3>2. \/ UNCHANGED cacheVars
            \/ /\ cached' = cached \cup {key[r]}
               /\ entry' = [entry EXCEPT ![key[r]] = [gen |-> gen[r], log |-> log[r], value |-> v]]
        BY <1>14 DEF Compute, v
      <3>3. cached \in SUBSET Keys /\ entry \in [Keys -> Entry] /\ key[r] \in Keys
        BY DEF TypeOK
      <3>4. CASE UNCHANGED cacheVars
        BY ONLY <3>3, <3>4 DEF cacheVars
      <3>5. CASE /\ cached' = cached \cup {key[r]}
                 /\ entry' = [entry EXCEPT ![key[r]] = [gen |-> gen[r], log |-> log[r], value |-> v]]
        BY ONLY <3>1, <3>3, <3>5
      <3> QED
        BY ONLY <3>2, <3>4, <3>5
    <2>5. holder' \in [Keys -> Requests \cup {NoOne}]
      BY <1>14, ReleaseType DEF Compute
    <2>6. seen' \in [Requests -> SUBSET Commits]
      BY <1>14 DEF Compute, TypeOK
    <2>7. UNCHANGED <<dbVars, lookups, key, scopeVars, mustSee>>
      BY <1>14 DEF Compute
    <2> QED
      BY <2>2, <2>3, <2>4, <2>5, <2>6, <2>7 DEF TypeOK
  <1>15. ASSUME NEW r \in Requests, ComputeFails(r) PROVE TypeOK'
    BY <1>15, CloseType, ReleaseType DEF ComputeFails, TypeOK
  <1>16. ASSUME NEW r \in Requests, EndWrite(r) PROVE TypeOK'
    <2>1. r \in Commits
      BY DEF Commits
    <2> QED
      BY <1>16, <2>1 DEF EndWrite, BumpAfter, TypeOK
  <1>17. ASSUME NEW k \in Keys, Evict(k) PROVE TypeOK'
    BY <1>17 DEF Evict, TypeOK
  <1>18. ASSUME NEW r \in Requests, RequestStep(r) PROVE TypeOK'
    <2>1. r \in Commits
      BY DEF Commits
    <2> QED
      BY <1>18, <2>1, <1>1, <1>2, <1>9, <1>10, <1>11, <1>12, <1>13, <1>14, <1>15, <1>16
      DEF RequestStep
  <1>19. CASE UNCHANGED vars
    BY <1>19 DEF vars, TypeOK
  <1> QED
    BY <1>3, <1>4, <1>5, <1>6, <1>7, <1>8, <1>17, <1>18, <1>19 DEF Next

\* Every variable keeps its type, whatever requests and commits do.
THEOREM TypeCorrect == Spec => []TypeOK
  <1>1. Init => TypeOK
    BY InitType
  <1>2. TypeOK /\ [Next]_vars => TypeOK'
    BY NextType
  <1> QED
    BY <1>1, <1>2, PTL DEF Spec

-----------------------------------------------------------------------------
(* Freshness *)

\* What a step does to the commits: none is undone, and one of this process
\* that returns now is counted beyond every stamp there is.
CommitsMoveOn ==
    /\ generation <= generation'
    /\ visible \subseteq visible'
    /\ \A w \in Commits :
          wstate[w] = "returned" => wstate'[w] = "returned" /\ returnedAt'[w] = returnedAt[w]
    /\ \A w \in Commits \ Outsiders :
          wstate[w] # "returned" /\ wstate'[w] = "returned" => generation < returnedAt'[w]

LEMMA CommitsStay ==
    ASSUME TypeOK, CommitsCounted, UNCHANGED dbVars PROVE CommitsMoveOn /\ CommitsCounted'
  BY DEF TypeOK, CommitsCounted, CommitsMoveOn, dbVars

LEMMA CommitsLog ==
    ASSUME TypeOK, CommitsCounted, NEW w \in Commits, NEW from \in {"announced", "open"},
           Log(w, from)
    PROVE  CommitsMoveOn /\ CommitsCounted'
  BY DEF TypeOK, CommitsCounted, CommitsMoveOn, Log

LEMMA CommitsShow ==
    ASSUME TypeOK, CommitsCounted, NEW w \in Commits, NEW to \in {"visible", "returned"},
           Show(w, to), to = "returned" => w \in Outsiders
    PROVE  CommitsMoveOn /\ CommitsCounted'
  BY DEF TypeOK, CommitsCounted, CommitsMoveOn, Show

LEMMA CommitsAnnounce ==
    ASSUME TypeOK, CommitsCounted, NEW w \in Commits, wstate[w] = "open", Announce(w),
           UNCHANGED <<visible, returnedAt>>
    PROVE  CommitsMoveOn /\ CommitsCounted'
  BY DEF TypeOK, CommitsCounted, CommitsMoveOn, Announce

LEMMA CommitsReturn ==
    ASSUME TypeOK, CommitsCounted, NEW w \in Commits, BumpAfter(w), UNCHANGED visible
    PROVE  CommitsMoveOn /\ CommitsCounted'
  BY DEF TypeOK, CommitsCounted, CommitsMoveOn, BumpAfter

\* What was sound for a stamp of the past is sound after the step.
LEMMA SoundKept ==
    ASSUME TypeOK, CommitsMoveOn, TypeOK', NEW basis, NEW g \in Nat, g <= generation, Sound(basis, g)
    PROVE  \A w \in Commits \ Outsiders :
              wstate'[w] = "returned" /\ returnedAt'[w] <= g => w \in basis
  <1> SUFFICES ASSUME NEW w \in Commits \ Outsiders,
                      wstate'[w] = "returned", returnedAt'[w] <= g
               PROVE  w \in basis
    OBVIOUS
  <1>1. generation \in Nat /\ returnedAt'[w] \in Nat
    BY DEF TypeOK
  <1>2. wstate[w] = "returned"
    BY <1>1 DEF CommitsMoveOn
  <1> QED
    BY <1>2 DEF CommitsMoveOn, Sound

LEMMA EntriesKept ==
    ASSUME TypeOK, TypeOK', CommitsMoveOn, EntriesSound, cached' \subseteq cached, UNCHANGED entry
    PROVE  EntriesSound'
  <1> SUFFICES ASSUME NEW k \in cached'
               PROVE  entry[k].gen <= generation' /\ Sound(entry[k].value.basis, entry[k].gen)'
    BY DEF EntriesSound, Sound
  <1>0. k \in Keys /\ entry[k] \in Entry
    BY DEF TypeOK
  <1>1. /\ entry[k].gen \in Nat
        /\ entry[k].gen <= generation /\ Sound(entry[k].value.basis, entry[k].gen)
    BY <1>0 DEF EntriesSound, Entry
  <1>2. generation \in Nat /\ generation' \in Nat /\ generation <= generation'
    BY DEF TypeOK, CommitsMoveOn
  <1> QED
    BY <1>1, <1>2, SoundKept DEF Sound

\* A request the step does not concern.
LEMMA OthersKept ==
    ASSUME TypeOK, TypeOK', CommitsMoveOn, NEW q \in Requests,
           Stages(q), MarkCovers(q), HoldsSound(q),
           pc'[q] = pc[q], marked'[q] = marked[q], gen'[q] = gen[q],
           memoed'[q] = memoed[q], memo'[q] = memo[q], seen'[q] = seen[q],
           mustSee'[q] = mustSee[q]
    PROVE  Stages(q)' /\ MarkCovers(q)' /\ HoldsSound(q)'
  <1>1. Stages(q)'
    BY DEF Stages
  <1>2. MarkCovers(q)'
    BY DEF MarkCovers, CommitsMoveOn, Returned, TypeOK
  <1>3. HoldsSound(q)'
    <2>1. memoed[q] # {} \/ pc[q] = "compute" => gen[q] <= generation
      BY DEF Stages, MarkCovers
    <2>2. gen[q] \in Nat
      BY DEF TypeOK
    <2>3. ASSUME NEW k \in memoed[q] PROVE Sound(memo[q][k].basis, gen[q])'
      BY <2>1, <2>2, <2>3, SoundKept DEF HoldsSound, Sound
    <2>4. ASSUME pc[q] = "compute" PROVE Sound(seen[q], gen[q])'
      BY <2>1, <2>2, <2>4, SoundKept DEF HoldsSound, Sound
    <2> QED
      BY <2>3, <2>4 DEF HoldsSound, Sound
  <1> QED
    BY <1>1, <1>2, <1>3

\* A request that moves to another stage, and touches neither its mark nor memo.
LEMMA StageMoves ==
    ASSUME TypeOK, TypeOK', CommitsMoveOn, NEW q \in Requests,
           Stages(q), MarkCovers(q), HoldsSound(q),
           Stages(q)', pc'[q] \notin {"readLog", "compute"},
           marked'[q] = marked[q], gen'[q] = gen[q],
           memoed'[q] = memoed[q], memo'[q] = memo[q],
           mustSee'[q] = mustSee[q]
    PROVE  MarkCovers(q)' /\ HoldsSound(q)'
  <1>1. MarkCovers(q)'
    BY DEF MarkCovers, CommitsMoveOn, Returned, TypeOK
  <1>2. HoldsSound(q)'
    <2>1. memoed[q] # {} => gen[q] <= generation
      BY DEF Stages, MarkCovers
    <2>2. gen[q] \in Nat
      BY DEF TypeOK
    <2>3. ASSUME NEW k \in memoed[q] PROVE Sound(memo[q][k].basis, gen[q])'
      BY <2>1, <2>2, <2>3, SoundKept DEF HoldsSound, Sound
    <2> QED
      BY <2>3 DEF HoldsSound, Sound
  <1> QED
    BY <1>1, <1>2

LEMMA InitFresh == Init => FreshInv
  <1> SUFFICES ASSUME Init PROVE FreshInv
    OBVIOUS
  <1>1. TypeOK
    BY InitType
  <1>2. CommitsCounted /\ EntriesSound
    BY DEF Init, CommitsCounted, EntriesSound
  <1>3. ASSUME NEW r \in Requests PROVE Stages(r) /\ MarkCovers(r) /\ HoldsSound(r)
    BY DEF Init, Stages, MarkCovers, HoldsSound
  <1> QED
    BY <1>1, <1>2, <1>3 DEF FreshInv

\* A request's value becomes its answer.
LEMMA AnswerFresh ==
    ASSUME TypeOK, TypeOK', NEW r \in Requests, Stages(r), MarkCovers(r), HoldsSound(r),
           NEW v \in Value, Answer(r, v), marked[r], Sound(v.basis, gen[r]),
           UNCHANGED <<dbVars, scopeVars, mustSee>>
    PROVE  Stages(r)' /\ MarkCovers(r)' /\ HoldsSound(r)'
  <1> USE DEF dbVars, scopeVars
  <1>1. pc'[r] = "serving" /\ memoed'[r] = memoed[r] \cup {key[r]}
    BY DEF Answer, TypeOK
  <1>2. \A k \in Keys : memo'[r][k] = IF k = key[r] THEN v ELSE memo[r][k]
    <2>1. memo \in [Requests -> [Keys -> Value]] /\ key[r] \in Keys
      BY DEF TypeOK
    <2>2. memo' = [memo EXCEPT ![r] = [memo[r] EXCEPT ![key[r]] = v]]
      BY DEF Answer
    <2>3. memo'[r] = [memo[r] EXCEPT ![key[r]] = v] /\ memo[r] \in [Keys -> Value]
      BY ONLY <2>1, <2>2
    <2> QED
      BY ONLY <2>1, <2>3
  <1>3. Stages(r)'
    BY <1>1 DEF Stages
  <1>4. MarkCovers(r)'
    BY <1>1 DEF MarkCovers, Returned
  <1>5. HoldsSound(r)'
    <2>1. memoed[r] \subseteq Keys /\ key[r] \in Keys
      BY DEF TypeOK
    <2>2. ASSUME NEW k \in memoed'[r] PROVE Sound(memo[r][k].basis, gen[r])'
      BY <1>1, <1>2, <2>1, <2>2 DEF HoldsSound, Sound
    <2> QED
      BY <1>1, <2>2 DEF HoldsSound, Sound
  <1> QED
    BY <1>3, <1>4, <1>5

\* The scope is dropped.
LEMMA CloseFresh ==
    ASSUME TypeOK, TypeOK', NEW r \in Requests, MarkCovers(r), CloseScope(r),
           UNCHANGED <<dbVars, mustSee>>
    PROVE  Stages(r)' /\ MarkCovers(r)' /\ HoldsSound(r)'
  <1>1. pc'[r] = "done" /\ memoed'[r] = {} /\ ~marked'[r]
    BY DEF CloseScope, TypeOK
  <1> QED
    BY <1>1 DEF Stages, MarkCovers, HoldsSound, Returned, dbVars

\* What a computation returns is sound for the mark of its request.
LEMMA ComputedSound ==
    ASSUME TypeOK, NEW r \in Requests, Stages(r), HoldsSound(r), pc[r] = "compute",
           NEW basis \in SUBSET visible, NEW inner \in SUBSET Keys, NEW d \in BOOLEAN,
           seen[r] \subseteq basis, inner \subseteq memoed[r] \ {key[r]}
    PROVE  Sound(ComputedValue(r, basis, inner, d).basis, gen[r])
  <1>1. Sound(seen[r], gen[r]) /\ \A k \in inner : Sound(memo[r][k].basis, gen[r])
    BY DEF HoldsSound
  <1>2. ComputedValue(r, basis, inner, d).basis = {w \in basis : \A k \in inner : w \in memo[r][k].basis}
    BY DEF ComputedValue
  <1> QED
    BY <1>1, <1>2 DEF Sound

\* A step of commits only.
LEMMA CommitsOnly ==
    ASSUME FreshInv, TypeOK', CommitsMoveOn, CommitsCounted',
           UNCHANGED <<cacheVars, pc, scopeVars, memoVars, seen, mustSee>>
    PROVE  FreshInv'
  <1> USE DEF cacheVars, scopeVars, memoVars
  <1>1. EntriesSound'
    BY EntriesKept DEF FreshInv
  <1>2. ASSUME NEW q \in Requests PROVE Stages(q)' /\ MarkCovers(q)' /\ HoldsSound(q)'
    BY OthersKept DEF FreshInv
  <1> QED
    BY <1>1, <1>2 DEF FreshInv

\* A step of one request, given what holds of that request and of the entries.
LEMMA RequestOnly ==
    ASSUME FreshInv, TypeOK', CommitsMoveOn, CommitsCounted', EntriesSound',
           NEW r \in Requests, Stages(r)', MarkCovers(r)', HoldsSound(r)',
           \A q \in Requests \ {r} :
              /\ pc'[q] = pc[q] /\ marked'[q] = marked[q] /\ gen'[q] = gen[q]
              /\ memoed'[q] = memoed[q] /\ memo'[q] = memo[q]
              /\ seen'[q] = seen[q] /\ mustSee'[q] = mustSee[q]
    PROVE  FreshInv'
  <1>1. ASSUME NEW q \in Requests \ {r} PROVE Stages(q)' /\ MarkCovers(q)' /\ HoldsSound(q)'
    BY OthersKept DEF FreshInv
  <1> QED
    BY <1>1 DEF FreshInv

LEMMA NextFresh == FreshInv /\ [Next]_vars => FreshInv'
  <1> SUFFICES ASSUME FreshInv, [Next]_vars PROVE FreshInv'
    OBVIOUS
  <1> USE DEF dbVars, cacheVars, scopeVars, memoVars
  <1>a. /\ TypeOK /\ TypeOK' /\ CommitsCounted /\ EntriesSound
        /\ \A r \in Requests : Stages(r) /\ MarkCovers(r) /\ HoldsSound(r)
    BY NextType DEF FreshInv
  <1>b. Requests \subseteq Commits /\ Writers \subseteq Commits /\ Outsiders \subseteq Commits
    BY DEF Commits
  <1>1. ASSUME NEW w \in Commits, NEW from \in {"announced", "open"}, Log(w, from) PROVE FreshInv'
    BY <1>1, <1>a, CommitsLog, CommitsOnly DEF Log
  <1>2. ASSUME NEW w \in Commits, NEW to \in {"visible", "returned"}, Show(w, to),
               to = "returned" => w \in Outsiders
        PROVE  FreshInv'
    BY <1>2, <1>a, CommitsShow, CommitsOnly DEF Show
  <1>3. ASSUME NEW w \in Writers, WriterStep(w) PROVE FreshInv'
    <2>1. CASE /\ wstate[w] = "open"
               /\ Announce(w)
               /\ UNCHANGED <<logPos, visible, returnedAt, cacheVars, holder, pc, lookups, key,
                              scopeVars, memoVars, degraded, seen, mustSee>>
      BY <2>1, <1>a, <1>b, CommitsAnnounce, CommitsOnly
    <2>2. CASE /\ BumpAfter(w)
               /\ UNCHANGED <<logPos, visible, cacheVars, holder, pc, lookups, key,
                              scopeVars, memoVars, degraded, seen, mustSee>>
      BY <2>2, <1>a, <1>b, CommitsReturn, CommitsOnly
    <2> QED
      BY <1>1, <1>2, <1>3, <1>b, <2>1, <2>2 DEF WriterStep
  <1>4. ASSUME NEW w \in Outsiders, OutsiderStep(w) PROVE FreshInv'
    BY <1>1, <1>2, <1>4, <1>b DEF OutsiderStep
  <1>5. ASSUME NEW r \in Requests, Start(r) PROVE FreshInv'
    <2>1. /\ CommitsMoveOn /\ CommitsCounted' /\ EntriesSound'
      BY <1>5, <1>a, CommitsStay, EntriesKept DEF Start
    <2>2. /\ pc'[r] = "serving" /\ marked'[r] = marked[r] /\ memoed'[r] = memoed[r]
          /\ mustSee'[r] = Returned
      BY <1>5, <1>a DEF Start, TypeOK
    <2>3. ~marked[r] /\ memoed[r] = {}
      BY <1>5, <1>a DEF Start, Stages
    <2>4. Stages(r)' /\ MarkCovers(r)' /\ HoldsSound(r)'
      BY <1>5, <2>2, <2>3 DEF Start, Stages, MarkCovers, HoldsSound, Returned
    <2> QED
      BY <1>5, <1>a, <2>1, <2>4, RequestOnly DEF Start, TypeOK
  <1>6. ASSUME NEW r \in Requests, NEW k \in Keys, Call(r, k) PROVE FreshInv'
    <2>1. /\ CommitsMoveOn /\ CommitsCounted' /\ EntriesSound'
      BY <1>6, <1>a, CommitsStay, EntriesKept DEF Call
    <2>2. /\ pc'[r] = IF k \in memoed[r] THEN "serving" ELSE IF marked[r] THEN "get" ELSE "readGeneration"
          /\ pc[r] = "serving"
      BY <1>6, <1>a DEF Call, TypeOK
    <2>3. Stages(r)'
      BY <1>6, <1>a, <2>2 DEF Call, Stages
    <2>4. MarkCovers(r)' /\ HoldsSound(r)'
      BY <1>6, <1>a, <2>1, <2>2, <2>3, StageMoves DEF Call
    <2> QED
      BY <1>6, <1>a, <2>1, <2>3, <2>4, RequestOnly DEF Call, TypeOK
  <1>7. ASSUME NEW r \in Requests, BeginWrite(r) PROVE FreshInv'
    <2>1. CommitsMoveOn /\ CommitsCounted'
      BY <1>7, <1>a, <1>b, CommitsAnnounce DEF BeginWrite
    <2>2. EntriesSound'
      BY <1>7, <1>a, <2>1, EntriesKept DEF BeginWrite
    <2>3. pc'[r] = "writing" /\ pc[r] = "serving"
      BY <1>7, <1>a DEF BeginWrite, TypeOK
    <2>4. Stages(r)'
      BY <1>7, <1>a, <2>3 DEF BeginWrite, Stages
    <2>5. MarkCovers(r)' /\ HoldsSound(r)'
      BY <1>7, <1>a, <2>1, <2>3, <2>4, StageMoves DEF BeginWrite
    <2> QED
      BY <1>7, <1>a, <2>1, <2>2, <2>4, <2>5, RequestOnly DEF BeginWrite, TypeOK
  <1>8. ASSUME NEW r \in Requests, CloseScope(r), UNCHANGED <<dbVars, entry, mustSee>>,
               cached' = cached
        PROVE  FreshInv'
    <2>1. /\ CommitsMoveOn /\ CommitsCounted' /\ EntriesSound'
      BY <1>8, <1>a, CommitsStay, EntriesKept
    <2>2. Stages(r)' /\ MarkCovers(r)' /\ HoldsSound(r)'
      BY <1>8, <1>a, CloseFresh
    <2> QED
      BY <1>8, <1>a, <2>1, <2>2, RequestOnly DEF CloseScope, TypeOK
  <1>9. ASSUME NEW r \in Requests, ReadGeneration(r) PROVE FreshInv'
    <2>1. /\ CommitsMoveOn /\ CommitsCounted' /\ EntriesSound'
      BY <1>9, <1>a, CommitsStay, EntriesKept DEF ReadGeneration
    <2>2. /\ pc'[r] = "readLog" /\ gen'[r] = generation
          /\ ~marked[r] /\ memoed[r] = {} /\ generation \in Nat
      BY <1>9, <1>a DEF ReadGeneration, TypeOK, Stages
    <2>3. Stages(r)' /\ HoldsSound(r)'
      BY <1>9, <2>2 DEF ReadGeneration, Stages, HoldsSound
    <2>4. MarkCovers(r)'
      <3>1. mustSee[r] \subseteq Returned /\ \A w \in Returned : returnedAt[w] <= generation
        BY <1>a DEF MarkCovers, CommitsCounted, Returned
      <3> QED
        BY <1>9, <2>2, <3>1 DEF ReadGeneration, MarkCovers, Returned
    <2> QED
      BY <1>9, <1>a, <2>1, <2>3, <2>4, RequestOnly DEF ReadGeneration, TypeOK
  <1>10. ASSUME NEW r \in Requests, ReadLog(r) PROVE FreshInv'
    <2>1. /\ CommitsMoveOn /\ CommitsCounted' /\ EntriesSound'
      BY <1>10, <1>a, CommitsStay, EntriesKept DEF ReadLog
    <2>2. pc[r] = "readLog" /\ pc'[r] = "get" /\ marked'[r] /\ ~marked[r] /\ memoed[r] = {}
      BY <1>10, <1>a DEF ReadLog, TypeOK, Stages
    <2>3. Stages(r)' /\ HoldsSound(r)'
      BY <1>10, <2>2 DEF ReadLog, Stages, HoldsSound
    <2>4. MarkCovers(r)'
      BY <1>10, <1>a, <2>2 DEF ReadLog, MarkCovers, Returned
    <2> QED
      BY <1>10, <1>a, <2>1, <2>3, <2>4, RequestOnly DEF ReadLog, TypeOK
  <1>11. ASSUME NEW r \in Requests, Get(r) PROVE FreshInv'
    <2>1. /\ CommitsMoveOn /\ CommitsCounted' /\ EntriesSound'
      BY <1>11, <1>a, CommitsStay, EntriesKept DEF Get
    <2>2. marked[r] /\ key[r] \in Keys /\ pc[r] \in {"get", "getAgain"}
      BY <1>11, <1>a DEF Get, Stages, TypeOK
    <2>3. CASE Hit(r)
      <3> DEFINE v == entry[key[r]].value
      <3>1. v \in Value /\ Sound(v.basis, gen[r])
        BY <1>a, <2>2, <2>3 DEF Hit, EntriesSound, TypeOK, Entry
      <3>2. Answer(r, v) /\ UNCHANGED <<dbVars, scopeVars, mustSee, seen>>
        BY <1>11, <2>3 DEF Get
      <3>3. Stages(r)' /\ MarkCovers(r)' /\ HoldsSound(r)'
        BY <1>a, <2>2, <3>1, <3>2, AnswerFresh
      <3> QED
        BY <1>a, <2>1, <3>2, <3>3, RequestOnly DEF Answer, TypeOK
    <2>4. CASE ~Hit(r)
      <3>1. /\ UNCHANGED <<dbVars, scopeVars, memoVars, mustSee>>
            /\ pc' = [pc EXCEPT ![r] = IF pc[r] = "get" THEN "wait" ELSE "compute"]
            /\ seen' = IF pc[r] = "getAgain" THEN [seen EXCEPT ![r] = visible] ELSE seen
        BY <1>11, <2>4 DEF Get, AfterMiss
      <3>2. pc'[r] \in {"wait", "compute"} /\ (pc'[r] = "compute" => seen'[r] = visible)
        BY <1>a, <2>2, <3>1 DEF TypeOK
      <3>3. Stages(r)'
        BY <2>2, <3>1, <3>2 DEF Stages
      <3>4. MarkCovers(r)'
        BY <1>a, <2>2, <3>1, <3>2 DEF MarkCovers, Returned
      <3>5. HoldsSound(r)'
        <4>1. Sound(visible, gen[r])
          BY <1>a DEF Sound, CommitsCounted
        <4>2. \A k \in memoed[r] : Sound(memo[r][k].basis, gen[r])
          BY <1>a DEF HoldsSound
        <4> QED
          BY <3>1, <3>2, <4>1, <4>2 DEF HoldsSound, Sound
      <3> QED
        BY <1>a, <2>1, <3>1, <3>3, <3>4, <3>5, RequestOnly DEF TypeOK
    <2> QED
      BY <2>3, <2>4
  <1>12. ASSUME NEW r \in Requests, AcquireKey(r) \/ WaitTimesOut(r) PROVE FreshInv'
    <2>1. /\ UNCHANGED <<dbVars, cacheVars, scopeVars, memoVars, seen, mustSee>>
          /\ pc' = [pc EXCEPT ![r] = "getAgain"] /\ pc[r] = "wait"
      BY <1>12 DEF AcquireKey, WaitTimesOut
    <2>2. /\ CommitsMoveOn /\ CommitsCounted' /\ EntriesSound'
      BY <2>1, <1>a, CommitsStay, EntriesKept
    <2>3. pc'[r] = "getAgain" /\ Stages(r)'
      BY <2>1, <1>a DEF Stages, TypeOK
    <2>4. MarkCovers(r)' /\ HoldsSound(r)'
      BY <1>a, <2>1, <2>2, <2>3, StageMoves
    <2> QED
      BY <1>a, <2>1, <2>2, <2>3, <2>4, RequestOnly DEF TypeOK
  <1>13. ASSUME NEW r \in Requests, NEW basis \in SUBSET visible, NEW inner \in SUBSET Keys,
                NEW d \in BOOLEAN, Compute(r, basis, inner, d)
         PROVE FreshInv'
    <2> DEFINE v == ComputedValue(r, basis, inner, d)
    <2>1. /\ pc[r] = "compute" /\ seen[r] \subseteq basis /\ inner \subseteq memoed[r] \ {key[r]}
          /\ Answer(r, v) /\ UNCHANGED <<dbVars, scopeVars, mustSee>>
          /\ seen' = [seen EXCEPT ![r] = {}]
      BY <1>13 DEF Compute
    <2>2. basis \in SUBSET Commits /\ marked[r] /\ key[r] \in Keys
      BY <1>a, <2>1 DEF TypeOK, Stages
    <2>3. v \in Value /\ Sound(v.basis, gen[r])
      BY <1>a, <2>1, <2>2, ComputedType, ComputedSound
    <2>4. Stages(r)' /\ MarkCovers(r)' /\ HoldsSound(r)'
      BY <1>a, <2>1, <2>2, <2>3, AnswerFresh
    <2>5. CommitsMoveOn /\ CommitsCounted'
      BY <1>a, <2>1, CommitsStay
    <2>6. EntriesSound'
      <3> DEFINE e == [gen |-> gen[r], log |-> log[r], value |-> v]
      <3>1. CASE UNCHANGED cacheVars
        BY <1>a, <2>5, <3>1, EntriesKept
      <3>2. CASE /\ cached' = cached \cup {key[r]}
                 /\ entry' = [entry EXCEPT ![key[r]] = e]
        <4>1. gen[r] <= generation
          BY <1>a, <2>2 DEF MarkCovers
        <4>2. e.gen = gen[r] /\ e.value = v
          OBVIOUS
        <4>3. \A k \in cached' : entry'[k] = IF k = key[r] THEN e ELSE entry[k]
          <5>1. cached \subseteq Keys /\ entry \in [Keys -> Entry]
            BY <1>a DEF TypeOK
          <5> HIDE DEF e
          <5> QED
            BY ONLY <5>1, <2>2, <3>2
        <4>4. \A k \in cached : entry[k].gen <= generation /\ Sound(entry[k].value.basis, entry[k].gen)
          BY <1>a DEF EntriesSound
        <4> HIDE DEF e, v
        <4>5. ASSUME NEW k \in cached'
              PROVE  entry'[k].gen <= generation /\ Sound(entry'[k].value.basis, entry'[k].gen)
          <5>1. CASE k = key[r]
            BY <5>1, <4>1, <4>2, <4>3, <2>3
          <5>2. CASE k # key[r]
            BY <5>2, <3>2, <4>3, <4>4
          <5> QED
            BY <5>1, <5>2
        <4> QED
          BY <2>1, <4>5 DEF EntriesSound, Sound
      <3> QED
        BY <1>13, <3>1, <3>2 DEF Compute
    <2> QED
      BY <1>a, <2>1, <2>4, <2>5, <2>6, RequestOnly DEF Answer, TypeOK
  <1>14. ASSUME NEW r \in Requests, EndWrite(r) PROVE FreshInv'
    <2>1. CommitsMoveOn /\ CommitsCounted'
      BY <1>14, <1>a, <1>b, CommitsReturn DEF EndWrite
    <2>2. EntriesSound'
      BY <1>14, <1>a, <2>1, EntriesKept DEF EndWrite
    <2>3. /\ pc'[r] = "serving" /\ memoed'[r] = {} /\ ~marked'[r]
          /\ mustSee'[r] = mustSee[r] \cup {r}
      BY <1>14, <1>a DEF EndWrite, TypeOK
    <2>4. r \in Returned' /\ Returned \subseteq Returned'
      <3>1. wstate' = [wstate EXCEPT ![r] = "returned"]
        BY <1>14 DEF EndWrite, BumpAfter
      <3>2. \A w \in Commits : wstate'[w] = IF w = r THEN "returned" ELSE wstate[w]
        BY <1>a, <1>b, <3>1 DEF TypeOK
      <3> QED
        BY <3>2, <1>b DEF Returned
    <2>5. Stages(r)' /\ HoldsSound(r)' /\ MarkCovers(r)'
      BY <1>a, <2>3, <2>4 DEF Stages, HoldsSound, MarkCovers
    <2> QED
      BY <1>14, <1>a, <2>1, <2>2, <2>5, RequestOnly DEF EndWrite, TypeOK
  <1>15. ASSUME NEW k \in Keys, Evict(k) PROVE FreshInv'
    <2>1. CommitsMoveOn /\ CommitsCounted' /\ EntriesSound'
      BY <1>15, <1>a, CommitsStay, EntriesKept DEF Evict
    <2>2. ASSUME NEW q \in Requests PROVE Stages(q)' /\ MarkCovers(q)' /\ HoldsSound(q)'
      BY <1>15, <1>a, <2>1, OthersKept DEF Evict
    <2> QED
      BY <1>a, <2>1, <2>2 DEF FreshInv
  <1>16. ASSUME NEW r \in Requests, RequestStep(r) PROVE FreshInv'
    <2>1. ASSUME ComputeFails(r) PROVE FreshInv'
      BY <2>1, <1>8 DEF ComputeFails
    <2> QED
      BY <1>16, <1>b, <1>1, <1>2, <1>9, <1>10, <1>11, <1>12, <1>13, <1>14, <2>1 DEF RequestStep
  <1>17. ASSUME NEW r \in Requests, Finish(r) PROVE FreshInv'
    BY <1>17, <1>8 DEF Finish
  <1>18. CASE UNCHANGED vars
    BY <1>18, <1>a, CommitsStay, CommitsOnly DEF vars
  <1> QED
    BY <1>3, <1>4, <1>5, <1>6, <1>7, <1>15, <1>16, <1>17, <1>18 DEF Next

LEMMA FreshInvImplies == FreshInv => OwnWritesAreSeen
  <1> SUFFICES ASSUME FreshInv, NEW r \in Requests, NEW k \in memoed[r],
                      NEW w \in mustSee[r] \ Outsiders
               PROVE  w \in memo[r][k].basis
    BY DEF OwnWritesAreSeen
  <1>1. TypeOK /\ Stages(r) /\ MarkCovers(r) /\ HoldsSound(r)
    BY DEF FreshInv
  <1>2. w \in Commits /\ wstate[w] = "returned" /\ marked[r]
    BY <1>1 DEF MarkCovers, Stages, Returned
  <1>3. returnedAt[w] <= gen[r] /\ Sound(memo[r][k].basis, gen[r])
    BY <1>1, <1>2 DEF MarkCovers, HoldsSound
  <1> QED
    BY <1>2, <1>3 DEF Sound

\* Whatever a Session of this process had committed when a request came in, and
\* what the request committed itself, is in every value the request is given:
\* any number of requests, writers, keys and of other processes' commits.
THEOREM OwnWritesAreAlwaysSeen == Spec => []OwnWritesAreSeen
  <1>1. Init => FreshInv
    BY InitFresh
  <1>2. FreshInv /\ [Next]_vars => FreshInv'
    BY NextFresh
  <1>3. FreshInv => OwnWritesAreSeen
    BY FreshInvImplies
  <1> QED
    BY <1>1, <1>2, <1>3, PTL DEF Spec

\* With no writes but this process's own, every answer is as fresh as the
\* request, with or without a log position to go by.
THEOREM AnswersAreAlwaysFresh ==
    ASSUME Outsiders = {} PROVE Spec => []AnswersAreFresh
  <1>1. OwnWritesAreSeen => AnswersAreFresh
    BY DEF OwnWritesAreSeen, AnswersAreFresh
  <1> QED
    BY <1>1, OwnWritesAreAlwaysSeen, PTL

-----------------------------------------------------------------------------
(* Outages *)

\* A request whose memo holds a value of an outage knows of the outage.
OutagesAreKnown ==
    \A r \in Requests : \A k \in memoed[r] : memo[r][k].degraded => degraded[r]

\* The inductive invariant behind OutageIsNotShared.
OutageInv == TypeOK /\ OutageIsNotShared /\ OutagesAreKnown

\* A request is given value v, which is of an outage only if the request knows.
LEMMA AnswerKnows ==
    ASSUME TypeOK, OutagesAreKnown, NEW r \in Requests, NEW v \in Value, Answer(r, v),
           \A q \in Requests : degraded[q] => degraded'[q],
           v.degraded => degraded'[r]
    PROVE  OutagesAreKnown'
  <1> SUFFICES ASSUME NEW q \in Requests, NEW k \in memoed'[q], memo'[q][k].degraded
               PROVE  degraded'[q]
    BY DEF OutagesAreKnown
  <1>1. memoed' = [memoed EXCEPT ![r] = memoed[r] \cup {key[r]}]
    BY DEF Answer
  <1>2. memo' = [memo EXCEPT ![r] = [memo[r] EXCEPT ![key[r]] = v]]
    BY DEF Answer
  <1>3. CASE q = r /\ k = key[r]
    <2>1. key[r] \in Keys /\ memo[r] \in [Keys -> Value]
      BY DEF TypeOK
    <2>2. memo'[q][k] = v
      BY <1>2, <1>3, <2>1 DEF TypeOK
    <2> QED
      BY <1>3, <2>2
  <1>4. CASE q # r \/ k # key[r]
    <2>1. k \in memoed[q]
      BY <1>1, <1>4 DEF TypeOK
    <2>2. memo'[q][k] = memo[q][k]
      <3>1. CASE q # r
        BY <1>2, <3>1 DEF TypeOK
      <3>2. CASE q = r
        <4>1. k # key[r] /\ memo[r] \in [Keys -> Value] /\ k \in Keys
          BY <1>4, <2>1, <3>2 DEF TypeOK
        <4>2. memo'[r] = [memo[r] EXCEPT ![key[r]] = v]
          BY <1>2 DEF TypeOK
        <4> QED
          BY <3>2, <4>1, <4>2
      <3> QED
        BY <3>1, <3>2
    <2> QED
      BY <2>1, <2>2 DEF OutagesAreKnown
  <1> QED
    BY <1>3, <1>4

\* The scope of a request that ends forgets what it knew and what it held.
LEMMA CloseForgets ==
    ASSUME TypeOK, OutageInv, NEW r \in Requests, CloseScope(r), UNCHANGED cacheVars
    PROVE  OutageIsNotShared' /\ OutagesAreKnown'
  <1>1. memoed'[r] = {}
    BY DEF CloseScope, TypeOK
  <1>2. \A q \in Requests : q # r =>
            memoed'[q] = memoed[q] /\ memo'[q] = memo[q] /\ degraded'[q] = degraded[q]
    BY DEF CloseScope, TypeOK
  <1> QED
    BY <1>1, <1>2 DEF OutageInv, OutageIsNotShared, OutagesAreKnown, cacheVars

LEMMA ComputeShares ==
    ASSUME OutageInv, NEW r \in Requests, NEW basis \in SUBSET visible,
           NEW inner \in SUBSET Keys, NEW d \in BOOLEAN, Compute(r, basis, inner, d)
    PROVE  OutageIsNotShared' /\ OutagesAreKnown'
  <1> DEFINE v == ComputedValue(r, basis, inner, d)
  <1>0. TypeOK
    BY DEF OutageInv
  <1>1. v \in Value
    BY <1>0, ComputedType DEF TypeOK
  <1>2. inner \subseteq memoed[r]
    BY DEF Compute
  <1>3. degraded'[r] = (degraded[r] \/ d) /\ \A q \in Requests : degraded[q] => degraded'[q]
    BY <1>0 DEF Compute, TypeOK
  <1>4. v.degraded => degraded[r] \/ d
    BY <1>2 DEF ComputedValue, OutageInv, OutagesAreKnown
  <1>5. Answer(r, v)
    BY DEF Compute
  <1>6. \/ UNCHANGED cacheVars
        \/ /\ ~degraded[r] /\ ~d /\ cached' = cached \cup {key[r]}
           /\ entry' = [entry EXCEPT ![key[r]] = [gen |-> gen[r], log |-> log[r], value |-> v]]
    BY DEF Compute, Shareable
  <1> HIDE DEF v
  <1>7. OutagesAreKnown'
    BY <1>0, <1>1, <1>3, <1>4, <1>5, AnswerKnows DEF OutageInv
  <1>8. CASE UNCHANGED cacheVars
    BY <1>7, <1>8 DEF OutageInv, OutageIsNotShared, cacheVars
  <1>9. CASE /\ ~degraded[r] /\ ~d /\ cached' = cached \cup {key[r]}
             /\ entry' = [entry EXCEPT ![key[r]] = [gen |-> gen[r], log |-> log[r], value |-> v]]
    <2>1. ~v.degraded
      BY <1>4, <1>9
    <2>2. \A k \in cached' : k \in Keys
      BY <1>0, <1>9 DEF TypeOK
    <2>3. entry'[key[r]].value = v /\ \A k \in Keys : k # key[r] => entry'[k] = entry[k]
      BY <1>0, <1>9 DEF TypeOK
    <2> QED
      BY <1>7, <1>9, <2>1, <2>2, <2>3 DEF OutageInv, OutageIsNotShared
  <1> QED
    BY <1>6, <1>8, <1>9

LEMMA OutageNext == ASSUME OutageInv, [Next]_vars PROVE OutageInv'
  <1> USE DEF dbVars, cacheVars, memoVars
  <1>0. TypeOK /\ TypeOK'
    BY NextType DEF OutageInv
  <1>1. CASE UNCHANGED <<cached, entry, memoed, memo, degraded>>
    BY <1>0, <1>1 DEF OutageInv, OutageIsNotShared, OutagesAreKnown
  <1>2. ASSUME NEW r \in Requests, CloseScope(r), UNCHANGED cacheVars PROVE OutageInv'
    BY <1>0, <1>2, CloseForgets DEF OutageInv
  <1>3. ASSUME NEW r \in Requests, EndWrite(r) PROVE OutageInv'
    BY <1>0, <1>3 DEF EndWrite, OutageInv, OutageIsNotShared, OutagesAreKnown, TypeOK
  <1>4. ASSUME NEW r \in Requests, Get(r) PROVE OutageInv'
    <2>1. CASE Hit(r)
      <3>1. Answer(r, entry[key[r]].value) /\ UNCHANGED <<cached, entry, degraded>>
        BY <1>4, <2>1 DEF Get
      <3>2. ~entry[key[r]].value.degraded
        BY <2>1 DEF Hit, OutageInv, OutageIsNotShared
      <3>3. entry[key[r]].value \in Value
        BY <1>0 DEF TypeOK, Entry
      <3>4. OutagesAreKnown'
        BY <1>0, <3>1, <3>2, <3>3, AnswerKnows DEF OutageInv
      <3> QED
        BY <1>0, <3>1, <3>4 DEF OutageInv, OutageIsNotShared
    <2>2. CASE ~Hit(r)
      <3>1. cached' \subseteq cached /\ UNCHANGED <<entry, memoed, memo, degraded>>
        BY <1>4, <2>2 DEF Get
      <3> QED
        BY <1>0, <3>1 DEF OutageInv, OutageIsNotShared, OutagesAreKnown
    <2> QED
      BY <2>1, <2>2
  <1>5. ASSUME NEW r \in Requests, NEW basis \in SUBSET visible, NEW inner \in SUBSET Keys,
               NEW d \in BOOLEAN, Compute(r, basis, inner, d)
        PROVE OutageInv'
    BY <1>0, <1>5, ComputeShares DEF OutageInv
  <1>6. ASSUME NEW k \in Keys, Evict(k) PROVE OutageInv'
    BY <1>0, <1>6 DEF Evict, OutageInv, OutageIsNotShared, OutagesAreKnown
  <1>7. ASSUME NEW r \in Requests, RequestStep(r) PROVE OutageInv'
    BY <1>1, <1>2, <1>3, <1>4, <1>5, <1>7
    DEF RequestStep, ReadGeneration, ReadLog, AcquireKey, WaitTimesOut, ComputeFails, Log, Show
  <1>8. CASE \/ \E w \in Writers : WriterStep(w)
             \/ \E w \in Outsiders : OutsiderStep(w)
             \/ \E r \in Requests : Start(r) \/ BeginWrite(r) \/ \E k \in Keys : Call(r, k)
             \/ UNCHANGED vars
    BY <1>1, <1>8 DEF WriterStep, OutsiderStep, Log, Show, Start, Call, BeginWrite, vars
  <1>9. ASSUME NEW r \in Requests, Finish(r) PROVE OutageInv'
    BY <1>2, <1>9 DEF Finish
  <1> QED
    BY <1>6, <1>7, <1>8, <1>9 DEF Next

\* No value an incomplete input went into, directly or through another helper's
\* value in the request's memo, is ever in the shared cache (mark_degraded).
THEOREM OutageIsNeverShared == Spec => []OutageIsNotShared
  <1>1. Init => OutageInv
    BY InitType DEF Init, OutageInv, OutageIsNotShared, OutagesAreKnown
  <1>2. OutageInv /\ [Next]_vars => OutageInv'
    BY OutageNext
  <1>3. OutageInv => OutageIsNotShared
    BY DEF OutageInv
  <1> QED
    BY <1>1, <1>2, <1>3, PTL DEF Spec

-----------------------------------------------------------------------------
(* Key locks *)

\* A request commits between BeginWrite and EndWrite only.
CommitsInWrite ==
    \A r \in Requests : wstate[r] \in {"announced", "logged", "visible"} => pc[r] = "writing"

\* A lock is held by a request that is at work on its key.
LocksInv == TypeOK /\ CommitsInWrite /\ LocksAreHeldInUse

LEMMA WritesNext == ASSUME TypeOK, TypeOK', CommitsInWrite, [Next]_vars PROVE CommitsInWrite'
  <1> USE DEF cacheVars, memoVars, dbVars, scopeVars
  <1>1. ASSUME NEW r \in Requests, pc[r] # "writing", UNCHANGED wstate,
               \E stage : pc' = [pc EXCEPT ![r] = stage]
        PROVE  CommitsInWrite'
    BY <1>1 DEF CommitsInWrite, Commits, TypeOK
  <1>2. CASE UNCHANGED <<wstate, pc>>
    BY <1>2 DEF CommitsInWrite
  <1>3. ASSUME NEW r \in Requests, BeginWrite(r) \/ EndWrite(r) PROVE CommitsInWrite'
    <2>1. r \in Commits
      BY DEF Commits
    <2>2. CASE BeginWrite(r)
      <3>1. /\ wstate' = [wstate EXCEPT ![r] = "announced"]
            /\ pc' = [pc EXCEPT ![r] = "writing"]
        BY <2>2 DEF BeginWrite, Announce
      <3> QED
        BY <2>1, <3>1 DEF CommitsInWrite, TypeOK
    <2>3. CASE EndWrite(r)
      <3>1. /\ wstate' = [wstate EXCEPT ![r] = "returned"]
            /\ pc' = [pc EXCEPT ![r] = "serving"]
        BY <2>3 DEF EndWrite, BumpAfter
      <3> QED
        BY <2>1, <3>1 DEF CommitsInWrite, TypeOK
    <2> QED
      BY <1>3, <2>2, <2>3
  <1>4. ASSUME NEW r \in Requests, Log(r, "announced") \/ Show(r, "visible")
        PROVE  CommitsInWrite'
    BY <1>4 DEF Log, Show, CommitsInWrite, Commits, TypeOK
  <1>5. ASSUME NEW w \in Commits \ Requests,
               wstate' = [wstate EXCEPT ![w] = wstate'[w]], UNCHANGED pc
        PROVE  CommitsInWrite'
    BY <1>5 DEF CommitsInWrite, Commits, TypeOK
  <1>6. ASSUME NEW r \in Requests, ReadGeneration(r) \/ ReadLog(r) \/ Get(r) \/ AcquireKey(r)
        PROVE  CommitsInWrite'
    <2>1. CASE ReadGeneration(r) \/ ReadLog(r) \/ AcquireKey(r)
      BY <1>1, <2>1 DEF ReadGeneration, ReadLog, AcquireKey
    <2>2. CASE Get(r)
      BY <1>1, <2>2 DEF Get, Answer
    <2> QED
      BY <1>6, <2>1, <2>2
  <1>7. ASSUME NEW r \in Requests, NEW basis \in SUBSET visible, NEW inner \in SUBSET Keys,
               NEW d \in BOOLEAN, Compute(r, basis, inner, d)
        PROVE  CommitsInWrite'
    BY <1>1, <1>7 DEF Compute, Answer
  <1>8. ASSUME NEW r \in Requests, WaitTimesOut(r) \/ ComputeFails(r) \/ Start(r) \/ Finish(r)
        PROVE  CommitsInWrite'
    BY <1>1, <1>8 DEF WaitTimesOut, ComputeFails, Start, Finish, CloseScope
  <1>9. ASSUME NEW r \in Requests, NEW k \in Keys, Call(r, k) PROVE CommitsInWrite'
    BY <1>1, <1>2, <1>9 DEF Call
  <1>10. ASSUME NEW w \in Writers, WriterStep(w) PROVE CommitsInWrite'
    BY <1>5, <1>10, DistinctAssumption
    DEF WriterStep, Announce, Log, Show, BumpAfter, Commits, TypeOK
  <1>11. ASSUME NEW w \in Outsiders, OutsiderStep(w) PROVE CommitsInWrite'
    BY <1>5, <1>11, DistinctAssumption DEF OutsiderStep, Log, Show, Commits, TypeOK
  <1>12. ASSUME NEW k \in Keys, Evict(k) PROVE CommitsInWrite'
    BY <1>2, <1>12 DEF Evict
  <1> QED
    BY <1>2, <1>3, <1>4, <1>6, <1>7, <1>8, <1>9, <1>10, <1>11, <1>12
    DEF Next, RequestStep, vars

\* A step of a request that does not hold the key's lock after it.
LEMMA LeavesLocks ==
    ASSUME LocksInv, TypeOK', CommitsInWrite', NEW r \in Requests, UNCHANGED key,
           \A k \in Keys : holder'[k] \in {holder[k], NoOne} /\ holder'[k] # r,
           \A q \in Requests \ {r} : pc'[q] = pc[q]
    PROVE  LocksInv'
  <1> SUFFICES ASSUME NEW k \in Keys, holder'[k] # NoOne
               PROVE  key'[holder'[k]] = k /\ pc'[holder'[k]] \in {"getAgain", "compute"}
    BY DEF LocksInv, LocksAreHeldInUse
  <1>1. holder'[k] = holder[k] /\ holder'[k] # r /\ holder[k] \in Requests
    BY DEF LocksInv, TypeOK
  <1> QED
    BY <1>1 DEF LocksInv, LocksAreHeldInUse

\* Nobody holds a lock of a request that is not at work on a key, and a request
\* at work holds the lock of its own key at most.
LEMMA ReleasesLock ==
    ASSUME LocksInv, TypeOK', CommitsInWrite', NEW r \in Requests, UNCHANGED key, ReleaseKey(r),
           \A q \in Requests \ {r} : pc'[q] = pc[q]
    PROVE  LocksInv'
  <1>1. \A k \in Keys : holder'[k] \in {holder[k], NoOne} /\ holder'[k] # r
    <2> SUFFICES ASSUME NEW k \in Keys
                 PROVE  holder'[k] \in {holder[k], NoOne} /\ holder'[k] # r
      OBVIOUS
    <2>0. holder \in [Keys -> Requests \cup {NoOne}] /\ key[r] \in Keys
      BY DEF LocksInv, TypeOK
    <2>1. CASE holder[key[r]] = r
      <3>1. holder[k] = r => k = key[r]
        BY NoOneAssumption DEF LocksInv, LocksAreHeldInUse
      <3>2. holder' = [holder EXCEPT ![key[r]] = NoOne]
        BY <2>1 DEF ReleaseKey
      <3> QED
        BY <2>0, <3>1, <3>2, NoOneAssumption
    <2>2. CASE holder[key[r]] # r
      <3>1. holder[k] # r
        BY <2>2, NoOneAssumption DEF LocksInv, LocksAreHeldInUse
      <3> QED
        BY <2>2, <3>1 DEF ReleaseKey
    <2> QED
      BY <2>1, <2>2
  <1> QED
    BY <1>1, LeavesLocks

LEMMA LocksNext == ASSUME LocksInv, [Next]_vars PROVE LocksInv'
  <1> USE DEF cacheVars, memoVars, dbVars, scopeVars
  <1>0. TypeOK /\ TypeOK' /\ CommitsInWrite /\ CommitsInWrite'
    BY NextType, WritesNext DEF LocksInv
  <1>1. ASSUME NEW r \in Requests, pc[r] \notin {"getAgain", "compute"}, UNCHANGED <<holder, key>>,
               \E stage : pc' = [pc EXCEPT ![r] = stage]
        PROVE  LocksInv'
    BY <1>0, <1>1, LeavesLocks, NoOneAssumption DEF LocksInv, LocksAreHeldInUse, TypeOK
  <1>2. CASE UNCHANGED <<holder, key, pc>>
    BY <1>0, <1>2 DEF LocksInv, LocksAreHeldInUse
  <1>3. ASSUME NEW r \in Requests, NEW k \in Keys, Call(r, k) PROVE LocksInv'
    BY <1>0, <1>3, NoOneAssumption DEF Call, LocksInv, LocksAreHeldInUse, TypeOK
  <1>4. ASSUME NEW r \in Requests, Get(r) PROVE LocksInv'
    <2>1. CASE Hit(r) /\ pc[r] = "getAgain"
      BY <1>0, <1>4, <2>1, ReleasesLock DEF Get, Answer, TypeOK
    <2>2. CASE pc[r] = "get"
      BY <1>0, <1>1, <1>4, <2>2 DEF Get, Answer
    <2>3. CASE ~Hit(r) /\ pc[r] = "getAgain"
      <3>1. pc' = [pc EXCEPT ![r] = "compute"] /\ UNCHANGED <<holder, key>>
        BY <1>4, <2>3 DEF Get, AfterMiss
      <3> QED
        BY <1>0, <3>1 DEF LocksInv, LocksAreHeldInUse, TypeOK
    <2> QED
      BY <1>4, <2>1, <2>2, <2>3 DEF Get
  <1>5. ASSUME NEW r \in Requests, AcquireKey(r) PROVE LocksInv'
    BY <1>0, <1>5, NoOneAssumption DEF AcquireKey, LocksInv, LocksAreHeldInUse, TypeOK
  <1>6. ASSUME NEW r \in Requests, NEW basis \in SUBSET visible, NEW inner \in SUBSET Keys,
               NEW d \in BOOLEAN, Compute(r, basis, inner, d)
        PROVE LocksInv'
    <2>1. pc' = [pc EXCEPT ![r] = "serving"] /\ UNCHANGED key /\ ReleaseKey(r)
      BY <1>6 DEF Compute, Answer
    <2> QED
      BY <1>0, <2>1, ReleasesLock DEF LocksInv, TypeOK
  <1>7. ASSUME NEW r \in Requests, ComputeFails(r) PROVE LocksInv'
    <2>1. pc' = [pc EXCEPT ![r] = "done"] /\ UNCHANGED key /\ ReleaseKey(r)
      BY <1>7 DEF ComputeFails, CloseScope
    <2> QED
      BY <1>0, <2>1, ReleasesLock DEF LocksInv, TypeOK
  <1>8. ASSUME NEW r \in Requests, Start(r) \/ BeginWrite(r) \/ Finish(r) PROVE LocksInv'
    BY <1>1, <1>8 DEF Start, BeginWrite, Finish, CloseScope
  <1>9. ASSUME NEW r \in Requests, ReadGeneration(r) \/ ReadLog(r) \/ WaitTimesOut(r)
        PROVE LocksInv'
    <2>1. CASE ReadGeneration(r) \/ ReadLog(r)
      BY <1>1, <2>1 DEF ReadGeneration, ReadLog
    <2>2. CASE WaitTimesOut(r)
      BY <1>1, <2>2 DEF WaitTimesOut
    <2> QED
      BY <1>9, <2>1, <2>2
  <1>10. ASSUME NEW r \in Requests, EndWrite(r) \/ Log(r, "announced") \/ Show(r, "visible")
         PROVE LocksInv'
    <2>1. CASE EndWrite(r)
      BY <1>0, <1>1, <2>1 DEF EndWrite, BumpAfter, CommitsInWrite
    <2>2. CASE Log(r, "announced") \/ Show(r, "visible")
      BY <1>2, <2>2 DEF Log, Show
    <2> QED
      BY <1>10, <2>1, <2>2
  <1>11. ASSUME NEW r \in Requests, RequestStep(r) PROVE LocksInv'
    BY <1>4, <1>5, <1>6, <1>7, <1>9, <1>10, <1>11 DEF RequestStep
  <1>12. CASE \/ \E w \in Writers : WriterStep(w)
              \/ \E w \in Outsiders : OutsiderStep(w)
              \/ \E k \in Keys : Evict(k)
              \/ UNCHANGED vars
    BY <1>2, <1>12 DEF WriterStep, OutsiderStep, Log, Show, Evict, vars
  <1> QED
    BY <1>3, <1>8, <1>11, <1>12 DEF Next

\* Whatever waits time out and computations raise, a key's lock is held by a request that is
\* looking its key up again or computing it, never by one that is done with it (_KeyLocks).
THEOREM LocksAreAlwaysHeldInUse == Spec => []LocksAreHeldInUse
  <1>1. Init => LocksInv
    <2> SUFFICES ASSUME Init PROVE LocksInv
      OBVIOUS
    <2>1. CommitsInWrite
      BY DEF Init, CommitsInWrite, Commits
    <2>2. LocksAreHeldInUse
      BY DEF Init, LocksAreHeldInUse
    <2> QED
      BY <2>1, <2>2, InitType DEF LocksInv
  <1>2. LocksInv /\ [Next]_vars => LocksInv'
    BY LocksNext
  <1>3. LocksInv => LocksAreHeldInUse
    BY DEF LocksInv
  <1> QED
    BY <1>1, <1>2, <1>3, PTL DEF Spec

(***************************************************************************)
(* FxRates.                                                                *)
(***************************************************************************)

\* A set of days that is not empty has a first one.
LEMMA EarliestIsFirst ==
    ASSUME NEW S \in SUBSET Days, S # {}
    PROVE  Earliest(S) \in S /\ \A e \in S : Earliest(S) <= e
  <1>1. S \subseteq Nat
    BY DaysAssumption
  <1>2. PICK x \in S : \A y \in S : ~ (<<y, x>> \in OpToRel(<, Nat))
    BY <1>1, WFMin, NatLessThanWellFounded
  <1>3. \A y \in S : ~ (y < x)
    BY <1>1, <1>2 DEF OpToRel
  <1>4. \A y \in S : x <= y
    BY <1>1, <1>3
  <1> QED
    BY <1>4 DEF Earliest

\* Of the days up to one that have a row within an age, one is the latest.
LEMMA LatestIsLast ==
    ASSUME NEW table, NEW d \in Days, NEW age, Latest(table, d, age) # None
    PROVE  /\ Latest(table, d, age) \in Days
           /\ Latest(table, d, age) <= d
           /\ table[Latest(table, d, age)] # None
  <1> DEFINE with == {e \in Days : e <= d /\ d - e <= age /\ table[e] # None}
             Far == {d - e : e \in with}
  <1>1. with # {} /\ Latest(table, d, age) = CHOOSE e \in with : \A f \in with : f <= e
    BY DEF Latest
  <1>2. d \in Nat /\ with \subseteq Nat /\ \A e \in with : e <= d
    BY DaysAssumption
  <1>3. Far \subseteq Nat /\ Far # {}
    <2> HIDE DEF with
    <2>1. \A e \in with : d - e \in Nat
      BY <1>2
    <2>2. PICK e \in with : TRUE
      BY <1>1
    <2>3. d - e \in Far
      BY <2>2
    <2> QED
      BY <2>1, <2>3
  <1>4. PICK x \in Far : \A y \in Far : ~ (<<y, x>> \in OpToRel(<, Nat))
    <2> HIDE DEF Far
    <2> QED
      BY <1>3, WFMin, NatLessThanWellFounded
  <1>5. \A y \in Far : ~ (y < x)
    <2> HIDE DEF Far
    <2> QED
      BY <1>3, <1>4 DEF OpToRel
  <1>6. PICK m \in with : x = d - m
    OBVIOUS
  <1>7. \A f \in with : f <= m
    <2> SUFFICES ASSUME NEW f \in with PROVE f <= m
      OBVIOUS
    <2>1. ~ (d - f < d - m)
      BY <1>5, <1>6
    <2>2. f \in Nat /\ m \in Nat
      BY <1>2
    <2> QED
      BY <1>2, <2>1, <2>2
  <1>8. Latest(table, d, age) \in with
    <2> HIDE DEF with
    <2> QED
      BY <1>1, <1>7
  <1> QED
    BY <1>8

\* Two tables that say the same up to a day give it the same rate.
LEMMA RateIsOfEarlierRows ==
    ASSUME NEW one \in Table, NEW two \in Table, NEW d \in Days,
           \A e \in Days : e <= d => one[e] = two[e]
    PROVE  RateIn(one, d) = RateIn(two, d)
  <1>1. \A age : Latest(one, d, age) = Latest(two, d, age)
    <2> SUFFICES ASSUME NEW age PROVE Latest(one, d, age) = Latest(two, d, age)
      OBVIOUS
    <2> DEFINE W(table) == {e \in Days : e <= d /\ d - e <= age /\ table[e] # None}
    <2>1. W(one) = W(two)
      OBVIOUS
    <2>2. \A table : Latest(table, d, age) = IF W(table) = {} THEN None
                        ELSE CHOOSE e \in W(table) : \A f \in W(table) : f <= e
      BY DEF Latest
    <2> HIDE DEF W
    <2> QED
      BY <2>1, <2>2
  <1>2. Found(one, d) = Found(two, d)
    BY <1>1 DEF Found
  <1>3. Found(one, d) # None => Found(one, d) \in Days /\ Found(one, d) <= d
    BY LatestIsLast DEF Found
  <1> QED
    BY <1>2, <1>3 DEF RateIn

\* A rate is one, or there is none.
LEMMA RateIsARate ==
    ASSUME NEW table \in Table, NEW d \in Days
    PROVE  RateIn(table, d) \in Rates \cup {None}
  <1>1. Found(table, d) # None => Found(table, d) \in Days
    BY LatestIsLast DEF Found
  <1> QED
    BY <1>1 DEF RateIn, Table

\* Rows laid over rows are rows.
LEMMA OverIsATable ==
    ASSUME NEW new \in Table, NEW old \in Table
    PROVE  Over(new, old) \in Table /\ Over(Blank, old) = old
  <1>1. Over(new, old) \in Table
    BY DEF Over, Table
  <1>2. Over(Blank, old) \in Table /\ \A d \in Days : Over(Blank, old)[d] = old[d]
    BY DEF Over, Blank, Table
  <1> QED
    BY <1>1, <1>2 DEF Table

\* What a thread begins with is a job.
LEMMA JobsAreJobs ==
    /\ Blank \in Table
    /\ NoJob \in Jobs
    /\ \A task \in {"none", "read", "fill", "import"}, d \in Days, table \in Table :
           /\ Job(task, d, table) \in Jobs
           /\ Job(task, d, table).task = task
           /\ Job(task, d, table).day = d
           /\ Job(task, d, table).rows = table
           /\ Job(task, d, table).late = FALSE
  <1>1. Blank \in Table
    BY DEF Blank, Table
  <1>2. NoJob \in Jobs
    BY <1>1, DaysAssumption DEF NoJob, Jobs
  <1>3. ASSUME NEW task \in {"none", "read", "fill", "import"}, NEW d \in Days, NEW table \in Table
        PROVE  /\ Job(task, d, table) \in Jobs
               /\ Job(task, d, table).task = task
               /\ Job(task, d, table).day = d
               /\ Job(task, d, table).rows = table
               /\ Job(task, d, table).late = FALSE
    BY <1>1, DaysAssumption DEF Job, NoJob, Jobs
  <1> QED
    BY <1>1, <1>2, <1>3

\* The outcome of a call.
LEMMA OutcomesAreOutcomes ==
    /\ Failed \in Outcomes
    /\ \A table \in Table : Answered(table) \in Outcomes
  BY JobsAreJobs DEF Failed, Answered, Outcomes

(***************************************************************************)
(* What the steps have in common: all but a commit move one thread, to a   *)
(* place and a job, and leave the rows.                                    *)
(***************************************************************************)

Moved(t, place, next) ==
    /\ doing' = [doing EXCEPT ![t] = place]
    /\ job' = [job EXCEPT ![t] = next]

\* With an answer a read reads again; without one it goes on with the rows it had, if they do.
LEMMA TakeMoves ==
    ASSUME FxTypeOK, NEW t \in Threads, NEW answer \in Outcomes, Take(t, answer)
    PROVE  \E place \in {"idle", "keep", "reread"}, next \in Jobs :
               /\ Moved(t, place, next)
               /\ place = "keep" => next = job[t] /\ next.task = "read" /\ ~answer.ok
  <1>1. job[t] \in Jobs /\ Day(t) \in Days
    BY DEF FxTypeOK, Jobs, Day
  <1>2. CASE Rest(t)
    BY <1>2, JobsAreJobs DEF Rest, Begin, Goto, Moved
  <1>3. CASE Goto(t, "keep") /\ UNCHANGED job /\ ~answer.ok /\ job[t].task = "read"
    <2>1. job' = [job EXCEPT ![t] = job[t]]
      BY <1>3 DEF FxTypeOK
    <2> QED
      BY <1>1, <1>3, <2>1 DEF Goto, Moved
  <1>4. CASE Goto(t, "reread") /\ Begin(t, Job("read", Day(t), answer.unstored))
    <2>1. Job("read", Day(t), answer.unstored) \in Jobs
      BY <1>1, JobsAreJobs DEF Outcomes
    <2> QED
      BY <1>4, <2>1 DEF Goto, Begin, Moved
  <1> QED
    BY <1>2, <1>3, <1>4 DEF Take

\* A thread may be left at a place with a job: a read that will use its rows without reading
\* again has those that are stored, or those it had before it asked.
MayBeAt(t, place, next) ==
    /\ \/ place \notin {"ask", "lock", "call", "keep"}
       \/ next.task # "read"
       \/ next = job[t] /\ doing[t] \in {"ask", "lock", "call"}
       \/ next.late = FALSE /\ next.rows = stored
    /\ place = "keep" => next.task = "read"

\* Where each step of a thread but a commit takes it.
LEMMA StepMoves ==
    ASSUME FxTypeOK, NEW t \in Threads, Step(t), ~Commit(t)
    PROVE  /\ stored' = stored
           /\ \E place \in Places \ {"drop"}, next \in Jobs :
                  Moved(t, place, next) /\ MayBeAt(t, place, next)
  <1> DEFINE Goal == \E place \in Places \ {"drop"}, next \in Jobs :
                         Moved(t, place, next) /\ MayBeAt(t, place, next)
  <1>1. job[t] \in Jobs /\ Day(t) \in Days /\ job[t].rows \in Table /\ stored \in Table
    BY DEF FxTypeOK, Jobs, Day
  <1>2. job' = job => job' = [job EXCEPT ![t] = job[t]]
    BY DEF FxTypeOK
  <1>3. ASSUME NEW place \in Places \ {"drop", "ask", "lock", "call", "keep"}, NEW next \in Jobs,
               Moved(t, place, next)
        PROVE  Goal
    <2>1. MayBeAt(t, place, next)
      BY DEF MayBeAt
    <2> QED
      BY <1>3, <2>1
  <1>4. {"idle", "store", "commit", "keep unstored"}
             \subseteq Places \ {"drop", "ask", "lock", "call", "keep"}
    BY DEF Places
  <1>5. ASSUME NEW answer \in Outcomes, Take(t, answer),
               doing[t] \in {"ask", "lock", "call"} \/ answer.ok
        PROVE  Goal
    BY <1>5, TakeMoves DEF Places, MayBeAt
  <1>6. ASSUME Rest(t) PROVE Goal
    <2>1. Moved(t, "idle", NoJob)
      BY <1>6 DEF Rest, Begin, Goto, Moved
    <2>2. NoJob \in Jobs
      BY JobsAreJobs
    <2> QED
      BY <1>3, <1>4, <2>1, <2>2
  <1>7. \A table \in Table : Answered(table) \in Outcomes /\ Answered(table).ok
    BY OutcomesAreOutcomes DEF Answered
  <1>8. Blank \in Table
    BY JobsAreJobs
  <1>9. ASSUME NEW d \in Days, Read(t, d)
        PROVE  stored' = stored /\ Goal
    <2> DEFINE next == Job("read", d, stored)
    <2>1. next \in Jobs /\ next.task = "read" /\ next.late = FALSE /\ next.rows = stored
      BY <1>1, JobsAreJobs
    <2>2. \E place \in {"ask", "keep"} : Moved(t, place, next)
      BY <1>9 DEF Read, Begin, Goto, Moved
    <2> HIDE DEF next
    <2> QED
      <3>1. \A place \in {"ask", "keep"} : place \in Places \ {"drop"} /\ MayBeAt(t, place, next)
        BY <2>1 DEF MayBeAt, Places
      <3> QED
        BY <1>9, <2>1, <2>2, <3>1 DEF Read
  <1>10. CASE FillDaily(t)
    <2> DEFINE next == Job("fill", Today, Blank)
    <2>1. next \in Jobs /\ next.task # "read"
      BY <1>8, DaysAssumption, JobsAreJobs
    <2>2. Moved(t, "ask", next)
      BY <1>10 DEF FillDaily, Begin, Goto, Moved
    <2> HIDE DEF next
    <2> QED
      <3>1. "ask" \in Places \ {"drop"} /\ MayBeAt(t, "ask", next)
        BY <2>1 DEF MayBeAt, Places
      <3> QED
        BY <1>10, <2>1, <2>2, <3>1 DEF FillDaily
  <1>11. CASE Look(t)
    <2>1. CASE answers[Day(t)] # None
      <3>1. answers[Day(t)] \in Outcomes
        BY <1>1, <2>1 DEF FxTypeOK
      <3> QED
        BY <1>5, <1>11, <2>1, <3>1 DEF Look
    <2>2. CASE answers[Day(t)] = None
      <3>1. "lock" \in Places \ {"drop"} /\ MayBeAt(t, "lock", job[t])
        BY <1>11 DEF Look, MayBeAt, Places
      <3>2. Moved(t, "lock", job[t])
        BY <1>2, <1>11, <2>2 DEF Look, Goto, Moved
      <3> QED
        BY <1>1, <1>11, <3>1, <3>2 DEF Look
    <2> QED
      BY <2>1, <2>2
  <1>12. CASE Enter(t)
    <2>1. CASE answers[Day(t)] # None
      <3>1. answers[Day(t)] \in Outcomes
        BY <1>1, <2>1 DEF FxTypeOK
      <3> QED
        BY <1>5, <1>12, <2>1, <3>1 DEF Enter
    <2>2. CASE answers[Day(t)] = None
      <3>1. "call" \in Places \ {"drop"} /\ MayBeAt(t, "call", job[t])
        BY <1>12 DEF Enter, MayBeAt, Places
      <3>2. Moved(t, "call", job[t])
        BY <1>2, <1>12, <2>2 DEF Enter, Goto, Moved
      <3> QED
        BY <1>1, <1>12, <3>1, <3>2 DEF Enter
    <2> QED
      BY <2>1, <2>2
  <1>13. CASE CallFails(t)
    BY <1>5, <1>13, OutcomesAreOutcomes DEF CallFails, Leave
  <1>14. ASSUME NEW new \in Table, CallReturns(t, new)
         PROVE  stored' = stored /\ Goal
    <2> DEFINE next == [job[t] EXCEPT !.rows = new]
    <2>1. next \in Jobs
      BY <1>1 DEF Jobs
    <2>2. Moved(t, "store", next)
      BY <1>14 DEF CallReturns, Goto, Moved
    <2> HIDE DEF next
    <2> QED
      BY <1>14, <1>3, <1>4, <2>1, <2>2 DEF CallReturns
  <1>15. CASE StoreFails(t)
    BY <1>1, <1>5, <1>7, <1>15 DEF StoreFails, Leave
  <1>16. CASE Reread(t)
    <2> DEFINE next == Job("read", Day(t), Over(stored, job[t].rows))
    <2>1. next \in Jobs /\ next.task = "read" /\ next.late = FALSE
      BY <1>1, JobsAreJobs, OverIsATable
    <2>2. job[t].rows = Blank => next.rows = stored
      <3>1. Over(stored, Blank) = stored
        BY DEF Over, Blank, Table, FxTypeOK
      <3> QED
        BY <1>1, <3>1, JobsAreJobs
    <2>3. Moved(t, IF job[t].rows = Blank THEN "keep" ELSE "keep unstored", next)
      BY <1>16 DEF Reread, Begin, Goto, Moved
    <2> HIDE DEF next
    <2> QED
      <3>1. stored' = stored
        BY <1>16 DEF Reread
      <3>2. CASE job[t].rows = Blank
        <4>1. "keep" \in Places \ {"drop"} /\ MayBeAt(t, "keep", next)
          BY <2>1, <2>2, <3>2 DEF MayBeAt, Places
        <4> QED
          BY <2>1, <2>3, <3>1, <3>2, <4>1
      <3>3. CASE job[t].rows # Blank
        BY <1>3, <1>4, <2>1, <2>3, <3>1, <3>3
      <3> QED
        BY <3>2, <3>3
  <1>17. CASE Keep(t)
    BY <1>6, <1>17 DEF Keep
  <1>18. ASSUME NEW new \in Table, Bring(t, new)
         PROVE  stored' = stored /\ Goal
    <2> DEFINE next == Job("import", Today, new)
    <2>1. next \in Jobs
      BY DaysAssumption, JobsAreJobs
    <2>2. Moved(t, "store", next)
      BY <1>18 DEF Bring, Begin, Goto, Moved
    <2> HIDE DEF next
    <2> QED
      BY <1>18, <1>3, <1>4, <2>1, <2>2 DEF Bring
  <1>19. CASE Upsert(t)
    <2>1. Moved(t, "commit", job[t])
      BY <1>2, <1>19 DEF Upsert, Goto, Moved
    <2> QED
      BY <1>1, <1>19, <1>3, <1>4, <2>1 DEF Upsert
  <1>20. ASSUME Done(t) PROVE Goal
    BY <1>5, <1>6, <1>7, <1>8, <1>20 DEF Done, Leave
  <1>21. CASE StoreNothing(t) \/ DropAgain(t)
    BY <1>20, <1>21 DEF StoreNothing, DropAgain
  <1> QED
    BY <1>9, <1>10, <1>11, <1>12, <1>13, <1>14, <1>15, <1>16, <1>17, <1>18, <1>19, <1>21 DEF Step

(***************************************************************************)
(* The types.                                                              *)
(***************************************************************************)

\* What a call leaves behind.
LEMMA LeaveKeepsTypes ==
    ASSUME FxTypeOK, NEW t \in Threads, NEW answer \in Outcomes, Leave(t, answer)
    PROVE  /\ answers' \in [Days -> Outcomes \cup {None}]
           /\ lock' \in [Days -> Threads \cup {None}]
  BY DEF Leave, FxTypeOK

\* What memory keeps is entries, or nothing.
LEMMA DroppedKeepsTypes ==
    ASSUME FxTypeOK, NEW from
    PROVE  /\ Dropped(from) \in [Days -> Entries \cup {None}]
           /\ \A d \in Days : Dropped(from)[d] \in {kept[d], None}
           /\ \A d \in Days : d >= from => Dropped(from)[d] = None
  BY DEF Dropped, FxTypeOK

\* Before the first read every variable has its type.
LEMMA FxTypesHoldInitially ==
    FxInit => FxTypeOK
  <1> SUFFICES ASSUME FxInit PROVE FxTypeOK
    OBVIOUS
  <1>1. NoJob \in Jobs
    BY JobsAreJobs
  <1> QED
    BY <1>1 DEF FxInit, FxTypeOK, Places

\* A step of a thread's that commits nothing keeps the types.
LEMMA StepKeepsTypes ==
    ASSUME FxTypeOK, NEW t \in Threads, Step(t), ~Commit(t)
    PROVE  FxTypeOK'
  <1>1. stored' \in Table /\ doing' \in [Threads -> Places] /\ job' \in [Threads -> Jobs]
    BY StepMoves DEF Moved, FxTypeOK
  <1>2. /\ job[t] \in Jobs /\ Day(t) \in Days /\ job[t].rows \in Table
        /\ Answered(job[t].rows) \in Outcomes /\ Answered(Blank) \in Outcomes
        /\ Failed \in Outcomes
    <2>1. job[t] \in Jobs /\ Day(t) \in Days /\ job[t].rows \in Table
      BY DEF FxTypeOK, Jobs, Day
    <2>2. Blank \in Table
      BY JobsAreJobs
    <2> QED
      BY <2>1, <2>2, OutcomesAreOutcomes
  <1>3. ASSUME Done(t)
        PROVE  answers' \in [Days -> Outcomes \cup {None}] /\ lock' \in [Days -> Threads \cup {None}]
    BY <1>2, <1>3, LeaveKeepsTypes DEF Done, FxTypeOK
  <1>4. kept' \in [Days -> Entries \cup {None}]
    <2>1. CASE Keep(t)
      <3> DEFINE one == [rate |-> RateIn(job[t].rows, Day(t)),
                          unstored |-> doing[t] = "keep unstored", late |-> job[t].late]
      <3>1. RateIn(job[t].rows, Day(t)) \in Rates \cup {None}
        BY <1>2, RateIsARate
      <3>2. job[t].late \in BOOLEAN
        BY <1>2 DEF Jobs
      <3>3. one \in Entries
        BY <3>1, <3>2 DEF Entries
      <3>4. kept' = [kept EXCEPT ![Day(t)] = one]
        BY <2>1 DEF Keep
      <3> QED
        BY <1>2, <3>3, <3>4 DEF FxTypeOK
    <2>2. CASE Upsert(t) \/ DropAgain(t)
      BY <2>2, DroppedKeepsTypes DEF Upsert, DropAgain
    <2>3. CASE ~Keep(t) /\ ~Upsert(t) /\ ~DropAgain(t)
      <3>1. kept' = kept
        BY <2>3 DEF Step, Read, FillDaily, Look, Enter, CallFails, StoreFails, Reread, CallReturns,
                    Bring, StoreNothing
      <3> QED
        BY <3>1 DEF FxTypeOK
    <2> QED
      BY <2>1, <2>2, <2>3
  <1>5. answers' \in [Days -> Outcomes \cup {None}] /\ lock' \in [Days -> Threads \cup {None}]
    <2>1. CASE FillDaily(t)
      BY <2>1 DEF FillDaily, FxTypeOK
    <2>2. CASE Enter(t)
      BY <1>2, <2>2 DEF Enter, FxTypeOK
    <2>3. CASE CallFails(t) \/ StoreFails(t)
      BY <1>2, <2>3, LeaveKeepsTypes DEF CallFails, StoreFails
    <2>4. CASE StoreNothing(t) \/ DropAgain(t)
      BY <1>3, <2>4 DEF StoreNothing, DropAgain
    <2>5. CASE /\ ~FillDaily(t) /\ ~Enter(t) /\ ~CallFails(t) /\ ~StoreFails(t)
               /\ ~StoreNothing(t) /\ ~DropAgain(t)
      <3>1. answers' = answers /\ lock' = lock
        BY <2>5 DEF Step, Read, Look, Reread, Keep, CallReturns, Bring, Upsert
      <3> QED
        BY <3>1 DEF FxTypeOK
    <2> QED
      BY <2>1, <2>2, <2>3, <2>4, <2>5
  <1>6. asked' \in [Days -> Nat]
    <2>1. \/ asked' = asked
          \/ asked' = [d \in Days |-> 0]
          \/ asked' = [asked EXCEPT ![Day(t)] = @ + 1]
      BY DEF Step, Read, FillDaily, Look, Enter, CallFails, StoreFails, Reread, Keep, CallReturns,
             Bring, Upsert, StoreNothing, DropAgain
    <2> QED
      BY <1>2, <2>1 DEF FxTypeOK
  <1>7. stores' \in Nat
    <2>1. stores' = stores \/ stores' = stores + 1
      BY DEF Step, Read, FillDaily, Look, Enter, CallFails, StoreFails, Reread, Keep, CallReturns,
             Bring, Upsert, StoreNothing, DropAgain
    <2> QED
      BY <2>1 DEF FxTypeOK
  <1> QED
    BY <1>1, <1>4, <1>5, <1>6, <1>7 DEF FxTypeOK

\* What a commit makes of the jobs: its own keeps the rows that it has changed, a read that has
\* rows of those days is late.
LEMMA CommitMoves ==
    ASSUME FxTypeOK, NEW t \in Threads, Commit(t)
    PROVE  LET changed == Changed(job[t].rows)
               new == [d \in Days |-> IF d \in changed THEN job[t].rows[d] ELSE None]
           IN  /\ stored' = Over(job[t].rows, stored) /\ stored' \in Table
               /\ doing' = [doing EXCEPT ![t] = "drop"]
               /\ job' \in [Threads -> Jobs]
               /\ job'[t].rows = new
               /\ \A u \in Threads \ {t} :
                      /\ job'[u].task = job[u].task /\ job'[u].day = job[u].day
                      /\ job'[u].rows = job[u].rows
                      /\ job[u].late => job'[u].late
                      /\ Reading(u) /\ Earliest(changed) <= Day(u) => job'[u].late
  <1> DEFINE changed == Changed(job[t].rows)
             new == [d \in Days |-> IF d \in changed THEN job[t].rows[d] ELSE None]
             mine == [job[t] EXCEPT !.rows = new]
             theirs(u) == [job[u] EXCEPT !.late = @ \/ (Reading(u) /\ Earliest(changed) <= Day(u))]
  <1>1. \A u \in Threads : job[u] \in Jobs /\ job[u].rows \in Table
    BY DEF FxTypeOK, Jobs
  <1>2. new \in Table
    BY <1>1 DEF Table
  <1>3. mine \in Jobs /\ mine.rows = new
    <2> HIDE DEF new
    <2> QED
      BY <1>1, <1>2 DEF Jobs
  <1>4. \A u \in Threads : LET late == job[u].late \/ (Reading(u) /\ Earliest(changed) <= Day(u))
                           IN  late \in BOOLEAN
    BY <1>1 DEF Jobs
  <1>5. \A u \in Threads :
            /\ theirs(u) \in Jobs
            /\ theirs(u).task = job[u].task /\ theirs(u).day = job[u].day
            /\ theirs(u).rows = job[u].rows
            /\ theirs(u).late = (job[u].late \/ (Reading(u) /\ Earliest(changed) <= Day(u)))
    <2> HIDE DEF changed
    <2> QED
      BY <1>1, <1>4 DEF Jobs
  <1>6. job' = [u \in Threads |-> IF u = t THEN mine ELSE theirs(u)]
    BY DEF Commit
  <1>7. stored' = Over(job[t].rows, stored) /\ stored' \in Table
    BY <1>1, OverIsATable DEF Commit, FxTypeOK
  <1>8. doing' = [doing EXCEPT ![t] = "drop"]
    BY DEF Commit, Goto
  <1> HIDE DEF mine, theirs, new, changed
  <1>9. job' \in [Threads -> Jobs]
    BY <1>3, <1>5, <1>6
  <1>10. job'[t] = mine /\ \A u \in Threads \ {t} : job'[u] = theirs(u)
    BY <1>6
  <1>11. \A u \in Threads \ {t} :
             /\ job'[u].task = job[u].task /\ job'[u].day = job[u].day
             /\ job'[u].rows = job[u].rows
             /\ job[u].late => job'[u].late
             /\ Reading(u) /\ Earliest(changed) <= Day(u) => job'[u].late
    BY <1>5, <1>10
  <1> QED
    BY <1>3, <1>7, <1>8, <1>9, <1>10, <1>11 DEF new, changed

\* A commit of rows keeps the types.
LEMMA CommitKeepsRateTypes ==
    ASSUME FxTypeOK, NEW t \in Threads, Commit(t)
    PROVE  FxTypeOK'
  <1>1. /\ stored' \in Table /\ job' \in [Threads -> Jobs]
        /\ doing' = [doing EXCEPT ![t] = "drop"]
    BY CommitMoves
  <1>2. UNCHANGED <<kept, answers, lock, asked, stores>>
    BY DEF Commit
  <1> QED
    BY <1>1, <1>2 DEF FxTypeOK, Places

\* What memory and the provider's answers keep, and what the threads are at, has its type (fx.py).
THEOREM RatesTypeCorrect == FxSpec => []FxTypeOK
  <1>1. FxTypeOK /\ [FxNext]_fxVars => FxTypeOK'
    <2> SUFFICES ASSUME FxTypeOK, [FxNext]_fxVars PROVE FxTypeOK'
      OBVIOUS
    <2>1. CASE UNCHANGED fxVars
      BY <2>1 DEF fxVars, FxTypeOK
    <2>2. ASSUME NEW t \in Threads, Step(t) PROVE FxTypeOK'
      BY <2>2, StepKeepsTypes, CommitKeepsRateTypes
    <2>3. ASSUME NEW d \in Days, Expire(d) PROVE FxTypeOK'
      BY <2>3 DEF Expire, FxTypeOK
    <2> QED
      BY <2>1, <2>2, <2>3 DEF FxNext
  <1> QED
    BY <1>1, FxTypesHoldInitially, PTL DEF FxSpec

(***************************************************************************)
(* A kept rate is the rate of the rows stored.                             *)
(***************************************************************************)

\* A read that is not late has rows that give its day the rate that is stored, unless some of
\* them could not be stored.
ReadersAgree ==
    \A t \in Threads :
        Reading(t) /\ ~job[t].late /\ doing[t] # "keep unstored" =>
            RateIn(job[t].rows, Day(t)) = RateIn(stored, Day(t))

\* What is kept of rows, a read has read.
ReadsKeep == \A t \in Threads : doing[t] = "keep" => job[t].task = "read"

RatesInv == FxTypeOK /\ ReadersAgree /\ ReadsKeep /\ KeptRatesAreStored

\* A step that stores nothing leaves the readers' rows as good as they were.
LEMMA StepKeepsReaders ==
    ASSUME RatesInv, NEW t \in Threads, Step(t), ~Commit(t)
    PROVE  (ReadersAgree /\ ReadsKeep)'
  <1>1. PICK place \in Places \ {"drop"}, next \in Jobs :
            Moved(t, place, next) /\ MayBeAt(t, place, next)
    BY StepMoves DEF RatesInv
  <1>2. stored' = stored
    BY StepMoves DEF RatesInv
  <1>3. /\ doing'[t] = place /\ job'[t] = next
        /\ \A u \in Threads \ {t} : doing'[u] = doing[u] /\ job'[u] = job[u]
    BY <1>1 DEF Moved, RatesInv, FxTypeOK
  <1>4. ASSUME NEW u \in Threads, Reading(u)', ~job'[u].late, doing'[u] # "keep unstored"
        PROVE  RateIn(job'[u].rows, job'[u].day) = RateIn(stored, job'[u].day)
    <2>1. CASE u # t
      <3>1. doing'[u] = doing[u] /\ job'[u] = job[u]
        BY <1>3, <2>1
      <3>2. Reading(u) /\ ~job[u].late /\ doing[u] # "keep unstored"
        BY <1>4, <3>1 DEF Reading
      <3>3. RateIn(job[u].rows, Day(u)) = RateIn(stored, Day(u))
        BY <3>2 DEF RatesInv, ReadersAgree
      <3> QED
        BY <3>1, <3>3 DEF Day
    <2>2. CASE u = t
      <3>1. next.task = "read" /\ ~next.late /\ place \in {"ask", "lock", "call", "keep"}
        BY <1>3, <1>4, <2>2 DEF Reading
      <3>2. CASE next = job[t] /\ doing[t] \in {"ask", "lock", "call"}
        BY <1>3, <2>2, <3>1, <3>2 DEF RatesInv, ReadersAgree, Reading, Day
      <3>3. CASE next.rows = stored
        BY <1>3, <2>2, <3>3
      <3> QED
        BY <1>1, <3>1, <3>2, <3>3 DEF MayBeAt
    <2> QED
      BY <2>1, <2>2
  <1>5. ReadsKeep'
    BY <1>1, <1>3 DEF MayBeAt, ReadsKeep, RatesInv
  <1> SUFFICES ASSUME NEW u \in Threads, Reading(u)', ~job'[u].late, doing'[u] # "keep unstored"
               PROVE  RateIn(job'[u].rows, Day(u)') = RateIn(stored', Day(u)')
    BY <1>5 DEF ReadersAgree
  <1> QED
    BY <1>2, <1>4 DEF Day

\* What memory kept and keeps is as good as before, while the rows stay and none stops dropping.
LEMMA KeptAsBefore ==
    ASSUME RatesInv, stored' = stored,
           \A d \in Days : kept'[d] \in {kept[d], None},
           \A d \in Days : kept'[d] # None /\ Dropping(d) => Dropping(d)'
    PROVE  KeptRatesAreStored'
  <1> SUFFICES ASSUME NEW d \in Days, kept'[d] # None, ~Dropping(d)'
               PROVE  kept'[d].unstored \/ kept'[d].late \/ kept'[d].rate = RateIn(stored', d)
    BY DEF KeptRatesAreStored, Agrees
  <1>1. kept'[d] = kept[d] /\ kept[d] # None /\ ~Dropping(d)
    OBVIOUS
  <1>2. kept[d].unstored \/ kept[d].late \/ kept[d].rate = RateIn(stored, d)
    BY <1>1 DEF RatesInv, KeptRatesAreStored, Agrees
  <1> QED
    BY <1>1, <1>2

\* A thread that is not at its second drop drops nothing by moving; the others go on.
LEMMA DroppingStays ==
    ASSUME RatesInv, NEW t \in Threads, Step(t), ~Commit(t), NEW d \in Days
    PROVE  /\ doing[t] # "drop" => (Dropping(d) <=> Dropping(d)')
           /\ Dropping(d) => Dropping(d)' \/ (doing[t] = "drop" /\ First(t) <= d)
  <1>1. PICK place \in Places \ {"drop"}, next \in Jobs : Moved(t, place, next)
    BY StepMoves DEF RatesInv
  <1>2. /\ doing'[t] # "drop"
        /\ \A u \in Threads \ {t} : doing'[u] = doing[u] /\ job'[u] = job[u]
    BY <1>1 DEF Moved, RatesInv, FxTypeOK
  <1>3. \A u \in Threads \ {t} : First(u)' = First(u)
    BY <1>2 DEF First, Earliest
  <1> QED
    BY <1>2, <1>3 DEF Dropping

\* What a read keeps is what its rows say.
LEMMA KeepKeepsAStoredRate ==
    ASSUME RatesInv, NEW t \in Threads, Keep(t)
    PROVE  KeptRatesAreStored'
  <1> DEFINE one == [rate |-> RateIn(job[t].rows, Day(t)),
                      unstored |-> doing[t] = "keep unstored", late |-> job[t].late]
  <1>1. stored' = stored /\ kept' = [kept EXCEPT ![Day(t)] = one]
        /\ doing[t] \in {"keep", "keep unstored"}
    BY DEF Keep
  <1>2. Step(t) /\ ~Commit(t) /\ doing[t] # "drop"
    BY <1>1 DEF Step, Commit
  <1>3. \A d \in Days : Dropping(d) <=> Dropping(d)'
    BY <1>2, DroppingStays
  <1> SUFFICES ASSUME NEW d \in Days, kept'[d] # None, ~Dropping(d)'
               PROVE  kept'[d].unstored \/ kept'[d].late \/ kept'[d].rate = RateIn(stored', d)
    BY DEF KeptRatesAreStored, Agrees
  <1>4. CASE d # Day(t)
    <2>1. kept'[d] = kept[d]
      BY <1>1, <1>4 DEF RatesInv, FxTypeOK
    <2> QED
      BY <1>1, <1>3, <2>1 DEF RatesInv, KeptRatesAreStored, Agrees
  <1>5. CASE d = Day(t)
    <2>1. kept'[d] = one
      BY <1>1, <1>5 DEF RatesInv, FxTypeOK
    <2>2. one.unstored = (doing[t] = "keep unstored") /\ one.late = job[t].late
          /\ one.rate = RateIn(job[t].rows, Day(t))
      OBVIOUS
    <2> HIDE DEF one
    <2>3. CASE doing[t] = "keep" /\ ~job[t].late
      <3>1. job[t].task = "read"
        BY <2>3 DEF RatesInv, ReadsKeep
      <3>2. RateIn(job[t].rows, Day(t)) = RateIn(stored, Day(t))
        BY <2>3, <3>1 DEF RatesInv, ReadersAgree, Reading
      <3> QED
        BY <1>1, <1>5, <2>1, <2>2, <3>2
    <2> QED
      BY <1>1, <2>1, <2>2, <2>3
  <1> QED
    BY <1>4, <1>5

\* Memory is dropped before it can be wrong, and the second drop ends with nothing from its
\* day on.
LEMMA StepKeepsKept ==
    ASSUME RatesInv, NEW t \in Threads, Step(t), ~Commit(t)
    PROVE  KeptRatesAreStored'
  <1>1. stored' = stored
    BY StepMoves DEF RatesInv
  <1>2. CASE Upsert(t)
    <2>1. \A d \in Days : kept'[d] \in {kept[d], None}
      BY <1>2, DroppedKeepsTypes DEF Upsert, RatesInv
    <2>2. doing[t] # "drop"
      BY <1>2 DEF Upsert, MayStore
    <2> QED
      BY <1>1, <2>1, <2>2, DroppingStays, KeptAsBefore
  <1>3. CASE DropAgain(t)
    <2>1. \A d \in Days : kept'[d] \in {kept[d], None} /\ (d >= First(t) => kept'[d] = None)
      BY <1>3, DroppedKeepsTypes DEF DropAgain, RatesInv
    <2>2. First(t) \in Days \/ \A d \in Days : job[t].rows[d] = None
      BY EarliestIsFirst DEF First
    <2>3. \A d \in Days : kept'[d] # None /\ Dropping(d) => Dropping(d)'
      <3> SUFFICES ASSUME NEW d \in Days, kept'[d] # None, Dropping(d), ~Dropping(d)'
                   PROVE  FALSE
        OBVIOUS
      <3>1. First(t) <= d
        BY DroppingStays
      <3>2. d >= First(t)
        BY <3>1
      <3> QED
        BY <2>1, <3>2
    <2> QED
      BY <1>1, <2>1, <2>3, KeptAsBefore
  <1>4. CASE Keep(t)
    BY <1>4, KeepKeepsAStoredRate
  <1>5. CASE ~Keep(t) /\ ~Upsert(t) /\ ~DropAgain(t)
    <2>1. kept' = kept /\ doing[t] # "drop"
      BY <1>5 DEF Step, Read, FillDaily, Look, Enter, CallFails, StoreFails, Reread, CallReturns,
                  Bring, StoreNothing, MayStore
    <2> QED
      BY <1>1, <2>1, DroppingStays, KeptAsBefore
  <1> QED
    BY <1>2, <1>3, <1>4, <1>5

\* Rows of days from some day on leave the days before it as they were.
LEMMA CommitChangesLaterRows ==
    ASSUME FxTypeOK, NEW t \in Threads, Commit(t), NEW d \in Days,
           \A e \in Changed(job[t].rows) : d < e
    PROVE  RateIn(stored', d) = RateIn(stored, d)
  <1>1. job[t].rows \in Table /\ stored \in Table /\ stored' \in Table
    BY CommitMoves DEF FxTypeOK, Jobs
  <1>2. stored' = Over(job[t].rows, stored)
    BY DEF Commit
  <1>3. ASSUME NEW e \in Days, e <= d
        PROVE  stored'[e] = stored[e]
    <2>1. e \notin Changed(job[t].rows)
      BY <1>3, DaysAssumption
    <2> QED
      BY <1>2, <2>1 DEF Changed, Over
  <1> QED
    BY <1>1, <1>3, RateIsOfEarlierRows

\* After a commit what memory has from the first changed day on waits for the second drop, and
\* the reads that have rows of these days are late.
LEMMA CommitKeepsRates ==
    ASSUME RatesInv, NEW t \in Threads, Commit(t)
    PROVE  (ReadersAgree /\ ReadsKeep /\ KeptRatesAreStored)'
  <1> DEFINE changed == Changed(job[t].rows)
             new == [d \in Days |-> IF d \in changed THEN job[t].rows[d] ELSE None]
  <1>1. /\ stored' \in Table
        /\ doing' = [doing EXCEPT ![t] = "drop"]
        /\ job'[t].rows = new
        /\ \A u \in Threads \ {t} :
               /\ job'[u].task = job[u].task /\ job'[u].day = job[u].day
               /\ job'[u].rows = job[u].rows
               /\ job[u].late => job'[u].late
               /\ Reading(u) /\ Earliest(changed) <= Day(u) => job'[u].late
    BY CommitMoves DEF RatesInv
  <1>2. doing'[t] = "drop" /\ \A u \in Threads \ {t} : doing'[u] = doing[u]
    BY <1>1 DEF RatesInv, FxTypeOK
  <1>3. kept' = kept
    BY DEF Commit
  <1>4. changed \subseteq Days /\ {d \in Days : new[d] # None} = changed
    BY DEF Changed
  <1>5. First(t)' = Earliest(changed)
    BY <1>1, <1>4 DEF First, Earliest
  <1>6. changed # {} => Earliest(changed) \in Days /\ \A e \in changed : Earliest(changed) <= e
    BY <1>4, EarliestIsFirst
  <1>7. ASSUME NEW d \in Days, ~(Earliest(changed) <= d) \/ changed = {}
        PROVE  RateIn(stored', d) = RateIn(stored, d)
    <2>1. \A e \in changed : d < e
      <3> HIDE DEF changed
      <3> SUFFICES ASSUME NEW e \in changed PROVE d < e
        OBVIOUS
      <3>1. Earliest(changed) \in Nat /\ Earliest(changed) <= e /\ e \in Nat /\ d \in Nat
        BY <1>4, <1>6, DaysAssumption
      <3>2. ~(Earliest(changed) <= d)
        BY <1>7
      <3> QED
        BY <3>1, <3>2
    <2> HIDE DEF changed
    <2> QED
      BY <2>1, CommitChangesLaterRows DEF RatesInv, changed
  <1> HIDE DEF changed, new
  <1>8. ReadsKeep'
    BY <1>1, <1>2 DEF ReadsKeep, RatesInv
  <1>9. ReadersAgree'
    <2> SUFFICES ASSUME NEW u \in Threads, Reading(u)', ~job'[u].late, doing'[u] # "keep unstored"
                 PROVE  RateIn(job'[u].rows, Day(u)') = RateIn(stored', Day(u)')
      BY DEF ReadersAgree
    <2>1. u # t
      BY <1>2 DEF Reading
    <2>2. /\ Reading(u) /\ ~job[u].late /\ doing[u] # "keep unstored"
          /\ job'[u].rows = job[u].rows /\ Day(u)' = Day(u)
      BY <1>1, <1>2, <2>1 DEF Reading, Day
    <2>3. ~(Earliest(changed) <= Day(u))
      BY <1>1, <2>1, <2>2
    <2>4. Day(u) \in Days
      BY DEF RatesInv, FxTypeOK, Jobs, Day
    <2>5. RateIn(stored', Day(u)) = RateIn(stored, Day(u))
      BY <1>7, <2>3, <2>4
    <2>6. RateIn(job[u].rows, Day(u)) = RateIn(stored, Day(u))
      BY <2>2 DEF RatesInv, ReadersAgree
    <2> QED
      BY <2>2, <2>5, <2>6
  <1>10. KeptRatesAreStored'
    <2> SUFFICES ASSUME NEW d \in Days, kept'[d] # None, ~Dropping(d)'
                 PROVE  kept'[d].unstored \/ kept'[d].late \/ kept'[d].rate = RateIn(stored', d)
      BY DEF KeptRatesAreStored, Agrees
    <2>1. ~(Earliest(changed) <= d)
      BY <1>2, <1>5 DEF Dropping
    <2>2. RateIn(stored', d) = RateIn(stored, d)
      BY <1>7, <2>1
    <2>3. ~Dropping(d)
      <3> SUFFICES ASSUME NEW u \in Threads, doing[u] = "drop", First(u) <= d
                   PROVE  FALSE
        BY DEF Dropping
      <3>1. u # t
        BY DEF Commit
      <3>2. doing'[u] = "drop" /\ First(u)' = First(u)
        BY <1>1, <1>2, <3>1 DEF First, Earliest
      <3> QED
        BY <3>2 DEF Dropping
    <2> QED
      BY <1>3, <2>2, <2>3 DEF RatesInv, KeptRatesAreStored, Agrees
  <1> QED
    BY <1>8, <1>9, <1>10

\* Nothing that is dropped makes a reader or a kept rate wrong.
LEMMA ExpireKeepsRates ==
    ASSUME RatesInv, NEW d \in Days, Expire(d)
    PROVE  (ReadersAgree /\ ReadsKeep /\ KeptRatesAreStored)'
  <1>1. UNCHANGED <<stored, doing, job>>
    BY DEF Expire
  <1>2. \A e \in Days : kept'[e] \in {kept[e], None}
    BY DEF Expire, RatesInv, FxTypeOK
  <1>3. \A e \in Days : Dropping(e)' <=> Dropping(e)
    BY <1>1 DEF Dropping, First, Earliest
  <1>4. KeptRatesAreStored'
    BY <1>1, <1>2, <1>3, KeptAsBefore
  <1>5. ReadersAgree' /\ ReadsKeep'
    BY <1>1 DEF RatesInv, ReadersAgree, ReadsKeep, Reading, Day
  <1> QED
    BY <1>4, <1>5

\* A rate kept in memory is the rate of the rows stored, for any threads, rows and days, however
\* reads, fetches, imports and expiries overlap (fx.py, forget_rates_from before the commit and
\* after it), but for what a read keeps that was under way during the commit.
THEOREM KeptRatesAreAlwaysStored == FxSpec => []KeptRatesAreStored
  <1>1. FxInit => RatesInv
    <2> SUFFICES ASSUME FxInit PROVE RatesInv
      OBVIOUS
    <2>1. \A t \in Threads : doing[t] = "idle"
      BY DEF FxInit
    <2>2. \A d \in Days : kept[d] = None
      BY DEF FxInit
    <2> QED
      BY <2>1, <2>2, FxTypesHoldInitially
      DEF RatesInv, ReadersAgree, ReadsKeep, KeptRatesAreStored, Reading
  <1>2. RatesInv /\ FxTypeOK' /\ [FxNext]_fxVars => RatesInv'
    <2> SUFFICES ASSUME RatesInv, FxTypeOK', [FxNext]_fxVars PROVE RatesInv'
      OBVIOUS
    <2>1. CASE UNCHANGED fxVars
      <3>1. UNCHANGED <<stored, kept, doing, job>>
        BY <2>1 DEF fxVars
      <3>2. ReadersAgree' /\ ReadsKeep'
        BY <3>1 DEF RatesInv, ReadersAgree, ReadsKeep, Reading, Day
      <3>3. KeptRatesAreStored'
        BY <3>1 DEF RatesInv, KeptRatesAreStored, Dropping, First, Earliest, Agrees
      <3> QED
        BY <3>2, <3>3 DEF RatesInv
    <2>2. ASSUME NEW t \in Threads, Step(t) PROVE RatesInv'
      BY <2>2, StepKeepsReaders, StepKeepsKept, CommitKeepsRates DEF RatesInv
    <2>3. ASSUME NEW d \in Days, Expire(d) PROVE RatesInv'
      BY <2>3, ExpireKeepsRates DEF RatesInv
    <2> QED
      BY <2>1, <2>2, <2>3 DEF FxNext
  <1> QED
    BY <1>1, <1>2, RatesTypeCorrect, PTL DEF FxSpec, RatesInv

(***************************************************************************)
(* An outage costs one call.                                               *)
(***************************************************************************)

\* While a range has been asked for, its call is under way or its answer is kept.
OneAsksInv ==
    /\ FxTypeOK
    /\ \A d \in Days : asked[d] \in {0, 1} /\ (asked[d] = 1 => lock[d] # None \/ answers[d] # None)

\* The end of a call is an answer for its range, and the others are as they were.
LEMMA LeaveKeepsAsked ==
    ASSUME OneAsksInv, NEW t \in Threads, NEW answer \in Outcomes, Leave(t, answer), asked' = asked
    PROVE  \A d \in Days : /\ asked'[d] \in {0, 1}
                           /\ asked'[d] = 1 => lock'[d] # None \/ answers'[d] # None
  <1>1. Day(t) \in Days
    BY DEF OneAsksInv, FxTypeOK, Jobs, Day
  <1>2. answers'[Day(t)] = answer /\ answer # None
    BY <1>1, NoneAssumption DEF Leave, OneAsksInv, FxTypeOK
  <1>3. \A d \in Days : d # Day(t) => answers'[d] = answers[d] /\ lock'[d] = lock[d]
    BY DEF Leave, OneAsksInv, FxTypeOK
  <1> QED
    BY <1>2, <1>3 DEF OneAsksInv

\* Of all the reads that find no answer kept, and wait for each other, one asks: between one
\* drop of a range's answer and the next its provider is called once at most
\* (fx.py, _provider_once), for any number of threads.
THEOREM OutagesCostOneCall == FxSpec => []OneAsks
  <1>1. FxInit => OneAsksInv
    <2> SUFFICES ASSUME FxInit PROVE OneAsksInv
      OBVIOUS
    <2>1. \A d \in Days : asked[d] = 0
      BY DEF FxInit
    <2> QED
      BY <2>1, FxTypesHoldInitially DEF OneAsksInv
  <1>2. OneAsksInv /\ FxTypeOK' /\ [FxNext]_fxVars => OneAsksInv'
    <2> SUFFICES ASSUME OneAsksInv, FxTypeOK', [FxNext]_fxVars
                 PROVE  \A d \in Days : /\ asked'[d] \in {0, 1}
                                        /\ asked'[d] = 1 => lock'[d] # None \/ answers'[d] # None
      BY DEF OneAsksInv
    <2>1. CASE UNCHANGED <<asked, lock, answers>>
      BY <2>1 DEF OneAsksInv
    <2>2. ASSUME NEW t \in Threads, Enter(t), ~UNCHANGED <<asked, lock, answers>>
          PROVE  \A d \in Days : /\ asked'[d] \in {0, 1}
                                 /\ asked'[d] = 1 => lock'[d] # None \/ answers'[d] # None
      <3>1. /\ lock[Day(t)] = None /\ answers[Day(t)] = None
            /\ lock' = [lock EXCEPT ![Day(t)] = t]
            /\ asked' = [asked EXCEPT ![Day(t)] = @ + 1]
            /\ answers' = answers
        BY <2>2 DEF Enter
      <3>2. Day(t) \in Days
        BY DEF OneAsksInv, FxTypeOK, Jobs, Day
      <3>3. asked[Day(t)] = 0
        BY <3>1, <3>2 DEF OneAsksInv
      <3>4. asked'[Day(t)] = 1 /\ lock'[Day(t)] = t /\ t # None
        BY <3>1, <3>2, <3>3, NoneAssumption DEF OneAsksInv, FxTypeOK
      <3>5. \A d \in Days : d # Day(t) => asked'[d] = asked[d] /\ lock'[d] = lock[d]
        BY <3>1 DEF OneAsksInv, FxTypeOK
      <3> QED
        BY <3>1, <3>4, <3>5 DEF OneAsksInv
    <2>3. ASSUME NEW t \in Threads, FillDaily(t)
          PROVE  \A d \in Days : asked'[d] = 0
      BY <2>3 DEF FillDaily
    <2>4. ASSUME NEW t \in Threads, CallFails(t) \/ StoreFails(t) \/ StoreNothing(t) \/ DropAgain(t)
          PROVE  \A d \in Days : /\ asked'[d] \in {0, 1}
                                 /\ asked'[d] = 1 => lock'[d] # None \/ answers'[d] # None
      <3>1. asked' = asked
        BY <2>4 DEF CallFails, StoreFails, StoreNothing, DropAgain
      <3>2. /\ Failed \in Outcomes /\ Answered(job[t].rows) \in Outcomes
            /\ Answered(Blank) \in Outcomes
        BY JobsAreJobs, OutcomesAreOutcomes DEF OneAsksInv, FxTypeOK, Jobs
      <3>3. \/ \E answer \in Outcomes : Leave(t, answer)
            \/ UNCHANGED <<answers, lock>>
        BY <2>4, <3>2 DEF CallFails, StoreFails, StoreNothing, DropAgain, Done
      <3> QED
        BY <3>1, <3>3, LeaveKeepsAsked DEF OneAsksInv
    <2>5. ASSUME NEW d \in Days, Expire(d)
          PROVE  \A e \in Days : /\ asked'[e] \in {0, 1}
                                 /\ asked'[e] = 1 => lock'[e] # None \/ answers'[e] # None
      BY <2>5 DEF Expire, OneAsksInv, FxTypeOK
    <2>6. ASSUME NEW t \in Threads, Step(t), ~Enter(t), ~FillDaily(t), ~CallFails(t), ~StoreFails(t),
                 ~StoreNothing(t), ~DropAgain(t)
          PROVE  UNCHANGED <<asked, lock, answers>>
      BY <2>6 DEF Step, Read, Look, Reread, Keep, CallReturns, Bring, Upsert, Commit
    <2> QED
      BY <2>1, <2>2, <2>3, <2>4, <2>5, <2>6 DEF FxNext, fxVars
  <1>3. OneAsksInv => OneAsks
    BY DEF OneAsksInv, OneAsks
  <1> QED
    BY <1>1, <1>2, <1>3, RatesTypeCorrect, PTL DEF FxSpec

================================================================================

----------------------------- MODULE RefreshProofs -----------------------------
(***************************************************************************)
(* What refreshes from outside guarantee.  WalletRefresh: of one wallet,   *)
(* for any number of refreshes and chains, and whatever the length of a    *)
(* day and the age of a stale flag.  QuoteRefresh: of one exchange, for    *)
(* any assets, chain of providers, daily limit and size of a batch.        *)
(***************************************************************************)
EXTENDS WalletRefresh, QuoteRefresh, FiniteSetTheorems, TLAPS

\* Day d has the newest snapshot of s.
IsNewest(s, d) == s[d] # NoSnapshot /\ \A e \in Days : s[e] # NoSnapshot => e <= d

NoneStored(s) == \A d \in Days : s[d] = NoSnapshot

\* No snapshot is of a day to come, and if there is any there is a newest one.
DaysHavePassed ==
    /\ \A d \in Days : stored[d] # NoSnapshot => d <= Today
    /\ NoneStored(stored) \/ \E d \in Days : IsNewest(stored, d)

\* What a refresh read of days, and that it reprices a snapshot there is.
DaysReadHavePassed ==
    \A r \in Refreshes :
        /\ day[r] <= Today /\ newestDay[r] <= Today
        /\ pc[r] = "overlay" => previous[r] # NoSnapshot

OneWorks == overtaken = {} => \A r, s \in Working : r = s

\* The flag of the refresh that works, and has not been overtaken, is held.
FlagIsHeld == overtaken = {} => (Working # {} => flag.held)

\* What a refresh that works alone read is still so.
ReadIsCurrent ==
    overtaken = {} => \A r \in Refreshes :
        /\ pc[r] = "write" =>
             /\ previous[r] = Newest(stored)
             /\ update[r] <=> stored[day[r]] # NoSnapshot
             /\ \A d \in Days : stored[d] # NoSnapshot => d <= day[r]
        /\ pc[r] = "overlay" =>
             /\ previous[r] = Newest(stored)
             /\ ~NoneStored(stored)
             /\ newestDay[r] = NewestDay(stored)

\* The inductive invariant behind the properties of refreshes.
RefreshInv ==
    /\ TypeOK
    /\ DaysHavePassed
    /\ DaysReadHavePassed
    /\ OneWorks
    /\ FlagIsHeld
    /\ ReadIsCurrent
    /\ NewestKnowsEveryChain
    /\ AgesAreHonest

-----------------------------------------------------------------------------
(* Days, and the newest snapshot *)

LEMMA DaysPass ==
    ASSUME NEW a \in Nat, NEW b \in Nat, a <= b
    PROVE  /\ a \div DayLength \in Nat /\ b \div DayLength \in Nat
           /\ a \div DayLength <= b \div DayLength
  <1>1. DayLength \in Nat /\ DayLength > 0
    BY TimesAssumption
  <1> QED
    BY <1>1, SMTT(30)

LEMMA DaysAre ==
    /\ Days \subseteq Nat /\ 0 \in Days
    /\ \A t \in Times : t \div DayLength \in Days
  <1>1. MaxClock \in Nat /\ 0 \in Nat /\ 0 <= MaxClock
    BY TimesAssumption
  <1>2. MaxClock \div DayLength \in Nat
    BY <1>1, DaysPass
  <1>3. \A t \in Times : t \div DayLength \in Nat /\ t \div DayLength <= MaxClock \div DayLength
    BY <1>1, DaysPass DEF Times
  <1> QED
    BY <1>2, <1>3 DEF Days

LEMMA TodayIs == ASSUME TypeOK PROVE Today \in Days
  BY DaysAre DEF Today, TypeOK

LEMMA NewestIs ==
    ASSUME NEW s, NEW d \in Days, IsNewest(s, d)
    PROVE  Newest(s) = s[d] /\ NewestDay(s) = d /\ Newest(s) # NoSnapshot /\ ~NoneStored(s)
  <1>1. \A e \in Days : s[e] # NoSnapshot /\ (\A f \in Days : s[f] # NoSnapshot => f <= e) <=> e = d
    BY DaysAre DEF IsNewest
  <1>2. d = CHOOSE e \in Days : s[e] # NoSnapshot /\ \A f \in Days : s[f] # NoSnapshot => f <= e
    BY <1>1
  <1>3. s[d] # NoSnapshot
    BY DEF IsNewest
  <1>4. Newest(s) = s[d]
    BY <1>2, <1>3 DEF Newest
  <1> QED
    BY <1>2, <1>3, <1>4 DEF NewestDay, NoneStored

LEMMA NewestOfNone == ASSUME NEW s, NoneStored(s) PROVE Newest(s) = NoSnapshot /\ NewestDay(s) = 0
  BY DEF Newest, NewestDay, NoneStored

LEMMA NewestType ==
    ASSUME TypeOK, DaysHavePassed
    PROVE  /\ Newest(stored) \in Snapshot \cup {NoSnapshot}
           /\ NewestDay(stored) \in Days /\ NewestDay(stored) <= Today
           /\ NoneStored(stored) <=> Newest(stored) = NoSnapshot
  <1>1. CASE NoneStored(stored)
    <2>1. Today \in Nat
      BY TodayIs, DaysAre
    <2>2. 0 <= Today
      BY <2>1
    <2> QED
      BY <1>1, <2>2, NewestOfNone, DaysAre
  <1>2. ASSUME NEW d \in Days, IsNewest(stored, d)
        PROVE  /\ Newest(stored) \in Snapshot \cup {NoSnapshot}
               /\ NewestDay(stored) \in Days /\ NewestDay(stored) <= Today
               /\ NoneStored(stored) <=> Newest(stored) = NoSnapshot
    BY <1>2, NewestIs DEF TypeOK, DaysHavePassed, IsNewest
  <1> QED
    BY <1>1, <1>2 DEF DaysHavePassed

-----------------------------------------------------------------------------
(* Types *)

LEMMA InitType == Init => TypeOK
  BY DaysAre, TimesAssumption DEF Init, TypeOK, Times, Holdings, Nothing, Answers

LEMMA ForgetType ==
    ASSUME TypeOK, NEW r \in Refreshes, Forget(r)
    PROVE  /\ answers' \in [Refreshes -> [Chains -> Answers]]
           /\ day' \in [Refreshes -> Days] /\ newestDay' \in [Refreshes -> Days]
           /\ previous' \in [Refreshes -> Snapshot \cup {NoSnapshot}]
           /\ update' \in [Refreshes -> BOOLEAN]
  BY DaysAre DEF Forget, TypeOK, Answers

LEMMA NewSnapshotType == ASSUME TypeOK, NEW r \in Refreshes PROVE NewSnapshot(r) \in Snapshot
  <1>1. clock \in Times /\ answers[r] \in [Chains -> Answers]
        /\ previous[r] \in Snapshot \cup {NoSnapshot}
    BY DEF TypeOK
  <1>2. \A c \in Chains : Answered(r, c) \in Times \cup {Nothing}
    BY <1>1 DEF Answered
  <1>3. \A c \in Chains : Carried(r)[c] \in Times \cup {Nothing}
    BY <1>1 DEF Carried, Snapshot, Holdings
  <1>4. \A c \in Chains : StaleSince(r, c) \in Times \cup {Nothing}
    BY <1>1 DEF StaleSince, Snapshot, Holdings
  <1>5. FailedOf(r) \subseteq Chains
    BY DEF FailedOf
  <1> QED
    BY <1>1, <1>2, <1>3, <1>4, <1>5 DEF NewSnapshot, Snapshot, Holdings

LEMMA NextType == ASSUME TypeOK, DaysHavePassed, [Next]_vars PROVE TypeOK'
  <1> USE DEF locals
  <1>1. CASE Tick
    <2>1. clock' \in Times
      BY <1>1, TimesAssumption DEF Tick, TypeOK, Times
    <2> QED
      BY <1>1, <2>1 DEF Tick, TypeOK
  <1>2. ASSUME NEW r \in Refreshes, Acquire(r) PROVE TypeOK'
    BY <1>2 DEF Acquire, TypeOK, Working
  <1>3. ASSUME NEW r \in Refreshes, Locked(r) PROVE TypeOK'
    BY <1>3 DEF Locked, TypeOK
  <1>4. ASSUME NEW r \in Refreshes, Fetch(r) PROVE TypeOK'
    BY <1>4 DEF Fetch, TypeOK
  <1>5. ASSUME NEW r \in Refreshes, ReadStored(r) PROVE TypeOK'
    BY <1>5, NewestType, TodayIs DEF ReadStored, TypeOK
  <1>6. ASSUME NEW r \in Refreshes, Write(r) PROVE TypeOK'
    <2>1. CASE ~update[r] /\ stored[day[r]] # NoSnapshot
      BY <1>6, <2>1 DEF Write, TypeOK
    <2>2. CASE ~(~update[r] /\ stored[day[r]] # NoSnapshot)
      <3>1. stored' = [stored EXCEPT ![day[r]] = NewSnapshot(r)]
            /\ known' = [c \in Chains |-> IF c \in FailedOf(r) THEN known[c] ELSE Answered(r, c)]
            /\ pc' = [pc EXCEPT ![r] = "release"]
            /\ UNCHANGED <<clock, flag, locals, overtaken>>
        BY <1>6, <2>2 DEF Write
      <3>2. stored' \in [Days -> Snapshot \cup {NoSnapshot}]
        BY <3>1, NewSnapshotType DEF TypeOK
      <3>3. known' \in Holdings
        BY <3>1 DEF TypeOK, Holdings, Answered
      <3> QED
        BY <3>1, <3>2, <3>3 DEF TypeOK
    <2> QED
      BY <2>1, <2>2
  <1>7. ASSUME NEW r \in Refreshes, ReadNewest(r) PROVE TypeOK'
    BY <1>7, NewestType DEF ReadNewest, TypeOK
  <1>8. ASSUME NEW r \in Refreshes, Overlay(r) PROVE TypeOK'
    <2>1. OverlayDay(r) \in Days
      BY TodayIs DEF OverlayDay, TypeOK
    <2> QED
      BY <1>8, <2>1 DEF Overlay, TypeOK
  <1>9. ASSUME NEW r \in Refreshes, Release(r) PROVE TypeOK'
    BY <1>9, ForgetType DEF Release, TypeOK
  <1>10. ASSUME NEW r \in Refreshes, DatabaseError(r) PROVE TypeOK'
    BY <1>10 DEF DatabaseError, TypeOK
  <1>11. ASSUME NEW r \in Refreshes, Crash(r) PROVE TypeOK'
    BY <1>11, ForgetType DEF Crash, TypeOK
  <1>12. CASE UNCHANGED vars
    BY <1>12 DEF vars, TypeOK
  <1> QED
    BY <1>1, <1>2, <1>3, <1>4, <1>5, <1>6, <1>7, <1>8, <1>9, <1>10, <1>11, <1>12 DEF Next, Step

-----------------------------------------------------------------------------
(* What a step leaves alone *)

LEMMA ClockMoves ==
    ASSUME TypeOK, [Next]_vars
    PROVE  Today \in Days /\ Today' \in Days /\ Today \in Nat /\ Today' \in Nat /\ Today <= Today'
  <1>2. clock \in Times /\ clock \in Nat
    BY DEF TypeOK, Times
  <1>3. (clock' = clock \/ Tick)
    BY DEF Next, Step, vars, Acquire, Locked, Fetch, ReadStored, Write, ReadNewest, Overlay,
           Release, DatabaseError, Crash
  <1>4. clock' \in Times /\ clock' \in Nat /\ clock <= clock'
    BY <1>2, <1>3, TimesAssumption DEF Tick, Times
  <1>5. clock \div DayLength <= clock' \div DayLength
    BY <1>2, <1>4, DaysPass
  <1> QED
    BY <1>2, <1>4, <1>5, DaysAre DEF Today

\* Only Write and Overlay store.
LEMMA StoresAre ==
    ASSUME [Next]_vars
    PROVE  \/ stored' = stored /\ known' = known
           \/ \E r \in Refreshes : Write(r) \/ Overlay(r)
  BY DEF Next, Step, vars, Tick, Acquire, Locked, Fetch, ReadStored, ReadNewest, Release,
         DatabaseError, Crash

\* A refresh begins to work by Acquire, and by nothing else.
LEMMA WorkMoves ==
    ASSUME TypeOK, [Next]_vars
    PROVE  \/ \E r \in Refreshes : Acquire(r)
           \/ /\ Working' \subseteq Working /\ overtaken' = overtaken
              /\ flag' = flag \/ \E r \in Refreshes : Release(r)
  <1> DEFINE Ends == {"done", "dead", "idle"}
  <1>1. CASE \E r \in Refreshes : Acquire(r)
    BY <1>1
  <1>2. CASE Tick \/ UNCHANGED vars
    BY <1>2 DEF Tick, vars, Working
  <1>3. ASSUME NEW r \in Refreshes,
               Locked(r) \/ Fetch(r) \/ ReadStored(r) \/ Write(r) \/ ReadNewest(r) \/ Overlay(r)
                 \/ Release(r) \/ DatabaseError(r) \/ Crash(r)
        PROVE  /\ Working' \subseteq Working /\ overtaken' = overtaken
               /\ flag' = flag \/ Release(r)
    <2>1. \A s \in Refreshes : s # r => pc'[s] = pc[s]
      BY <1>3 DEF Locked, Fetch, ReadStored, Write, ReadNewest, Overlay, Release, DatabaseError,
                  Crash, TypeOK
    <2>2. r \in Working \/ pc'[r] = "done"
      BY <1>3 DEF Locked, Fetch, ReadStored, Write, ReadNewest, Overlay, Release, DatabaseError,
                  Crash, TypeOK, Working
    <2>3. Working' \subseteq Working
      BY <2>1, <2>2 DEF Working
    <2>4. overtaken' = overtaken /\ (flag' = flag \/ Release(r))
      BY <1>3 DEF Locked, Fetch, ReadStored, Write, ReadNewest, Overlay, Release, DatabaseError,
                  Crash
    <2> QED
      BY <2>3, <2>4
  <1> QED
    BY <1>1, <1>2, <1>3 DEF Next, Step

-----------------------------------------------------------------------------
(* Storing a snapshot *)

\* A snapshot of today or before can be stored.
LEMMA StoringKeepsDays ==
    ASSUME TypeOK, DaysHavePassed, NEW d \in Days, NEW n \in Snapshot, d <= Today,
           stored' = [stored EXCEPT ![d] = n], Today' = Today
    PROVE  DaysHavePassed'
  <1>1. n # NoSnapshot
    BY NoSnapshotAssumption
  <1>2. stored'[d] = n /\ \A e \in Days : e # d => stored'[e] = stored[e]
    BY DEF TypeOK
  <1>3. Days \subseteq Nat
    BY DaysAre
  <1>4. \A e \in Days : stored'[e] # NoSnapshot => e <= Today'
    BY <1>1, <1>2 DEF DaysHavePassed
  <1>5. \E e \in Days : IsNewest(stored', e)
    <2>1. CASE NoneStored(stored)
      BY <1>1, <1>2, <1>3, <2>1 DEF NoneStored, IsNewest
    <2>2. ASSUME NEW e \in Days, IsNewest(stored, e) PROVE \E f \in Days : IsNewest(stored', f)
      <3>1. CASE e <= d
        BY <1>1, <1>2, <1>3, <2>2, <3>1 DEF IsNewest
      <3>2. CASE d < e
        <4>1. stored'[e] = stored[e]
          BY <1>2, <1>3, <3>2
        <4>2. \A f \in Days : stored'[f] # NoSnapshot => f <= e
          BY <1>2, <1>3, <2>2, <3>2 DEF IsNewest
        <4> QED
          BY <2>2, <4>1, <4>2 DEF IsNewest
      <3>3. d \in Nat /\ e \in Nat
        BY <1>3
      <3> QED
        BY <3>1, <3>2, <3>3 DEF IsNewest
    <2> QED
      BY <2>1, <2>2 DEF DaysHavePassed
  <1> QED
    BY <1>4, <1>5 DEF DaysHavePassed

\* A snapshot stored on a day no earlier than any is the newest.
LEMMA LastStoredIsNewest ==
    ASSUME TypeOK, NEW d \in Days, NEW n \in Snapshot,
           \A e \in Days : stored[e] # NoSnapshot => e <= d,
           stored' = [stored EXCEPT ![d] = n]
    PROVE  Newest(stored') = n
  <1>1. stored'[d] = n /\ \A e \in Days : e # d => stored'[e] = stored[e]
    BY DEF TypeOK
  <1>2. IsNewest(stored', d)
    BY <1>1, DaysAre, NoSnapshotAssumption DEF IsNewest
  <1> QED
    BY <1>1, <1>2, NewestIs

\* A refresh files what it repriced under today.
LEMMA OverlayDayIs ==
    ASSUME TypeOK, DaysReadHavePassed, NEW r \in Refreshes
    PROVE  OverlayDay(r) = Today
  <1>1. newestDay[r] \in Nat /\ newestDay[r] <= Today /\ Today \in Nat
    BY TodayIs, DaysAre DEF TypeOK, DaysReadHavePassed
  <1> QED
    BY <1>1 DEF OverlayDay

\* What Write and Overlay store, and where.
LEMMA Stored ==
    ASSUME TypeOK, DaysReadHavePassed, NEW r \in Refreshes, Write(r) \/ Overlay(r)
    PROVE  \/ stored' = stored /\ known' = known
           \/ /\ Write(r) /\ stored' = [stored EXCEPT ![day[r]] = NewSnapshot(r)]
              /\ known' = [c \in Chains |-> IF c \in FailedOf(r) THEN known[c] ELSE Answered(r, c)]
              /\ NewSnapshot(r) \in Snapshot /\ day[r] \in Days /\ day[r] <= Today
           \/ /\ Overlay(r) /\ stored' = [stored EXCEPT ![Today] = previous[r]] /\ known' = known
              /\ previous[r] \in Snapshot /\ Today \in Days
  <1>1. CASE Write(r)
    BY <1>1, NewSnapshotType DEF Write, TypeOK, DaysReadHavePassed
  <1>2. CASE Overlay(r)
    BY <1>2, OverlayDayIs, TodayIs DEF Overlay, TypeOK, DaysReadHavePassed
  <1> QED
    BY <1>1, <1>2

-----------------------------------------------------------------------------
(* The days *)

LEMMA NextDays ==
    ASSUME TypeOK, DaysHavePassed, DaysReadHavePassed, [Next]_vars
    PROVE  DaysHavePassed'
  <1>1. CASE stored' = stored
    <2>1. \A d \in Days : stored[d] # NoSnapshot => d <= Today'
      BY ClockMoves, DaysAre DEF DaysHavePassed
    <2> QED
      BY <1>1, <2>1 DEF DaysHavePassed, NoneStored, IsNewest
  <1>2. ASSUME NEW r \in Refreshes, Write(r) \/ Overlay(r) PROVE DaysHavePassed'
    <2>1. Today' = Today
      BY <1>2 DEF Write, Overlay, Today
    <2>2. Today <= Today
      BY ClockMoves
    <2> QED
      BY <1>1, <1>2, <2>1, <2>2, Stored, StoringKeepsDays
  <1> QED
    BY <1>1, <1>2, StoresAre

LEMMA NextDaysRead ==
    ASSUME TypeOK, DaysHavePassed, DaysReadHavePassed, [Next]_vars
    PROVE  DaysReadHavePassed'
  <1> DEFINE Good(r) == /\ day'[r] <= Today' /\ newestDay'[r] <= Today'
                        /\ pc'[r] = "overlay" => previous'[r] # NoSnapshot
  <1> USE DEF locals
  <1>1. ASSUME NEW s \in Refreshes, day'[s] = day[s], newestDay'[s] = newestDay[s],
               pc'[s] = "overlay" => pc[s] = "overlay" /\ previous'[s] = previous[s]
        PROVE  Good(s)
    <2>1. day[s] \in Nat /\ newestDay[s] \in Nat /\ day[s] <= Today /\ newestDay[s] <= Today
      BY DaysAre DEF TypeOK, DaysReadHavePassed
    <2>2. pc'[s] = "overlay" => previous'[s] # NoSnapshot
      BY <1>1 DEF DaysReadHavePassed
    <2> QED
      BY <1>1, <2>1, <2>2, ClockMoves
  <1>2. CASE Tick \/ UNCHANGED vars
    BY <1>1, <1>2 DEF Tick, vars, DaysReadHavePassed
  <1>3. ASSUME NEW r \in Refreshes,
               Acquire(r) \/ Locked(r) \/ Fetch(r) \/ Write(r) \/ Overlay(r) \/ DatabaseError(r)
        PROVE  DaysReadHavePassed'
    <2>1. \A s \in Refreshes : /\ day'[s] = day[s] /\ newestDay'[s] = newestDay[s]
                               /\ pc'[s] = "overlay" => pc[s] = "overlay"
                               /\ previous'[s] = previous[s]
      BY <1>3 DEF Acquire, Locked, Fetch, Write, Overlay, DatabaseError, TypeOK
    <2> QED
      BY <1>1, <2>1 DEF DaysReadHavePassed
  <1>4. ASSUME NEW r \in Refreshes, ReadStored(r) \/ ReadNewest(r) PROVE DaysReadHavePassed'
    <2>1. /\ day'[r] = day[r] \/ day'[r] = Today
          /\ newestDay'[r] = NewestDay(stored) /\ Today' = Today
          /\ pc'[r] = "overlay" => previous'[r] # NoSnapshot
      BY <1>4 DEF ReadStored, ReadNewest, TypeOK, Today
    <2>2. Good(r)
      BY <2>1, NewestType, ClockMoves DEF DaysReadHavePassed
    <2>3. \A s \in Refreshes : s # r =>
              /\ day'[s] = day[s] /\ newestDay'[s] = newestDay[s]
              /\ pc'[s] = pc[s] /\ previous'[s] = previous[s]
      BY <1>4 DEF ReadStored, ReadNewest, TypeOK
    <2> QED
      BY <1>1, <2>2, <2>3 DEF DaysReadHavePassed
  <1>5. ASSUME NEW r \in Refreshes, Release(r) \/ Crash(r) PROVE DaysReadHavePassed'
    <2>1. day'[r] = 0 /\ newestDay'[r] = 0 /\ pc'[r] # "overlay"
      BY <1>5 DEF Release, Crash, Forget, TypeOK
    <2>2. 0 <= Today'
      BY ClockMoves
    <2>3. Good(r)
      BY <2>1, <2>2
    <2>4. \A s \in Refreshes : s # r =>
              /\ day'[s] = day[s] /\ newestDay'[s] = newestDay[s]
              /\ pc'[s] = pc[s] /\ previous'[s] = previous[s]
      BY <1>5 DEF Release, Crash, Forget, TypeOK
    <2> QED
      BY <1>1, <2>3, <2>4 DEF DaysReadHavePassed
  <1> QED
    BY <1>2, <1>3, <1>4, <1>5 DEF Next, Step

-----------------------------------------------------------------------------
(* The flag *)

\* Nobody works when the flag is taken, unless somebody is overtaken.
LEMMA TakenAlone ==
    ASSUME TypeOK, FlagIsHeld, NEW r \in Refreshes, Acquire(r), overtaken' = {}
    PROVE  overtaken = {} /\ Working = {} /\ Working' = {r} /\ flag'.held
  <1>1. overtaken = {} /\ (flag.held => Working = {})
    BY DEF Acquire
  <1>2. Working = {}
    BY <1>1 DEF FlagIsHeld
  <1>3. pc' = [pc EXCEPT ![r] = "fetch"] /\ flag'.held
    BY DEF Acquire
  <1>4. Working' = {r}
    BY <1>2, <1>3 DEF Working, TypeOK
  <1> QED
    BY <1>1, <1>2, <1>3, <1>4

LEMMA NextFlag ==
    ASSUME TypeOK, OneWorks, FlagIsHeld, [Next]_vars
    PROVE  OneWorks' /\ FlagIsHeld'
  <1>1. ASSUME NEW r \in Refreshes, Acquire(r) PROVE OneWorks' /\ FlagIsHeld'
    BY <1>1, TakenAlone DEF OneWorks, FlagIsHeld
  <1>2. CASE Working' \subseteq Working /\ overtaken' = overtaken
    <2>1. OneWorks'
      BY <1>2 DEF OneWorks
    <2>2. CASE flag' = flag
      BY <1>2, <2>1, <2>2 DEF FlagIsHeld
    <2>3. ASSUME NEW r \in Refreshes, Release(r) PROVE FlagIsHeld'
      <3>1. r \in Working /\ r \notin Working'
        BY <2>3 DEF Release, Working, TypeOK
      <3>2. overtaken = {} => Working' = {}
        BY <1>2, <3>1 DEF OneWorks
      <3> QED
        BY <1>2, <3>2 DEF FlagIsHeld
    <2> QED
      BY <1>1, <2>1, <2>2, <2>3, WorkMoves
  <1> QED
    BY <1>1, <1>2, WorkMoves

-----------------------------------------------------------------------------
(* What a refresh that works alone read *)

\* What ReadIsCurrent says of r.
Current(r) ==
    /\ pc[r] = "write" =>
         /\ previous[r] = Newest(stored)
         /\ update[r] <=> stored[day[r]] # NoSnapshot
         /\ \A d \in Days : stored[d] # NoSnapshot => d <= day[r]
    /\ pc[r] = "overlay" =>
         /\ previous[r] = Newest(stored)
         /\ ~NoneStored(stored)
         /\ newestDay[r] = NewestDay(stored)

\* Nothing that is read about s changes.
Undisturbed(s) ==
    /\ stored' = stored /\ pc'[s] = pc[s] /\ previous'[s] = previous[s]
    /\ update'[s] = update[s] /\ day'[s] = day[s] /\ newestDay'[s] = newestDay[s]

LEMMA UndisturbedStays ==
    ASSUME NEW s \in Refreshes, Undisturbed(s), Current(s) PROVE Current(s)'
  <1>1. CASE pc[s] = "write"
    BY <1>1 DEF Undisturbed, Current
  <1>2. CASE pc[s] = "overlay"
    BY <1>2 DEF Undisturbed, Current
  <1>3. CASE pc[s] # "write" /\ pc[s] # "overlay"
    BY <1>3 DEF Undisturbed, Current
  <1> QED
    BY <1>1, <1>2, <1>3

\* A step of r leaves the others where they are.
LEMMA OthersWait ==
    ASSUME TypeOK, NEW r \in Refreshes, Step(r) \/ DatabaseError(r) \/ Crash(r),
           NEW s \in Refreshes, s # r
    PROVE  pc'[s] = pc[s]
  BY DEF Step, Acquire, Locked, Fetch, ReadStored, Write, ReadNewest, Overlay, Release,
         DatabaseError, Crash, TypeOK

LEMMA NextRead ==
    ASSUME TypeOK, DaysHavePassed, OneWorks, FlagIsHeld, ReadIsCurrent, [Next]_vars
    PROVE  ReadIsCurrent'
  <1> SUFFICES ASSUME overtaken' = {}, NEW s \in Refreshes
               PROVE  Current(s)'
    BY DEF ReadIsCurrent, Current
  <1> USE DEF locals
  <1>1. overtaken = {}
    BY WorkMoves DEF Acquire
  <1>2. Current(s)
    BY <1>1 DEF ReadIsCurrent, Current
  <1>3. CASE Tick \/ UNCHANGED vars
    <2>1. Undisturbed(s)
      BY <1>3 DEF Tick, vars, Undisturbed
    <2> QED
      BY <1>2, <2>1, UndisturbedStays
  <1>4. ASSUME NEW r \in Refreshes, Locked(r) PROVE Current(s)'
    <2>1. CASE s = r
      BY <1>4, <2>1 DEF Locked, TypeOK, Current
    <2>2. CASE s # r
      <3>1. Undisturbed(s)
        BY <1>4, <2>2 DEF Locked, TypeOK, Undisturbed
      <3> QED
        BY <1>2, <3>1, UndisturbedStays
    <2> QED
      BY <2>1, <2>2
  <1>5. ASSUME NEW r \in Refreshes, Step(r) \/ DatabaseError(r) \/ Crash(r), s # r, ~Locked(r)
        PROVE  Current(s)'
    <2>1. pc'[s] = pc[s]
      BY <1>5, OthersWait
    <2>2. s \notin Working
      <3>1. CASE Acquire(r)
        BY <1>1, <3>1, TakenAlone
      <3>2. CASE ~Acquire(r)
        <4>1. r \in Working
          BY <1>5, <3>2 DEF Step, Fetch, ReadStored, Write, ReadNewest, Overlay, Release,
                            DatabaseError, Crash, Working
        <4> QED
          BY <1>1, <1>5, <4>1 DEF OneWorks
      <3> QED
        BY <3>1, <3>2
    <2> QED
      BY <2>1, <2>2 DEF Working, Current
  <1>6. CASE ReadStored(s)
    <2>1. /\ pc'[s] = "write" /\ previous'[s] = Newest(stored) /\ stored' = stored
          /\ update'[s] = (stored[Today] # NoSnapshot) /\ day'[s] = Today
      BY <1>6 DEF ReadStored, TypeOK
    <2> QED
      BY <2>1 DEF Current, DaysHavePassed
  <1>7. CASE ReadNewest(s)
    <2>1. /\ pc'[s] # "write" /\ previous'[s] = Newest(stored) /\ stored' = stored
          /\ newestDay'[s] = NewestDay(stored)
          /\ pc'[s] = "overlay" => Newest(stored) # NoSnapshot
      BY <1>7 DEF ReadNewest, TypeOK
    <2>2. Newest(stored) # NoSnapshot => ~NoneStored(stored)
      BY NewestType
    <2> QED
      BY <2>1, <2>2 DEF Current
  <1>8. CASE Acquire(s) \/ Fetch(s) \/ Write(s) \/ Overlay(s) \/ Release(s) \/ DatabaseError(s)
               \/ Crash(s)
    <2>1. pc'[s] # "write" /\ pc'[s] # "overlay"
      BY <1>8 DEF Acquire, Fetch, Write, Overlay, Release, DatabaseError, Crash, TypeOK
    <2> QED
      BY <2>1 DEF Current
  <1> QED
    BY <1>3, <1>4, <1>5, <1>6, <1>7, <1>8 DEF Next, Step

-----------------------------------------------------------------------------
(* The newest snapshot *)

\* What a refresh that was not overtaken stores becomes the newest snapshot.
LEMMA StoredIsNewest ==
    ASSUME TypeOK, DaysHavePassed, DaysReadHavePassed, ReadIsCurrent,
           NEW r \in Refreshes, Write(r) \/ Overlay(r), overtaken = {}
    PROVE  \/ stored' = stored /\ known' = known
           \/ /\ Write(r) /\ Newest(stored') = NewSnapshot(r) /\ Newest(stored') # NoSnapshot
              /\ previous[r] = Newest(stored)
              /\ known' = [c \in Chains |-> IF c \in FailedOf(r) THEN known[c] ELSE Answered(r, c)]
           \/ Newest(stored') = Newest(stored) /\ known' = known
  <1>1. CASE stored' = stored /\ known' = known
    BY <1>1
  <1>2. CASE /\ Write(r) /\ stored' = [stored EXCEPT ![day[r]] = NewSnapshot(r)]
             /\ known' = [c \in Chains |-> IF c \in FailedOf(r) THEN known[c] ELSE Answered(r, c)]
             /\ NewSnapshot(r) \in Snapshot /\ day[r] \in Days /\ day[r] <= Today
    <2>1. /\ previous[r] = Newest(stored)
          /\ \A d \in Days : stored[d] # NoSnapshot => d <= day[r]
      BY <1>2 DEF Write, ReadIsCurrent
    <2>2. Newest(stored') = NewSnapshot(r)
      BY <1>2, <2>1, LastStoredIsNewest
    <2> QED
      BY <1>2, <2>1, <2>2, NoSnapshotAssumption
  <1>3. CASE /\ Overlay(r) /\ stored' = [stored EXCEPT ![Today] = previous[r]] /\ known' = known
             /\ previous[r] \in Snapshot /\ Today \in Days
    <2>1. previous[r] = Newest(stored)
      BY <1>3 DEF Overlay, ReadIsCurrent
    <2>2. Newest(stored') = previous[r]
      BY <1>3, LastStoredIsNewest DEF DaysHavePassed
    <2> QED
      BY <1>3, <2>1, <2>2
  <1> QED
    BY <1>1, <1>2, <1>3, Stored

LEMMA NextNewest ==
    ASSUME TypeOK, DaysHavePassed, DaysReadHavePassed, ReadIsCurrent, NewestKnowsEveryChain,
           AgesAreHonest, [Next]_vars
    PROVE  NewestKnowsEveryChain' /\ AgesAreHonest'
  <1>1. overtaken' = {} => overtaken = {}
    BY WorkMoves DEF Acquire
  <1>2. CASE Newest(stored') = Newest(stored) /\ known' = known
    BY <1>1, <1>2 DEF NewestKnowsEveryChain, AgesAreHonest
  <1>3. ASSUME NEW r \in Refreshes, Write(r), overtaken = {}, Newest(stored') = NewSnapshot(r),
               Newest(stored') # NoSnapshot, previous[r] = Newest(stored),
               known' = [c \in Chains |-> IF c \in FailedOf(r) THEN known[c] ELSE Answered(r, c)]
        PROVE  NewestKnowsEveryChain' /\ AgesAreHonest'
    <2>1. /\ NewSnapshot(r).items
               = [c \in Chains |-> IF c \in FailedOf(r) THEN Carried(r)[c] ELSE Answered(r, c)]
          /\ NewSnapshot(r).stale
               = [c \in Chains |-> IF c \in FailedOf(r) THEN StaleSince(r, c) ELSE Nothing]
          /\ NewSnapshot(r).asOf = clock
      BY DEF NewSnapshot
    <2>2. \A c \in Chains : Carried(r)[c] = known[c]
      BY <1>3 DEF Carried, NewestKnowsEveryChain
    <2>3. NewSnapshot(r).items = known'
      BY <1>3, <2>1, <2>2
    <2>4. previous[r] # NoSnapshot => previous[r] \in Snapshot /\ previous[r].asOf # Nothing
      BY DEF TypeOK, Snapshot, Times, Nothing
    <2>5. ASSUME NEW c \in Chains, NewSnapshot(r).items[c] # Nothing
          PROVE  NewSnapshot(r).items[c] =
                     IF NewSnapshot(r).stale[c] = Nothing THEN NewSnapshot(r).asOf
                     ELSE NewSnapshot(r).stale[c]
      <3>1. CASE c \notin FailedOf(r)
        BY <2>1, <2>5, <3>1 DEF Answered
      <3>2. CASE c \in FailedOf(r)
        <4>1. Carried(r)[c] # Nothing /\ NewSnapshot(r).items[c] = Carried(r)[c]
              /\ NewSnapshot(r).stale[c] = StaleSince(r, c)
          BY <2>1, <2>5, <3>2
        <4>2. previous[r] # NoSnapshot /\ previous[r].items[c] = Carried(r)[c]
          BY <4>1 DEF Carried
        <4>3. previous[r].items[c] = IF previous[r].stale[c] = Nothing THEN previous[r].asOf
                                     ELSE previous[r].stale[c]
          BY <1>3, <4>1, <4>2 DEF AgesAreHonest
        <4> QED
          BY <2>4, <4>1, <4>2, <4>3 DEF StaleSince
      <3> QED
        BY <3>1, <3>2
    <2>6. overtaken' = {}
      BY <1>3 DEF Write
    <2> QED
      BY <1>3, <2>3, <2>5, <2>6 DEF NewestKnowsEveryChain, AgesAreHonest
  <1>4. CASE overtaken # {}
    BY <1>1, <1>4 DEF NewestKnowsEveryChain, AgesAreHonest
  <1> QED
    BY <1>2, <1>3, <1>4, StoresAre, StoredIsNewest

-----------------------------------------------------------------------------
(* Theorems *)

LEMMA InitInv == Init => RefreshInv
  <1> SUFFICES ASSUME Init PROVE RefreshInv
    OBVIOUS
  <1>1. TypeOK
    BY InitType
  <1>2. NoneStored(stored) /\ Newest(stored) = NoSnapshot
    BY NewestOfNone DEF Init, NoneStored
  <1>3. Working = {}
    BY DEF Init, Working
  <1>4. DaysHavePassed
    BY <1>2 DEF DaysHavePassed, NoneStored
  <1>5. DaysReadHavePassed
    <2>1. Today \in Nat
      BY <1>1, TodayIs, DaysAre
    <2>2. 0 <= Today
      BY <2>1
    <2> QED
      BY <2>2 DEF Init, DaysReadHavePassed
  <1>6. OneWorks /\ FlagIsHeld
    BY <1>3 DEF OneWorks, FlagIsHeld
  <1>7. ReadIsCurrent
    BY DEF Init, ReadIsCurrent
  <1>8. NewestKnowsEveryChain /\ AgesAreHonest
    BY <1>2 DEF Init, NewestKnowsEveryChain, AgesAreHonest
  <1> QED
    BY <1>1, <1>4, <1>5, <1>6, <1>7, <1>8 DEF RefreshInv

LEMMA NextInv == RefreshInv /\ [Next]_vars => RefreshInv'
  BY NextType, NextDays, NextDaysRead, NextFlag, NextRead, NextNewest DEF RefreshInv

LEMMA InvAlways == Spec => []RefreshInv
  <1> QED
    BY InitInv, NextInv, PTL DEF Spec

\* The state of the refreshes, their flag and the snapshots is always of its
\* type, whatever interleaving of refreshes, kills and database errors.
THEOREM TypeCorrect == Spec => []TypeOK
  <1>1. RefreshInv => TypeOK
    BY DEF RefreshInv
  <1> QED
    BY <1>1, InvAlways, PTL

\* The flag excludes (acquire_refresh_lock): as long as no live refresh has been
\* taken for dead, at most one works on the wallet (issue 135).
THEOREM RefreshesAlwaysExclude == Spec => []RefreshesExclude
  <1>1. RefreshInv => RefreshesExclude
    BY DEF RefreshInv, OneWorks, RefreshesExclude
  <1> QED
    BY <1>1, InvAlways, PTL

\* No failure of a chain, of all chains or of the database drops a holding from
\* the newest snapshot (_carry_forward_failed_chains, issue 156).
THEOREM NewestAlwaysKnowsEveryChain == Spec => []NewestKnowsEveryChain
  <1>1. RefreshInv => NewestKnowsEveryChain
    BY DEF RefreshInv
  <1> QED
    BY <1>1, InvAlways, PTL

\* However often a chain is carried forward, the newest snapshot says when its
\* holdings were stored (stale_chains, holdings_as_of).
THEOREM AgesAreAlwaysHonest == Spec => []AgesAreHonest
  <1>1. RefreshInv => AgesAreHonest
    BY DEF RefreshInv
  <1> QED
    BY <1>1, InvAlways, PTL

\* Repricing files under today and an upsert under the day it began: no step
\* changes another day's snapshot, overtaken or not (issue 144).
THEOREM PastDaysAlwaysStay == Spec => PastDaysStay
  <1>1. ASSUME RefreshInv, [Next]_vars
        PROVE  \A d \in Days : stored'[d] # stored[d] =>
                   d = Today \/ \E r \in Refreshes : pc[r] = "write" /\ day[r] = d
    <2> SUFFICES ASSUME NEW d \in Days, stored'[d] # stored[d]
                 PROVE  d = Today \/ \E r \in Refreshes : pc[r] = "write" /\ day[r] = d
      OBVIOUS
    <2>1. TypeOK /\ DaysReadHavePassed
      BY <1>1 DEF RefreshInv
    <2>2. PICK r \in Refreshes : Write(r) \/ Overlay(r)
      BY <1>1, StoresAre
    <2>3. CASE Write(r) /\ stored' = [stored EXCEPT ![day[r]] = NewSnapshot(r)]
      BY <2>1, <2>3 DEF Write, TypeOK
    <2>4. CASE stored' = [stored EXCEPT ![Today] = previous[r]]
      BY <2>1, <2>4 DEF TypeOK
    <2> QED
      BY <2>1, <2>2, <2>3, <2>4, Stored
  <1> QED
    BY <1>1, InvAlways, PTL DEF Spec, PastDaysStay

(***************************************************************************)
(* QuoteRefresh.                                                           *)
(***************************************************************************)

\* The symbols asked for are in an order, each at a place of its own number.
LEMMA LoadedIsPlaces ==
    ASSUME NEW m
    PROVE  /\ DOMAIN Loaded(m) = Active(m)
           /\ Loaded(m) \in UNION {[S -> Nat] : S \in SUBSET Assets}
  <1>1. Active(m) \in SUBSET Assets
    BY DEF Active
  <1>2. \A a \in Active(m) : Cardinality({b \in Active(m) : b = a \/ Before(b, a)}) \in Nat
    <2> SUFFICES ASSUME NEW a \in Active(m)
                 PROVE  Cardinality({b \in Active(m) : b = a \/ Before(b, a)}) \in Nat
      OBVIOUS
    <2>1. IsFiniteSet(Active(m))
      BY <1>1, AssetsAssumption, FS_Subset
    <2>2. IsFiniteSet({b \in Active(m) : b = a \/ Before(b, a)})
      BY <2>1, FS_Subset
    <2> QED
      BY <2>2, FS_CardinalityType
  <1>3. Loaded(m) \in [Active(m) -> Nat]
    BY <1>2 DEF Loaded
  <1> QED
    BY <1>1, <1>3

\* Each symbol chosen is unresolved, refused or upserted, and none of the latter is asked for
\* again; what the newest items say of it is what became of it in this refresh.
EachHasItsOutcome ==
    stage # "idle" =>
        /\ DOMAIN all = Active(map)
        /\ Chosen = unresolved \cup invalid \cup upserted
        /\ unresolved \cap (invalid \cup upserted) = {}
        /\ \A a \in upserted : items[a] \in {"upserted", "fallback_upserted"}
        /\ \A a \in invalid : items[a] = "invalid"
        /\ \A a \in unresolved : step > 1 => items[a] = "missing"

\* A row that ends the scheduler's window.
EndsWindow == \E i \in 1 .. Len(runs) : runs[i].status \in {"success", "partial"}

\* A refresh that upserted something has such a row, and one that had no symbol.
RowsEndWindows ==
    stage # "idle" =>
        /\ upserted # {} => EndsWindow
        /\ stage = "done" /\ DOMAIN all = {} => EndsWindow

\* All was asked for of all.
ChainIsDone ==
    stage = "done" /\ Chosen # {} => unresolved = {} \/ step > Len(Chain)

QuotesInv == QuoteTypeOK /\ EachHasItsOutcome /\ RowsEndWindows /\ ChainIsDone

QuoteRows == [provider : {Chain[i] : i \in 1 .. Len(Chain)} \cup {"none"},
              status : {"success", "partial", "failed"}]

\* What a provider is asked for is split into what it has a price for, what it has a price for
\* that is none, and the rest; row is the run's.
Split(got, bad, rest, row) ==
    /\ got \in SUBSET Assets /\ bad \in SUBSET Assets /\ rest \in SUBSET Assets
    /\ row \in QuoteRows
    /\ got \cup bad \cup rest = unresolved
    /\ got \cap bad = {} /\ rest \cap (got \cup bad) = {}
    /\ unresolved' = rest /\ invalid' = invalid \cup bad /\ upserted' = upserted \cup got
    /\ items' = [a \in Assets |->
                    IF a \in got THEN (IF step = 1 THEN "upserted" ELSE "fallback_upserted")
                    ELSE IF a \in bad THEN "invalid"
                    ELSE IF a \in rest THEN "missing" ELSE items[a]]
    /\ runs' = Append(runs, row)
    /\ got # {} => row.status \in {"success", "partial"}

LEMMA AskSplits ==
    ASSUME QuotesInv, NEW outcome, Ask(outcome)
    PROVE  /\ \E got, bad, rest, row : Split(got, bad, rest, row)
           /\ priced' \in [Assets -> PriceDays \cup {Never}]
  <1> DEFINE got  == {a \in unresolved : outcome[ticker[a]] \in PriceDays}
             bad  == {a \in unresolved : outcome[ticker[a]] = BadPrice}
             rest == unresolved \ (got \cup bad)
             failed == \E s \in Asked(unresolved) : outcome[s] = Error
             row == Run(Chain[step], IF failed /\ got = {} THEN "failed"
                                     ELSE IF rest \cup bad # {} THEN "partial" ELSE "success")
  <1>1. unresolved \in SUBSET Assets /\ step \in Nat \ {0} /\ step <= Len(Chain)
    BY DEF QuotesInv, QuoteTypeOK, Ask
  <1>2. got \cap bad = {}
    BY MaxDayAssumption DEF PriceDays, BadPrice
  <1>3. priced' \in [Assets -> PriceDays \cup {Never}]
    <2>1. priced' = [a \in Assets |-> IF a \in got THEN Newer(priced[a], outcome[ticker[a]])
                                                   ELSE priced[a]]
      BY DEF Ask
    <2>2. \A a \in Assets : priced[a] \in PriceDays \cup {Never}
      BY DEF QuotesInv, QuoteTypeOK
    <2>3. \A a \in got : Newer(priced[a], outcome[ticker[a]]) \in PriceDays \cup {Never}
      BY <1>1, <2>2 DEF Newer
    <2> QED
      BY <2>1, <2>2, <2>3
  <1>4. row \in [provider : {Chain[i] : i \in 1 .. Len(Chain)} \cup {"none"},
                 status : {"success", "partial", "failed"}]
    BY <1>1, ChainAssumption DEF Run
  <1>5. got # {} => row.status \in {"success", "partial"}
    BY DEF Run
  <1>6. /\ runs' = Append(runs, row)
        /\ unresolved' = rest /\ invalid' = invalid \cup bad /\ upserted' = upserted \cup got
        /\ items' = [a \in Assets |->
                        IF a \in got THEN (IF step = 1 THEN "upserted" ELSE "fallback_upserted")
                        ELSE IF a \in bad THEN "invalid"
                        ELSE IF a \in rest THEN "missing" ELSE items[a]]
    BY DEF Ask
  <1>7. got \in SUBSET Assets /\ bad \in SUBSET Assets /\ rest \in SUBSET Assets
    BY <1>1
  <1>8. got \cup bad \cup rest = unresolved /\ rest \cap (got \cup bad) = {}
    BY <1>1
  <1> HIDE DEF got, bad, rest, row
  <1>9. Split(got, bad, rest, row)
    BY <1>2, <1>4, <1>5, <1>6, <1>7, <1>8 DEF Split, QuoteRows
  <1> QED
    BY <1>3, <1>9

\* Of one row more, one that ended the window ends it still.
LEMMA AppendEndsWindow ==
    ASSUME NEW S, runs \in Seq(S), NEW row \in S, runs' = Append(runs, row),
           EndsWindow \/ row.status \in {"success", "partial"}
    PROVE  EndsWindow'
  <1>1. /\ Len(runs') = Len(runs) + 1 /\ runs'[Len(runs) + 1] = row /\ Len(runs) \in Nat
        /\ \A i \in 1 .. Len(runs) : runs'[i] = runs[i]
    OBVIOUS
  <1>2. CASE EndsWindow
    <2>1. PICK i \in 1 .. Len(runs) : runs[i].status \in {"success", "partial"}
      BY <1>2 DEF EndsWindow
    <2>2. i \in 1 .. Len(runs') /\ runs'[i].status \in {"success", "partial"}
      BY <1>1, <2>1
    <2> QED
      BY <2>2 DEF EndsWindow
  <1>3. CASE row.status \in {"success", "partial"}
    <2>1. Len(runs) + 1 \in 1 .. Len(runs') /\ runs'[Len(runs) + 1].status \in {"success", "partial"}
      BY <1>1, <1>3
    <2> QED
      BY <2>1 DEF EndsWindow
  <1> QED
    BY <1>2, <1>3

\* A start finds nothing resolved.
LEMMA StartKeepsQuotes ==
    ASSUME QuotesInv, NEW coverage \in BOOLEAN, Start(coverage)
    PROVE  QuotesInv'
  <1>1. /\ map' = Backfilled /\ all' = Loaded(map') /\ full' = coverage /\ unresolved' = Chosen'
        /\ invalid' = {} /\ upserted' = {} /\ runs' = <<>> /\ step' = 1 /\ stage' = "ask"
        /\ ticker' = ticker /\ belongs' = belongs /\ held' = held /\ unlinked' = unlinked
        /\ priced' = priced /\ items' = items
    BY DEF Start, inputs
  <1>2. map' \in [Assets -> {"none", "active", "inactive"}]
    <2>1. \A a \in Assets : map[a] \in {"none", "active", "inactive"}
      BY DEF QuotesInv, QuoteTypeOK
    <2> QED
      BY <1>1, <2>1 DEF Backfilled
  <1>3. /\ DOMAIN all' = Active(map') /\ all' \in UNION {[S -> Nat] : S \in SUBSET Assets}
        /\ Active(map)' = Active(map')
    <2>1. DOMAIN Loaded(map') = Active(map') /\ Loaded(map') \in UNION {[S -> Nat] : S \in SUBSET Assets}
      BY LoadedIsPlaces
    <2>2. Active(map)' = Active(map')
      BY <1>1 DEF Active
    <2> QED
      BY <1>1, <2>1, <2>2
  <1>4. Chosen' \in SUBSET Assets
    BY <1>3 DEF Chosen
  <1>5. QuoteTypeOK'
    BY <1>1, <1>2, <1>3, <1>4 DEF QuotesInv, QuoteTypeOK
  <1>6. EachHasItsOutcome'
    BY <1>1, <1>3 DEF EachHasItsOutcome
  <1>7. RowsEndWindows' /\ ChainIsDone'
    BY <1>1 DEF RowsEndWindows, ChainIsDone
  <1> QED
    BY <1>5, <1>6, <1>7 DEF QuotesInv

\* Asking a provider moves symbols from the unresolved to the others.
LEMMA AskKeepsQuotes ==
    ASSUME QuotesInv, NEW outcome, Ask(outcome)
    PROVE  QuotesInv'
  <1>1. PICK got, bad, rest, row : Split(got, bad, rest, row)
    BY AskSplits
  <1>1a. priced' \in [Assets -> PriceDays \cup {Never}]
    BY AskSplits
  <1>2. /\ stage = "ask" /\ stage' = "ask" /\ step' = step + 1 /\ full' = full /\ all' = all
        /\ map' = map /\ ticker' = ticker /\ belongs' = belongs /\ held' = held
        /\ unlinked' = unlinked
    BY DEF Ask, inputs
  <1>3. QuoteTypeOK /\ EachHasItsOutcome /\ RowsEndWindows
    BY DEF QuotesInv
  <1>4. step \in Nat \ {0} /\ step' \in Nat \ {0} /\ step' > 1
    BY <1>2, <1>3 DEF QuoteTypeOK
  <1>5. runs \in Seq(QuoteRows) /\ runs' \in Seq(QuoteRows)
    BY <1>1, <1>3 DEF QuoteTypeOK, QuoteRows, Split
  <1>6. QuoteTypeOK'
    <2>1. items' \in [Assets -> {"none", "upserted", "fallback_upserted", "missing", "invalid"}]
      BY <1>1, <1>3 DEF QuoteTypeOK, Split
    <2>2. unresolved' \in SUBSET Assets /\ invalid' \in SUBSET Assets /\ upserted' \in SUBSET Assets
      BY <1>1, <1>3 DEF QuoteTypeOK, Split
    <2> QED
      BY <1>1a, <1>2, <1>3, <1>4, <1>5, <2>1, <2>2 DEF QuoteTypeOK, QuoteRows
  <1>7. EachHasItsOutcome'
    <2>1. Active(map)' = Active(map) /\ Chosen' = Chosen
      BY <1>2 DEF Active, Chosen, Deferred
    <2>2. /\ DOMAIN all = Active(map) /\ Chosen = unresolved \cup invalid \cup upserted
          /\ unresolved \cap (invalid \cup upserted) = {}
          /\ \A a \in upserted : items[a] \in {"upserted", "fallback_upserted"}
          /\ \A a \in invalid : items[a] = "invalid"
          /\ invalid \in SUBSET Assets /\ upserted \in SUBSET Assets
      BY <1>2, <1>3 DEF EachHasItsOutcome, QuoteTypeOK
    <2>3. \A a \in upserted' : items'[a] \in {"upserted", "fallback_upserted"}
      BY <1>1, <2>2 DEF Split
    <2>4. \A a \in invalid' : items'[a] = "invalid"
      BY <1>1, <2>2 DEF Split
    <2>5. \A a \in unresolved' : items'[a] = "missing"
      BY <1>1 DEF Split
    <2>6. /\ unresolved' \cap (invalid' \cup upserted') = {}
          /\ Chosen' = unresolved' \cup invalid' \cup upserted'
      BY <1>1, <2>1, <2>2 DEF Split
    <2> QED
      BY <1>2, <2>1, <2>2, <2>3, <2>4, <2>5, <2>6 DEF EachHasItsOutcome
  <1>8. RowsEndWindows'
    <2>1. CASE upserted' # {}
      <3>1. EndsWindow \/ row.status \in {"success", "partial"}
        BY <1>1, <1>2, <1>3, <2>1 DEF RowsEndWindows, Split
      <3>2. EndsWindow'
        BY <1>1, <1>5, <3>1, AppendEndsWindow DEF Split
      <3> QED
        BY <3>2 DEF RowsEndWindows
    <2>2. CASE upserted' = {}
      BY <1>2, <2>2 DEF RowsEndWindows
    <2> QED
      BY <2>1, <2>2
  <1>9. ChainIsDone'
    BY <1>2 DEF ChainIsDone
  <1> QED
    BY <1>6, <1>7, <1>8, <1>9 DEF QuotesInv

\* The other steps resolve nothing.
LEMMA OtherKeepsQuotes ==
    ASSUME QuotesInv, Empty \/ Finish \/ Record \/ UNCHANGED quoteVars
    PROVE  QuotesInv'
  <1>1. CASE Empty
    <2>1. /\ stage = "ask" /\ stage' = "done" /\ Chosen = {}
          /\ UNCHANGED <<ticker, belongs, held, unlinked, map, priced, items, step, all, full,
                         unresolved, invalid, upserted>>
          /\ runs' = IF DOMAIN all = {}
                     THEN <<Run("none", IF Unpriced > 0 THEN "partial" ELSE "success")>> ELSE runs
      BY <1>1 DEF Empty, inputs
    <2>2. Chosen' = Chosen /\ Active(map)' = Active(map)
      BY <2>1 DEF Chosen, Deferred, Active
    <2>3. runs' \in Seq([provider : {Chain[i] : i \in 1 .. Len(Chain)} \cup {"none"},
                         status : {"success", "partial", "failed"}])
      <3> DEFINE Rows == [provider : {Chain[i] : i \in 1 .. Len(Chain)} \cup {"none"},
                          status : {"success", "partial", "failed"}]
                 row == Run("none", IF Unpriced > 0 THEN "partial" ELSE "success")
      <3>1. row \in Rows /\ runs \in Seq(Rows)
        BY DEF QuotesInv, QuoteTypeOK, Run
      <3>2. runs' \in {<<row>>, runs}
        BY <2>1
      <3> HIDE DEF row, Rows
      <3>3. <<row>> \in Seq(Rows)
        BY <3>1
      <3>4. runs' \in Seq(Rows)
        BY <3>1, <3>2, <3>3
      <3> QED
        BY <3>4 DEF Rows
    <2>4. QuoteTypeOK'
      BY <2>1, <2>3 DEF QuotesInv, QuoteTypeOK
    <2>5. EachHasItsOutcome' /\ ChainIsDone'
      BY <2>1, <2>2 DEF QuotesInv, EachHasItsOutcome, ChainIsDone
    <2>6. RowsEndWindows'
      <3>1. upserted' = {}
        BY <2>1 DEF QuotesInv, EachHasItsOutcome
      <3>2. ASSUME DOMAIN all = {} PROVE EndsWindow'
        <4>1. 1 \in 1 .. Len(runs') /\ runs'[1].status \in {"success", "partial"}
          BY <2>1, <3>2 DEF Run
        <4> QED
          BY <4>1 DEF EndsWindow
      <3> QED
        BY <2>1, <3>1, <3>2 DEF RowsEndWindows
    <2> QED
      BY <2>4, <2>5, <2>6 DEF QuotesInv
  <1>2. CASE Finish
    <2>1. /\ stage = "ask" /\ stage' = "done" /\ Chosen # {} /\ (unresolved = {} \/ step > Len(Chain))
          /\ UNCHANGED <<ticker, belongs, held, unlinked, map, priced, items, runs, step, all, full,
                         unresolved, invalid, upserted>>
      BY <1>2 DEF Finish, inputs
    <2>2. Chosen' = Chosen /\ Active(map)' = Active(map) /\ EndsWindow' = EndsWindow
      BY <2>1 DEF Chosen, Deferred, Active, EndsWindow
    <2>3. QuoteTypeOK'
      BY <2>1 DEF QuotesInv, QuoteTypeOK
    <2>4. EachHasItsOutcome' /\ ChainIsDone'
      BY <2>1, <2>2 DEF QuotesInv, EachHasItsOutcome, ChainIsDone
    <2>5. DOMAIN all # {}
      BY <2>1 DEF Chosen
    <2>6. RowsEndWindows'
      BY <2>1, <2>2, <2>5 DEF QuotesInv, RowsEndWindows
    <2> QED
      BY <2>3, <2>4, <2>6 DEF QuotesInv
  <1>3. CASE Record
    <2>1. /\ stage' = "idle" /\ held' \in SUBSET Assets /\ all' = <<>> /\ full' = TRUE /\ step' = 1
          /\ runs' = <<>> /\ unresolved' = {} /\ invalid' = {} /\ upserted' = {}
          /\ UNCHANGED <<ticker, belongs, unlinked, map, priced, items>>
      BY <1>3 DEF Record
    <2>2. <<>> \in UNION {[S -> Nat] : S \in SUBSET Assets}
      <3>1. <<>> \in [{} -> Nat]
        OBVIOUS
      <3> QED
        BY <3>1
    <2>3. runs' \in Seq([provider : {Chain[i] : i \in 1 .. Len(Chain)} \cup {"none"},
                         status : {"success", "partial", "failed"}])
      BY <2>1
    <2>4. all' \in UNION {[S -> Nat] : S \in SUBSET Assets}
      BY <2>1, <2>2
    <2>5. QuoteTypeOK'
      <3>1. /\ stage' = "idle" /\ held' \in SUBSET Assets /\ full' = TRUE /\ step' = 1
            /\ unresolved' = {} /\ invalid' = {} /\ upserted' = {}
            /\ UNCHANGED <<ticker, belongs, unlinked, map, priced, items>>
        BY <2>1
      <3> QED
        BY <2>3, <2>4, <3>1 DEF QuotesInv, QuoteTypeOK
    <2> QED
      BY <2>1, <2>5 DEF QuotesInv, EachHasItsOutcome, RowsEndWindows, ChainIsDone
  <1>4. CASE UNCHANGED quoteVars
    BY <1>4 DEF quoteVars, inputs, QuotesInv, QuoteTypeOK, EachHasItsOutcome, RowsEndWindows,
                ChainIsDone, EndsWindow, Chosen, Deferred, Active
  <1> QED
    BY <1>1, <1>2, <1>3, <1>4

\* The invariant of a refresh.
LEMMA QuotesAlways == QuotesSpec => []QuotesInv
  <1>1. QuotesInit => QuotesInv
    <2> SUFFICES ASSUME QuotesInit PROVE QuotesInv
      OBVIOUS
    <2>1. <<>> \in UNION {[S -> Nat] : S \in SUBSET Assets}
      <3>1. <<>> \in [{} -> Nat]
        OBVIOUS
      <3> QED
        BY <3>1
    <2>2. QuoteTypeOK
      BY <2>1 DEF QuotesInit, QuoteTypeOK
    <2> QED
      BY <2>2 DEF QuotesInit, QuotesInv, EachHasItsOutcome, RowsEndWindows, ChainIsDone
  <1>2. QuotesInv /\ [QuotesNext]_quoteVars => QuotesInv'
    BY StartKeepsQuotes, AskKeepsQuotes, OtherKeepsQuotes DEF QuotesNext
  <1> QED
    BY <1>1, <1>2, PTL DEF QuotesSpec

\* Every variable of the quote refresh keeps its type (market_data/service.py).
THEOREM QuotesTypeCorrect == QuotesSpec => []QuoteTypeOK
  <1>1. QuotesInv => QuoteTypeOK
    BY DEF QuotesInv
  <1> QED
    BY <1>1, QuotesAlways, PTL

\* A refresh that says it succeeded wrote a price for every symbol of the exchange and leaves no
\* position held there without one, whatever the providers answered (run_exchange_refresh).
THEOREM SuccessAlwaysMeansPriced == QuotesSpec => []SuccessMeansPriced
  <1>1. QuotesInv => SuccessMeansPriced
    <2> SUFFICES ASSUME QuotesInv, stage = "done", JobStatus = "success"
                 PROVE  upserted = Active(map) /\ Unpriced = 0
      BY DEF SuccessMeansPriced
    <2>1. unresolved = {} /\ invalid = {} /\ Deferred = {} /\ Unpriced = 0
      BY DEF JobStatus, Status
    <2>2. DOMAIN all = Active(map) /\ Chosen = unresolved \cup invalid \cup upserted
      BY DEF QuotesInv, EachHasItsOutcome
    <2> QED
      BY <2>1, <2>2 DEF Chosen
  <1> QED
    BY <1>1, QuotesAlways, PTL

\* A full refresh whose job has not failed leaves a row that ends the scheduler's window
\* (run_exchange_refresh, _finish_run; #137, #222).
THEOREM RefreshesAlwaysEndWindows == QuotesSpec => []RefreshesEndWindows
  <1>1. QuotesInv => RefreshesEndWindows
    <2> SUFFICES ASSUME QuotesInv, stage = "done", full, JobStatus # "failed"
                 PROVE  EndsWindow
      BY DEF RefreshesEndWindows, EndsWindow
    <2>1. Chosen = DOMAIN all
      BY DEF Chosen, Deferred
    <2>2. Chosen = {} \/ upserted # {}
      BY DEF JobStatus
    <2> QED
      BY <2>1, <2>2 DEF QuotesInv, RowsEndWindows
  <1> QED
    BY <1>1, QuotesAlways, PTL

\* With a chain of one provider at least, the Data Hub's line of a symbol is what this refresh did
\* for it, whichever provider had it and whatever earlier refreshes did (_exchange_diagnostics).
THEOREM LinesAlwaysTellTheRefresh ==
    ASSUME Len(Chain) > 0 PROVE QuotesSpec => []LinesTellTheRefresh
  <1>1. QuotesInv => LinesTellTheRefresh
    <2> SUFFICES ASSUME QuotesInv, stage = "done", NEW a \in Active(map)
                 PROVE  Told(a) = IF a \in upserted THEN "refreshed"
                                  ELSE IF a \in Deferred THEN "deferred" ELSE "failed"
      BY DEF LinesTellTheRefresh
    <2>1. /\ DOMAIN all = Active(map)
          /\ Chosen = unresolved \cup invalid \cup upserted
          /\ unresolved \cap (invalid \cup upserted) = {}
          /\ \A b \in upserted : items[b] \in {"upserted", "fallback_upserted"}
          /\ \A b \in invalid : items[b] = "invalid"
          /\ \A b \in unresolved : step > 1 => items[b] = "missing"
      BY DEF QuotesInv, EachHasItsOutcome
    <2>2. Chosen # {} => unresolved = {} \/ step > 1
      BY ChainAssumption DEF QuotesInv, ChainIsDone, QuoteTypeOK
    <2>3. \A b \in Active(map) : b \in Deferred \/ b \in Chosen
      BY <2>1 DEF Chosen
    <2>4. \A b \in Chosen : b \notin Deferred
      BY DEF Chosen
    <2>5. CASE a \in Deferred
      BY <2>1, <2>4, <2>5 DEF Told
    <2>6. CASE a \in Chosen
      BY <2>1, <2>2, <2>4, <2>6 DEF Told
    <2> QED
      BY <2>3, <2>5, <2>6
  <1> QED
    BY <1>1, QuotesAlways, PTL
================================================================================

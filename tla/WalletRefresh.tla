----------------------------- MODULE WalletRefresh -----------------------------
(***************************************************************************)
(* Refreshing one crypto wallet.  A refresh takes the wallet's flag with   *)
(* one conditional UPDATE, asks every chain for its holdings, and stores a *)
(* snapshot for today; chains that did not answer are carried forward from *)
(* the newest snapshot.  When all of them fail it only reprices what is    *)
(* known.  The flag is released at the end, and taken over when it is      *)
(* older than StaleAfter.                                                  *)
(*                                                                         *)
(* The holdings of a chain are known by the time they were stored; Nothing *)
(* is a chain with no item.                                                *)
(***************************************************************************)
EXTENDS Integers, FiniteSets

CONSTANTS
    Refreshes,   \* refreshes of the wallet, by the scheduler or a person
    Chains,
    StaleAfter,  \* refresh_lock_stale_after(), in ticks
    DayLength,   \* ticks in a day of the owner's calendar
    MaxClock,    \* bound on the clock
    NoSnapshot

ASSUME ChainsAssumption == Chains # {}
ASSUME TimesAssumption == StaleAfter \in Nat /\ DayLength \in Nat \ {0} /\ MaxClock \in Nat \ {0}

Nothing == 0
Times   == 1..MaxClock
Days    == 0..MaxClock \div DayLength

Holdings == [Chains -> Times \cup {Nothing}]

\* items: when each chain's items were stored; failed: failed_chain_names;
\* stale: stale_chains, Nothing where a chain has no entry; asOf: holdings_as_of.
Snapshot == [items : Holdings, failed : SUBSET Chains, stale : Holdings, asOf : Times]

ASSUME NoSnapshotAssumption == NoSnapshot \notin Snapshot

VARIABLES
    clock,
    flag,      \* refresh_in_progress and refresh_started_at
    stored,    \* the snapshot of each day, or NoSnapshot
    pc,        \* per refresh, where it is
    answers,   \* what its chains answered
    day,       \* as_of: the day it files its snapshot under
    previous,  \* the newest snapshot when it read, and that snapshot's day
    newestDay,
    update,    \* whether the day had a snapshot then
    overtaken, \* ghost: refreshes whose flag was taken over while they worked
    known      \* ghost: per chain, the newest answer that was stored

locals == <<answers, day, previous, newestDay, update>>
vars == <<clock, flag, stored, pc, locals, overtaken, known>>

Answers == {"failed", "empty", "held"}
Today  == clock \div DayLength

Working == {r \in Refreshes : pc[r] \in {"fetch", "store", "write", "reprice", "overlay", "release"}}

Newest(s) ==
    IF \A d \in Days : s[d] = NoSnapshot THEN NoSnapshot
    ELSE s[CHOOSE d \in Days : /\ s[d] # NoSnapshot
                               /\ \A e \in Days : s[e] # NoSnapshot => e <= d]

NewestDay(s) ==
    IF Newest(s) = NoSnapshot THEN 0
    ELSE CHOOSE d \in Days : s[d] # NoSnapshot /\ \A e \in Days : s[e] # NoSnapshot => e <= d

-----------------------------------------------------------------------------
(* The flag *)

MayTake == ~flag.held \/ flag.at < clock - StaleAfter

\* acquire_refresh_lock, committed on its own.
Acquire(r) ==
    /\ pc[r] = "idle"
    /\ MayTake
    /\ flag' = [held |-> TRUE, at |-> clock]
    /\ pc' = [pc EXCEPT ![r] = "fetch"]
    /\ overtaken' = overtaken \cup (IF flag.held THEN Working ELSE {})
    /\ UNCHANGED <<clock, stored, locals, known>>

\* The flag is held: nothing is done and no run recorded.
Locked(r) ==
    /\ pc[r] = "idle"
    /\ ~MayTake
    /\ pc' = [pc EXCEPT ![r] = "done"]
    /\ UNCHANGED <<clock, flag, stored, locals, overtaken, known>>

Forget(r) ==
    /\ answers' = [answers EXCEPT ![r] = [c \in Chains |-> "empty"]]
    /\ day' = [day EXCEPT ![r] = 0] /\ newestDay' = [newestDay EXCEPT ![r] = 0]
    /\ previous' = [previous EXCEPT ![r] = NoSnapshot]
    /\ update' = [update EXCEPT ![r] = FALSE]

\* release_refresh_lock: whoever holds the flag by now.
Release(r) ==
    /\ pc[r] = "release"
    /\ flag' = [flag EXCEPT !.held = FALSE]
    /\ pc' = [pc EXCEPT ![r] = "done"]
    /\ Forget(r)
    /\ UNCHANGED <<clock, stored, overtaken, known>>

-----------------------------------------------------------------------------
(* Fetching and storing *)

\* ingest_wallet: each chain fails, has no item, or has some.  With no
\* item at all and a failure, the refresh is refused.
Fetch(r) ==
    /\ pc[r] = "fetch"
    /\ \E a \in [Chains -> Answers] :
          /\ answers' = [answers EXCEPT ![r] = a]
          /\ pc' = [pc EXCEPT ![r] =
                       IF (\E c \in Chains : a[c] = "failed") /\ (\A c \in Chains : a[c] # "held")
                       THEN "reprice" ELSE "store"]
    /\ UNCHANGED <<clock, flag, stored, day, previous, newestDay, update, overtaken, known>>

FailedOf(r) == {c \in Chains : answers[r][c] = "failed"}

\* The start of upsert_snapshot: the day, the newest snapshot, the day's own.
ReadStored(r) ==
    /\ pc[r] = "store"
    /\ day' = [day EXCEPT ![r] = Today]
    /\ previous' = [previous EXCEPT ![r] = Newest(stored)]
    /\ newestDay' = [newestDay EXCEPT ![r] = NewestDay(stored)]
    /\ update' = [update EXCEPT ![r] = stored[Today] # NoSnapshot]
    /\ pc' = [pc EXCEPT ![r] = "write"]
    /\ UNCHANGED <<clock, flag, stored, answers, overtaken, known>>

\* Mutant: the items of a failed chain are dropped with the day's snapshot.
Carried_Nothing(r) == [c \in Chains |-> Nothing]

\* _carry_forward_failed_chains: the items of a failed chain ...
Carried(r) ==
    IF previous[r] = NoSnapshot THEN [c \in Chains |-> Nothing] ELSE previous[r].items

\* Mutant: the carried items are as old as the snapshot they come from.
StaleSince_Newest(r, c) == IF previous[r] = NoSnapshot THEN Nothing ELSE previous[r].asOf

\* ... and how old they are.
StaleSince(r, c) ==
    IF previous[r] = NoSnapshot THEN Nothing
    ELSE IF previous[r].stale[c] # Nothing THEN previous[r].stale[c]
    ELSE previous[r].asOf

Answered(r, c) == IF answers[r][c] = "held" THEN clock ELSE Nothing

NewSnapshot(r) ==
    [items  |-> [c \in Chains |-> IF c \in FailedOf(r) THEN Carried(r)[c] ELSE Answered(r, c)],
     failed |-> FailedOf(r),
     stale  |-> [c \in Chains |-> IF c \in FailedOf(r) THEN StaleSince(r, c) ELSE Nothing],
     asOf   |-> clock]

\* The rest of upsert_snapshot and its commit.  An INSERT fails when another
\* refresh has stored the day in the meantime.
Write(r) ==
    /\ pc[r] = "write"
    /\ IF ~update[r] /\ stored[day[r]] # NoSnapshot
       THEN pc' = [pc EXCEPT ![r] = "reprice"] /\ UNCHANGED <<stored, known>>
       ELSE /\ stored' = [stored EXCEPT ![day[r]] = NewSnapshot(r)]
            /\ known' = [c \in Chains |-> IF c \in FailedOf(r) THEN known[c] ELSE Answered(r, c)]
            /\ pc' = [pc EXCEPT ![r] = "release"]
    /\ UNCHANGED <<clock, flag, locals, overtaken>>

-----------------------------------------------------------------------------
(* Repricing after a failure: refresh_latest_snapshot_prices *)

\* The newest snapshot is read, its prices fetched; without any, nothing is done.
ReadNewest(r) ==
    /\ pc[r] = "reprice"
    /\ previous' = [previous EXCEPT ![r] = Newest(stored)]
    /\ newestDay' = [newestDay EXCEPT ![r] = NewestDay(stored)]
    /\ \/ /\ Newest(stored) # NoSnapshot
          /\ \E c \in Chains : Newest(stored).items[c] # Nothing
          /\ pc' = [pc EXCEPT ![r] = "overlay"]
       \/ pc' = [pc EXCEPT ![r] = "release"]
    /\ UNCHANGED <<clock, flag, stored, answers, day, update, overtaken, known>>

\* Mutant: the newest snapshot is repriced whatever its day.
OverlayDay_Newest(r) == newestDay[r]

\* The day the repriced holdings are filed under.
OverlayDay(r) == IF newestDay[r] >= Today THEN newestDay[r] ELSE Today

\* A prices-only snapshot for today, or today's snapshot repriced in place.
Overlay(r) ==
    /\ pc[r] = "overlay"
    /\ IF newestDay[r] < Today /\ stored[Today] # NoSnapshot
       THEN UNCHANGED stored
       ELSE stored' = [stored EXCEPT ![OverlayDay(r)] = previous[r]]
    /\ pc' = [pc EXCEPT ![r] = "release"]
    /\ UNCHANGED <<clock, flag, locals, overtaken, known>>

-----------------------------------------------------------------------------

\* The database fails the transaction.
DatabaseError(r) ==
    /\ pc[r] \in {"store", "write", "overlay"}
    /\ pc' = [pc EXCEPT ![r] = IF pc[r] = "overlay" THEN "release" ELSE "reprice"]
    /\ UNCHANGED <<clock, flag, stored, locals, overtaken, known>>

\* The process is killed: the flag stays.
Crash(r) ==
    /\ r \in Working
    /\ pc' = [pc EXCEPT ![r] = "dead"]
    /\ Forget(r)
    /\ UNCHANGED <<clock, flag, stored, overtaken, known>>

Tick ==
    /\ clock < MaxClock
    /\ clock' = clock + 1
    /\ UNCHANGED <<flag, stored, pc, locals, overtaken, known>>

Init ==
    /\ clock = 1
    /\ flag = [held |-> FALSE, at |-> 0]
    /\ stored = [d \in Days |-> NoSnapshot]
    /\ pc = [r \in Refreshes |-> "idle"]
    /\ answers = [r \in Refreshes |-> [c \in Chains |-> "empty"]]
    /\ day = [r \in Refreshes |-> 0] /\ newestDay = [r \in Refreshes |-> 0]
    /\ previous = [r \in Refreshes |-> NoSnapshot]
    /\ update = [r \in Refreshes |-> FALSE]
    /\ overtaken = {}
    /\ known = [c \in Chains |-> Nothing]

Step(r) ==
    \/ Acquire(r) \/ Locked(r) \/ Fetch(r) \/ ReadStored(r) \/ Write(r)
    \/ ReadNewest(r) \/ Overlay(r) \/ Release(r)

Next == Tick \/ \E r \in Refreshes : Step(r) \/ DatabaseError(r) \/ Crash(r)

Spec == Init /\ [][Next]_vars

-----------------------------------------------------------------------------
(* Properties *)

TypeOK ==
    /\ clock \in Times
    /\ flag \in [held : BOOLEAN, at : Times \cup {0}]
    /\ stored \in [Days -> Snapshot \cup {NoSnapshot}]
    /\ pc \in [Refreshes -> {"idle", "fetch", "store", "write", "reprice", "overlay", "release",
                             "done", "dead"}]
    /\ answers \in [Refreshes -> [Chains -> Answers]]
    /\ day \in [Refreshes -> Days] /\ newestDay \in [Refreshes -> Days]
    /\ previous \in [Refreshes -> Snapshot \cup {NoSnapshot}]
    /\ update \in [Refreshes -> BOOLEAN]
    /\ overtaken \subseteq Refreshes
    /\ known \in Holdings

\* While no live refresh has been taken for dead, one at a time works on the
\* wallet (issue 135).
RefreshesExclude == overtaken = {} => \A r, s \in Working : r = s

\* RefreshesExclude once one was: the takeover restarts the clock, so the refresh that
\* took over is protected in its turn (test_import_lock_expiry.py).
TakeoverRestartsTheClock ==
    [][\A r \in Refreshes :
          pc[r] = "idle" /\ pc'[r] = "fetch" => clock - flag.at > StaleAfter \/ Working \subseteq overtaken]_vars

\* A flag that is held is the flag of a refresh that works or was killed.
FlagsAreInUse == flag.held => \E r \in Refreshes : r \in Working \/ pc[r] = "dead"

\* The newest snapshot has, for every chain, what the chain last answered: no
\* failure of some chains, of all, or of the database drops a holding (issue 156).
NewestKnowsEveryChain ==
    overtaken = {} =>
        IF Newest(stored) = NoSnapshot THEN \A c \in Chains : known[c] = Nothing
        ELSE Newest(stored).items = known

\* A chain's holdings are as old as the newest snapshot says.
AgesAreHonest ==
    overtaken = {} /\ Newest(stored) # NoSnapshot =>
        LET n == Newest(stored)
        IN  \A c \in Chains : n.items[c] # Nothing =>
                n.items[c] = IF n.stale[c] = Nothing THEN n.asOf ELSE n.stale[c]

\* Only the day a refresh began to write on changes: the holdings of past
\* anchors keep their items and their prices (issue 144).
PastDaysStay ==
    [][\A d \in Days : stored'[d] # stored[d] =>
          d = Today \/ \E r \in Refreshes : pc[r] = "write" /\ day[r] = d]_vars
================================================================================

----------------------------- MODULE FiguresProofs -----------------------------
(***************************************************************************)
(* What the figures of the pages rest on, for a household of any length of *)
(* history and any figures.                                                *)
(*                                                                         *)
(* NetWorth: one source of an account's shares and of its cash counts at a *)
(* date (OneSourceCounts), History is marked from every change             *)
(* (EveryChangeIsMarked), and the pages' totals are one number             *)
(* (PagesAgree).  The inductive invariant adds to the types that an IBKR   *)
(* Flex statement gives a NAV for every day it gives positions or cash     *)
(* for.  DashboardPages: the pages of a month and of its changes agree too *)
(* (PagesAreOneStory).                                                     *)
(*                                                                         *)
(* Categories: rule runs and the user's edits of one table of overrides,   *)
(* for any rules and any number of runs under way (ManualIsNotErased,      *)
(* RulesSettle).                                                           *)
(*                                                                         *)
(* PositionUploads: what is shown of an account is what was uploaded of it *)
(* (HoldingsAreUploads).                                                   *)
(*                                                                         *)
(* CashFlow and CardLedger: every page has a month's income and spending   *)
(* the same, no flow is bridged twice, and a card owes one number          *)
(* (MonthPagesAgree, NoFlowIsBridgedTwice, CardsAddUp).                    *)
(*                                                                         *)
(* MonthBridge: each line of the "This month" bridge is what               *)
(* happened, and what is left over is what it says (BridgeAddsUp).         *)
(***************************************************************************)
EXTENDS DashboardPages, Categories, PositionUploads, CashFlow, CardLedger, MonthBridge,
        FiniteSetTheorems, WellFoundedInduction, TLAPS

(***************************************************************************)
(* Days have a newest and a least.                                         *)
(***************************************************************************)

\* A set of numbers up to n that is not empty has a greatest one: the number whose distance to n
\* is the least.
LEMMA BoundedHasMax ==
    ASSUME NEW n \in Nat, NEW S \in SUBSET (0 .. n), S # {}
    PROVE  /\ Max(S) \in S
           /\ \A d \in S : d <= Max(S)
  <1> DEFINE Far == {n - d : d \in S}
  <1>1. PICK s \in S : TRUE
    OBVIOUS
  <1>2. n - s \in Far
    OBVIOUS
  <1>3. Far \subseteq Nat /\ Far # {}
    BY <1>2
  <1>4. \E x \in Far : \A y \in Far : ~ (<<y, x>> \in OpToRel(<, Nat))
    <2> HIDE DEF Far
    <2> QED
      BY <1>3, WFMin, NatLessThanWellFounded
  <1>5. PICK x \in Far : \A y \in Far : ~ (y < x)
    BY <1>3, <1>4 DEF OpToRel
  <1>6. PICK m \in S : x = n - m
    OBVIOUS
  <1>7. \A d \in S : d <= m
    <2> SUFFICES ASSUME NEW d \in S PROVE d <= m
      OBVIOUS
    <2>1. n - d \in Far
      OBVIOUS
    <2>2. ~ (n - d < n - m)
      BY <1>5, <1>6, <2>1
    <2> QED
      BY <2>2
  <1>8. \E y \in S : \A d \in S : y >= d
    BY <1>7
  <1>9. Max(S) = CHOOSE y \in S : \A d \in S : y >= d
    BY DEF Max
  <1> QED
    BY <1>8, <1>9

\* The lesser of two dates is no later than either.
LEMMA LeastOfTwo ==
    ASSUME NEW d \in Nat, NEW e \in Nat
    PROVE  /\ Least({d, e}) \in {d, e}
           /\ Least({d, e}) <= d /\ Least({d, e}) <= e
  <1>1. Least({d, e}) = CHOOSE y \in {d, e} : \A z \in {d, e} : y <= z
    BY DEF Least, Min
  <1>2. \E y \in {d, e} : \A z \in {d, e} : y <= z
    <2>1. CASE d <= e
      BY <2>1
    <2>2. CASE e <= d
      BY <2>2
    <2> QED
      BY <2>1, <2>2
  <1> QED
    BY <1>1, <1>2

LEMMA DaysAreNaturals ==
    /\ Today \in Nat /\ Never \in Nat /\ Today \in Days
    /\ Days \subseteq Nat /\ Days \subseteq 0 .. Today
    /\ \A d \in Days : d >= 1 /\ d < Never
  BY FiguresAssumption DEF TodayAssumption, Days, Never

\* The newest day of a set of days that counts at an anchor: none, or one of them.
LEMMA NewestIsOne ==
    ASSUME NEW a, NEW S \in SUBSET Days, NEW at
    PROVE  /\ Newest(a, S, at) \in S \cup {0}
           /\ Newest(a, S, at) = 0 \/ Newest(a, S, at) <= at
           /\ Newest(a, S, at) # 0 <=> IsOpen(a, at) /\ \E d \in S : d <= at
  <1> DEFINE past == {d \in S : d <= at}
  <1>1. CASE past = {} \/ ~IsOpen(a, at)
    BY <1>1 DEF Newest
  <1>2. CASE past # {} /\ IsOpen(a, at)
    <2>1. past \in SUBSET (0 .. Today)
      BY DaysAreNaturals
    <2>2. Max(past) \in past
      <3> HIDE DEF past
      <3> QED
        BY <1>2, <2>1, BoundedHasMax, DaysAreNaturals
    <2>3. Newest(a, S, at) = Max(past)
      BY <1>2 DEF Newest
    <2>4. Newest(a, S, at) \in S /\ Newest(a, S, at) <= at
      BY <2>2, <2>3
    <2>5. Newest(a, S, at) \in Nat /\ Newest(a, S, at) >= 1
      BY <2>4, DaysAreNaturals
    <2>6. Newest(a, S, at) # 0
      BY <2>5
    <2> HIDE DEF past
    <2> QED
      BY <1>2, <2>4, <2>6
  <1> QED
    BY <1>1, <1>2


(***************************************************************************)
(* The inductive invariant.                                                *)
(***************************************************************************)

\* A statement gives a NAV for each of its days, the one of its positions and cash among them.
SnapshotsHaveNav == holdings \subseteq nav /\ brokercash \subseteq nav

FactsInv == TypeOK /\ SnapshotsHaveNav

LEMMA InitFacts == Init => FactsInv
  BY DaysAreNaturals DEF Init, FactsInv, TypeOK, SnapshotsHaveNav, Accounts

LEMMA ImportFlexFacts ==
    ASSUME FactsInv, NEW from \in Days, NEW to \in Days, ImportFlex(from, to)
    PROVE  FactsInv'
  <1>1. from .. to \subseteq Days /\ to \in from .. to
    BY DaysAreNaturals DEF ImportFlex, Days
  <1>2. /\ nav' = nav \cup (from .. to)
        /\ holdings' \subseteq holdings \cup {to} /\ brokercash' = brokercash \cup {to}
    BY DEF ImportFlex
  <1>3. window' \in [from : Days, to : Days \cup {Never}] \cup {NoWindow}
    BY DEF ImportFlex, FactsInv, TypeOK
  <1>4. steps' \in Nat /\ marked' \in Days
    BY DEF ImportFlex, Step, FactsInv, TypeOK
  <1>5. TypeOK'
    BY <1>1, <1>2, <1>3, <1>4 DEF ImportFlex, FactsInv, TypeOK
  <1>6. SnapshotsHaveNav'
    BY <1>1, <1>2 DEF FactsInv, SnapshotsHaveNav
  <1> QED
    BY <1>5, <1>6 DEF FactsInv

LEMMA MoveWindowFacts ==
    ASSUME FactsInv, NEW from \in Days, NEW to \in Days \cup {Never}, MoveWindow(from, to)
    PROVE  FactsInv' /\ marked' <= from /\ marked' <= window.from
  <1>1. window.from \in Days
    BY DEF MoveWindow, FactsInv, TypeOK
  <1>2. marked' \in Days /\ marked' <= from /\ marked' <= window.from
    <2>1. marked' = Least({from, window.from})
      BY DEF MoveWindow, Step
    <2> QED
      BY <1>1, <2>1, LeastOfTwo, DaysAreNaturals
  <1>3. window' \in [from : Days, to : Days \cup {Never}] /\ steps' \in Nat
    BY DEF MoveWindow, Step, FactsInv, TypeOK
  <1> QED
    BY <1>2, <1>3 DEF MoveWindow, FactsInv, TypeOK, SnapshotsHaveNav

LEMMA SetClosedFacts ==
    ASSUME FactsInv, NEW a \in Accounts, NEW d \in Days \cup {Never}, SetClosed(a, d)
    PROVE  FactsInv' /\ marked' <= d /\ marked' <= closed[a]
  <1>1. closed[a] \in Days \cup {Never}
    BY DEF FactsInv, TypeOK
  <1>2. marked' \in Days \cup {Never} /\ marked' <= d /\ marked' <= closed[a]
    <2>1. marked' = Least({closed[a], d})
      BY DEF SetClosed, Step
    <2>2. closed[a] \in Nat /\ d \in Nat
      BY <1>1, DaysAreNaturals
    <2>3. /\ Least({closed[a], d}) \in {closed[a], d}
          /\ Least({closed[a], d}) <= closed[a] /\ Least({closed[a], d}) <= d
      BY <2>2, LeastOfTwo
    <2> QED
      BY <1>1, <2>1, <2>3
  <1>3. closed' \in [Accounts -> Days \cup {Never}] /\ steps' \in Nat
    BY DEF SetClosed, Step, FactsInv, TypeOK
  <1> QED
    BY <1>2, <1>3 DEF SetClosed, FactsInv, TypeOK, SnapshotsHaveNav

LEMMA OtherFacts ==
    ASSUME FactsInv, NEW d \in Days,
           \/ Charges(d) \/ Quote(d) \/ Wallet(d)
           \/ \E a \in {"ibkr", "dark"} : Upload(a, d)
           \/ \E a \in {"ibkr", "card"} : Balance(a, d)
    PROVE  FactsInv'
  <1>1. steps' \in Nat /\ marked' \in Days \cup {Never}
    BY DEF Charges, Quote, Wallet, Upload, Balance, Step, FactsInv, TypeOK
  <1>2. CASE Charges(d) \/ Quote(d) \/ Wallet(d)
    <2>1. /\ charges' \subseteq Days /\ quotes' \subseteq Days /\ wallets' \subseteq Days
          /\ UNCHANGED <<nav, holdings, brokercash, window, uploads, balances, closed>>
      BY <1>2 DEF Charges, Quote, Wallet, FactsInv, TypeOK
    <2> QED
      BY <1>1, <2>1 DEF FactsInv, TypeOK, SnapshotsHaveNav
  <1>3. CASE \E a \in {"ibkr", "dark"} : Upload(a, d)
    <2>1. PICK a \in {"ibkr", "dark"} : Upload(a, d)
      BY <1>3
    <2>2. /\ UNCHANGED <<nav, holdings, brokercash, window, balances, charges, quotes, wallets>>
          /\ UNCHANGED closed
      BY <2>1 DEF Upload
    <2>3. uploads' \subseteq [account : {"ibkr", "dark"}, day : Days, counts : BOOLEAN]
      <3> DEFINE new == [account |-> a, day |-> d, counts |-> a = "dark"]
      <3>1. uploads' \subseteq uploads \cup {new}
        BY <2>1 DEF Upload
      <3>2. PICK counts \in BOOLEAN : counts = (a = "dark")
        BY Zenon
      <3>3. new = [account |-> a, day |-> d, counts |-> counts]
        BY <3>2
      <3>4. new \in [account : {"ibkr", "dark"}, day : Days, counts : BOOLEAN]
        BY <3>3
      <3> HIDE DEF new
      <3> QED
        BY <3>1, <3>4 DEF FactsInv, TypeOK
    <2> QED
      BY <1>1, <2>2, <2>3 DEF FactsInv, TypeOK, SnapshotsHaveNav
  <1>4. CASE \E a \in {"ibkr", "card"} : Balance(a, d)
    BY <1>1, <1>4 DEF Balance, FactsInv, TypeOK, SnapshotsHaveNav, Accounts
  <1> QED
    BY <1>2, <1>3, <1>4

LEMMA FactsNext == FactsInv /\ [Next]_vars => FactsInv'
  <1> SUFFICES ASSUME FactsInv, [Next]_vars PROVE FactsInv'
    OBVIOUS
  <1>1. CASE UNCHANGED vars
    BY <1>1 DEF vars, facts, FactsInv, TypeOK, SnapshotsHaveNav
  <1>2. CASE \E d, e \in Days : ImportFlex(d, e)
    BY <1>2, ImportFlexFacts
  <1>3. CASE \E d \in Days, e \in Days \cup {Never} : MoveWindow(d, e)
    BY <1>3, MoveWindowFacts
  <1>4. CASE \E a \in Accounts, d \in Days \cup {Never} : SetClosed(a, d)
    BY <1>4, SetClosedFacts
  <1>5. CASE \E d \in Days : \/ Charges(d) \/ Quote(d) \/ Wallet(d)
                             \/ \E a \in {"ibkr", "dark"} : Upload(a, d)
                             \/ \E a \in {"ibkr", "card"} : Balance(a, d)
    BY <1>5, OtherFacts
  <1> QED
    BY <1>1, <1>2, <1>3, <1>4, <1>5 DEF Next, Accounts

LEMMA FactsAlways == Spec => []FactsInv
  BY InitFacts, FactsNext, PTL DEF Spec

\* Every reachable state of the facts has its types.
THEOREM TypeCorrect == Spec => []TypeOK
  <1>1. FactsInv => TypeOK
    BY DEF FactsInv
  <1> QED
    BY <1>1, FactsAlways, PTL

(***************************************************************************)
(* One source counts (effective_facts.py, rules 5 and 6).                  *)
(***************************************************************************)

\* Where a NAV stands for an account, one counts unless the account is closed.
LEMMA NavCounts ==
    ASSUME FactsInv, NEW at
    PROVE  EffectiveNav(at) # 0 <=> IsOpen("ibkr", at) /\ ValuedByNav(at)
  <1>1. {d \in nav : Covers(d)} \in SUBSET Days
    BY DEF FactsInv, TypeOK
  <1> QED
    BY <1>1, NewestIsOne DEF EffectiveNav, ValuedByNav

\* Rule 5 gives an account to Flex only where a NAV values it: any Flex fact of a covered day
\* has a NAV beside it.
LEMMA OwnedIsValued ==
    ASSUME FactsInv, NEW at \in Days, FlexOwns(at)
    PROVE  ValuedByNav(at)
  <1>1. /\ window.from \in Days /\ at <= window.to /\ window # NoWindow
        /\ window.to \in Days \cup {Never}
    BY DEF FlexOwns, Covers, FactsInv, TypeOK
  <1>2. PICK d \in window.from .. at : d \in nav
    BY DEF FlexOwns, FactsInv, SnapshotsHaveNav
  <1>3. d <= at /\ window.from <= d /\ d <= window.to
    <2>1. window.from \in Nat /\ window.to \in Nat /\ at \in Nat
      BY <1>1, DaysAreNaturals
    <2> QED
      BY <1>1, <1>2, <2>1
  <1> QED
    BY <1>1, <1>2, <1>3 DEF ValuedByNav, Covers

\* A set within a set of one element has at most one.
LEMMA AtMostOne ==
    ASSUME NEW x, NEW S, S \subseteq {x} PROVE Cardinality(S) <= 1
  <1>1. IsFiniteSet({x}) /\ Cardinality({x}) = 1
    BY FS_Singleton
  <1> QED
    BY <1>1, FS_Subset, FS_CardinalityType

LEMMA SourcesExclude == FactsInv => OneSourceCounts
  <1> SUFFICES ASSUME FactsInv, NEW at \in Days
               PROVE  LET n == EffectiveNav(at)
                          h == EffectiveHoldings(at, FALSE)
                          cash == IF n # 0 THEN 0 ELSE EffectiveBalance("ibkr", at)
                          own  == IF n # 0 THEN 0 ELSE EffectiveBrokerCash(at)
                          kept == {s \in {<<1, n>>, <<2, cash>>, <<3, own>>} : s[2] # 0}
                      IN  /\ n = 0 \/ h = 0
                          /\ Cardinality(kept) <= 1
                          /\ Newest("ibkr", {d \in holdings : Covers(d)}, at) # 0
                                => n # 0 \/ h # 0
                          /\ Newest("ibkr", balances["ibkr"], at) # 0
                                => n # 0 \/ cash # 0 \/ own # 0
    BY DEF OneSourceCounts
  <1> DEFINE n == EffectiveNav(at)
             h == EffectiveHoldings(at, FALSE)
             cash == IF n # 0 THEN 0 ELSE EffectiveBalance("ibkr", at)
             own  == IF n # 0 THEN 0 ELSE EffectiveBrokerCash(at)
             kept == {s \in {<<1, n>>, <<2, cash>>, <<3, own>>} : s[2] # 0}
  <1>1. n # 0 => ValuedByNav(at)
    BY NavCounts
  <1>2. n = 0 \/ h = 0
    BY <1>1 DEF EffectiveHoldings
  <1>3. Cardinality(kept) <= 1
    <2>1. cash # 0 => own = 0
      BY DEF EffectiveBrokerCash
    <2>2. n # 0 => cash = 0 /\ own = 0
      OBVIOUS
    <2>3. kept \subseteq {<<1, n>>} \/ kept \subseteq {<<2, cash>>} \/ kept \subseteq {<<3, own>>}
      <3> HIDE DEF n, cash, own
      <3> QED
        BY <2>1, <2>2
    <2> HIDE DEF kept
    <2> QED
      BY <2>3, AtMostOne
  <1>4. ASSUME Newest("ibkr", {d \in holdings : Covers(d)}, at) # 0 PROVE n # 0 \/ h # 0
    <2>1. {d \in holdings : Covers(d)} \in SUBSET Days
      BY DEF FactsInv, TypeOK
    <2>2. IsOpen("ibkr", at)
      BY <1>4, <2>1, NewestIsOne
    <2> QED
      BY <1>4, <2>2, NavCounts DEF EffectiveHoldings
  <1>5. ASSUME Newest("ibkr", balances["ibkr"], at) # 0 PROVE n # 0 \/ cash # 0 \/ own # 0
    <2>1. balances["ibkr"] \in SUBSET Days
      BY DEF FactsInv, TypeOK, Accounts
    <2>2. IsOpen("ibkr", at)
      BY <1>5, <2>1, NewestIsOne
    <2>3. CASE FlexOwns(at)
      BY <2>2, <2>3, OwnedIsValued, NavCounts
    <2>4. CASE ~FlexOwns(at)
      BY <1>5, <2>4 DEF EffectiveBalance
    <2> QED
      BY <2>3, <2>4
  <1> QED
    BY <1>2, <1>3, <1>4, <1>5

\* One source at a time says what an account holds and what cash it has, and none is left out
\* where there is one, whatever order statements, uploads, window moves and closings come in.
THEOREM OneSourceAlwaysCounts == Spec => []OneSourceCounts
  BY SourcesExclude, FactsAlways, PTL

(***************************************************************************)
(* Every change is marked.  What a figure at an anchor is made from is the *)
(* past of the facts at that anchor: PastKept(at) says a step leaves it.   *)
(***************************************************************************)
SameUpTo(at, S, T) == {d \in S : d <= at} = {d \in T : d <= at}

WindowKept(at) == /\ \A d \in 1 .. at : Covers(d)' <=> Covers(d)
                  /\ Covers(at) => window' = window

PastKept(at) == /\ WindowKept(at)
                /\ SameUpTo(at, nav', nav)
                /\ SameUpTo(at, holdings', holdings) /\ SameUpTo(at, brokercash', brokercash)
                /\ {u \in uploads' : u.day <= at} = {u \in uploads : u.day <= at}
                /\ \A a \in Accounts : SameUpTo(at, balances'[a], balances[a])
                /\ SameUpTo(at, charges', charges) /\ SameUpTo(at, wallets', wallets)
                /\ \A a \in Accounts : closed'[a] >= at <=> closed[a] >= at

\* A step changes nothing of the past of a date before the one it marks from.
LEMMA ImportFlexKeeps ==
    ASSUME FactsInv, NEW from \in Days, NEW to \in Days, ImportFlex(from, to),
           NEW at \in Days, at < marked'
    PROVE  PastKept(at)
  <1>1. from \in Nat /\ to \in Nat /\ at \in Nat /\ from <= to /\ at < from
    BY DaysAreNaturals DEF ImportFlex, Step
  <1>2. \A d \in from .. to : ~ (d <= at)
    BY <1>1
  <1>3. ~ (to <= at)
    BY <1>1
  <1>4. SameUpTo(at, nav', nav)
    BY <1>2 DEF ImportFlex, SameUpTo
  <1>5. SameUpTo(at, holdings', holdings) /\ SameUpTo(at, brokercash', brokercash)
    BY <1>3 DEF ImportFlex, SameUpTo
  <1>6. WindowKept(at)
    <2>1. CASE window = NoWindow
      <3>1. \A d \in 1 .. at : ~ (from <= d)
        BY <1>1
      <3>2. window' = [from |-> from, to |-> Never]
        BY <2>1 DEF ImportFlex
      <3>3. ~ Covers(at) /\ \A d \in 1 .. at : ~ Covers(d) /\ ~ Covers(d)'
        BY <2>1, <3>1, <3>2 DEF Covers
      <3> QED
        BY <3>3 DEF WindowKept
    <2>2. CASE window # NoWindow
      BY <2>2 DEF ImportFlex, WindowKept, Covers
    <2> QED
      BY <2>1, <2>2
  <1> QED
    BY <1>4, <1>5, <1>6 DEF ImportFlex, PastKept, SameUpTo

LEMMA MoveWindowKeeps ==
    ASSUME FactsInv, NEW from \in Days, NEW to \in Days \cup {Never}, MoveWindow(from, to),
           NEW at \in Days, at < marked'
    PROVE  PastKept(at)
  <1>1. /\ window \in [from : Days, to : Days \cup {Never}]
        /\ window' = [from |-> from, to |-> to]
    BY DEF MoveWindow, FactsInv, TypeOK
  <1>2. /\ from \in Nat /\ window.from \in Nat /\ at \in Nat
        /\ at < from /\ at < window.from
    <2>1. marked' \in Nat /\ marked' <= from /\ marked' <= window.from
      BY MoveWindowFacts, DaysAreNaturals DEF FactsInv, TypeOK
    <2>2. from \in Nat /\ window.from \in Nat /\ at \in Nat
      BY <1>1, DaysAreNaturals
    <2> QED
      BY <2>1, <2>2
  <1>3. \A d \in 1 .. at : ~ (from <= d) /\ ~ (window.from <= d)
    BY <1>2
  <1>4. \A d \in 1 .. at : ~ Covers(d) /\ ~ Covers(d)'
    BY <1>1, <1>3 DEF Covers
  <1>5. at \in 1 .. at
    BY <1>2, DaysAreNaturals
  <1>6. WindowKept(at)
    BY <1>4, <1>5 DEF WindowKept
  <1> QED
    BY <1>6 DEF MoveWindow, PastKept, SameUpTo

LEMMA SetClosedKeeps ==
    ASSUME FactsInv, NEW a \in Accounts, NEW d \in Days \cup {Never}, SetClosed(a, d),
           NEW at \in Days, at < marked'
    PROVE  PastKept(at)
  <1>1. /\ d \in Nat /\ closed[a] \in Nat /\ at \in Nat
        /\ at < d /\ at < closed[a]
    <2>1. marked' \in Nat /\ marked' <= d /\ marked' <= closed[a]
      BY SetClosedFacts, DaysAreNaturals DEF FactsInv, TypeOK
    <2>2. d \in Nat /\ closed[a] \in Nat /\ at \in Nat
      BY DaysAreNaturals DEF FactsInv, TypeOK
    <2> QED
      BY <2>1, <2>2
  <1>2. \A b \in Accounts : closed'[b] >= at <=> closed[b] >= at
    <2>1. closed' = [closed EXCEPT ![a] = d] /\ closed \in [Accounts -> Days \cup {Never}]
      BY DEF SetClosed, FactsInv, TypeOK
    <2>2. TAKE b \in Accounts
    <2>3. CASE b = a
      BY <1>1, <2>1, <2>3
    <2>4. CASE b # a
      BY <2>1, <2>4
    <2> QED
      BY <2>3, <2>4
  <1> QED
    BY <1>2 DEF SetClosed, PastKept, SameUpTo, WindowKept, Covers

LEMMA OtherKeeps ==
    ASSUME FactsInv, NEW d \in Days,
           \/ Charges(d) \/ Quote(d) \/ Wallet(d)
           \/ \E a \in {"ibkr", "dark"} : Upload(a, d)
           \/ \E a \in {"ibkr", "card"} : Balance(a, d),
           NEW at \in Days, at < marked'
    PROVE  PastKept(at)
  <1>1. CASE Quote(d)
    BY <1>1 DEF Quote, PastKept, SameUpTo, WindowKept, Covers
  <1>2. ASSUME ~ Quote(d) PROVE ~ (d <= at)
    <2>1. marked' = d
      BY <1>2 DEF Charges, Wallet, Upload, Balance, Step
    <2> QED
      BY <2>1, DaysAreNaturals
  <1>3. CASE ~ Quote(d) /\ (Charges(d) \/ Wallet(d))
    BY <1>2, <1>3 DEF Charges, Wallet, PastKept, SameUpTo, WindowKept, Covers
  <1>4. CASE ~ Quote(d) /\ \E a \in {"ibkr", "dark"} : Upload(a, d)
    <2>1. PICK a \in {"ibkr", "dark"} : Upload(a, d)
      BY <1>4
    <2>2. {u \in uploads' : u.day <= at} = {u \in uploads : u.day <= at}
      <3> DEFINE new == [account |-> a, day |-> d, counts |-> a = "dark"]
      <3>1. uploads' = {u \in uploads : u.account # a \/ u.day # d} \cup {new} /\ new.day = d
        BY <2>1 DEF Upload
      <3> HIDE DEF new
      <3> QED
        BY <1>2, <1>4, <3>1
    <2> QED
      BY <2>1, <2>2 DEF Upload, PastKept, SameUpTo, WindowKept, Covers
  <1>5. CASE ~ Quote(d) /\ \E a \in {"ibkr", "card"} : Balance(a, d)
    <2>1. PICK a \in {"ibkr", "card"} : Balance(a, d)
      BY <1>5
    <2>2. balances' = [balances EXCEPT ![a] = @ \cup {d}] /\ balances \in [Accounts -> SUBSET Days]
      BY <2>1 DEF Balance, FactsInv, TypeOK
    <2>3. \A b \in Accounts : SameUpTo(at, balances'[b], balances[b])
      BY <1>2, <1>5, <2>2 DEF SameUpTo
    <2> QED
      BY <2>1, <2>3 DEF Balance, PastKept, SameUpTo, WindowKept, Covers
  <1> QED
    BY <1>1, <1>3, <1>4, <1>5

LEMMA StepsKeepThePast ==
    ASSUME FactsInv, Next, NEW at \in Days, at < marked'
    PROVE  PastKept(at)
  <1>1. CASE \E d, e \in Days : ImportFlex(d, e)
    BY <1>1, ImportFlexKeeps
  <1>2. CASE \E d \in Days, e \in Days \cup {Never} : MoveWindow(d, e)
    BY <1>2, MoveWindowKeeps
  <1>3. CASE \E a \in Accounts, d \in Days \cup {Never} : SetClosed(a, d)
    BY <1>3, SetClosedKeeps
  <1>4. CASE \E d \in Days : \/ Charges(d) \/ Quote(d) \/ Wallet(d)
                             \/ \E a \in {"ibkr", "dark"} : Upload(a, d)
                             \/ \E a \in {"ibkr", "card"} : Balance(a, d)
    BY <1>4, OtherKeeps
  <1> QED
    BY <1>1, <1>2, <1>3, <1>4 DEF Next, Accounts

\* The past of the facts at an anchor decides what counts there.
LEMMA CoveredKept ==
    ASSUME FactsInv, FactsInv', NEW at \in Days, PastKept(at)
    PROVE  /\ Covers(at)' <=> Covers(at)
           /\ SameUpTo(at, {d \in nav : Covers(d)}', {d \in nav : Covers(d)})
           /\ SameUpTo(at, {d \in holdings : Covers(d)}', {d \in holdings : Covers(d)})
           /\ SameUpTo(at, {d \in brokercash : Covers(d)}', {d \in brokercash : Covers(d)})
  <1>1. at \in 1 .. at /\ \A d \in Days : d <= at => d \in 1 .. at
    BY DaysAreNaturals
  <1>2. \A d \in Days : d <= at => (Covers(d)' <=> Covers(d))
    BY <1>1 DEF PastKept, WindowKept
  <1>3. /\ nav \subseteq Days /\ holdings \subseteq Days /\ brokercash \subseteq Days
        /\ nav' \subseteq Days /\ holdings' \subseteq Days /\ brokercash' \subseteq Days
    BY DEF FactsInv, TypeOK
  <1>4. SameUpTo(at, {d \in nav : Covers(d)}', {d \in nav : Covers(d)})
    BY <1>2, <1>3 DEF PastKept, SameUpTo
  <1>5. SameUpTo(at, {d \in holdings : Covers(d)}', {d \in holdings : Covers(d)})
    BY <1>2, <1>3 DEF PastKept, SameUpTo
  <1>6. SameUpTo(at, {d \in brokercash : Covers(d)}', {d \in brokercash : Covers(d)})
    BY <1>2, <1>3 DEF PastKept, SameUpTo
  <1> QED
    BY <1>1, <1>4, <1>5, <1>6 DEF PastKept, WindowKept

LEMMA OwnershipKept ==
    ASSUME FactsInv, FactsInv', NEW at \in Days, PastKept(at)
    PROVE  (FlexOwns(at)' <=> FlexOwns(at)) /\ (ValuedByNav(at)' <=> ValuedByNav(at))
  <1>1. ValuedByNav(at)' <=> ValuedByNav(at)
    BY CoveredKept DEF ValuedByNav, SameUpTo
  <1>2. ASSUME Covers(at) PROVE FlexOwns(at)' <=> FlexOwns(at)
    <2>1. window' = window /\ Covers(at)'
      BY <1>2, CoveredKept DEF PastKept, WindowKept
    <2>2. \A d \in window.from .. at : d <= at
      BY <1>2, DaysAreNaturals DEF Covers, FactsInv, TypeOK
    <2>3. \A d \in window.from .. at : /\ d \in nav' <=> d \in nav
                                       /\ d \in holdings' <=> d \in holdings
                                       /\ d \in brokercash' <=> d \in brokercash
      BY <2>2 DEF PastKept, SameUpTo
    <2> QED
      BY <1>2, <2>1, <2>3 DEF FlexOwns
  <1>3. CASE ~ Covers(at)
    BY <1>1, <1>3, CoveredKept DEF FlexOwns
  <1> QED
    BY <1>1, <1>2, <1>3


LEMMA NavKept ==
    ASSUME FactsInv, FactsInv', NEW at \in Days, PastKept(at)
    PROVE  EffectiveNav(at)' = EffectiveNav(at)
  BY CoveredKept DEF EffectiveNav, Newest, IsOpen, PastKept, SameUpTo, Accounts

LEMMA HoldingsKept ==
    ASSUME FactsInv, FactsInv', NEW at \in Days, PastKept(at), NEW detail \in BOOLEAN
    PROVE  EffectiveHoldings(at, detail)' = EffectiveHoldings(at, detail)
  BY CoveredKept, OwnershipKept
  DEF EffectiveHoldings, Newest, IsOpen, PastKept, SameUpTo, Accounts

LEMMA UploadsKept ==
    ASSUME FactsInv, FactsInv', NEW at \in Days, PastKept(at), NEW a \in Accounts
    PROVE  EffectiveUploads(a, at)' = EffectiveUploads(a, at)
  <1> DEFINE days == {u.day : u \in {v \in uploads : v.account = a /\ v.counts}}
  <1>1. SameUpTo(at, days', days)
    BY DEF PastKept, SameUpTo
  <1>2. Newest(a, days, at)' = Newest(a, days, at)
    <2> HIDE DEF days
    <2> QED
      BY <1>1 DEF Newest, IsOpen, PastKept, SameUpTo
  <1> QED
    BY <1>2, OwnershipKept DEF EffectiveUploads

LEMMA BalanceKept ==
    ASSUME FactsInv, FactsInv', NEW at \in Days, PastKept(at), NEW a \in Accounts
    PROVE  EffectiveBalance(a, at)' = EffectiveBalance(a, at)
  BY OwnershipKept DEF EffectiveBalance, Newest, IsOpen, PastKept, SameUpTo

LEMMA BrokerCashKept ==
    ASSUME FactsInv, FactsInv', NEW at \in Days, PastKept(at)
    PROVE  EffectiveBrokerCash(at)' = EffectiveBrokerCash(at)
  <1>1. EffectiveBalance("ibkr", at)' = EffectiveBalance("ibkr", at)
    BY BalanceKept DEF Accounts
  <1> QED
    BY <1>1, CoveredKept
    DEF EffectiveBrokerCash, Newest, IsOpen, PastKept, SameUpTo, Accounts

\* What the card owes at a month-end is of charges before it.
LEMMA CardKept ==
    ASSUME FactsInv, FactsInv', NEW at \in Days, PastKept(at)
    PROVE  CardOwed(at, FALSE)' = CardOwed(at, FALSE)
  <1>1. (IsOpen("card", at)' <=> IsOpen("card", at)) /\ at \in Nat
    BY DaysAreNaturals DEF PastKept, IsOpen, Accounts
  <1>2. Newest("card", balances["card"], at)' = Newest("card", balances["card"], at)
    BY DEF Newest, IsOpen, PastKept, SameUpTo, Accounts
  <1>3. \A d \in Days : d <= at - 1 => (d \in charges' <=> d \in charges)
    <2>1. \A d \in Days : d <= at - 1 => d <= at
      BY <1>1, DaysAreNaturals
    <2> QED
      BY <2>1 DEF PastKept, SameUpTo
  <1>4. charges \subseteq Days /\ charges' \subseteq Days
    BY DEF FactsInv, TypeOK
  <1>5. \A s : {d \in charges' : d > s /\ d <= at - 1} = {d \in charges : d > s /\ d <= at - 1}
    BY <1>3, <1>4
  <1> QED
    BY <1>1, <1>2, <1>5 DEF CardOwed

LEMMA CryptoKept ==
    ASSUME NEW at \in Days, PastKept(at)
    PROVE  Crypto(at)' = Crypto(at)
  <1>1. WalletDay(at)' = WalletDay(at)
    BY DEF WalletDay, PastKept, SameUpTo
  <1> QED
    BY <1>1 DEF Crypto, StableUsd

\* ... and so the figure of a month-end, which no live quote is in.
LEMMA PastDecides ==
    ASSUME FactsInv, FactsInv', NEW at \in Days, PastKept(at)
    PROVE  Total(at, FALSE)' = Total(at, FALSE)
  <1>1. /\ EffectiveNav(at)' = EffectiveNav(at)
        /\ EffectiveHoldings(at, FALSE)' = EffectiveHoldings(at, FALSE)
        /\ EffectiveHoldings(at, TRUE)' = EffectiveHoldings(at, TRUE)
        /\ EffectiveUploads("ibkr", at)' = EffectiveUploads("ibkr", at)
        /\ EffectiveUploads("dark", at)' = EffectiveUploads("dark", at)
        /\ EffectiveBalance("ibkr", at)' = EffectiveBalance("ibkr", at)
        /\ EffectiveBrokerCash(at)' = EffectiveBrokerCash(at)
    BY NavKept, HoldingsKept, UploadsKept, BalanceKept, BrokerCashKept DEF Accounts
  <1>2. CashPart(at)' = CashPart(at)
    BY <1>1 DEF CashPart, AccountCash, NavCash
  <1>3. Positions(at, FALSE)' = Positions(at, FALSE)
    BY <1>1 DEF Positions, Priced
  <1>4. NavDelta(at, FALSE)' = NavDelta(at, FALSE)
    BY <1>1, OwnershipKept DEF NavDelta, Priced
  <1>5. StocksPart(at, FALSE)' = StocksPart(at, FALSE)
    BY <1>1, <1>3, <1>4 DEF StocksPart, NavStock
  <1> QED
    BY <1>2, <1>5, CardKept, CryptoKept DEF Total, Assets

\* No import, upload, window move, closing or refresh changes the figure of a month-end before
\* the date it marks History dirty from: History's stored months stay what they would be.
THEOREM EveryChangeIsAlwaysMarked == Spec => EveryChangeIsMarked
  <1>1. ASSUME FactsInv, [Next]_vars
        PROVE  [\A at \in Days : at < marked' => Total(at, FALSE)' = Total(at, FALSE)]_vars
    <2>1. CASE UNCHANGED vars
      BY <2>1
    <2>2. CASE Next
      BY <1>1, <2>2, FactsNext, StepsKeepThePast, PastDecides
    <2> QED
      BY <1>1, <2>1, <2>2
  <1> QED
    BY <1>1, FactsAlways, PTL DEF Spec, EveryChangeIsMarked

(***************************************************************************)
(* The pages agree.                                                        *)
(***************************************************************************)

\* What a day's figures are worth.
LEMMA Worths ==
    ASSUME NEW d \in Days \cup {0}
    PROVE  /\ On(Held, d) \in Nat /\ On(Price, d) \in Nat
           /\ On(Cash, d) \in Int /\ On(Coins, d) \in Int /\ On(Stables, d) \in Int
  BY FiguresAssumption DEF On, StockAssumption, MoneyAssumption

LEMMA ProductIsNatural ==
    ASSUME NEW m \in Nat, NEW n \in Nat PROVE m * n \in Nat
  OBVIOUS

LEMMA EffectiveDays ==
    ASSUME FactsInv, NEW at
    PROVE  /\ EffectiveNav(at) \in Days \cup {0}
           /\ \A detail \in BOOLEAN : EffectiveHoldings(at, detail) \in Days \cup {0}
           /\ \A a \in {"ibkr", "dark"} : EffectiveUploads(a, at) \in Days \cup {0}
           /\ EffectiveBalance("ibkr", at) \in Days \cup {0}
           /\ EffectiveBrokerCash(at) \in Days \cup {0}
           /\ WalletDay(at) \in Days \cup {0}
  <1>1. /\ {d \in nav : Covers(d)} \in SUBSET Days
        /\ {d \in holdings : Covers(d)} \in SUBSET Days
        /\ {d \in brokercash : Covers(d)} \in SUBSET Days
        /\ balances["ibkr"] \in SUBSET Days
        /\ wallets \in SUBSET Days
    BY DEF FactsInv, TypeOK, Accounts
  <1>2. \A a : {u.day : u \in {v \in uploads : v.account = a /\ v.counts}} \in SUBSET Days
    BY DEF FactsInv, TypeOK
  <1>3. EffectiveNav(at) \in Days \cup {0} /\ EffectiveBalance("ibkr", at) \in Days \cup {0}
    BY <1>1, NewestIsOne DEF EffectiveNav, EffectiveBalance
  <1>4. EffectiveBrokerCash(at) \in Days \cup {0}
    BY <1>1, NewestIsOne DEF EffectiveBrokerCash
  <1>5. \A detail \in BOOLEAN : EffectiveHoldings(at, detail) \in Days \cup {0}
    BY <1>1, NewestIsOne DEF EffectiveHoldings
  <1>6. \A a \in {"ibkr", "dark"} : EffectiveUploads(a, at) \in Days \cup {0}
    <2> TAKE a \in {"ibkr", "dark"}
    <2> QED
      BY <1>2, NewestIsOne, SMTT(20) DEF EffectiveUploads
  <1>7. WalletDay(at) \in Days \cup {0}
    <2> DEFINE past == {d \in wallets : d <= at}
    <2>1. past \in SUBSET (0 .. Today) /\ past \subseteq Days
      BY <1>1, DaysAreNaturals
    <2>2. past # {} => Max(past) \in past
      <3> HIDE DEF past
      <3> QED
        BY <2>1, BoundedHasMax, DaysAreNaturals
    <2> QED
      BY <2>1, <2>2 DEF WalletDay
  <1> QED
    BY <1>3, <1>4, <1>5, <1>6, <1>7

LEMMA PricedIsNatural ==
    ASSUME FactsInv, NEW at, NEW live \in BOOLEAN,
           NEW a \in {"ibkr", "dark"}, NEW d \in Days \cup {0}
    PROVE  /\ Priced(a, d, at, live) \in Nat /\ Stated(a, d) \in Nat
           /\ Priced(a, 0, at, live) = 0
  <1> DEFINE past  == {q \in quotes : q <= at}
             quote == IF past = {} THEN 0 ELSE Max(past)
  <1>1. quote \in Days \cup {0}
    <2>1. past \in SUBSET (0 .. Today) /\ past \subseteq Days
      BY DaysAreNaturals DEF FactsInv, TypeOK
    <2>2. past # {} => Max(past) \in past
      <3> HIDE DEF past
      <3> QED
        BY <2>1, BoundedHasMax, DaysAreNaturals
    <2> QED
      BY <2>1, <2>2
  <1>2. \A e \in Days \cup {0} : Quantity(a, e) \in Nat
    BY Worths DEF Quantity
  <1>3. \A e \in Days \cup {0} : Stated(a, e) \in Nat
    BY <1>2, Worths, ProductIsNatural DEF Stated
  <1>4. Quantity(a, d) * On(Price, quote) \in Nat
    <2> HIDE DEF quote
    <2> QED
      BY <1>1, <1>2, Worths, ProductIsNatural
  <1>5. Priced(a, d, at, live) \in Nat
    BY <1>3, <1>4 DEF Priced
  <1>6. Stated(a, 0) = 0
    BY DEF Stated, Quantity, On
  <1>7. Priced(a, 0, at, live) = 0
    BY <1>6 DEF Priced
  <1> QED
    BY <1>3, <1>5, <1>7

LEMMA PagesAgreeOn ==
    ASSUME FactsInv, NEW at, NEW live \in BOOLEAN
    PROVE  /\ PlatformTotal(at, live) = Assets(at, live)
           /\ \/ CurrencyTotal(at, live) = Total(at, live)
              \/ EffectiveNav(at) # 0 /\ NavStock(at) + NavDelta(at, live) < 0
           /\ CashPart(at) \in Int /\ Crypto(at) \in Int
           /\ StocksPart(at, live) \in Int /\ StockExposure(at, live) \in Int
           /\ \/ StockExposure(at, live) = StocksPart(at, live)
              \/ EffectiveNav(at) # 0 /\ NavStock(at) + NavDelta(at, live) < 0
  <1> DEFINE n == EffectiveNav(at)
             p == Priced("ibkr", EffectiveUploads("ibkr", at), at, live)
             q == Priced("dark", EffectiveUploads("dark", at), at, live)
             h == Priced("ibkr", EffectiveHoldings(at, FALSE), at, live)
             g == NavStock(at) + NavDelta(at, live)
  <1>1. p \in Nat /\ q \in Nat /\ h \in Nat
    BY EffectiveDays, PricedIsNatural
  <1>2. NavDelta(at, live) \in Int
    <2>1. EffectiveHoldings(at, TRUE) \in Days \cup {0}
      BY EffectiveDays
    <2>2. /\ Priced("ibkr", EffectiveHoldings(at, TRUE), at, live) \in Nat
          /\ Stated("ibkr", EffectiveHoldings(at, TRUE)) \in Nat
      BY <2>1, PricedIsNatural
    <2>3. \A x, y \in Nat : x - y \in Int
      OBVIOUS
    <2>4. CASE ValuedByNav(at)
      BY <2>2, <2>3, <2>4 DEF NavDelta
    <2>5. CASE ~ ValuedByNav(at)
      BY <2>5 DEF NavDelta
    <2> QED
      BY <2>4, <2>5
  <1>3. NavStock(at) \in Int /\ NavCash(at) \in Int /\ AccountCash(at) \in Int
    <2>1. On(Held, n) \in Nat /\ On(Price, n) \in Nat /\ On(Cash, n) \in Int
      BY EffectiveDays, Worths
    <2>2. NavStock(at) \in Int /\ NavCash(at) \in Int
      BY <2>1, ProductIsNatural DEF NavStock, NavCash
    <2>3. AccountCash(at) \in Int
      BY EffectiveDays, Worths DEF AccountCash
    <2> QED
      BY <2>2, <2>3
  <1>4. Crypto(at) \in Int
    BY EffectiveDays, Worths DEF Crypto, StableUsd
  <1>5. n = 0 => NavCash(at) = 0
    BY DEF NavCash, On
  <1>6. Positions(at, live) = p + q + h
    BY DEF Positions
  <1>7. PlatformTotal(at, live) = Assets(at, live)
    <2> HIDE DEF p, q, h, n
    <2>1. PlatformTotal(at, live)
            = p + q + h + (IF n = 0 THEN 0
                           ELSE NavCash(at) + NavStock(at) + NavDelta(at, live))
              + AccountCash(at) + Crypto(at)
      BY <1>6 DEF PlatformTotal, NavTotal, n
    <2>2. Assets(at, live)
            = (AccountCash(at) + NavCash(at))
              + (p + q + h + (IF n = 0 THEN 0 ELSE NavStock(at) + NavDelta(at, live)))
              + Crypto(at)
      BY <1>6 DEF Assets, CashPart, StocksPart, n
    <2> QED
      BY <1>1, <1>2, <1>3, <1>4, <1>5, <2>1, <2>2
  <1>8. (IF ValuedByNav(at) THEN 0
         ELSE LET x == Priced("ibkr", EffectiveHoldings(at, TRUE), at, live)
              IN  IF x > 0 THEN x ELSE 0) = h
    <2>1. CASE ValuedByNav(at)
      <3>1. EffectiveHoldings(at, FALSE) = 0
        BY <2>1 DEF EffectiveHoldings
      <3>2. h = 0
        BY <3>1, PricedIsNatural
      <3> QED
        BY <2>1, <3>2
    <2>2. CASE ~ ValuedByNav(at)
      <3>1. EffectiveHoldings(at, TRUE) = EffectiveHoldings(at, FALSE)
        BY <2>2 DEF EffectiveHoldings
      <3> HIDE DEF h
      <3>2. Priced("ibkr", EffectiveHoldings(at, TRUE), at, live) = h
        BY <3>1 DEF h
      <3>3. (IF h > 0 THEN h ELSE 0) = h
        BY <1>1
      <3> QED
        BY <2>2, <3>2, <3>3
    <2> QED
      BY <2>1, <2>2
  <1>9. StockExposure(at, live)
          = (IF n = 0 THEN 0 ELSE IF g > 0 THEN g ELSE 0)
            + (IF p > 0 THEN p ELSE 0) + (IF q > 0 THEN q ELSE 0) + h
    BY <1>8 DEF StockExposure
  <1>10. StocksPart(at, live) = p + q + h + (IF n = 0 THEN 0 ELSE g)
    BY <1>6 DEF StocksPart
  <1>11. g \in Int /\ CashPart(at) \in Int
    BY <1>2, <1>3 DEF CashPart
  <1>12. /\ StocksPart(at, live) \in Int /\ StockExposure(at, live) \in Int
         /\ n = 0 \/ g >= 0 => StockExposure(at, live) = StocksPart(at, live)
    <2> HIDE DEF p, q, h, n, g
    <2> QED
      BY <1>1, <1>9, <1>10, <1>11
  <1>13. ASSUME n = 0 \/ g >= 0 PROVE CurrencyTotal(at, live) = Total(at, live)
    <2>1. StockExposure(at, live) + CashPart(at) + Crypto(at) = Assets(at, live)
      <3> HIDE DEF p, q, h, n, g
      <3> QED
        BY <1>4, <1>11, <1>12, <1>13 DEF Assets
    <2> QED
      BY <2>1 DEF CurrencyTotal, Total
  <1> HIDE DEF g
  <1>14. n = 0 \/ g >= 0 \/ g < 0
    BY <1>11
  <1> QED
    BY <1>4, <1>7, <1>11, <1>12, <1>13, <1>14 DEF g

\* At any anchor, a month-end or now, the allocation by platform adds up to what Overview counts
\* as assets, and the split by currency to its net worth, unless a NAV account's live stocks are
\* worth less than nothing.
THEOREM PagesAlwaysAgree == Spec => []PagesAgree
  <1>1. FactsInv => PagesAgree
    <2> SUFFICES ASSUME FactsInv, NEW a \in Anchors
                 PROVE  /\ PlatformTotal(a[1], a[2]) = Assets(a[1], a[2])
                        /\ \/ CurrencyTotal(a[1], a[2]) = Total(a[1], a[2])
                           \/ /\ EffectiveNav(a[1]) # 0
                              /\ NavStock(a[1]) + NavDelta(a[1], a[2]) < 0
      BY DEF PagesAgree
    <2>1. PICK at \in Days, live \in BOOLEAN : a[1] = at /\ a[2] = live
      <3>1. a \in {<<d, FALSE>> : d \in Days} \/ a = <<Today, TRUE>>
        BY DEF Anchors
      <3>2. a[1] \in Days /\ a[2] \in BOOLEAN
        <4>1. CASE a = <<Today, TRUE>>
          BY <4>1, DaysAreNaturals
        <4>2. CASE a \in {<<d, FALSE>> : d \in Days}
          <5>1. PICK d \in Days : a = <<d, FALSE>>
            BY <4>2
          <5> QED
            BY <5>1
        <4> QED
          BY <3>1, <4>1, <4>2
      <3> QED
        BY <3>2
    <2> QED
      BY <2>1, PagesAgreeOn
  <1> QED
    BY <1>1, FactsAlways, PTL

(***************************************************************************)
(* Categories.                                                             *)
(***************************************************************************)

\* Of the rules that match a transaction one is first in rank, and FirstRule names it.
LEMMA RankHasAFirst ==
    ASSUME CatTypeOK, NEW t \in Txns, Active(t) # {}
    PROVE  /\ FirstRule(t) \in Active(t)
           /\ \A q \in Active(t) : Precedes(FirstRule(t), q)
  <1> DEFINE S == IF \E r \in Active(t) : rules[r].priority = 1
                  THEN {r \in Active(t) : rules[r].priority = 1} ELSE Active(t)
  <1>1. Active(t) \subseteq Nat /\ \A r \in Active(t) : r \in Rules /\ rules[r] \in Rule
    BY RulesAssumption DEF Active, CatTypeOK
  <1>2. S \subseteq Nat /\ S # {}
    BY <1>1
  <1>3. \E x \in S : \A y \in S : ~ (<<y, x>> \in OpToRel(<, Nat))
    <2> HIDE DEF S
    <2> QED
      BY <1>2, WFMin, NatLessThanWellFounded
  <1>4. PICK x \in S : \A y \in S : x <= y
    <2> HIDE DEF S
    <2>1. PICK x \in S : \A y \in S : ~ (y < x)
      BY <1>2, <1>3 DEF OpToRel
    <2> QED
      BY <1>2, <2>1
  <1>5. x \in Active(t) /\ \A q \in Active(t) : Precedes(x, q)
    BY <1>1, <1>4 DEF Precedes, Rule, Priorities
  <1>6. FirstRule(t) = CHOOSE r \in Active(t) : \A q \in Active(t) : Precedes(r, q)
    BY DEF FirstRule
  <1> QED
    BY <1>5, <1>6

\* No rule is named when none matches, and only then.
LEMMA NoneIsNoRule ==
    ASSUME CatTypeOK, NEW t \in Txns
    PROVE  /\ FirstRule(t) = None <=> Active(t) = {}
           /\ FirstRule(t) # None => /\ FirstRule(t) \in Rules
                                     /\ rules[FirstRule(t)].target \in Targets
  <1>1. CASE Active(t) = {}
    BY <1>1 DEF FirstRule
  <1>2. CASE Active(t) # {}
    <2>1. FirstRule(t) \in Active(t)
      BY <1>2, RankHasAFirst
    <2>2. FirstRule(t) \in Rules /\ rules[FirstRule(t)] \in Rule
      BY <2>1 DEF Active, CatTypeOK
    <2> QED
      BY <1>2, <2>2, NoneAssumption DEF Rule
  <1> QED
    BY <1>1, <1>2

\* A function on some of the transactions.
LEMMA PartialFunctions ==
    ASSUME NEW S, NEW f
    PROVE  f \in Partial(S) <=> /\ f = [t \in DOMAIN f |-> f[t]]
                                /\ DOMAIN f \subseteq Txns
                                /\ \A t \in DOMAIN f : f[t] \in S
  <1>1. ASSUME f \in Partial(S)
        PROVE  /\ f = [t \in DOMAIN f |-> f[t]]
               /\ DOMAIN f \subseteq Txns
               /\ \A t \in DOMAIN f : f[t] \in S
    <2>1. PICK T \in SUBSET Txns : f \in [T -> S]
      BY <1>1 DEF Partial
    <2> QED
      BY <2>1
  <1>2. ASSUME f = [t \in DOMAIN f |-> f[t]], DOMAIN f \subseteq Txns, \A t \in DOMAIN f : f[t] \in S
        PROVE  f \in Partial(S)
    <2>1. f \in [DOMAIN f -> S]
      BY <1>2
    <2> QED
      BY <1>2, <2>1 DEF Partial
  <1> QED
    BY <1>1, <1>2

\* A run begins with nothing matched, found or written.
LEMMA BlankIsPartial ==
    ASSUME NEW S
    PROVE  <<>> \in Partial(S) /\ DOMAIN <<>> = {}
  <1>1. <<>> \in [{} -> S]
    OBVIOUS
  <1> QED
    BY <1>1 DEF Partial

\* Which of the two a transaction's row is from.
LEMMA OnTop ==
    ASSUME NEW f, NEW g
    PROVE  /\ DOMAIN Overlay(f, g) = DOMAIN f \cup DOMAIN g
           /\ \A t \in DOMAIN f : Overlay(f, g)[t] = f[t]
           /\ \A t \in DOMAIN g : t \in DOMAIN f \/ Overlay(f, g)[t] = g[t]
  BY DEF Overlay

\* What has been written on top of what was.
LEMMA WrittenOnTop ==
    ASSUME NEW S, NEW f \in Partial(S), NEW g \in Partial(S)
    PROVE  /\ Overlay(f, g) \in Partial(S)
           /\ DOMAIN Overlay(f, g) = DOMAIN f \cup DOMAIN g
           /\ \A t \in DOMAIN Overlay(f, g) : Overlay(f, g)[t] = IF t \in DOMAIN f THEN f[t] ELSE g[t]
  <1>1. /\ DOMAIN Overlay(f, g) = DOMAIN f \cup DOMAIN g
        /\ \A t \in DOMAIN Overlay(f, g) : Overlay(f, g)[t] = IF t \in DOMAIN f THEN f[t] ELSE g[t]
        /\ Overlay(f, g) = [t \in DOMAIN Overlay(f, g) |-> Overlay(f, g)[t]]
    BY DEF Overlay
  <1>2. DOMAIN f \subseteq Txns /\ DOMAIN g \subseteq Txns
        /\ (\A t \in DOMAIN f : f[t] \in S) /\ (\A t \in DOMAIN g : g[t] \in S)
    BY PartialFunctions
  <1> QED
    BY <1>1, <1>2, PartialFunctions

(***************************************************************************)
(* The types.                                                              *)
(***************************************************************************)

\* A run that is not idle is of one of the four steps, and knows its record.
LEMMA RunsAreRecords ==
    ASSUME CatTypeOK, NEW j \in Runs
    PROVE  /\ run[j] # Idle => run[j] \in Running
           /\ run[j].pc # "idle" => run[j] # Idle
           /\ Idle \notin Running
  <1>1. Idle \notin Running
    BY DEF Idle, Running
  <1>2. Idle.pc = "idle"
    BY DEF Idle
  <1> QED
    BY <1>1, <1>2 DEF CatTypeOK

\* What others commit leaves a run of its type.
LEMMA DisturbedRuns ==
    ASSUME CatTypeOK, NEW others \in SUBSET Runs
    PROVE  /\ Disturbed(others) \in [Runs -> Running \cup {Idle}]
           /\ \A j \in Runs : run[j] = Idle => Disturbed(others)[j] = Idle
           /\ \A j \in Runs \ others : Disturbed(others)[j] = run[j]
           /\ \A j \in Runs : run[j] # Idle =>
                  /\ Disturbed(others)[j] # Idle
                  /\ Disturbed(others)[j].pc = run[j].pc
                  /\ Disturbed(others)[j].written = run[j].written
                  /\ j \in others => ~Disturbed(others)[j].alone
  <1>1. \A j \in Runs : run[j] # Idle => [run[j] EXCEPT !.alone = FALSE] \in Running
    BY RunsAreRecords DEF Running
  <1>2. \A j \in Runs : run[j] # Idle =>
            LET next == [run[j] EXCEPT !.alone = FALSE]
            IN next.pc = run[j].pc /\ next.written = run[j].written /\ ~next.alone
    BY RunsAreRecords DEF Running
  <1>3. \A j \in Runs : Disturbed(others)[j] =
            IF j \in others /\ run[j] # Idle THEN [run[j] EXCEPT !.alone = FALSE] ELSE run[j]
    BY DEF Disturbed
  <1>4. \A j \in Runs : run[j] \in Running \cup {Idle}
    BY DEF CatTypeOK
  <1>5. Disturbed(others) \in [Runs -> Running \cup {Idle}]
    BY <1>1, <1>4 DEF Disturbed
  <1>6. Idle \notin Running
    BY DEF Idle, Running
  <1>7. \A j \in Runs : run[j] # Idle => Disturbed(others)[j] # Idle
    BY <1>1, <1>3, <1>6
  <1> QED
    BY <1>2, <1>3, <1>5, <1>7

\* The row of a category the user gave is a row.
LEMMA UpsertedIsARow ==
    ASSUME CatTypeOK, NEW t \in Txns, NEW c \in Targets
    PROVE  /\ Upserted(t, c) \in Override
           /\ IsManual(Upserted(t, c))
  <1>1. Upserted(t, c) \in Override /\ Upserted(t, c).rule = None
    BY DEF Upserted, CatTypeOK, Override
  <1> QED
    BY <1>1, NoneAssumption DEF IsManual

\* No run and no edit is under way at first.
LEMMA TypesHoldInitially ==
    CatInit => CatTypeOK
  BY DEF CatInit, CatTypeOK, Rule, Priorities, Idle

\* Each step of the user's keeps the types.
LEMMA UserKeepsTypes ==
    ASSUME CatTypeOK,
           \/ \E r \in Rules, rule \in [active : {TRUE}, priority : Priorities, target : Targets] :
                  SaveRule(r, rule)
           \/ \E r \in Rules : DeleteRule(r)
           \/ \E S \in (SUBSET Txns) \ {{}}, c \in Targets : SetMany(S, c)
           \/ \E t \in Txns, c \in Targets : LookUp(t, c)
           \/ SetOne
    PROVE  CatTypeOK'
  <1> USE BoundsAssumption
  <1>1. Disturbed(Runs) \in [Runs -> Running \cup {Idle}]
    BY DisturbedRuns
  <1>2. ASSUME NEW r \in Rules, NEW rule \in [active : {TRUE}, priority : Priorities, target : Targets],
               SaveRule(r, rule)
        PROVE  CatTypeOK'
    <2>1. rules' \in [Rules -> Rule \cup {None}]
      BY <1>2 DEF SaveRule, CatTypeOK, Rule
    <2> QED
      BY <1>1, <1>2, <2>1 DEF SaveRule, Edited, CatTypeOK
  <1>3. ASSUME NEW r \in Rules, DeleteRule(r)
        PROVE  CatTypeOK'
    <2>1. [rules[r] EXCEPT !.active = FALSE] \in Rule
      BY <1>3 DEF DeleteRule, CatTypeOK, Rule
    <2>2. rules' = [rules EXCEPT ![r] = [rules[r] EXCEPT !.active = FALSE]]
      BY <1>3 DEF DeleteRule
    <2>3. rules' \in [Rules -> Rule \cup {None}]
      BY <2>1, <2>2 DEF CatTypeOK
    <2> QED
      BY <1>1, <1>3, <2>3 DEF DeleteRule, Edited, CatTypeOK
  <1>4. ASSUME NEW S \in SUBSET Txns, NEW c \in Targets, SetMany(S, c)
        PROVE  CatTypeOK'
    <2>1. overrides' \in [Txns -> Override \cup {None}]
      BY <1>4, UpsertedIsARow DEF SetMany, CatTypeOK
    <2>2. inserted' \in [Txns -> Nat]
      BY <1>4 DEF SetMany, CatTypeOK
    <2> QED
      BY <1>1, <1>4, <2>1, <2>2 DEF SetMany, Edited, CatTypeOK
  <1>5. ASSUME NEW t \in Txns, NEW c \in Targets, LookUp(t, c)
        PROVE  CatTypeOK'
    <2>1. edit' \in [txn : Txns, target : Targets, found : Nat]
      BY <1>5 DEF LookUp, CatTypeOK, Override
    <2> QED
      BY <1>5, <2>1 DEF LookUp, CatTypeOK
  <1>6. ASSUME SetOne
        PROVE  CatTypeOK'
    <2>1. edit.txn \in Txns /\ edit.target \in Targets
      BY <1>6 DEF SetOne, CatTypeOK
    <2>2. overrides' \in [Txns -> Override \cup {None}]
      BY <1>6, <2>1, UpsertedIsARow DEF SetOne, CatTypeOK
    <2>3. inserted' \in [Txns -> Nat]
      BY <1>6, <2>1 DEF SetOne, CatTypeOK
    <2>4. run' \in [Runs -> Running \cup {Idle}]
      BY <1>1, <1>6 DEF SetOne, CatTypeOK
    <2> QED
      BY <1>6, <2>2, <2>3, <2>4 DEF SetOne, CatTypeOK
  <1> QED
    BY <1>2, <1>3, <1>4, <1>5, <1>6

\* A step of a run's own leaves the types if the record it moves to is one.
LEMMA MovesKeepTypes ==
    ASSUME CatTypeOK, NEW j \in Runs, NEW next \in Running \cup {Idle}, Moves(j, next),
           rules' = rules, overrides' = overrides, inserted' \in [Txns -> Nat], edit' = edit,
           edits' = edits, begun' \in Nat
    PROVE  CatTypeOK'
  BY DEF Moves, CatTypeOK

\* What is matched, found, written and done at each step has its type.
LEMMA ReadMatchesKeepsTypes ==
    ASSUME CatTypeOK, NEW j \in Runs, ReadMatches(j)
    PROVE  CatTypeOK'
  <1> DEFINE ofRule == {t \in run[j].eligible : ~IsManual(overrides[t]) /\ FirstRule(t) # None}
             m == [t \in ofRule |-> [rule |-> FirstRule(t), target |-> rules[FirstRule(t)].target]]
             next == [run[j] EXCEPT !.pc = "existing", !.matched = m]
  <1>1. run[j] \in Running
    BY RunsAreRecords DEF ReadMatches
  <1>2. ofRule \subseteq Txns
    BY <1>1 DEF Running
  <1>3. \A t \in ofRule : FirstRule(t) \in Rules /\ rules[FirstRule(t)].target \in Targets
    BY <1>2, NoneIsNoRule
  <1>4. m \in Partial([rule : Rules, target : Targets])
    <2>1. m \in [ofRule -> [rule : Rules, target : Targets]]
      BY <1>3
    <2> QED
      BY <1>2, <2>1 DEF Partial
  <1>5. next \in Running
    <2> HIDE DEF m
    <2> QED
      BY <1>1, <1>4 DEF Running
  <1>6. Moves(j, next)
    BY DEF ReadMatches
  <1> HIDE DEF next
  <1> QED
    BY <1>5, <1>6, MovesKeepTypes DEF ReadMatches, Reading, CatTypeOK

\* What it finds of the rules' rows are rows.
LEMMA ReadExistingKeepsTypes ==
    ASSUME CatTypeOK, NEW j \in Runs, ReadExisting(j)
    PROVE  CatTypeOK'
  <1> DEFINE found == {t \in run[j].eligible : IsOfRule(overrides[t])}
             next == [run[j] EXCEPT !.pc = "write", !.existing = Restrict(overrides, found)]
  <1>1. run[j] \in Running
    BY RunsAreRecords DEF ReadExisting
  <1>2. found \subseteq Txns
    BY <1>1 DEF Running
  <1>3. Restrict(overrides, found) \in [found -> Override]
    BY <1>2 DEF Restrict, CatTypeOK, IsOfRule
  <1>4. Restrict(overrides, found) \in Partial(Override)
    BY <1>2, <1>3 DEF Partial
  <1>5. next \in Running
    <2> HIDE DEF found
    <2> QED
      BY <1>1, <1>4 DEF Running
  <1>6. Moves(j, next)
    BY DEF ReadExisting
  <1> HIDE DEF next
  <1> QED
    BY <1>5, <1>6, MovesKeepTypes DEF ReadExisting, Reading, CatTypeOK

\* A statement that writes a row adds it to what is written, or finds nothing to write.
LEMMA WriteMoves ==
    ASSUME CatTypeOK, NEW j \in Runs, NEW t \in Txns, Write(j, t)
    PROVE  \E next \in Running :
               /\ Moves(j, next)
               /\ run[j] \in Running
               /\ next.pc = "write" /\ next.ids = run[j].ids /\ next.eligible = run[j].eligible
               /\ next.matched = run[j].matched /\ next.existing = run[j].existing
               /\ next.done = run[j].done \cup {t} /\ next.alone = run[j].alone
               /\ \/ /\ next.written = run[j].written
                     /\ inserted' = inserted
                     /\ t \in DOMAIN run[j].existing
                     /\ \/ /\ run[j].existing[t].target = run[j].matched[t].target
                           /\ run[j].existing[t].rule = run[j].matched[t].rule
                        \/ overrides[t] = None
                        \/ overrides[t].id # run[j].existing[t].id
                  \/ /\ ~LockedFor(t, j)
                     /\ inserted' \in [Txns -> Nat]
                     /\ \E row \in Override :
                            /\ row.target = run[j].matched[t].target
                            /\ row.rule = run[j].matched[t].rule
                            /\ next.written = Overlay([u \in {t} |-> row], run[j].written)
  <1> DEFINE match == run[j].matched[t]
             found == t \in DOMAIN run[j].existing
             old   == run[j].existing[t]
             row   == [id |-> IF found THEN old.id ELSE inserted[t] + 1,
                       target |-> match.target, rule |-> match.rule]
             asIs  == found /\ old.target = match.target /\ old.rule = match.rule
             gone  == found /\ (overrides[t] = None \/ overrides[t].id # old.id)
             next  == [run[j] EXCEPT !.done = @ \cup {t}]
  <1>1. run[j] \in Running /\ run[j].pc = "write" /\ t \in DOMAIN run[j].matched
    BY RunsAreRecords DEF Write
  <1>2. match \in [rule : Rules, target : Targets]
    BY <1>1, PartialFunctions DEF Running
  <1>3. found => old \in Override
    BY <1>1, PartialFunctions DEF Running
  <1>4. row \in Override
    <2>1. inserted[t] + 1 \in Nat
      BY DEF CatTypeOK
    <2> HIDE DEF match, old
    <2> QED
      BY <1>2, <1>3, <2>1 DEF Override
  <1>5. next \in Running
    BY <1>1 DEF Running
  <1>6. CASE /\ asIs \/ gone
             /\ Moves(j, next)
             /\ UNCHANGED inserted
    <2> WITNESS next \in Running
    <2>1. next.pc = "write" /\ next.ids = run[j].ids /\ next.eligible = run[j].eligible
          /\ next.matched = run[j].matched /\ next.existing = run[j].existing
          /\ next.done = run[j].done \cup {t} /\ next.alone = run[j].alone
          /\ next.written = run[j].written
      BY <1>1 DEF Running
    <2> HIDE DEF next
    <2> QED
      BY <1>1, <1>5, <1>6, <2>1
  <1>7. CASE /\ ~LockedFor(t, j)
             /\ Moves(j, [next EXCEPT !.written = Overlay([u \in {t} |-> row], @)])
             /\ inserted' = IF found THEN inserted ELSE [inserted EXCEPT ![t] = @ + 1]
    <2> DEFINE after == Overlay([u \in {t} |-> row], run[j].written)
               last == [next EXCEPT !.written = after]
    <2>1. next.written = run[j].written
      BY <1>1 DEF Running
    <2>2. [u \in {t} |-> row] \in Partial(Override \cup {None})
      <3> HIDE DEF row
      <3>1. [u \in {t} |-> row] \in [{t} -> Override \cup {None}]
        BY <1>4
      <3> QED
        BY <3>1 DEF Partial
    <2>3. after \in Partial(Override \cup {None})
      BY <1>1, <2>2, WrittenOnTop DEF Running
    <2>4. Moves(j, last)
      BY <1>7, <2>1
    <2>5. /\ last \in Running
          /\ last.pc = "write" /\ last.ids = run[j].ids /\ last.eligible = run[j].eligible
          /\ last.matched = run[j].matched /\ last.existing = run[j].existing
          /\ last.done = run[j].done \cup {t} /\ last.alone = run[j].alone
          /\ last.written = after
      <3> HIDE DEF after
      <3> QED
        BY <1>1, <2>3 DEF Running
    <2>6. inserted' \in [Txns -> Nat]
      BY <1>7 DEF CatTypeOK
    <2>7. row.target = match.target /\ row.rule = match.rule
      OBVIOUS
    <2> HIDE DEF last, row, next
    <2> QED
      BY <1>1, <1>4, <1>7, <2>4, <2>5, <2>6, <2>7
  <1> QED
    BY <1>6, <1>7 DEF Write

\* A statement that writes keeps the types.
LEMMA WriteKeepsTypes ==
    ASSUME CatTypeOK, NEW j \in Runs, NEW t \in Txns, Write(j, t)
    PROVE  CatTypeOK'
  <1>1. PICK next \in Running : Moves(j, next) /\ inserted' \in [Txns -> Nat]
    BY WriteMoves DEF CatTypeOK
  <1> QED
    BY <1>1, MovesKeepTypes DEF Write, CatTypeOK

\* The DELETE adds, for each row it finds to be a rule's, that it is gone.
LEMMA DeleteStaleMoves ==
    ASSUME CatTypeOK, NEW j \in Runs, DeleteStale(j)
    PROVE  \E next \in Running :
               /\ Moves(j, next)
               /\ run[j] \in Running
               /\ next.pc = "commit" /\ next.ids = run[j].ids /\ next.eligible = run[j].eligible
               /\ next.matched = run[j].matched /\ next.existing = run[j].existing
               /\ next.done = run[j].done /\ next.alone = run[j].alone
               /\ next.written = Overlay([t \in Stale(j) |-> None], run[j].written)
               /\ [t \in Stale(j) |-> None] \in Partial(Override \cup {None})
  <1> DEFINE after == Overlay([t \in Stale(j) |-> None], run[j].written)
             next == [run[j] EXCEPT !.pc = "commit", !.written = after]
  <1>1. run[j] \in Running
    BY RunsAreRecords DEF DeleteStale
  <1>2. Stale(j) \subseteq Txns
    BY <1>1, PartialFunctions DEF Stale, Running
  <1>3. [t \in Stale(j) |-> None] \in Partial(Override \cup {None})
    <2>1. [t \in Stale(j) |-> None] \in [Stale(j) -> Override \cup {None}]
      OBVIOUS
    <2> QED
      BY <1>2, <2>1 DEF Partial
  <1>4. after \in Partial(Override \cup {None})
    BY <1>1, <1>3, WrittenOnTop DEF Running
  <1>5. /\ next \in Running
        /\ next.pc = "commit" /\ next.ids = run[j].ids /\ next.eligible = run[j].eligible
        /\ next.matched = run[j].matched /\ next.existing = run[j].existing
        /\ next.done = run[j].done /\ next.alone = run[j].alone
        /\ next.written = after
    <2> HIDE DEF after
    <2> QED
      BY <1>1, <1>4 DEF Running
  <1>6. Moves(j, next)
    BY DEF DeleteStale
  <1> HIDE DEF next
  <1> QED
    BY <1>1, <1>3, <1>5, <1>6

\* A commit puts rows, or nothing, where rows or nothing were.
LEMMA CommitKeepsTypes ==
    ASSUME CatTypeOK, NEW j \in Runs, CommitRun(j)
    PROVE  CatTypeOK'
  <1>1. run[j] \in Running
    BY RunsAreRecords DEF CommitRun
  <1>2. \A t \in Txns : After(j, t) \in Override \cup {None}
    BY <1>1, PartialFunctions DEF After, Running, CatTypeOK
  <1>3. overrides' \in [Txns -> Override \cup {None}]
    BY <1>2 DEF CommitRun
  <1>4. run' \in [Runs -> Running \cup {Idle}]
    BY DisturbedRuns DEF CommitRun
  <1> QED
    BY <1>3, <1>4 DEF CommitRun, CatTypeOK

\* So does each step of a run's.
LEMMA RunsKeepTypes ==
    ASSUME CatTypeOK, NEW j \in Runs,
           \/ \E ids \in (SUBSET Txns) \ {{}} : Begin(j, ids)
           \/ ReadMatches(j) \/ ReadExisting(j) \/ DeleteStale(j) \/ CommitRun(j) \/ FailRun(j)
           \/ \E t \in Txns : Write(j, t)
    PROVE  CatTypeOK'
  <1>1. ASSUME NEW ids \in SUBSET Txns, Begin(j, ids)
        PROVE  CatTypeOK'
    <2> DEFINE eligible == {t \in ids : ~IsManual(overrides[t])}
               new == [pc |-> "match", ids |-> ids, eligible |-> eligible,
                       matched |-> <<>>, existing |-> <<>>, written |-> <<>>,
                       done |-> {}, alone |-> TRUE]
    <2>1. new \in Running
      BY BlankIsPartial DEF Running
    <2>2. Moves(j, IF eligible = {} THEN Idle ELSE new)
      BY <1>1 DEF Begin
    <2> HIDE DEF new, eligible
    <2>3. (IF eligible = {} THEN Idle ELSE new) \in Running \cup {Idle}
      BY <2>1
    <2>4. begun' \in Nat
      BY <1>1 DEF Begin, CatTypeOK
    <2> QED
      BY <1>1, <2>2, <2>3, <2>4, MovesKeepTypes DEF Begin, Reading, CatTypeOK
  <1>2. CASE FailRun(j)
    BY <1>2, MovesKeepTypes DEF FailRun, CatTypeOK
  <1>3. CASE DeleteStale(j)
    BY <1>3, DeleteStaleMoves, MovesKeepTypes DEF DeleteStale, Reading, CatTypeOK
  <1> QED
    BY <1>1, <1>2, <1>3, ReadMatchesKeepsTypes, ReadExistingKeepsTypes, WriteKeepsTypes,
       CommitKeepsTypes

\* The table of overrides, the rules and the runs have their types, whatever overlaps
\* (category_engine.py, the categories router).
THEOREM CategoriesTypeCorrect == CatSpec => []CatTypeOK
  <1>1. CatTypeOK /\ [CatNext]_catVars => CatTypeOK'
    <2> SUFFICES ASSUME CatTypeOK, [CatNext]_catVars PROVE CatTypeOK'
      OBVIOUS
    <2>1. CASE UNCHANGED catVars
      BY <2>1 DEF catVars, CatTypeOK
    <2>2. CASE CatNext
      BY <2>2, UserKeepsTypes, RunsKeepTypes DEF CatNext
    <2> QED
      BY <2>1, <2>2
  <1> QED
    BY <1>1, TypesHoldInitially, PTL DEF CatSpec

(***************************************************************************)
(* A row of the user's is not deleted: the DELETE names rows of rules, and *)
(* holds those until it commits.                                           *)
(***************************************************************************)

\* No two runs have written one row: the second waits for the first.
RowsHaveOneWriter ==
    \A i, j \in Runs : i # j /\ run[i] # Idle /\ run[j] # Idle =>
        \A t \in DOMAIN run[i].written : t \notin DOMAIN run[j].written

\* A row a run has deleted is not the user's.
DeletedAreOfRules ==
    \A j \in Runs : run[j] # Idle =>
        \A t \in DOMAIN run[j].written : run[j].written[t] = None => ~IsManual(overrides[t])

DeletesInv == CatTypeOK /\ RowsHaveOneWriter /\ DeletedAreOfRules

\* A step after which every run has written what it had, or nothing, and of which the rows it
\* changes are locked by none, keeps both.
LEMMA WrittenAsBefore ==
    ASSUME DeletesInv,
           \A j \in Runs : run'[j] # Idle =>
               run[j] # Idle /\ run'[j].written = run[j].written,
           \A t \in Txns : overrides'[t] # overrides[t] =>
               \A j \in Runs : run'[j] # Idle => t \notin DOMAIN run'[j].written
    PROVE  (RowsHaveOneWriter /\ DeletedAreOfRules)'
  <1>1. RowsHaveOneWriter'
    BY DEF DeletesInv, RowsHaveOneWriter
  <1>2. DeletedAreOfRules'
    <2> SUFFICES ASSUME NEW j \in Runs, run'[j] # Idle,
                        NEW t \in DOMAIN run'[j].written, run'[j].written[t] = None
                 PROVE  ~IsManual(overrides'[t])
      BY DEF DeletedAreOfRules, IsManual
    <2>1. run[j] \in Running /\ t \in DOMAIN run[j].written /\ run[j].written[t] = None
      BY RunsAreRecords DEF DeletesInv
    <2>2. t \in Txns
      BY <2>1, PartialFunctions DEF Running
    <2>3. ~IsManual(overrides[t])
      BY <2>1, RunsAreRecords DEF DeletesInv, DeletedAreOfRules
    <2>4. overrides'[t] = overrides[t]
      BY <2>2
    <2> QED
      BY <2>3, <2>4
  <1> QED
    BY <1>1, <1>2

\* What a run of its own has written when it moves on, the other runs' as before.
LEMMA OneMoves ==
    ASSUME DeletesInv, NEW j \in Runs, NEW next, Moves(j, next), run[j] # Idle, next # Idle,
           overrides' = overrides, DOMAIN next.written \subseteq Txns,
           \A t \in DOMAIN next.written :
               \/ t \in DOMAIN run[j].written /\ next.written[t] = run[j].written[t]
               \/ ~LockedFor(t, j) /\ (next.written[t] = None => ~IsManual(overrides[t]))
    PROVE  (RowsHaveOneWriter /\ DeletedAreOfRules)'
  <1>1. run'[j] = next /\ \A i \in Runs \ {j} : run'[i] = run[i]
    BY DEF Moves, DeletesInv, CatTypeOK
  <1>2. \A i \in Runs \ {j} : run[i] # Idle =>
            \A t \in DOMAIN next.written : t \notin DOMAIN run[i].written
    BY DEF LockedFor, DeletesInv, RowsHaveOneWriter
  <1>3. RowsHaveOneWriter'
    BY <1>1, <1>2 DEF DeletesInv, RowsHaveOneWriter
  <1>4. \A i \in Runs : run'[i] # Idle =>
            \A t \in DOMAIN run'[i].written : run'[i].written[t] = None => ~IsManual(overrides[t])
    BY <1>1 DEF DeletesInv, DeletedAreOfRules
  <1>5. DeletedAreOfRules'
    BY <1>4 DEF DeletedAreOfRules, IsManual
  <1> QED
    BY <1>3, <1>5

\* The user's steps wait for the rows that a run has written.
LEMMA UserKeepsDeletes ==
    ASSUME DeletesInv,
           \/ \E r \in Rules, rule \in [active : {TRUE}, priority : Priorities, target : Targets] :
                  SaveRule(r, rule)
           \/ \E r \in Rules : DeleteRule(r)
           \/ \E S \in (SUBSET Txns) \ {{}}, c \in Targets : SetMany(S, c)
           \/ \E t \in Txns, c \in Targets : LookUp(t, c)
           \/ SetOne
    PROVE  (RowsHaveOneWriter /\ DeletedAreOfRules)'
  <1>1. \A j \in Runs : run'[j] # Idle => run[j] # Idle /\ run'[j].written = run[j].written
    <2>1. run' = run \/ run' = Disturbed(Runs)
      BY DEF SaveRule, DeleteRule, SetMany, LookUp, SetOne, Edited
    <2> QED
      BY <2>1, DisturbedRuns DEF DeletesInv
  <1>2. ASSUME NEW t \in Txns, overrides'[t] # overrides[t]
        PROVE  \A j \in Runs : run[j] # Idle => t \notin DOMAIN run[j].written
    <2>1. ~LockedFor(t, None)
      BY <1>2 DEF DeletesInv, CatTypeOK, SaveRule, DeleteRule, SetMany, LookUp, SetOne
    <2> QED
      BY <2>1, NoneAssumption DEF LockedFor
  <1> QED
    BY <1>1, <1>2, WrittenAsBefore

\* A row that is written or deleted is one no other run has, and what is deleted is a rule's.
LEMMA RunsKeepDeletes ==
    ASSUME DeletesInv, NEW j \in Runs,
           \/ \E ids \in (SUBSET Txns) \ {{}} : Begin(j, ids)
           \/ ReadMatches(j) \/ ReadExisting(j) \/ DeleteStale(j) \/ CommitRun(j) \/ FailRun(j)
           \/ \E t \in Txns : Write(j, t)
    PROVE  (RowsHaveOneWriter /\ DeletedAreOfRules)'
  <1>1. ASSUME NEW ids \in SUBSET Txns, Begin(j, ids)
        PROVE  (RowsHaveOneWriter /\ DeletedAreOfRules)'
    <2> DEFINE next == run'[j]
    <2>1. /\ \A i \in Runs \ {j} : run'[i] = run[i]
          /\ run'[j] = Idle \/ DOMAIN run'[j].written = {}
      BY <1>1, BlankIsPartial DEF Begin, Moves, DeletesInv, CatTypeOK
    <2>2. overrides' = overrides
      BY <1>1 DEF Begin, Reading
    <2>3. RowsHaveOneWriter'
      BY <2>1 DEF DeletesInv, RowsHaveOneWriter
    <2>4. DeletedAreOfRules'
      BY <2>1, <2>2 DEF DeletesInv, DeletedAreOfRules, IsManual
    <2> QED
      BY <2>3, <2>4
  <1>2. CASE ReadMatches(j) \/ ReadExisting(j)
    <2>1. run[j] \in Running
      BY <1>2, RunsAreRecords DEF DeletesInv, ReadMatches, ReadExisting
    <2>2. /\ \A i \in Runs \ {j} : run'[i] = run[i]
          /\ run'[j].written = run[j].written
      <3>1. \A m : [run[j] EXCEPT !.pc = "existing", !.matched = m].written = run[j].written
        BY <2>1 DEF Running
      <3>2. \A e : [run[j] EXCEPT !.pc = "write", !.existing = e].written = run[j].written
        BY <2>1 DEF Running
      <3> QED
        <4>1. CASE ReadMatches(j)
          BY <3>1, <4>1 DEF ReadMatches, Moves, DeletesInv, CatTypeOK
        <4>2. CASE ReadExisting(j)
          BY <3>2, <4>2 DEF ReadExisting, Moves, DeletesInv, CatTypeOK
        <4> QED
          BY <1>2, <4>1, <4>2
    <2>3. overrides' = overrides
      BY <1>2 DEF ReadMatches, ReadExisting, Reading
    <2> QED
      BY <2>1, <2>2, <2>3, RunsAreRecords, WrittenAsBefore DEF DeletesInv
  <1>3. ASSUME NEW t \in Txns, Write(j, t)
        PROVE  (RowsHaveOneWriter /\ DeletedAreOfRules)'
    <2>1. PICK next \in Running :
              /\ Moves(j, next)
              /\ run[j] \in Running
              /\ \/ next.written = run[j].written
                 \/ /\ ~LockedFor(t, j)
                    /\ \E row \in Override :
                           next.written = Overlay([u \in {t} |-> row], run[j].written)
      BY <1>3, WriteMoves, SMTT(20) DEF DeletesInv
    <2>2. run[j] # Idle /\ next # Idle /\ overrides' = overrides
      BY <1>3, <2>1, RunsAreRecords DEF DeletesInv, Write
    <2>3. DOMAIN next.written \subseteq Txns
      BY PartialFunctions DEF Running
    <2>4. CASE next.written = run[j].written
      BY <2>1, <2>2, <2>3, <2>4, OneMoves
    <2>5. ASSUME NEW row \in Override, ~LockedFor(t, j),
                 next.written = Overlay([u \in {t} |-> row], run[j].written)
          PROVE  (RowsHaveOneWriter /\ DeletedAreOfRules)'
      <3> DEFINE one == [u \in {t} |-> row]
      <3>1. DOMAIN one = {t} /\ one[t] = row /\ next.written = Overlay(one, run[j].written)
        BY <2>5
      <3> HIDE DEF one
      <3>2. /\ DOMAIN Overlay(one, run[j].written) = DOMAIN one \cup DOMAIN run[j].written
            /\ \A u \in DOMAIN one : Overlay(one, run[j].written)[u] = one[u]
            /\ \A u \in DOMAIN run[j].written :
                   u \in DOMAIN one \/ Overlay(one, run[j].written)[u] = run[j].written[u]
        BY OnTop
      <3>3. \A u \in DOMAIN next.written :
                \/ u = t /\ next.written[u] = row
                \/ u \in DOMAIN run[j].written /\ next.written[u] = run[j].written[u]
        BY <3>1, <3>2
      <3>4. row # None
        BY NoneAssumption
      <3> QED
        BY <2>1, <2>2, <2>3, <2>5, <3>3, <3>4, OneMoves
    <2> QED
      BY <2>1, <2>4, <2>5
  <1>4. CASE DeleteStale(j)
    <2> DEFINE gone == [t \in Stale(j) |-> None]
    <2>1. PICK next \in Running :
              /\ Moves(j, next)
              /\ run[j] \in Running
              /\ next.written = Overlay(gone, run[j].written)
              /\ gone \in Partial(Override \cup {None})
      BY <1>4, DeleteStaleMoves DEF DeletesInv
    <2>2. run[j] # Idle /\ next # Idle /\ overrides' = overrides
      BY <1>4, <2>1, RunsAreRecords DEF DeletesInv, DeleteStale, Reading
    <2>3. DOMAIN next.written \subseteq Txns
      BY PartialFunctions DEF Running
    <2>4. \A u \in DOMAIN next.written :
              \/ u \in Stale(j)
              \/ u \in DOMAIN run[j].written /\ next.written[u] = run[j].written[u]
      <3> HIDE DEF gone
      <3>1. /\ DOMAIN Overlay(gone, run[j].written) = DOMAIN gone \cup DOMAIN run[j].written
            /\ \A u \in DOMAIN run[j].written :
                   u \in DOMAIN gone \/ Overlay(gone, run[j].written)[u] = run[j].written[u]
        BY OnTop
      <3>2. \A u \in DOMAIN next.written :
                \/ u \in DOMAIN gone
                \/ u \in DOMAIN run[j].written /\ next.written[u] = run[j].written[u]
        BY <2>1, <3>1
      <3> QED
        BY <3>2 DEF gone
    <2>5. \A u \in Stale(j) : ~LockedFor(u, j) /\ ~IsManual(overrides[u])
      BY <1>4 DEF DeleteStale, Stale, Deletable, IsOfRule, IsManual
    <2> QED
      BY <2>1, <2>2, <2>3, <2>4, <2>5, OneMoves
  <1>5. CASE CommitRun(j)
    <2>1. run[j] \in Running /\ run[j] # Idle
      BY <1>5, RunsAreRecords DEF DeletesInv, CommitRun
    <2>2. /\ run'[j] = Idle
          /\ \A i \in Runs \ {j} : run'[i] # Idle =>
                run[i] # Idle /\ run'[i].written = run[i].written
      BY <1>5, DisturbedRuns DEF DeletesInv, CommitRun
    <2>3. \A t \in Txns : overrides'[t] # overrides[t] => t \in DOMAIN run[j].written
      BY <1>5 DEF CommitRun, After
    <2>4. \A t \in DOMAIN run[j].written : \A i \in Runs : run'[i] # Idle =>
              t \notin DOMAIN run'[i].written
      BY <2>1, <2>2 DEF DeletesInv, RowsHaveOneWriter
    <2> QED
      BY <2>2, <2>3, <2>4, WrittenAsBefore
  <1>6. CASE FailRun(j)
    <2>1. /\ run'[j] = Idle /\ overrides' = overrides
          /\ \A i \in Runs \ {j} : run'[i] = run[i]
      BY <1>6 DEF FailRun, Moves, DeletesInv, CatTypeOK
    <2> QED
      BY <2>1, WrittenAsBefore
  <1> QED
    BY <1>1, <1>2, <1>3, <1>4, <1>5, <1>6

\* The three hold together, from the start on.
LEMMA DeletesInvHolds == CatSpec => []DeletesInv
  <1>1. CatInit => DeletesInv
    <2> SUFFICES ASSUME CatInit PROVE DeletesInv
      OBVIOUS
    <2>1. \A j \in Runs : run[j] = Idle
      BY DEF CatInit
    <2> QED
      BY <2>1, TypesHoldInitially DEF DeletesInv, RowsHaveOneWriter, DeletedAreOfRules
  <1>2. DeletesInv /\ CatTypeOK' /\ [CatNext]_catVars => DeletesInv'
    <2> SUFFICES ASSUME DeletesInv, CatTypeOK', [CatNext]_catVars PROVE DeletesInv'
      OBVIOUS
    <2>1. CASE UNCHANGED catVars
      BY <2>1 DEF catVars, DeletesInv, RowsHaveOneWriter, DeletedAreOfRules, IsManual
    <2>2. CASE CatNext
      BY <2>2, UserKeepsDeletes, RunsKeepDeletes DEF CatNext, DeletesInv
    <2> QED
      BY <2>1, <2>2
  <1> QED
    BY <1>1, <1>2, CategoriesTypeCorrect, PTL DEF CatSpec

\* What a commit, or a step of the user's, leaves in the place of a row of the user's is a row.
LEMMA ManualIsReplacedByARow ==
    ASSUME DeletesInv, [CatNext]_catVars, NEW t \in Txns, IsManual(overrides[t]),
           overrides'[t] = None
    PROVE  FALSE
  <1>1. CASE overrides' = overrides
    BY <1>1 DEF IsManual
  <1>2. ASSUME NEW S \in SUBSET Txns, NEW c \in Targets, SetMany(S, c)
        PROVE  FALSE
    BY <1>2, UpsertedIsARow, NoneAssumption DEF SetMany, DeletesInv, IsManual
  <1>3. CASE SetOne
    <2>1. edit.txn \in Txns /\ edit.target \in Targets
      BY <1>3 DEF SetOne, DeletesInv, CatTypeOK
    <2>2. Upserted(edit.txn, edit.target) # None
      BY <2>1, UpsertedIsARow DEF DeletesInv, IsManual
    <2>3. overrides' \in {overrides, [overrides EXCEPT ![edit.txn] = Upserted(edit.txn, edit.target)]}
      BY <1>3 DEF SetOne
    <2> QED
      BY <2>1, <2>2, <2>3 DEF DeletesInv, CatTypeOK, IsManual
  <1>4. ASSUME NEW j \in Runs, CommitRun(j)
        PROVE  FALSE
    <2>1. After(j, t) = None
      BY <1>4 DEF CommitRun
    <2>2. t \in DOMAIN run[j].written /\ run[j].written[t] = None
      BY <2>1 DEF After, IsManual
    <2>3. run[j] # Idle
      BY <1>4, RunsAreRecords DEF CommitRun, DeletesInv
    <2> QED
      BY <2>2, <2>3 DEF DeletesInv, DeletedAreOfRules
  <1> QED
    BY <1>1, <1>2, <1>3, <1>4 DEF CatNext, catVars, SaveRule, DeleteRule, LookUp, Begin, ReadMatches,
       ReadExisting, Write, DeleteStale, FailRun, Reading

\* However rule runs and edits overlap, a transaction the user has given a category never goes
\* back to having none (category_engine.apply_rules and the override endpoints): the rows a run
\* deletes are rules' when its DELETE runs, and are held from there to its commit.
THEOREM ManualIsNeverErased == CatSpec => ManualIsNotErased
  <1>1. DeletesInv /\ [CatNext]_catVars =>
            [\A t \in Txns : IsManual(overrides[t]) => overrides'[t] # None]_overrides
    BY ManualIsReplacedByARow
  <1> QED
    BY <1>1, DeletesInvHolds, PTL DEF CatSpec, ManualIsNotErased

(***************************************************************************)
(* A run during which nothing was committed settles what it was given.     *)
(***************************************************************************)

\* What such a run has read is still so: which transactions are not the user's, which rule is
\* first for each, which rows are rules'.  Each row it is done with will be as the rules say,
\* and after the DELETE no other row of a rule is left.
CurrentRun(j) ==
    /\ \A t \in Txns : t \in run[j].eligible <=> t \in run[j].ids /\ ~IsManual(overrides[t])
    /\ run[j].pc \in {"match", "existing"} => run[j].done = {} /\ DOMAIN run[j].written = {}
    /\ run[j].pc # "match" =>
           /\ \A t \in Txns :
                  t \in DOMAIN run[j].matched <=> t \in run[j].eligible /\ FirstRule(t) # None
           /\ \A t \in DOMAIN run[j].matched :
                  /\ run[j].matched[t].rule = FirstRule(t)
                  /\ run[j].matched[t].target = rules[FirstRule(t)].target
    /\ run[j].pc \in {"write", "commit"} =>
           /\ \A t \in Txns :
                  t \in DOMAIN run[j].existing <=> t \in run[j].eligible /\ IsOfRule(overrides[t])
           /\ \A t \in DOMAIN run[j].existing : run[j].existing[t] = overrides[t]
           /\ \A t \in run[j].done :
                  /\ t \in DOMAIN run[j].matched
                  /\ After(j, t) # None
                  /\ After(j, t).rule = run[j].matched[t].rule
                  /\ After(j, t).target = run[j].matched[t].target
           /\ \A t \in DOMAIN run[j].written :
                  t \in run[j].done \/ (run[j].pc = "commit" /\ t \in DOMAIN run[j].existing)
    /\ run[j].pc = "commit" =>
           /\ run[j].done = DOMAIN run[j].matched
           /\ \A t \in DOMAIN run[j].existing \ DOMAIN run[j].matched : After(j, t) = None

LoneRunsAreCurrent ==
    \A j \in Runs : run[j] # Idle /\ run[j].alone => CurrentRun(j)

\* The rules say the same of a transaction while none of them changes.
LEMMA SameRules ==
    ASSUME rules' = rules
    PROVE  \A t : FirstRule(t)' = FirstRule(t)
  BY DEF FirstRule, Active, Precedes

\* A run is current while it and what is committed stay as they are.
LEMMA CurrentStays ==
    ASSUME NEW j \in Runs, CurrentRun(j), run'[j] = run[j], rules' = rules, overrides' = overrides
    PROVE  CurrentRun(j)'
  <1>1. \A t : FirstRule(t)' = FirstRule(t)
    BY SameRules
  <1>2. \A t : /\ After(j, t)' = After(j, t)
               /\ IsManual(overrides[t])' <=> IsManual(overrides[t])
               /\ IsOfRule(overrides[t])' <=> IsOfRule(overrides[t])
    BY DEF After, IsManual, IsOfRule
  <1> QED
    BY <1>1, <1>2 DEF CurrentRun

\* What the user commits ends the loneliness of all.
LEMMA UserKeepsCurrent ==
    ASSUME CatTypeOK, LoneRunsAreCurrent,
           \/ \E r \in Rules, rule \in [active : {TRUE}, priority : Priorities, target : Targets] :
                  SaveRule(r, rule)
           \/ \E r \in Rules : DeleteRule(r)
           \/ \E S \in (SUBSET Txns) \ {{}}, c \in Targets : SetMany(S, c)
           \/ \E t \in Txns, c \in Targets : LookUp(t, c)
           \/ SetOne
    PROVE  LoneRunsAreCurrent'
  <1>1. \/ run' = Disturbed(Runs)
        \/ run' = run /\ rules' = rules /\ overrides' = overrides
    BY DEF SaveRule, DeleteRule, SetMany, LookUp, SetOne, Edited
  <1>2. CASE run' = Disturbed(Runs)
    BY <1>2, DisturbedRuns DEF LoneRunsAreCurrent
  <1>3. CASE run' = run /\ rules' = rules /\ overrides' = overrides
    BY <1>3, CurrentStays DEF LoneRunsAreCurrent
  <1> QED
    BY <1>1, <1>2, <1>3

\* A step of a run's own leaves the others as they are.
LEMMA OthersStayCurrent ==
    ASSUME CatTypeOK, LoneRunsAreCurrent, NEW j \in Runs, NEW next, Moves(j, next),
           rules' = rules, overrides' = overrides,
           next # Idle /\ next.alone => CurrentRun(j)'
    PROVE  LoneRunsAreCurrent'
  <1>1. run'[j] = next /\ \A i \in Runs \ {j} : run'[i] = run[i]
    BY DEF Moves, CatTypeOK
  <1>2. \A i \in Runs \ {j} : run'[i] # Idle /\ run'[i].alone => CurrentRun(i)'
    BY <1>1, CurrentStays DEF LoneRunsAreCurrent
  <1> QED
    BY <1>1, <1>2 DEF LoneRunsAreCurrent

\* A run reads which transactions are the user's.
LEMMA BeginIsCurrent ==
    ASSUME CatTypeOK, LoneRunsAreCurrent, NEW j \in Runs, NEW ids \in SUBSET Txns, Begin(j, ids)
    PROVE  LoneRunsAreCurrent'
  <1> DEFINE eligible == {t \in ids : ~IsManual(overrides[t])}
             new == [pc |-> "match", ids |-> ids, eligible |-> eligible,
                     matched |-> <<>>, existing |-> <<>>, written |-> <<>>,
                     done |-> {}, alone |-> TRUE]
             next == IF eligible = {} THEN Idle ELSE new
  <1>1. Moves(j, next) /\ rules' = rules /\ overrides' = overrides
    BY DEF Begin, Reading
  <1>2. run'[j] = next
    BY <1>1 DEF Moves, CatTypeOK
  <1>3. next # Idle => CurrentRun(j)'
    <2> SUFFICES ASSUME next # Idle PROVE CurrentRun(j)'
      OBVIOUS
    <2>1. run'[j] = new
      BY <1>2
    <2>2. /\ run'[j].pc = "match" /\ run'[j].ids = ids /\ run'[j].eligible = eligible
          /\ run'[j].done = {} /\ DOMAIN run'[j].written = {}
      BY <2>1, BlankIsPartial
    <2>3. \A t : IsManual(overrides'[t]) <=> IsManual(overrides[t])
      BY <1>1
    <2> QED
      BY <2>2, <2>3 DEF CurrentRun
  <1> HIDE DEF next
  <1> QED
    BY <1>1, <1>3, OthersStayCurrent

\* It reads which rule is first for each of the rest.
LEMMA ReadMatchesIsCurrent ==
    ASSUME CatTypeOK, LoneRunsAreCurrent, NEW j \in Runs, ReadMatches(j)
    PROVE  LoneRunsAreCurrent'
  <1> DEFINE ofRule == {t \in run[j].eligible : ~IsManual(overrides[t]) /\ FirstRule(t) # None}
             m == [t \in ofRule |-> [rule |-> FirstRule(t), target |-> rules[FirstRule(t)].target]]
             next == [run[j] EXCEPT !.pc = "existing", !.matched = m]
  <1>1. run[j] \in Running /\ run[j] # Idle
    BY RunsAreRecords DEF ReadMatches
  <1>2. Moves(j, next) /\ rules' = rules /\ overrides' = overrides /\ run[j].pc = "match"
    BY DEF ReadMatches, Reading
  <1>3. run'[j] = next
    BY <1>2 DEF Moves, CatTypeOK
  <1>4. /\ run'[j].pc = "existing" /\ run'[j].ids = run[j].ids /\ run'[j].alone = run[j].alone
        /\ run'[j].eligible = run[j].eligible /\ run'[j].done = run[j].done
        /\ run'[j].written = run[j].written /\ run'[j].matched = m
    <2> HIDE DEF m
    <2> QED
      BY <1>1, <1>3 DEF Running
  <1>5. ASSUME run[j].alone PROVE CurrentRun(j)'
    <2>1. CurrentRun(j)
      BY <1>1, <1>5 DEF LoneRunsAreCurrent
    <2>2. run[j].done = {} /\ DOMAIN run[j].written = {}
      BY <1>2, <2>1 DEF CurrentRun
    <2>3. \A t \in Txns : t \in run[j].eligible <=> t \in run[j].ids /\ ~IsManual(overrides'[t])
      BY <1>2, <2>1 DEF CurrentRun
    <2>4. \A t \in Txns : t \in ofRule <=> t \in run[j].eligible /\ FirstRule(t) # None
      BY <2>1 DEF CurrentRun
    <2>5. \A t : FirstRule(t)' = FirstRule(t)
      BY <1>2, SameRules
    <2>6. /\ DOMAIN m = ofRule
          /\ \A t \in ofRule : m[t].rule = FirstRule(t) /\ m[t].target = rules'[FirstRule(t)].target
      BY <1>2
    <2> HIDE DEF m, ofRule
    <2> QED
      BY <1>4, <2>2, <2>3, <2>4, <2>5, <2>6 DEF CurrentRun
  <1>6. next.alone = run[j].alone
    BY <1>3, <1>4
  <1> HIDE DEF next
  <1> QED
    BY <1>2, <1>5, <1>6, OthersStayCurrent

\* It reads which rows are rules'.
LEMMA ReadExistingIsCurrent ==
    ASSUME CatTypeOK, LoneRunsAreCurrent, NEW j \in Runs, ReadExisting(j)
    PROVE  LoneRunsAreCurrent'
  <1> DEFINE found == {t \in run[j].eligible : IsOfRule(overrides[t])}
             e == Restrict(overrides, found)
             next == [run[j] EXCEPT !.pc = "write", !.existing = e]
  <1>1. run[j] \in Running /\ run[j] # Idle
    BY RunsAreRecords DEF ReadExisting
  <1>2. Moves(j, next) /\ rules' = rules /\ overrides' = overrides /\ run[j].pc = "existing"
    BY DEF ReadExisting, Reading
  <1>3. run'[j] = next
    BY <1>2 DEF Moves, CatTypeOK
  <1>4. /\ run'[j].pc = "write" /\ run'[j].ids = run[j].ids /\ run'[j].alone = run[j].alone
        /\ run'[j].eligible = run[j].eligible /\ run'[j].done = run[j].done
        /\ run'[j].written = run[j].written /\ run'[j].matched = run[j].matched
        /\ run'[j].existing = e
    <2> HIDE DEF e
    <2> QED
      BY <1>1, <1>3 DEF Running
  <1>5. ASSUME run[j].alone PROVE CurrentRun(j)'
    <2>1. CurrentRun(j)
      BY <1>1, <1>5 DEF LoneRunsAreCurrent
    <2>2. run[j].done = {} /\ DOMAIN run[j].written = {}
      BY <1>2, <2>1 DEF CurrentRun
    <2>3. \A t \in Txns : t \in run[j].eligible <=> t \in run[j].ids /\ ~IsManual(overrides'[t])
      BY <1>2, <2>1 DEF CurrentRun
    <2>4. /\ \A t \in Txns :
                 t \in DOMAIN run[j].matched <=> t \in run[j].eligible /\ FirstRule(t)' # None
          /\ \A t \in DOMAIN run[j].matched :
                 /\ run[j].matched[t].rule = FirstRule(t)'
                 /\ run[j].matched[t].target = rules'[FirstRule(t)'].target
      <3>1. \A t : FirstRule(t)' = FirstRule(t)
        BY <1>2, SameRules
      <3> QED
        BY <1>2, <2>1, <3>1 DEF CurrentRun
    <2>5. /\ \A t \in Txns : t \in DOMAIN e <=> t \in run[j].eligible /\ IsOfRule(overrides'[t])
          /\ \A t \in DOMAIN e : e[t] = overrides'[t]
      BY <1>2 DEF Restrict
    <2> HIDE DEF e
    <2> QED
      BY <1>4, <2>2, <2>3, <2>4, <2>5 DEF CurrentRun
  <1>6. next.alone = run[j].alone
    BY <1>3, <1>4
  <1> HIDE DEF next
  <1> QED
    BY <1>2, <1>5, <1>6, OthersStayCurrent

\* Each row it writes, or leaves as it is, says what the rules do.
LEMMA WriteIsCurrent ==
    ASSUME CatTypeOK, LoneRunsAreCurrent, NEW j \in Runs, NEW t \in Txns, Write(j, t)
    PROVE  LoneRunsAreCurrent'
  <1>1. PICK next \in Running :
            /\ Moves(j, next)
            /\ run[j] \in Running
            /\ next.pc = "write" /\ next.ids = run[j].ids /\ next.eligible = run[j].eligible
            /\ next.matched = run[j].matched /\ next.existing = run[j].existing
            /\ next.done = run[j].done \cup {t} /\ next.alone = run[j].alone
            /\ \/ /\ next.written = run[j].written
                  /\ t \in DOMAIN run[j].existing
                  /\ \/ /\ run[j].existing[t].target = run[j].matched[t].target
                        /\ run[j].existing[t].rule = run[j].matched[t].rule
                     \/ overrides[t] = None
                     \/ overrides[t].id # run[j].existing[t].id
               \/ \E row \in Override :
                      /\ row.target = run[j].matched[t].target
                      /\ row.rule = run[j].matched[t].rule
                      /\ next.written = Overlay([u \in {t} |-> row], run[j].written)
    BY WriteMoves
  <1>2. rules' = rules /\ overrides' = overrides /\ run[j].pc = "write" /\ run[j] # Idle
        /\ t \in DOMAIN run[j].matched /\ t \notin run[j].done
    BY RunsAreRecords DEF Write
  <1>3. run'[j] = next
    BY <1>1 DEF Moves, CatTypeOK
  <1>4. ASSUME run[j].alone PROVE CurrentRun(j)'
    <2>1. CurrentRun(j)
      BY <1>2, <1>4 DEF LoneRunsAreCurrent
    <2>2. \A u : FirstRule(u)' = FirstRule(u)
      BY <1>2, SameRules
    <2>3. /\ DOMAIN next.written \subseteq DOMAIN run[j].written \cup {t}
          /\ \A u \in DOMAIN run[j].written \ {t} :
                 u \in DOMAIN next.written /\ next.written[u] = run[j].written[u]
          /\ After(j, t)' # None
          /\ After(j, t)'.rule = run[j].matched[t].rule
          /\ After(j, t)'.target = run[j].matched[t].target
      <3>1. CASE /\ next.written = run[j].written
                 /\ t \in DOMAIN run[j].existing
                 /\ \/ /\ run[j].existing[t].target = run[j].matched[t].target
                       /\ run[j].existing[t].rule = run[j].matched[t].rule
                    \/ overrides[t] = None
                    \/ overrides[t].id # run[j].existing[t].id
        <4>1. run[j].existing[t] = overrides[t] /\ overrides[t] # None
          BY <1>2, <2>1, <3>1 DEF CurrentRun, IsOfRule
        <4>2. t \notin DOMAIN next.written
          BY <1>2, <2>1, <3>1 DEF CurrentRun
        <4>3. After(j, t)' = overrides[t]
          BY <1>2, <1>3, <4>2 DEF After
        <4> QED
          BY <3>1, <4>1, <4>3
      <3>2. ASSUME NEW row \in Override,
                   row.target = run[j].matched[t].target,
                   row.rule = run[j].matched[t].rule,
                   next.written = Overlay([u \in {t} |-> row], run[j].written)
            PROVE  /\ DOMAIN next.written \subseteq DOMAIN run[j].written \cup {t}
                   /\ \A u \in DOMAIN run[j].written \ {t} :
                          u \in DOMAIN next.written /\ next.written[u] = run[j].written[u]
                   /\ After(j, t)' # None
                   /\ After(j, t)'.rule = run[j].matched[t].rule
                   /\ After(j, t)'.target = run[j].matched[t].target
        <4> DEFINE one == [u \in {t} |-> row]
        <4>1. DOMAIN one = {t} /\ one[t] = row /\ next.written = Overlay(one, run[j].written)
          BY <3>2
        <4> HIDE DEF one
        <4>2. /\ DOMAIN Overlay(one, run[j].written) = DOMAIN one \cup DOMAIN run[j].written
              /\ \A u \in DOMAIN one : Overlay(one, run[j].written)[u] = one[u]
              /\ \A u \in DOMAIN run[j].written :
                     u \in DOMAIN one \/ Overlay(one, run[j].written)[u] = run[j].written[u]
          BY OnTop
        <4>3. t \in DOMAIN next.written /\ next.written[t] = row
          BY <4>1, <4>2
        <4>4. After(j, t)' = row
          BY <1>3, <4>3 DEF After
        <4> QED
          BY <3>2, <4>1, <4>2, <4>4, NoneAssumption
      <3> QED
        BY <1>1, <3>1, <3>2
    <2>4. \A u \in run[j].done : After(j, u)' = After(j, u)
      BY <1>2, <1>3, <2>3 DEF After
    <2>5. /\ \A u \in Txns : u \in run'[j].eligible <=> u \in run'[j].ids /\ ~IsManual(overrides'[u])
          /\ \A u \in Txns :
                 u \in DOMAIN run'[j].matched <=> u \in run'[j].eligible /\ FirstRule(u)' # None
          /\ \A u \in DOMAIN run'[j].matched :
                 /\ run'[j].matched[u].rule = FirstRule(u)'
                 /\ run'[j].matched[u].target = rules'[FirstRule(u)'].target
      BY <1>1, <1>2, <1>3, <2>1, <2>2 DEF CurrentRun
    <2>6. /\ \A u \in Txns :
                 u \in DOMAIN run'[j].existing <=> u \in run'[j].eligible /\ IsOfRule(overrides'[u])
          /\ \A u \in DOMAIN run'[j].existing : run'[j].existing[u] = overrides'[u]
      BY <1>1, <1>2, <1>3, <2>1 DEF CurrentRun
    <2>7. /\ \A u \in run'[j].done :
                 /\ u \in DOMAIN run'[j].matched
                 /\ After(j, u)' # None
                 /\ After(j, u)'.rule = run'[j].matched[u].rule
                 /\ After(j, u)'.target = run'[j].matched[u].target
          /\ \A u \in DOMAIN run'[j].written : u \in run'[j].done
      BY <1>1, <1>2, <1>3, <2>1, <2>3, <2>4 DEF CurrentRun
    <2> QED
      BY <1>1, <1>3, <2>5, <2>6, <2>7 DEF CurrentRun
  <1> QED
    BY <1>1, <1>2, <1>4, OthersStayCurrent

\* The DELETE leaves no row of a rule that does not match.
LEMMA DeleteStaleIsCurrent ==
    ASSUME CatTypeOK, LoneRunsAreCurrent, NEW j \in Runs, DeleteStale(j)
    PROVE  LoneRunsAreCurrent'
  <1> DEFINE gone == [t \in Stale(j) |-> None]
  <1>1. PICK next \in Running :
            /\ Moves(j, next)
            /\ run[j] \in Running
            /\ next.pc = "commit" /\ next.ids = run[j].ids /\ next.eligible = run[j].eligible
            /\ next.matched = run[j].matched /\ next.existing = run[j].existing
            /\ next.done = run[j].done /\ next.alone = run[j].alone
            /\ next.written = Overlay(gone, run[j].written)
    BY DeleteStaleMoves
  <1>2. rules' = rules /\ overrides' = overrides /\ run[j].pc = "write" /\ run[j] # Idle
        /\ run[j].done = DOMAIN run[j].matched
    BY RunsAreRecords DEF DeleteStale, Reading
  <1>3. run'[j] = next
    BY <1>1 DEF Moves, CatTypeOK
  <1>4. DOMAIN gone = Stale(j) /\ \A t \in Stale(j) : gone[t] = None
    OBVIOUS
  <1> HIDE DEF gone
  <1>5. /\ DOMAIN next.written = Stale(j) \cup DOMAIN run[j].written
        /\ \A t \in Stale(j) : next.written[t] = None
        /\ \A t \in DOMAIN run[j].written : t \in Stale(j) \/ next.written[t] = run[j].written[t]
    <2>1. /\ DOMAIN Overlay(gone, run[j].written) = DOMAIN gone \cup DOMAIN run[j].written
          /\ \A u \in DOMAIN gone : Overlay(gone, run[j].written)[u] = gone[u]
          /\ \A u \in DOMAIN run[j].written :
                 u \in DOMAIN gone \/ Overlay(gone, run[j].written)[u] = run[j].written[u]
      BY OnTop
    <2> QED
      BY <1>1, <1>4, <2>1
  <1>6. ASSUME run[j].alone PROVE CurrentRun(j)'
    <2>1. CurrentRun(j)
      BY <1>2, <1>6 DEF LoneRunsAreCurrent
    <2>2. \A u : FirstRule(u)' = FirstRule(u)
      BY <1>2, SameRules
    <2>3. Stale(j) = DOMAIN run[j].existing \ DOMAIN run[j].matched
      <3>1. \A t \in DOMAIN run[j].existing : t \in Txns
        BY <1>1, PartialFunctions DEF Running
      <3>2. \A t \in DOMAIN run[j].existing : IsOfRule(overrides[t])
        BY <1>2, <2>1, <3>1 DEF CurrentRun
      <3> QED
        BY <3>2 DEF Stale, Deletable
    <2>4. /\ \A u \in run[j].done : After(j, u)' = After(j, u)
          /\ \A u \in Stale(j) : After(j, u)' = None
      BY <1>2, <1>3, <1>5, <2>3 DEF After
    <2>5. /\ \A u \in Txns : u \in run'[j].eligible <=> u \in run'[j].ids /\ ~IsManual(overrides'[u])
          /\ \A u \in Txns :
                 u \in DOMAIN run'[j].matched <=> u \in run'[j].eligible /\ FirstRule(u)' # None
          /\ \A u \in DOMAIN run'[j].matched :
                 /\ run'[j].matched[u].rule = FirstRule(u)'
                 /\ run'[j].matched[u].target = rules'[FirstRule(u)'].target
      BY <1>1, <1>2, <1>3, <2>1, <2>2 DEF CurrentRun
    <2>6. /\ \A u \in Txns :
                 u \in DOMAIN run'[j].existing <=> u \in run'[j].eligible /\ IsOfRule(overrides'[u])
          /\ \A u \in DOMAIN run'[j].existing : run'[j].existing[u] = overrides'[u]
      BY <1>1, <1>2, <1>3, <2>1 DEF CurrentRun
    <2>7. /\ \A u \in run'[j].done :
                 /\ u \in DOMAIN run'[j].matched
                 /\ After(j, u)' # None
                 /\ After(j, u)'.rule = run'[j].matched[u].rule
                 /\ After(j, u)'.target = run'[j].matched[u].target
          /\ \A u \in DOMAIN run'[j].written :
                 u \in run'[j].done \/ u \in DOMAIN run'[j].existing
          /\ run'[j].done = DOMAIN run'[j].matched
          /\ \A u \in DOMAIN run'[j].existing \ DOMAIN run'[j].matched : After(j, u)' = None
      BY <1>1, <1>2, <1>3, <1>5, <2>1, <2>3, <2>4 DEF CurrentRun
    <2> QED
      BY <1>1, <1>3, <2>5, <2>6, <2>7 DEF CurrentRun
  <1> QED
    BY <1>1, <1>2, <1>6, OthersStayCurrent

\* A commit that changes a row ends the loneliness of all others; one that changes none is a read.
LEMMA CommitKeepsCurrent ==
    ASSUME CatTypeOK, LoneRunsAreCurrent, NEW j \in Runs, CommitRun(j)
    PROVE  LoneRunsAreCurrent'
  <1> DEFINE others == IF run[j].written = <<>> THEN {} ELSE Runs \ {j}
  <1>1. rules' = rules /\ run' = [Disturbed(others) EXCEPT ![j] = Idle]
        /\ overrides' = [t \in Txns |-> After(j, t)]
    BY DEF CommitRun
  <1>2. others \in SUBSET Runs
    OBVIOUS
  <1>3. Disturbed(others) \in [Runs -> Running \cup {Idle}]
    BY <1>2, DisturbedRuns
  <1>4. run'[j] = Idle /\ \A i \in Runs \ {j} : run'[i] = Disturbed(others)[i]
    BY <1>1, <1>3
  <1>5. CASE run[j].written = <<>>
    <2>1. DOMAIN run[j].written = {}
      BY <1>5, BlankIsPartial
    <2>2. \A t \in Txns : After(j, t) = overrides[t]
      BY <2>1 DEF After
    <2>3. overrides' = overrides
      BY <1>1, <2>2 DEF CatTypeOK
    <2>4. \A i \in Runs \ {j} : run'[i] = run[i]
      BY <1>2, <1>4, <1>5, DisturbedRuns
    <2> QED
      BY <1>1, <1>4, <2>3, <2>4, CurrentStays DEF LoneRunsAreCurrent
  <1>6. CASE run[j].written # <<>>
    <2>1. \A i \in Runs \ {j} : run'[i] # Idle => ~run'[i].alone
      BY <1>2, <1>4, <1>6, DisturbedRuns
    <2> QED
      BY <1>4, <2>1 DEF LoneRunsAreCurrent
  <1> QED
    BY <1>5, <1>6

\* Each step of a run's leaves the lone runs current.
LEMMA RunsKeepCurrent ==
    ASSUME CatTypeOK, LoneRunsAreCurrent, NEW j \in Runs,
           \/ \E ids \in (SUBSET Txns) \ {{}} : Begin(j, ids)
           \/ ReadMatches(j) \/ ReadExisting(j) \/ DeleteStale(j) \/ CommitRun(j) \/ FailRun(j)
           \/ \E t \in Txns : Write(j, t)
    PROVE  LoneRunsAreCurrent'
  <1>1. CASE FailRun(j)
    BY <1>1, OthersStayCurrent DEF FailRun
  <1> QED
    BY <1>1, BeginIsCurrent, ReadMatchesIsCurrent, ReadExistingIsCurrent, WriteIsCurrent,
       DeleteStaleIsCurrent, CommitKeepsCurrent

\* What is written and what is left say what the rules do.
LEMMA CurrentRunsSettle ==
    ASSUME CatTypeOK, LoneRunsAreCurrent
    PROVE  RulesSettle
  <1> SUFFICES ASSUME NEW j \in Runs, run[j] # Idle, run[j].pc = "commit", run[j].alone,
                      NEW t \in run[j].ids
               PROVE  /\ Says(After(j, t), t)
                      /\ IsManual(overrides[t]) => After(j, t) = overrides[t]
    BY DEF RulesSettle
  <1>1. run[j] \in Running /\ CurrentRun(j)
    BY RunsAreRecords DEF LoneRunsAreCurrent
  <1>2. t \in Txns
    BY <1>1 DEF Running
  <1>3. t \in DOMAIN run[j].written => t \in run[j].eligible
    BY <1>1, <1>2 DEF CurrentRun
  <1>4. CASE IsManual(overrides[t])
    <2>1. t \notin run[j].eligible
      BY <1>1, <1>2, <1>4 DEF CurrentRun
    <2>2. After(j, t) = overrides[t]
      BY <1>3, <2>1 DEF After
    <2> QED
      BY <1>4, <2>2 DEF Says
  <1>5. CASE ~IsManual(overrides[t])
    <2>1. t \in run[j].eligible
      BY <1>1, <1>2, <1>5 DEF CurrentRun
    <2>2. CASE FirstRule(t) # None
      <3>1. /\ After(j, t) # None
            /\ After(j, t).rule = FirstRule(t)
            /\ After(j, t).target = rules[FirstRule(t)].target
        BY <1>1, <1>2, <2>1, <2>2 DEF CurrentRun
      <3>2. Active(t) # {}
        BY <1>2, <2>2, NoneIsNoRule
      <3>3. FirstRule(t) \in Active(t) /\ \A q \in Active(t) : Precedes(FirstRule(t), q)
        BY <1>2, <3>2, RankHasAFirst
      <3>4. IsOfRule(After(j, t))
        BY <2>2, <3>1 DEF IsOfRule
      <3>5. \A q \in Active(t) \cup {FirstRule(t)} :
                q \in Nat /\ rules[q].priority \in Nat
        <4>1. \A q \in Active(t) : q \in Rules /\ rules[q] \in Rule
          BY DEF Active, CatTypeOK
        <4>2. \A q \in Active(t) : q \in Nat
          BY <4>1, RulesAssumption
        <4>3. \A q \in Active(t) : rules[q].priority \in Nat
          BY <4>1 DEF Rule, Priorities
        <4> QED
          BY <3>3, <4>2, <4>3
      <3>6. \A q \in Active(t) :
                \/ rules[q].priority > rules[FirstRule(t)].priority
                \/ rules[q].priority = rules[FirstRule(t)].priority /\ q >= FirstRule(t)
        BY <3>3, <3>5 DEF Precedes
      <3> QED
        BY <1>5, <3>1, <3>3, <3>4, <3>6 DEF Says
    <2>3. CASE FirstRule(t) = None
      <3>1. Active(t) = {}
        BY <1>2, <2>3, NoneIsNoRule
      <3>2. t \notin DOMAIN run[j].matched /\ t \notin run[j].done
        BY <1>1, <1>2, <2>3 DEF CurrentRun
      <3>3. After(j, t) = None
        <4>1. CASE t \in DOMAIN run[j].existing
          BY <1>1, <3>2, <4>1 DEF CurrentRun
        <4>2. CASE t \notin DOMAIN run[j].existing
          <5>1. t \notin DOMAIN run[j].written /\ ~IsOfRule(overrides[t])
            BY <1>1, <1>2, <2>1, <3>2, <4>2 DEF CurrentRun
          <5> QED
            BY <1>5, <5>1 DEF After, IsOfRule, IsManual
        <4> QED
          BY <4>1, <4>2
      <3> QED
        BY <1>5, <3>1, <3>3 DEF Says
    <2> QED
      BY <2>2, <2>3
  <1> QED
    BY <1>4, <1>5

\* A rule run during which nothing else was committed leaves every transaction it was given as
\* the rules in force say, and no row of the user's touched (category_engine.apply_rules), for
\* any rules, transactions and overlapping runs: what it read at each statement is still so.
THEOREM RulesAlwaysSettle == CatSpec => []RulesSettle
  <1>1. CatInit => LoneRunsAreCurrent
    BY DEF CatInit, LoneRunsAreCurrent
  <1>2. CatTypeOK /\ LoneRunsAreCurrent /\ [CatNext]_catVars => LoneRunsAreCurrent'
    <2> SUFFICES ASSUME CatTypeOK, LoneRunsAreCurrent, [CatNext]_catVars
                 PROVE  LoneRunsAreCurrent'
      OBVIOUS
    <2>1. CASE UNCHANGED catVars
      BY <2>1, CurrentStays DEF catVars, LoneRunsAreCurrent
    <2>2. CASE CatNext
      BY <2>2, UserKeepsCurrent, RunsKeepCurrent DEF CatNext
    <2> QED
      BY <2>1, <2>2
  <1>3. CatTypeOK /\ LoneRunsAreCurrent => RulesSettle
    BY CurrentRunsSettle
  <1> QED
    BY <1>1, <1>2, <1>3, CategoriesTypeCorrect, PTL DEF CatSpec

(***************************************************************************)
(* PositionUploads: what an account's days hold is what its uploads state. *)
(* The locks do not matter for it: who imports replaces the day of its     *)
(* broker account in one commit, and the one broker account an account may *)
(* have by the premise has been its only one from the first commit on.     *)
(***************************************************************************)

Statuses == {"PROCESSING", "IMPORTED", "FAILED"}
Places == {"idle", "lock", "connect", "reconnect", "hold", "newHold", "record",
           "next", "link", "newLink"}
Writes(c) == doing[c] \in {"next", "link", "newLink"}

\* What the variables hold
Transaction(t) ==
    t = [job |-> t.job, mine |-> t.mine, conn |-> t.conn, next |-> t.next,
         written |-> t.written, evidence |-> t.evidence]
UploadsTypeOK ==
    /\ jobs \in Seq([file : Uploads, status : Statuses])
    /\ order \in Seq(Nat)
    /\ doing \in [Uploaders -> Places]
    /\ tx = [c \in Uploaders |-> tx[c]] /\ \A c \in Uploaders : Transaction(tx[c])

\* A request that is under way has a job to itself, which has not ended; ...
OneJobEach ==
    /\ \A c \in Uploaders : doing[c] # "idle" =>
           tx[c].job \in DOMAIN jobs /\ jobs[tx[c].job].status = "PROCESSING"
    /\ \A c, d \in Uploaders : doing[c] # "idle" /\ doing[d] # "idle" /\ tx[c].job = tx[d].job => c = d

\* ... and what is committed is of jobs that have.
Ended ==
    /\ \A i \in DOMAIN order : order[i] \in DOMAIN jobs /\ jobs[order[i]].status = "IMPORTED"
    /\ \A x \in positions \cup complete :
           x.job \in DOMAIN jobs /\ jobs[x.job].status = "IMPORTED"
    /\ \A r \in runs :
           /\ r.job \in DOMAIN jobs /\ jobs[r.job].status # "PROCESSING"
           /\ (r.status = "completed") <=> (jobs[r.job].status = "IMPORTED")

\* Of two sets of things, the second has the assets of the first one's instruments.
HasAssets(S, T) == \A x \in S : x[1] = "instrument" => Asset(x[2]) \in T

\* A transaction has its broker account, the instruments of what it wrote and their assets, ...
Linked(c) ==
    /\ Writes(c) => Holder(tx[c].conn, Account(c)) \in tx[c].mine
    /\ \A s \in tx[c].written : Instrument(s) \in tx[c].mine
    /\ HasAssets(tx[c].mine, Visible(c))
    /\ doing[c] = "newLink" => Asset(tx[c].next) \in Visible(c)

Same(x, y) == x.conn = y.conn /\ x.account = y.account /\ x.date = y.date

\* ... and so have the positions, which are as their files say; a broker account's day has one
\* completeness, that of its positions.
AsStated ==
    /\ HasAssets(stored, stored)
    /\ \A x \in positions :
           /\ {Holder(x.conn, x.account), Instrument(x.symbol)} \subseteq stored
           /\ x.account = jobs[x.job].file.account /\ x.date = jobs[x.job].file.date
           /\ x.symbol \in jobs[x.job].file.symbols
    /\ \A x \in positions : \E y \in complete : Same(x, y) /\ y.job = x.job /\ y.holdings
    /\ \A y \in complete : y.holdings => \E x \in positions : Same(x, y)
    /\ \A x, y \in complete : Same(x, y) => x = y

\* The commits of an account's day, and the last of them
OfDay(a, d) == {i \in DOMAIN order : LET f == jobs[order[i]].file
                                     IN  f.account = a /\ f.date = d}
IsLast(i) ==
    /\ i \in DOMAIN order
    /\ \A k \in OfDay(jobs[order[i]].file.account, jobs[order[i]].file.date) : k <= i

\* What the last upload of an account's day states is there, and no other position of the day,
\* unless the account has two broker accounts.
LastIsStored ==
    /\ \A i \in DOMAIN order : IsLast(i) =>
           \A s \in jobs[order[i]].file.symbols :
               \E x \in positions : x.job = order[i] /\ x.symbol = s
    /\ \A x \in positions : OneHolder(x.account) =>
           \E i \in DOMAIN order : order[i] = x.job /\ IsLast(i)

UploadsInv ==
    /\ UploadsTypeOK
    /\ OneJobEach /\ Ended
    /\ \A c \in Uploaders : Linked(c)
    /\ AsStated /\ LastIsStored

\* What client c does in a step
UploadStep(c) ==
    \/ \E file \in Uploads : Send(c, file)
    \/ OwnAccount(c) \/ Connect(c) \/ Reconnect(c) \/ Hold(c) \/ NewHold(c)
    \/ \E s : NextPosition(c, s)
    \/ LinkInstrument(c) \/ NewInstrument(c)
    \/ Import(c) \/ FailStatement(c) \/ Refuse(c) \/ Raise(c) \/ Record(c)
    \/ Die(c)

\* Every step is a client's.
LEMMA UploadStepsAreOfOne ==
    ASSUME UploadsNext
    PROVE  \E c \in Uploaders : UploadStep(c)
  BY DEF UploadsNext, UploadStep

\* A job's status is set, and nothing else of any job.
LEMMA StatusIsSet ==
    ASSUME UploadsTypeOK, NEW c \in Uploaders, tx[c].job \in DOMAIN jobs,
           NEW status \in Statuses, Status(c, status)
    PROVE  /\ jobs' \in Seq([file : Uploads, status : Statuses])
           /\ DOMAIN jobs' = DOMAIN jobs
           /\ jobs'[tx[c].job].status = status
           /\ \A j \in DOMAIN jobs : jobs'[j].file = jobs[j].file
           /\ \A j \in DOMAIN jobs : j # tx[c].job => jobs'[j] = jobs[j]
  <1> DEFINE Job == [file : Uploads, status : Statuses]
             j == tx[c].job
             changed == [jobs[j] EXCEPT !.status = status]
  <1>0. jobs \in Seq(Job)
    BY DEF UploadsTypeOK
  <1>1. jobs \in [1 .. Len(jobs) -> Job] /\ Len(jobs) \in Nat
    <2> HIDE DEF Job
    <2> QED
      BY <1>0
  <1>2. j \in 1 .. Len(jobs)
    BY <1>1
  <1>3. changed \in Job /\ changed.status = status /\ changed.file = jobs[j].file
    BY <1>1, <1>2
  <1>4. jobs' = [jobs EXCEPT ![j] = changed]
    BY DEF Status
  <1> HIDE DEF Job, changed
  <1>5. jobs' \in [1 .. Len(jobs) -> Job]
    BY <1>1, <1>3, <1>4
  <1>6. jobs' \in Seq(Job)
    BY <1>1, <1>5
  <1>7. /\ DOMAIN jobs' = DOMAIN jobs /\ jobs'[j] = changed
        /\ \A k \in DOMAIN jobs : k # j => jobs'[k] = jobs[k]
    BY <1>1, <1>2, <1>4
  <1> QED
    BY <1>3, <1>6, <1>7 DEF Job

\* An upload sent is the last of the jobs.
LEMMA SentIsLast ==
    ASSUME UploadsTypeOK, NEW c \in Uploaders, NEW file \in Uploads, Send(c, file)
    PROVE  /\ jobs' \in Seq([file : Uploads, status : Statuses])
           /\ DOMAIN jobs' = DOMAIN jobs \cup {tx'[c].job}
           /\ tx'[c].job \notin DOMAIN jobs
           /\ tx'[c] = [NoUpload EXCEPT !.job = Len(jobs) + 1]
           /\ jobs'[tx'[c].job] = [file |-> file, status |-> "PROCESSING"]
           /\ \A j \in DOMAIN jobs : jobs'[j] = jobs[j]
  <1> DEFINE job == [file |-> file, status |-> "PROCESSING"]
  <1>1. jobs \in Seq([file : Uploads, status : Statuses]) /\ job \in [file : Uploads, status : Statuses]
    BY DEF UploadsTypeOK, Statuses
  <1>2. jobs' = Append(jobs, job)
    BY DEF Send
  <1>3. tx'[c] = [NoUpload EXCEPT !.job = Len(jobs) + 1]
    BY DEF UploadsTypeOK, Send
  <1>4. tx'[c].job = Len(jobs) + 1
    BY <1>3 DEF NoUpload
  <1> HIDE DEF job
  <1>5. /\ jobs' \in Seq([file : Uploads, status : Statuses])
        /\ DOMAIN jobs' = 1 .. Len(jobs) + 1 /\ DOMAIN jobs = 1 .. Len(jobs) /\ Len(jobs) \in Nat
        /\ jobs'[Len(jobs) + 1] = job
        /\ \A j \in DOMAIN jobs : jobs'[j] = jobs[j]
    BY <1>1, <1>2
  <1> QED
    BY <1>3, <1>4, <1>5 DEF job

\* A transaction that has more, or has written more, is one.
LEMMA ChangedTransaction ==
    ASSUME NEW t, Transaction(t), NEW m, NEW w
    PROVE  Transaction([t EXCEPT !.mine = m, !.written = w])
  <1> DEFINE u == [t EXCEPT !.mine = m]
  <1>1. Transaction(u)
    BY DEF Transaction
  <1>2. Transaction([u EXCEPT !.written = w])
    <2> HIDE DEF u
    <2> QED
      BY <1>1 DEF Transaction
  <1> QED
    BY <1>2

\* A step is of one client's transaction.
LEMMA OthersStay ==
    ASSUME UploadsTypeOK, NEW c \in Uploaders, UploadStep(c)
    PROVE  /\ \A d \in Uploaders : d # c => tx'[d] = tx[d] /\ doing'[d] = doing[d]
           /\ tx' = [d \in Uploaders |-> tx'[d]] /\ Transaction(tx'[c])
           /\ doing' \in [Uploaders -> Places]
  <1>1. \E where \in Places : Go(c, where)
    BY DEF UploadStep, Send, OwnAccount, Connect, Reconnect, Hold, NewHold, NextPosition,
           LinkInstrument, NewInstrument, Import, FailStatement, Refuse, Raise, Record, Die,
           EndFailed, AfterHold, Leave, Places
  <1>2. /\ doing' \in [Uploaders -> Places]
        /\ \A d \in Uploaders : d # c => doing'[d] = doing[d]
    BY <1>1 DEF UploadsTypeOK, Go
  <1>3. \E t : Transaction(t) /\ tx' = [tx EXCEPT ![c] = t]
    <2>1. Transaction(tx[c])
      BY DEF UploadsTypeOK
    <2>2. CASE \E things : Take(c, things)
      BY <2>1, <2>2 DEF Take, Transaction
    <2>3. CASE Leave(c)
      BY <2>3 DEF Leave, Transaction, NoUpload
    <2>4. CASE UNCHANGED tx
      <3>1. tx' = [tx EXCEPT ![c] = tx[c]]
        BY <2>4 DEF UploadsTypeOK
      <3> QED
        BY <2>1, <3>1
    <2>5. CASE Written(c)
      <3>1. tx' = [tx EXCEPT ![c] = [tx[c] EXCEPT !.mine = @ \cup Wanted(c),
                                                  !.written = @ \cup {tx[c].next}]]
        BY <2>1, <2>5 DEF Written, Transaction, UploadsTypeOK
      <3> DEFINE t == [tx[c] EXCEPT !.mine = @ \cup Wanted(c), !.written = @ \cup {tx[c].next}]
      <3>2. Transaction(t)
        BY <2>1, ChangedTransaction
      <3> QED
        BY <3>1, <3>2
    <2>6. CASE \E file \in Uploads : Send(c, file)
      BY <2>6 DEF Send, Transaction, NoUpload
    <2>7. CASE Raise(c)
      <3> DEFINE t == [NoUpload EXCEPT !.job = tx[c].job, !.evidence = TRUE]
      <3>1. Transaction(NoUpload)
        BY DEF Transaction, NoUpload
      <3> DEFINE u == [NoUpload EXCEPT !.job = tx[c].job]
      <3>2. Transaction(u)
        BY <3>1 DEF Transaction
      <3>3. Transaction([u EXCEPT !.evidence = TRUE])
        <4> HIDE DEF u
        <4>1. \A e : Transaction([u EXCEPT !.evidence = e])
          BY <3>2 DEF Transaction
        <4> QED
          BY <4>1
      <3> QED
        BY <2>7, <3>3 DEF Raise
    <2>8. CASE Connect(c) \/ Reconnect(c) \/ \E s : NextPosition(c, s)
      BY <2>1, <2>8 DEF Connect, Reconnect, NextPosition, Take, Transaction
    <2> QED
      BY <2>2, <2>3, <2>4, <2>5, <2>6, <2>7, <2>8
         DEF UploadStep, OwnAccount, Hold, NewHold, LinkInstrument, NewInstrument, Import,
             FailStatement, Refuse, Record, Die, EndFailed
  <1> QED
    BY <1>2, <1>3 DEF UploadsTypeOK

\* A request sends an upload, goes on with it, or ends; ...
GoesOn(c) ==
    /\ doing[c] # "idle" /\ doing'[c] # "idle" /\ tx'[c].job = tx[c].job
    /\ UNCHANGED <<jobs, stored, positions, complete, runs, order>>
Ends(c) ==
    /\ doing[c] # "idle" /\ doing'[c] = "idle" /\ tx'[c] = NoUpload
    /\ \/ UNCHANGED jobs
       \/ \E status \in Statuses \ {"PROCESSING"} : Status(c, status)

LEMMA StepKinds ==
    ASSUME UploadsTypeOK, NEW c \in Uploaders, UploadStep(c)
    PROVE  (\E file \in Uploads : Send(c, file)) \/ GoesOn(c) \/ Ends(c)
  <1>2. Transaction(tx[c]) /\ tx = [d \in Uploaders |-> tx[d]]
    BY DEF UploadsTypeOK
  <1>3. ASSUME \/ OwnAccount(c) \/ Connect(c) \/ Reconnect(c) \/ Hold(c) \/ NewHold(c)
               \/ \E s : NextPosition(c, s)
               \/ LinkInstrument(c) \/ NewInstrument(c)
        PROVE  GoesOn(c)
    <2>1. doing[c] # "idle" /\ UNCHANGED <<jobs, stored, positions, complete, runs, order>>
      BY <1>3 DEF OwnAccount, Connect, Reconnect, Hold, NewHold, NextPosition, LinkInstrument,
                  NewInstrument, Keeps, Stays
    <2>2. doing'[c] # "idle"
      BY <1>3 DEF OwnAccount, Connect, Reconnect, Hold, NewHold, NextPosition, LinkInstrument,
                  NewInstrument, AfterHold, Go, UploadsTypeOK
    <2>3. tx'[c].job = tx[c].job
      <3>1. CASE \E things : Take(c, things)
        BY <1>2, <3>1 DEF Take, Transaction
      <3>2. CASE UNCHANGED tx
        BY <3>2
      <3>3. CASE Written(c)
        BY <1>2, <3>3 DEF Written, Transaction
      <3>4. CASE Connect(c) \/ Reconnect(c) \/ \E s : NextPosition(c, s)
        BY <1>2, <3>4 DEF Connect, Reconnect, NextPosition, Take, Transaction
      <3> QED
        BY <1>3, <3>1, <3>2, <3>3, <3>4
           DEF OwnAccount, Hold, NewHold, LinkInstrument, NewInstrument
    <2> QED
      BY <2>1, <2>2, <2>3 DEF GoesOn
  <1>4. CASE Raise(c)
    <2>1. tx'[c] = [NoUpload EXCEPT !.job = tx[c].job, !.evidence = TRUE]
      BY <1>2, <1>4 DEF Raise
    <2>2. tx'[c].job = tx[c].job
      BY <2>1 DEF NoUpload
    <2> QED
      BY <1>4, <2>2 DEF Raise, GoesOn, Go, UploadsTypeOK
  <1>5. CASE Import(c) \/ FailStatement(c) \/ Refuse(c) \/ Record(c) \/ Die(c)
    <2>1. doing[c] # "idle" /\ Leave(c)
      <3>1. ASSUME Refuse(c) PROVE doing[c] # "idle"
        <4>1. ASSUME doing[c] = "idle" PROVE FALSE
          <5>1. Wanted(c) = {}
            BY <4>1 DEF Wanted
          <5>2. ~Deadlocked(c)
            BY <5>1 DEF Deadlocked, Waits
          <5> QED
            BY <3>1, <4>1, <5>2 DEF Refuse
        <4> QED
          BY <4>1
      <3> QED
        BY <1>5, <3>1 DEF Import, FailStatement, Refuse, Record, Die, EndFailed
    <2>2. UNCHANGED jobs \/ \E status \in Statuses \ {"PROCESSING"} : Status(c, status)
      BY <1>5 DEF Import, FailStatement, Refuse, Record, Die, EndFailed, Statuses
    <2> QED
      BY <1>2, <2>1, <2>2 DEF Ends, Leave, Go, UploadsTypeOK
  <1> QED
    BY <1>3, <1>4, <1>5 DEF UploadStep

\* ... what a job states never changes, nor how it ended, and the jobs of the others stay.
LEMMA JobsStay ==
    ASSUME UploadsTypeOK, OneJobEach, NEW c \in Uploaders, UploadStep(c)
    PROVE  /\ jobs' \in Seq([file : Uploads, status : Statuses])
           /\ DOMAIN jobs \subseteq DOMAIN jobs'
           /\ \A j \in DOMAIN jobs : jobs'[j].file = jobs[j].file
           /\ \A j \in DOMAIN jobs : jobs[j].status # "PROCESSING" => jobs'[j] = jobs[j]
           /\ \A d \in Uploaders : d # c /\ doing[d] # "idle" => jobs'[tx[d].job] = jobs[tx[d].job]
  <1>1. CASE \E file \in Uploads : Send(c, file)
    BY <1>1, SentIsLast DEF OneJobEach
  <1>2. CASE UNCHANGED jobs
    BY <1>2 DEF UploadsTypeOK
  <1>3. CASE Ends(c) /\ \E status \in Statuses : Status(c, status)
    <2>1. tx[c].job \in DOMAIN jobs /\ jobs[tx[c].job].status = "PROCESSING"
      BY <1>3 DEF Ends, OneJobEach
    <2>2. /\ jobs' \in Seq([file : Uploads, status : Statuses])
          /\ DOMAIN jobs' = DOMAIN jobs
          /\ \A j \in DOMAIN jobs : jobs'[j].file = jobs[j].file
          /\ \A j \in DOMAIN jobs : j # tx[c].job => jobs'[j] = jobs[j]
      BY <1>3, <2>1, StatusIsSet
    <2>3. \A d \in Uploaders : d # c /\ doing[d] # "idle" =>
              tx[d].job \in DOMAIN jobs /\ tx[d].job # tx[c].job
      BY <1>3 DEF Ends, OneJobEach
    <2> QED
      BY <2>1, <2>2, <2>3
  <1> QED
    BY <1>1, <1>2, <1>3, StepKinds DEF GoesOn, Ends

\* The variables keep their types, ...
LEMMA UploadsTypes ==
    ASSUME UploadsTypeOK, OneJobEach, [UploadsNext]_uploadVars
    PROVE  UploadsTypeOK'
  <1>1. CASE UNCHANGED uploadVars
    BY <1>1 DEF UploadsTypeOK, uploadVars, Transaction
  <1>2. ASSUME NEW c \in Uploaders, UploadStep(c) PROVE UploadsTypeOK'
    <2>1. order' \in Seq(Nat)
      <3>1. CASE UNCHANGED order
        BY <3>1 DEF UploadsTypeOK
      <3>2. CASE Import(c)
        <4>1. tx[c].job \in DOMAIN jobs
          BY <3>2 DEF Import, OneJobEach
        <4>2. tx[c].job \in Nat
          BY <4>1 DEF UploadsTypeOK
        <4> QED
          BY <3>2, <4>2 DEF Import, UploadsTypeOK
      <3> QED
        BY <1>2, <3>1, <3>2
           DEF UploadStep, Send, OwnAccount, Connect, Reconnect, Hold, NewHold, NextPosition,
               LinkInstrument, NewInstrument, FailStatement, Refuse, Raise, Record, Die,
               EndFailed, Keeps, Stays
    <2>2. \A d \in Uploaders : Transaction(tx[d])'
      <3> SUFFICES ASSUME NEW d \in Uploaders PROVE Transaction(tx'[d])
        BY DEF Transaction
      <3>1. Transaction(tx[d])
        BY DEF UploadsTypeOK
      <3> QED
        BY <1>2, <3>1, OthersStay
    <2> QED
      BY <1>2, <2>1, <2>2, JobsStay, OthersStay DEF UploadsTypeOK
  <1> QED
    BY <1>1, <1>2, UploadStepsAreOfOne

\* ... every request that is under way its job, ...
LEMMA OneJobEachStays ==
    ASSUME UploadsTypeOK, OneJobEach, [UploadsNext]_uploadVars
    PROVE  OneJobEach'
  <1>1. CASE UNCHANGED uploadVars
    BY <1>1 DEF OneJobEach, uploadVars
  <1>2. ASSUME NEW c \in Uploaders, UploadStep(c) PROVE OneJobEach'
    <2>1. \A d \in Uploaders : d # c => tx'[d] = tx[d] /\ doing'[d] = doing[d]
      BY <1>2, OthersStay
    <2>2. /\ DOMAIN jobs \subseteq DOMAIN jobs'
          /\ \A d \in Uploaders : d # c /\ doing[d] # "idle" => jobs'[tx[d].job] = jobs[tx[d].job]
      BY <1>2, JobsStay
    <2>3. CASE \E file \in Uploads : Send(c, file)
      <3>1. PICK file \in Uploads : Send(c, file)
        BY <2>3
      <3>2. /\ tx'[c].job \in DOMAIN jobs' /\ tx'[c].job \notin DOMAIN jobs
            /\ jobs'[tx'[c].job] = [file |-> file, status |-> "PROCESSING"]
        BY <3>1, SentIsLast
      <3>3. jobs'[tx'[c].job].status = "PROCESSING"
        BY <3>2
      <3> QED
        BY <2>1, <2>2, <3>2, <3>3 DEF OneJobEach
    <2>4. CASE GoesOn(c)
      BY <2>1, <2>4 DEF GoesOn, OneJobEach
    <2>5. CASE Ends(c)
      BY <2>1, <2>2, <2>5 DEF Ends, OneJobEach
    <2> QED
      BY <1>2, <2>3, <2>4, <2>5, StepKinds
  <1> QED
    BY <1>1, <1>2, UploadStepsAreOfOne

\* What is committed is by imports, or what a failed run is recorded with, and stays.
LEMMA CommitsAre ==
    ASSUME NEW c \in Uploaders, UploadStep(c)
    PROVE  /\ stored \subseteq stored' /\ runs \subseteq runs'
           /\ Import(c) \/ UNCHANGED <<positions, complete, order>>
           /\ Import(c) \/ Record(c) \/ UNCHANGED <<stored, runs>>
  BY DEF UploadStep, Send, OwnAccount, Connect, Reconnect, Hold, NewHold, NextPosition,
         LinkInstrument, NewInstrument, Import, FailStatement, Refuse, Raise, Record, Die,
         EndFailed, Keeps, Stays

\* An import's job is imported, and the last one of the order.
LEMMA ImportedIsLast ==
    ASSUME UploadsTypeOK, OneJobEach, NEW c \in Uploaders, Import(c)
    PROVE  /\ tx[c].job \in DOMAIN jobs /\ jobs[tx[c].job].status = "PROCESSING"
           /\ jobs'[tx[c].job].status = "IMPORTED"
           /\ DOMAIN order' = DOMAIN order \cup {Len(order) + 1}
           /\ order'[Len(order) + 1] = tx[c].job
           /\ \A i \in DOMAIN order : order'[i] = order[i]
           /\ Len(order) \in Nat /\ DOMAIN order = 1 .. Len(order)
  <1>1. tx[c].job \in DOMAIN jobs /\ jobs[tx[c].job].status = "PROCESSING"
    BY DEF Import, OneJobEach
  <1>2. jobs'[tx[c].job].status = "IMPORTED"
    BY <1>1, StatusIsSet DEF Import, Statuses
  <1> QED
    BY <1>1, <1>2 DEF UploadsTypeOK, Import

\* ... what is committed is of jobs that ended so, ...
LEMMA EndedStays ==
    ASSUME UploadsTypeOK, OneJobEach, Ended, [UploadsNext]_uploadVars
    PROVE  Ended'
  <1>1. CASE UNCHANGED uploadVars
    BY <1>1 DEF Ended, uploadVars
  <1>2. ASSUME NEW c \in Uploaders, UploadStep(c) PROVE Ended'
    <2>1. /\ DOMAIN jobs \subseteq DOMAIN jobs'
          /\ \A j \in DOMAIN jobs : jobs[j].status # "PROCESSING" => jobs'[j] = jobs[j]
      BY <1>2, JobsStay
    <2>2. CASE Import(c)
      <3>1. /\ tx[c].job \in DOMAIN jobs' /\ jobs'[tx[c].job].status = "IMPORTED"
            /\ DOMAIN order' = DOMAIN order \cup {Len(order) + 1}
            /\ order'[Len(order) + 1] = tx[c].job
            /\ \A i \in DOMAIN order : order'[i] = order[i]
        BY <2>1, <2>2, ImportedIsLast
      <3>2. \A i \in DOMAIN order' :
                order'[i] \in DOMAIN jobs' /\ jobs'[order'[i]].status = "IMPORTED"
        BY <2>1, <3>1 DEF Ended
      <3>3. \A x \in positions' \cup complete' :
                x \in positions \cup complete \/ x.job = tx[c].job
        BY <2>2 DEF Import, Position, Completeness
      <3>4. \A x \in positions' \cup complete' :
                x.job \in DOMAIN jobs' /\ jobs'[x.job].status = "IMPORTED"
        BY <2>1, <3>1, <3>3 DEF Ended
      <3>5. \A r \in runs' : r \in runs \/ (r.job = tx[c].job /\ r.status = "completed")
        BY <2>2 DEF Import, Run
      <3>6. \A r \in runs' :
                /\ r.job \in DOMAIN jobs' /\ jobs'[r.job].status # "PROCESSING"
                /\ (r.status = "completed") <=> (jobs'[r.job].status = "IMPORTED")
        <4> SUFFICES ASSUME NEW r \in runs'
                     PROVE  /\ r.job \in DOMAIN jobs' /\ jobs'[r.job].status # "PROCESSING"
                            /\ (r.status = "completed") <=> (jobs'[r.job].status = "IMPORTED")
          OBVIOUS
        <4>1. CASE r \in runs
          BY <2>1, <4>1 DEF Ended
        <4>2. CASE r.job = tx[c].job /\ r.status = "completed"
          BY <3>1, <4>2
        <4> QED
          BY <3>5, <4>1, <4>2
      <3> QED
        BY <3>2, <3>4, <3>6 DEF Ended
    <2>3. CASE Record(c)
      <3>1. tx[c].job \in DOMAIN jobs
        BY <2>3 DEF Record, OneJobEach
      <3>2. jobs'[tx[c].job].status = "FAILED"
        BY <2>3, <3>1, StatusIsSet DEF Record, Statuses
      <3>3. \A r \in runs' : r \in runs \/ (r.job = tx[c].job /\ r.status = "failed")
        BY <2>3 DEF Record, Run
      <3>4. UNCHANGED <<positions, complete, order>>
        BY <2>3 DEF Record
      <3>5. \A r \in runs' :
                /\ r.job \in DOMAIN jobs' /\ jobs'[r.job].status # "PROCESSING"
                /\ (r.status = "completed") <=> (jobs'[r.job].status = "IMPORTED")
        <4> SUFFICES ASSUME NEW r \in runs'
                     PROVE  /\ r.job \in DOMAIN jobs' /\ jobs'[r.job].status # "PROCESSING"
                            /\ (r.status = "completed") <=> (jobs'[r.job].status = "IMPORTED")
          OBVIOUS
        <4>1. CASE r \in runs
          BY <2>1, <4>1 DEF Ended
        <4>2. CASE r.job = tx[c].job /\ r.status = "failed"
          BY <2>1, <3>1, <3>2, <4>2
        <4> QED
          BY <3>3, <4>1, <4>2
      <3> QED
        BY <2>1, <3>4, <3>5 DEF Ended
    <2>4. CASE UNCHANGED <<positions, complete, order, runs>>
      BY <2>1, <2>4 DEF Ended
    <2> QED
      BY <1>2, <2>2, <2>3, <2>4, CommitsAre
  <1> QED
    BY <1>1, <1>2, UploadStepsAreOfOne

\* Things of different kinds differ.
LEMMA KindsDiffer ==
    ASSUME NEW a, NEW b, NEW n
    PROVE  /\ Lock(a)[1] = "lock" /\ Connection(n)[1] = "connection"
           /\ Holder(n, a)[1] = "holder" /\ Holder(n, a)[3] = a /\ Holder(n, a)[2] = n
           /\ Asset(a)[1] = "asset" /\ Asset(a)[2] = a
           /\ Instrument(a)[1] = "instrument" /\ Instrument(a)[2] = a
           /\ Holder(n, a) # Lock(b) /\ Asset(a) # Lock(b) /\ Instrument(a) # Lock(b)
  <1>1. /\ Lock(a)[1] = "lock" /\ Lock(b)[1] = "lock" /\ Connection(n)[1] = "connection"
        /\ Holder(n, a)[1] = "holder" /\ Holder(n, a)[3] = a /\ Holder(n, a)[2] = n
        /\ Asset(a)[1] = "asset" /\ Asset(a)[2] = a
        /\ Instrument(a)[1] = "instrument" /\ Instrument(a)[2] = a
    BY DEF Lock, Connection, Holder, Asset, Instrument
  <1> QED
    BY <1>1

\* What another client's transaction has stays linked, for what is committed stays.
LEMMA OthersStayLinked ==
    ASSUME UploadsTypeOK, OneJobEach, NEW c \in Uploaders, UploadStep(c),
           NEW d \in Uploaders, d # c, Linked(d)
    PROVE  Linked(d)'
  <1>1. tx'[d] = tx[d] /\ doing'[d] = doing[d] /\ stored \subseteq stored'
    BY OthersStay, CommitsAre
  <1>2. Writes(d) => tx[d].job \in DOMAIN jobs
    BY DEF Writes, OneJobEach
  <1>3. Writes(d) => Account(d)' = Account(d)
    BY <1>1, <1>2, JobsStay DEF Account, UploadOf
  <1> QED
    BY <1>1, <1>3 DEF Linked, Writes, HasAssets, Visible

\* So does the client's own, whatever it does.
LEMMA StaysLinked ==
    ASSUME UploadsTypeOK, OneJobEach, HasAssets(stored, stored),
           NEW c \in Uploaders, UploadStep(c), Linked(c)
    PROVE  Linked(c)'
  <1>1. Transaction(tx[c]) /\ tx = [d \in Uploaders |-> tx[d]] /\ doing \in [Uploaders -> Places]
    BY DEF UploadsTypeOK
  <1>2. CASE tx'[c].mine = {} /\ tx'[c].written = {} /\ doing'[c] \in {"idle", "lock", "connect"}
    BY <1>2 DEF Linked, Writes, HasAssets
  <1>3. CASE \E file \in Uploads : Send(c, file)
    <2>1. tx'[c] = [NoUpload EXCEPT !.job = Len(jobs) + 1] /\ doing'[c] = "lock"
      BY <1>1, <1>3 DEF Send, Go
    <2>2. tx'[c].mine = {} /\ tx'[c].written = {}
      BY <2>1 DEF NoUpload
    <2> QED
      BY <1>2, <2>1, <2>2
  <1>4. CASE Raise(c)
    <2>1. tx'[c] = [NoUpload EXCEPT !.job = tx[c].job, !.evidence = TRUE] /\ doing'[c] = "connect"
      BY <1>1, <1>4 DEF Raise, Go
    <2>2. tx'[c].mine = {} /\ tx'[c].written = {}
      BY <2>1 DEF NoUpload
    <2> QED
      BY <1>2, <2>1, <2>2
  <1>5. CASE Ends(c)
    <2>1. tx'[c].mine = {} /\ tx'[c].written = {}
      BY <1>5 DEF Ends, NoUpload
    <2> QED
      BY <1>2, <1>5, <2>1 DEF Ends
  <1>6. ASSUME tx[c].mine \subseteq tx'[c].mine,
               \A x \in tx'[c].mine : x \in tx[c].mine \/ x[1] # "instrument",
               tx'[c].written = tx[c].written, ~Writes(c)', UNCHANGED stored
        PROVE  Linked(c)'
    BY <1>6 DEF Linked, Writes, HasAssets, Visible
  <1>7. ASSUME NEW things, Take(c, things)
        PROVE  /\ tx'[c].mine = tx[c].mine \cup things /\ tx'[c].written = tx[c].written
               /\ tx'[c].conn = tx[c].conn /\ tx'[c].next = tx[c].next
               /\ tx'[c].job = tx[c].job
    <2>1. tx'[c] = [tx[c] EXCEPT !.mine = @ \cup things]
      BY <1>1, <1>7 DEF Take
    <2> QED
      BY <1>1, <2>1 DEF Transaction
  <1>8. CASE OwnAccount(c)
    <2>1. Wanted(c) = {Lock(Account(c))}
      BY <1>8 DEF OwnAccount, Wanted
    <2>2. ~Writes(c)' /\ UNCHANGED stored
      BY <1>1, <1>8 DEF OwnAccount, Go, Writes, Stays, Keeps
    <2> QED
      BY <1>6, <1>7, <1>8, <2>1, <2>2, KindsDiffer DEF OwnAccount
  <1>9. CASE Connect(c)
    <2>1. ~Writes(c)' /\ UNCHANGED stored
      BY <1>1, <1>9 DEF Connect, Go, Writes, Keeps
    <2>2. CASE Connections(c) = {}
      BY <1>6, <1>7, <1>9, <2>1, <2>2, KindsDiffer DEF Connect
    <2>3. CASE Connections(c) # {}
      <3>1. tx'[c].mine = tx[c].mine /\ tx'[c].written = tx[c].written
        BY <1>1, <1>9, <2>3 DEF Connect, Transaction
      <3> QED
        BY <1>6, <2>1, <3>1
    <2> QED
      BY <2>2, <2>3
  <1>10. CASE Reconnect(c)
    <2>1. ~Writes(c)' /\ UNCHANGED stored
      BY <1>1, <1>10 DEF Reconnect, Go, Writes, Stays, Keeps
    <2>2. tx'[c].mine = tx[c].mine /\ tx'[c].written = tx[c].written
      BY <1>1, <1>10 DEF Reconnect, Transaction
    <2> QED
      BY <1>6, <2>1, <2>2
  <1>11. CASE Hold(c) \/ NewHold(c)
    <2>1. Wanted(c) = {Holder(tx[c].conn, Account(c))} /\ UNCHANGED <<jobs, stored>>
      BY <1>11 DEF Hold, NewHold, Wanted, Stays, Keeps
    <2>2. CASE Take(c, Wanted(c)) /\ AfterHold(c)
      <3>1. doing'[c] \in {"record", "next"}
        BY <1>1, <2>2 DEF AfterHold, Go
      <3>2. Account(c)' = Account(c)
        BY <1>7, <2>1, <2>2 DEF Account, UploadOf
      <3>3. /\ Holder(tx'[c].conn, Account(c)') \in tx'[c].mine
            /\ tx'[c].written = tx[c].written /\ tx[c].mine \subseteq tx'[c].mine
        BY <1>7, <2>1, <2>2, <3>2
      <3>4. HasAssets(tx'[c].mine, stored \cup tx'[c].mine)
        BY <1>7, <2>1, <2>2, KindsDiffer DEF Linked, HasAssets, Visible
      <3> QED
        BY <2>1, <3>1, <3>3, <3>4 DEF Linked, Writes, Visible
    <2>3. CASE UNCHANGED tx /\ Go(c, "newHold")
      <3>1. ~Writes(c)' /\ tx' = tx
        BY <1>1, <2>3 DEF Go, Writes
      <3> QED
        BY <1>6, <2>1, <3>1
    <2> QED
      BY <1>11, <2>2, <2>3 DEF Hold, NewHold
  <1>12. CASE \E s : NextPosition(c, s)
    <2>1. /\ tx'[c].mine = tx[c].mine /\ tx'[c].written = tx[c].written
          /\ tx'[c].conn = tx[c].conn /\ tx'[c].job = tx[c].job
      BY <1>1, <1>12 DEF NextPosition, Transaction
    <2>2. doing'[c] = "link" /\ Writes(c) /\ UNCHANGED <<jobs, stored>>
      BY <1>1, <1>12 DEF NextPosition, Go, Writes, Stays, Keeps
    <2> QED
      BY <2>1, <2>2 DEF Linked, Account, UploadOf, Writes, Visible
  <1>13. ASSUME Written(c), Wanted(c) = {Instrument(tx[c].next)}, Go(c, "next"), Writes(c),
                Asset(tx[c].next) \in Visible(c), UNCHANGED <<jobs, stored>>
         PROVE  Linked(c)'
    <2>1. tx'[c] = [tx[c] EXCEPT !.mine = @ \cup Wanted(c), !.written = @ \cup {tx[c].next}]
      BY <1>1, <1>13 DEF Written
    <2>2. /\ tx'[c].mine = tx[c].mine \cup {Instrument(tx[c].next)}
          /\ tx'[c].written = tx[c].written \cup {tx[c].next}
          /\ tx'[c].conn = tx[c].conn /\ tx'[c].job = tx[c].job
      BY <1>1, <1>13, <2>1 DEF Transaction
    <2>3. HasAssets(tx'[c].mine, stored \cup tx'[c].mine)
      <3> SUFFICES ASSUME NEW x \in tx'[c].mine, x[1] = "instrument"
                   PROVE  Asset(x[2]) \in stored \cup tx'[c].mine
        BY DEF HasAssets
      <3>1. CASE x \in tx[c].mine
        BY <2>2, <3>1 DEF Linked, HasAssets, Visible
      <3>2. CASE x = Instrument(tx[c].next)
        BY <1>13, <2>2, <3>2, KindsDiffer DEF Visible
      <3> QED
        BY <2>2, <3>1, <3>2
    <2>4. \A s \in tx'[c].written : Instrument(s) \in tx'[c].mine
      BY <2>2 DEF Linked
    <2>5. doing'[c] = "next" /\ Account(c)' = Account(c)
      BY <1>1, <1>13, <2>2 DEF Go, Account, UploadOf
    <2> QED
      BY <1>13, <2>2, <2>3, <2>4, <2>5 DEF Linked, Visible
  <1>14. CASE LinkInstrument(c)
    <2>1. Writes(c) /\ UNCHANGED <<jobs, stored>>
      BY <1>14 DEF LinkInstrument, Writes, Stays, Keeps
    <2>2. Wanted(c) = ({Asset(tx[c].next)} \ Visible(c))
                      \cup ({Instrument(tx[c].next)} \cap Visible(c))
      BY <1>14 DEF LinkInstrument, Wanted
    <2>3. CASE Instrument(tx[c].next) \in Visible(c)
      <3>1. Asset(tx[c].next) \in Visible(c)
        BY <2>3, KindsDiffer DEF Visible, Linked, HasAssets
      <3>2. Wanted(c) = {Instrument(tx[c].next)}
        BY <2>2, <2>3, <3>1
      <3> QED
        BY <1>13, <1>14, <2>1, <2>3, <3>1, <3>2 DEF LinkInstrument
    <2>4. CASE Instrument(tx[c].next) \notin Visible(c)
      <3>1. Take(c, Wanted(c)) /\ doing'[c] = "newLink"
        BY <1>1, <1>14, <2>4 DEF LinkInstrument, Go
      <3>2. Wanted(c) = {Asset(tx[c].next)} \ Visible(c)
        BY <2>2, <2>4
      <3>3. /\ tx'[c].mine = tx[c].mine \cup Wanted(c) /\ tx'[c].written = tx[c].written
            /\ tx'[c].conn = tx[c].conn /\ tx'[c].next = tx[c].next
            /\ Account(c)' = Account(c)
        BY <1>7, <2>1, <3>1 DEF Account, UploadOf
      <3>4. HasAssets(tx'[c].mine, stored \cup tx'[c].mine)
        BY <3>2, <3>3, KindsDiffer DEF Linked, HasAssets, Visible
      <3>5. Asset(tx[c].next) \in stored \cup tx'[c].mine
        BY <3>2, <3>3 DEF Visible
      <3> QED
        BY <2>1, <3>1, <3>3, <3>4, <3>5 DEF Linked, Visible
    <2> QED
      BY <2>3, <2>4
  <1>15. CASE NewInstrument(c)
    <2>1. Wanted(c) = {Instrument(tx[c].next)}
      BY <1>15 DEF NewInstrument, Wanted
    <2>2. Asset(tx[c].next) \in Visible(c)
      BY <1>15 DEF NewInstrument, Linked
    <2>3. Writes(c) /\ UNCHANGED <<jobs, stored>>
      BY <1>15 DEF NewInstrument, Writes, Stays, Keeps
    <2> QED
      BY <1>13, <1>15, <2>1, <2>2, <2>3 DEF NewInstrument
  <1>16. Ends(c) \/ GoesOn(c) \/ \E file \in Uploads : Send(c, file)
    BY StepKinds
  <1>17. ASSUME Import(c) \/ FailStatement(c) \/ Refuse(c) \/ Record(c) \/ Die(c)
         PROVE  Ends(c)
    <2>1. doing'[c] = "idle"
      BY <1>1, <1>17 DEF Import, FailStatement, Refuse, Record, Die, EndFailed, Leave, Go
    <2>2. \A file \in Uploads : ~Send(c, file)
      BY <1>1, <2>1 DEF Send, Go
    <2> QED
      BY <1>16, <2>1, <2>2 DEF GoesOn
  <1> QED
    BY <1>3, <1>4, <1>5, <1>8, <1>9, <1>10, <1>11, <1>12, <1>14, <1>15, <1>17 DEF UploadStep

\* ... what transactions have is linked, ...
LEMMA LinkedStays ==
    ASSUME UploadsTypeOK, OneJobEach, HasAssets(stored, stored),
           \A c \in Uploaders : Linked(c), [UploadsNext]_uploadVars
    PROVE  \A c \in Uploaders : Linked(c)'
  <1>1. CASE UNCHANGED uploadVars
    BY <1>1 DEF Linked, Writes, Account, UploadOf, Visible, HasAssets, uploadVars
  <1>2. ASSUME NEW c \in Uploaders, UploadStep(c) PROVE \A d \in Uploaders : Linked(d)'
    BY <1>2, StaysLinked, OthersStayLinked
  <1> QED
    BY <1>1, <1>2, UploadStepsAreOfOne

\* Instruments are committed with their assets, or after them.
LEMMA AssetsAreCommitted ==
    ASSUME HasAssets(stored, stored), NEW c \in Uploaders, HasAssets(tx[c].mine, Visible(c)),
           UploadStep(c)
    PROVE  HasAssets(stored', stored')
  <1>1. CASE Import(c)
    BY <1>1, KindsDiffer DEF Import, Kept, HasAssets, Visible
  <1>2. CASE Record(c)
    BY <1>2 DEF Record, HasAssets, Visible
  <1> QED
    BY <1>1, <1>2, CommitsAre

\* The import replaces its broker account's day, and nothing else.
LEMMA ImportReplacesADay ==
    ASSUME NEW c \in Uploaders, Import(c)
    PROVE  /\ \A x \in positions' : \/ x \in positions /\ ~Same(x, Completeness(c))
                                    \/ \E s \in tx[c].written : x = Position(c, s)
           /\ \A x \in positions : ~Same(x, Completeness(c)) => x \in positions'
           /\ \A s \in tx[c].written : Position(c, s) \in positions'
           /\ \A y \in complete' : \/ y \in complete /\ ~Same(y, Completeness(c))
                                   \/ y = Completeness(c)
           /\ \A y \in complete : ~Same(y, Completeness(c)) => y \in complete'
           /\ Completeness(c) \in complete'
           /\ \A s : Same(Position(c, s), Completeness(c))
  <1>1. \A x : Same(x, Completeness(c)) <=>
            x.conn = tx[c].conn /\ x.account = Account(c) /\ x.date = UploadOf(c).date
    BY DEF Same, Completeness
  <1>2. \A x \in positions : x \in Cleared(c, positions) <=> Same(x, Completeness(c))
    BY <1>1 DEF Cleared
  <1>3. \A y \in complete : Same(y, Completeness(c)) <=>
            <<y.conn, y.account, y.date>> = <<tx[c].conn, Account(c), UploadOf(c).date>>
    BY <1>1
  <1>4. \A s : Same(Position(c, s), Completeness(c))
    BY <1>1 DEF Position
  <1> QED
    BY <1>2, <1>3, <1>4 DEF Import

\* ... positions are as their files say and complete where they are, ...
LEMMA AsStatedStays ==
    ASSUME UploadsTypeOK, OneJobEach, Ended, AsStated, \A c \in Uploaders : Linked(c),
           [UploadsNext]_uploadVars
    PROVE  AsStated'
  <1>1. CASE UNCHANGED uploadVars
    BY <1>1 DEF AsStated, HasAssets, uploadVars
  <1>2. ASSUME NEW c \in Uploaders, UploadStep(c) PROVE AsStated'
    <2>1. HasAssets(stored', stored') /\ stored \subseteq stored'
      BY <1>2, AssetsAreCommitted, CommitsAre DEF AsStated, Linked
    <2>2. /\ DOMAIN jobs \subseteq DOMAIN jobs'
          /\ \A j \in DOMAIN jobs : jobs'[j].file = jobs[j].file
      BY <1>2, JobsStay
    <2>3. \A x \in positions :
              /\ {Holder(x.conn, x.account), Instrument(x.symbol)} \subseteq stored'
              /\ x.account = jobs'[x.job].file.account /\ x.date = jobs'[x.job].file.date
              /\ x.symbol \in jobs'[x.job].file.symbols
      BY <2>1, <2>2 DEF AsStated, Ended
    <2>4. CASE UNCHANGED <<positions, complete>>
      BY <2>1, <2>3, <2>4 DEF AsStated, HasAssets
    <2>5. CASE Import(c)
      <3> DEFINE new == Completeness(c)
      <3>1. /\ \A x \in positions' : \/ x \in positions /\ ~Same(x, new)
                                     \/ \E s \in tx[c].written : x = Position(c, s)
            /\ \A x \in positions : ~Same(x, new) => x \in positions'
            /\ \A s \in tx[c].written : Position(c, s) \in positions'
            /\ \A y \in complete' : \/ y \in complete /\ ~Same(y, new)
                                    \/ y = new
            /\ \A y \in complete : ~Same(y, new) => y \in complete'
            /\ new \in complete'
            /\ \A s : Same(Position(c, s), new)
        BY <2>5, ImportReplacesADay
      <3>2. new.job = tx[c].job /\ new.holdings = (tx[c].written # {})
        BY DEF Completeness
      <3>3. \A s \in tx[c].written :
                /\ {Holder(tx[c].conn, Account(c)), Instrument(s)} \subseteq stored'
                /\ s \in jobs'[tx[c].job].file.symbols
        <4>1. Writes(c) /\ tx[c].written = UploadOf(c).symbols
          BY <2>5 DEF Import, Writes
        <4>2. jobs'[tx[c].job].file = UploadOf(c)
          BY <2>2, <2>5, ImportedIsLast DEF UploadOf
        <4>3. Holder(tx[c].conn, Account(c)) \in tx[c].mine
              /\ \A s \in tx[c].written : Instrument(s) \in tx[c].mine
          BY <4>1 DEF Linked
        <4>4. stored' = stored \cup (tx[c].mine \ {Lock(Account(c))})
          BY <2>5 DEF Import, Kept
        <4>5. Holder(tx[c].conn, Account(c)) # Lock(Account(c))
              /\ \A s : Instrument(s) # Lock(Account(c))
          BY KindsDiffer
        <4>6. \A s \in tx[c].written : s \in jobs'[tx[c].job].file.symbols
          BY <4>1, <4>2
        <4> QED
          BY <4>3, <4>4, <4>5, <4>6
      <3>4. Account(c) = jobs'[tx[c].job].file.account /\ UploadOf(c).date = jobs'[tx[c].job].file.date
        BY <2>2, <2>5, ImportedIsLast DEF Account, UploadOf
      <3>5. \A x \in positions' :
                /\ {Holder(x.conn, x.account), Instrument(x.symbol)} \subseteq stored'
                /\ x.account = jobs'[x.job].file.account /\ x.date = jobs'[x.job].file.date
                /\ x.symbol \in jobs'[x.job].file.symbols
        <4> SUFFICES ASSUME NEW x \in positions'
                     PROVE  /\ {Holder(x.conn, x.account), Instrument(x.symbol)} \subseteq stored'
                            /\ x.account = jobs'[x.job].file.account
                            /\ x.date = jobs'[x.job].file.date
                            /\ x.symbol \in jobs'[x.job].file.symbols
          OBVIOUS
        <4>1. CASE x \in positions
          BY <2>3, <4>1
        <4>2. CASE \E s \in tx[c].written : x = Position(c, s)
          BY <3>3, <3>4, <4>2 DEF Position
        <4> QED
          BY <3>1, <4>1, <4>2
      <3> HIDE DEF new
      <3>6. \A x \in positions' : \E y \in complete' : Same(x, y) /\ y.job = x.job /\ y.holdings
        <4> SUFFICES ASSUME NEW x \in positions'
                     PROVE  \E y \in complete' : Same(x, y) /\ y.job = x.job /\ y.holdings
          OBVIOUS
        <4>1. CASE x \in positions /\ ~Same(x, new)
          <5>1. PICK y \in complete : Same(x, y) /\ y.job = x.job /\ y.holdings
            BY <4>1 DEF AsStated
          <5>2. ~Same(y, new)
            BY <4>1, <5>1 DEF Same
          <5> QED
            BY <3>1, <5>1, <5>2
        <4>2. CASE \E s \in tx[c].written : x = Position(c, s)
          <5>1. Same(x, new) /\ x.job = new.job /\ tx[c].written # {}
            BY <3>1, <3>2, <4>2 DEF Position
          <5> QED
            BY <3>1, <3>2, <5>1
        <4> QED
          BY <3>1, <4>1, <4>2
      <3>7. \A y \in complete' : y.holdings => \E x \in positions' : Same(x, y)
        <4> SUFFICES ASSUME NEW y \in complete', y.holdings
                     PROVE  \E x \in positions' : Same(x, y)
          OBVIOUS
        <4>1. CASE y \in complete /\ ~Same(y, new)
          <5>1. PICK x \in positions : Same(x, y)
            BY <4>1 DEF AsStated
          <5>2. ~Same(x, new)
            BY <4>1, <5>1 DEF Same
          <5> QED
            BY <3>1, <5>1, <5>2
        <4>2. CASE y = new
          <5>1. PICK s \in tx[c].written : TRUE
            BY <3>2, <4>2
          <5> QED
            BY <3>1, <4>2, <5>1
        <4> QED
          BY <3>1, <4>1, <4>2
      <3>8. \A x, y \in complete' : Same(x, y) => x = y
        BY <3>1 DEF AsStated, Same
      <3> QED
        BY <2>1, <3>5, <3>6, <3>7, <3>8 DEF AsStated, HasAssets
    <2> QED
      BY <1>2, <2>4, <2>5, CommitsAre
  <1> QED
    BY <1>1, <1>2, UploadStepsAreOfOne

\* Who holds an account at one place holds it there since the beginning.
LEMMA OneHolderWasOne ==
    ASSUME NEW a, stored \subseteq stored', OneHolder(a)'
    PROVE  /\ OneHolder(a)
           /\ \A m, n : Holder(m, a) \in stored' /\ Holder(n, a) \in stored' => m = n
  <1>1. OneHolder(a)
    BY DEF OneHolder, HoldersOf
  <1>2. ASSUME NEW m, NEW n, Holder(m, a) \in stored', Holder(n, a) \in stored'
        PROVE  m = n
    <2>1. Holder(m, a) \in HoldersOf(a)' /\ Holder(n, a) \in HoldersOf(a)'
      BY <1>2, KindsDiffer DEF HoldersOf
    <2>2. Holder(m, a) = Holder(n, a)
      BY <2>1 DEF OneHolder
    <2> QED
      BY <2>2, KindsDiffer
  <1> QED
    BY <1>1, <1>2

\* Another commit leaves the last of a day of which it is not.
LEMMA OtherDaysKeepTheirLast ==
    ASSUME UploadsTypeOK, OneJobEach, Ended, NEW c \in Uploaders, UploadStep(c), Import(c),
           NEW n, n = Len(order) + 1
    PROVE  /\ IsLast(n)' /\ order'[n] = tx[c].job
           /\ \A i \in DOMAIN order :
                  LET f == jobs[order[i]].file
                  IN  /\ order'[i] = order[i] /\ jobs'[order'[i]].file = f
                      /\ IsLast(i)' <=> /\ IsLast(i)
                                        /\ ~(f.account = Account(c) /\ f.date = UploadOf(c).date)
  <1>1. /\ DOMAIN order' = DOMAIN order \cup {n}
        /\ order'[n] = tx[c].job
        /\ \A i \in DOMAIN order : order'[i] = order[i]
        /\ Len(order) \in Nat /\ DOMAIN order = 1 .. Len(order)
        /\ tx[c].job \in DOMAIN jobs
    BY ImportedIsLast
  <1>2. \A i \in DOMAIN order : jobs'[order'[i]].file = jobs[order[i]].file
    BY <1>1, JobsStay DEF Ended
  <1>3. jobs'[order'[n]].file = UploadOf(c)
    BY <1>1, JobsStay DEF UploadOf
  <1>4. \A a, d : OfDay(a, d)' = OfDay(a, d) \cup
                                 {i \in {n} : Account(c) = a /\ UploadOf(c).date = d}
    BY <1>1, <1>2, <1>3 DEF OfDay, Account
  <1>5. \A i \in DOMAIN order : i \in Nat /\ n \in Nat /\ ~(n <= i) /\ i <= n
    BY <1>1
  <1>6. \A a, d : OfDay(a, d) \subseteq DOMAIN order
    BY DEF OfDay
  <1>7. IsLast(n)'
    <2>1. n \in DOMAIN order' /\ \A k \in DOMAIN order' : k <= n
      BY <1>1
    <2> QED
      BY <2>1 DEF IsLast, OfDay
  <1>8. ASSUME NEW i \in DOMAIN order
        PROVE  LET f == jobs[order[i]].file
               IN  IsLast(i)' <=> /\ IsLast(i)
                                  /\ ~(f.account = Account(c) /\ f.date = UploadOf(c).date)
    <2> DEFINE f == jobs[order[i]].file
    <2>0. jobs'[order'[i]].file = f
      BY <1>2
    <2>1. OfDay(f.account, f.date)' = OfDay(f.account, f.date) \cup
                                      {k \in {n} : Account(c) = f.account /\ UploadOf(c).date = f.date}
      BY <1>4, <2>0
    <2>2. IsLast(i)' <=> \A k \in OfDay(f.account, f.date)' : k <= i
      BY <1>1, <1>2 DEF IsLast
    <2>3. IsLast(i) <=> \A k \in OfDay(f.account, f.date) : k <= i
      BY DEF IsLast
    <2> QED
      BY <1>5, <2>1, <2>2, <2>3
  <1> QED
    BY <1>1, <1>2, <1>7, <1>8

\* ... and a day's are those of its last upload.
LEMMA LastIsStoredStays ==
    ASSUME UploadsTypeOK, OneJobEach, Ended, AsStated, LastIsStored,
           \A c \in Uploaders : Linked(c), [UploadsNext]_uploadVars
    PROVE  LastIsStored'
  <1>1. CASE UNCHANGED uploadVars
    BY <1>1 DEF LastIsStored, IsLast, OfDay, OneHolder, HoldersOf, uploadVars
  <1>2. ASSUME NEW c \in Uploaders, UploadStep(c) PROVE LastIsStored'
    <2>1. stored \subseteq stored'
      BY <1>2, CommitsAre
    <2>2. \A x \in positions :
              /\ Holder(x.conn, x.account) \in stored'
              /\ x.account = jobs[x.job].file.account /\ x.date = jobs[x.job].file.date
      BY <2>1 DEF AsStated
    <2>3. CASE UNCHANGED <<positions, order>>
      <3>1. \A i \in DOMAIN order : jobs'[order[i]].file = jobs[order[i]].file
        BY <1>2, JobsStay DEF Ended
      <3>2. \A a, d : OfDay(a, d)' = OfDay(a, d)
        BY <2>3, <3>1 DEF OfDay
      <3>3. \A i \in DOMAIN order : IsLast(i)' <=> IsLast(i)
        BY <2>3, <3>1, <3>2 DEF IsLast
      <3>4. \A i \in DOMAIN order' : IsLast(i)' =>
                \A s \in jobs'[order'[i]].file.symbols :
                    \E x \in positions' : x.job = order'[i] /\ x.symbol = s
        BY <2>3, <3>1, <3>3 DEF LastIsStored
      <3>5. \A x \in positions' : OneHolder(x.account)' =>
                \E i \in DOMAIN order' : order'[i] = x.job /\ IsLast(i)'
        BY <2>1, <2>3, <3>3, OneHolderWasOne DEF LastIsStored
      <3> QED
        BY <3>4, <3>5 DEF LastIsStored
    <2>4. CASE Import(c)
      <3> DEFINE new == Completeness(c)
      <3>0. PICK n : n = Len(order) + 1
        OBVIOUS
      <3>1. /\ \A x \in positions' : \/ x \in positions /\ ~Same(x, new)
                                     \/ \E s \in tx[c].written : x = Position(c, s)
            /\ \A x \in positions : ~Same(x, new) => x \in positions'
            /\ \A s \in tx[c].written : Position(c, s) \in positions'
        BY <2>4, ImportReplacesADay
      <3>2. DOMAIN order' = DOMAIN order \cup {n} /\ order'[n] = tx[c].job
        BY <2>4, <3>0, ImportedIsLast
      <3>3. /\ IsLast(n)'
            /\ \A i \in DOMAIN order :
                   LET f == jobs[order[i]].file
                   IN  /\ order'[i] = order[i] /\ jobs'[order'[i]].file = f
                       /\ IsLast(i)' <=> /\ IsLast(i)
                                         /\ ~(f.account = Account(c) /\ f.date = UploadOf(c).date)
        BY <1>2, <2>4, <3>0, OtherDaysKeepTheirLast
      <3>4. jobs'[tx[c].job].file = UploadOf(c) /\ tx[c].written = UploadOf(c).symbols /\ Writes(c)
        BY <1>2, <2>4, JobsStay, ImportedIsLast DEF UploadOf, Import, Writes
      <3>5. new.account = Account(c) /\ new.date = UploadOf(c).date /\ new.conn = tx[c].conn
        BY DEF Completeness
      <3>6. \A s : Position(c, s).job = tx[c].job /\ Position(c, s).symbol = s
        BY DEF Position
      <3>7. Holder(tx[c].conn, Account(c)) \in stored'
        <4>1. Holder(tx[c].conn, Account(c)) \in tx[c].mine
          BY <3>4 DEF Linked
        <4>2. stored' = stored \cup (tx[c].mine \ {Lock(Account(c))})
          BY <2>4 DEF Import, Kept
        <4> QED
          BY <4>1, <4>2, KindsDiffer
      <3> HIDE DEF new
      <3>8. ASSUME NEW i \in DOMAIN order', IsLast(i)', NEW s \in jobs'[order'[i]].file.symbols
            PROVE  \E x \in positions' : x.job = order'[i] /\ x.symbol = s
        <4>1. CASE i = n
          BY <3>1, <3>2, <3>4, <3>6, <3>8, <4>1
        <4>2. CASE i \in DOMAIN order
          <5> DEFINE f == jobs[order[i]].file
          <5>1. /\ order'[i] = order[i] /\ s \in f.symbols /\ IsLast(i)
                /\ ~(f.account = Account(c) /\ f.date = UploadOf(c).date)
            BY <3>3, <3>8, <4>2
          <5>2. PICK x \in positions : x.job = order[i] /\ x.symbol = s
            BY <4>2, <5>1 DEF LastIsStored
          <5>3. ~Same(x, new)
            BY <2>2, <3>5, <5>1, <5>2 DEF Same
          <5> QED
            BY <3>1, <5>1, <5>2, <5>3
        <4> QED
          BY <3>2, <4>1, <4>2
      <3>9. ASSUME NEW x \in positions', OneHolder(x.account)'
            PROVE  \E i \in DOMAIN order' : order'[i] = x.job /\ IsLast(i)'
        <4>1. CASE x \in positions /\ ~Same(x, new)
          <5>1. /\ OneHolder(x.account)
                /\ \A m, k : Holder(m, x.account) \in stored' /\ Holder(k, x.account) \in stored'
                             => m = k
            BY <2>1, <3>9, OneHolderWasOne
          <5>2. PICK i \in DOMAIN order : order[i] = x.job /\ IsLast(i)
            BY <4>1, <5>1 DEF LastIsStored
          <5>3. ~(x.account = Account(c) /\ x.date = UploadOf(c).date)
            BY <2>2, <3>5, <3>7, <4>1, <5>1 DEF Same
          <5>4. IsLast(i)' /\ order'[i] = x.job
            BY <2>2, <3>3, <4>1, <5>2, <5>3
          <5> QED
            BY <3>2, <5>4
        <4>2. CASE \E s \in tx[c].written : x = Position(c, s)
          <5>1. x.job = tx[c].job
            BY <3>6, <4>2
          <5>2. n \in DOMAIN order' /\ order'[n] = x.job /\ IsLast(n)'
            BY <3>2, <3>3, <5>1
          <5> QED
            BY <5>2
        <4> QED
          BY <3>1, <4>1, <4>2
      <3> QED
        BY <3>8, <3>9 DEF LastIsStored
    <2> QED
      BY <1>2, <2>3, <2>4, CommitsAre
  <1> QED
    BY <1>1, <1>2, UploadStepsAreOfOne

\* All of it holds in every reachable state.
LEMMA UploadsInvHolds == UploadsSpec => []UploadsInv
  <1>1. UploadsInit => UploadsInv
    <2> SUFFICES ASSUME UploadsInit PROVE UploadsInv
      OBVIOUS
    <2>1. UploadsTypeOK
      <3>1. Transaction(NoUpload)
        BY DEF Transaction, NoUpload
      <3> QED
        BY <3>1 DEF UploadsInit, UploadsTypeOK, Places
    <2>2. OneJobEach /\ Ended /\ AsStated /\ LastIsStored
      BY DEF UploadsInit, OneJobEach, Ended, HasAssets, AsStated, LastIsStored
    <2>3. \A c \in Uploaders : Linked(c)
      BY DEF UploadsInit, NoUpload, Linked, Writes, HasAssets
    <2> QED
      BY <2>1, <2>2, <2>3 DEF UploadsInv
  <1>2. UploadsInv /\ [UploadsNext]_uploadVars => UploadsInv'
    <2> SUFFICES ASSUME UploadsInv, [UploadsNext]_uploadVars PROVE UploadsInv'
      OBVIOUS
    <2>1. UploadsTypeOK /\ OneJobEach /\ Ended /\ AsStated /\ LastIsStored
          /\ HasAssets(stored, stored) /\ \A c \in Uploaders : Linked(c)
      BY DEF UploadsInv, AsStated
    <2> QED
      BY <2>1, UploadsTypes, OneJobEachStays, EndedStays, LinkedStays, AsStatedStays,
         LastIsStoredStays DEF UploadsInv
  <1> QED
    BY <1>1, <1>2, PTL DEF UploadsSpec

\* Where an account has one broker account, all its positions are under one connection.
LEMMA OneConnection ==
    ASSUME AsStated, NEW a, OneHolder(a)
    PROVE  \A x, y \in positions : x.account = a /\ y.account = a => x.conn = y.conn
  <1> SUFFICES ASSUME NEW x \in positions, NEW y \in positions, x.account = a, y.account = a
               PROVE  x.conn = y.conn
    OBVIOUS
  <1>1. Holder(x.conn, a) \in HoldersOf(a) /\ Holder(y.conn, a) \in HoldersOf(a)
    <2>1. Holder(x.conn, a) \in stored /\ Holder(y.conn, a) \in stored
      BY DEF AsStated
    <2> QED
      BY <2>1, KindsDiffer DEF HoldersOf
  <1>2. Holder(x.conn, a) = Holder(y.conn, a)
    BY <1>1 DEF OneHolder
  <1> QED
    BY <1>2, KindsDiffer

\* Commits of a day have a last one.
LEMMA DaysHaveALast ==
    ASSUME UploadsTypeOK, NEW a, NEW d, OfDay(a, d) # {}
    PROVE  /\ IsLast(Max(OfDay(a, d))) /\ Max(OfDay(a, d)) \in OfDay(a, d)
           /\ \A i \in OfDay(a, d) : IsLast(i) => i = Max(OfDay(a, d))
  <1>1. Len(order) \in Nat /\ DOMAIN order = 1 .. Len(order)
    BY DEF UploadsTypeOK
  <1>2. OfDay(a, d) \subseteq 0 .. Len(order)
    BY <1>1 DEF OfDay
  <1>3. /\ Max(OfDay(a, d)) \in OfDay(a, d)
        /\ \A i \in OfDay(a, d) : i <= Max(OfDay(a, d))
    BY <1>1, <1>2, BoundedHasMax
  <1>4. \A i \in OfDay(a, d) :
            i \in DOMAIN order /\ jobs[order[i]].file.account = a /\ jobs[order[i]].file.date = d
    BY DEF OfDay
  <1>5. IsLast(Max(OfDay(a, d)))
    BY <1>3, <1>4 DEF IsLast
  <1>6. \A i \in OfDay(a, d) : IsLast(i) => Max(OfDay(a, d)) <= i
    BY <1>3, <1>4 DEF IsLast
  <1>7. \A i \in OfDay(a, d) : i \in Nat
    BY <1>2
  <1> QED
    BY <1>3, <1>5, <1>6, <1>7

\* So an account with one broker account shows its newest upload: all its positions are under one
\* connection, those of a day are of the day's last upload, and the days with positions are those
\* whose last upload states any.
LEMMA UploadsAreTheNewest ==
    ASSUME UploadsInv, \A f \in Uploads : f.date \in Nat
    PROVE  HoldingsAreTheNewest
  <1>1. UploadsTypeOK /\ Ended /\ AsStated /\ LastIsStored
    BY DEF UploadsInv
  <1> SUFFICES ASSUME NEW up \in Uploads, OneHolder(up.account)
               PROVE  Shown(up.account, up.date) = Uploaded(up.account, up.date)
    BY DEF HoldingsAreTheNewest
  <1> DEFINE a == up.account
             date == up.date
             mine == {x \in positions : x.account = a /\ x.date <= date}
             last(d) == order[Max(OfDay(a, d))]
             dates == {file.date : file \in Uploads}
             days == {d \in dates : /\ d <= date /\ OfDay(a, d) # {}
                                    /\ jobs[last(d)].file.symbols # {}}
  <1>0. \A j \in DOMAIN jobs : jobs[j].file \in Uploads
    <2>1. \A j \in DOMAIN jobs : jobs[j] \in [file : Uploads, status : Statuses]
      <3> DEFINE Job == [file : Uploads, status : Statuses]
      <3>1. jobs \in Seq(Job)
        BY <1>1 DEF UploadsTypeOK
      <3> HIDE DEF Job
      <3>2. \A j \in DOMAIN jobs : jobs[j] \in Job
        BY <3>1
      <3> QED
        BY <3>2 DEF Job
    <2> QED
      BY <2>1
  <1>2. \A i \in DOMAIN order : jobs[order[i]].file \in Uploads
    BY <1>0, <1>1 DEF Ended
  <1>3. \A x \in positions : x.date \in Nat
    BY <1>0, <1>1 DEF Ended, AsStated
  <1>4. Shown(a, date) = {<<x.job, x.symbol>> : x \in {z \in mine : \A y \in mine : y.date <= z.date}}
    <2> DEFINE past(n) == {x \in positions : x.account = a /\ x.conn = n /\ x.date <= date}
               newest(n) == {x \in past(n) : \A y \in past(n) : y.date <= x.date}
               Newer == {z \in mine : \A y \in mine : y.date <= z.date}
    <2>1. \A x, y \in mine : x.conn = y.conn
      BY <1>1, OneConnection
    <2>2. \A x \in mine : past(x.conn) = mine
      BY <2>1
    <2>3. \A n : past(n) \subseteq mine /\ newest(n) \subseteq past(n)
      OBVIOUS
    <2>4. \A n : past(n) # {} => past(n) = mine
      BY <2>1
    <2>5. \A n : newest(n) \subseteq Newer
      BY <2>4
    <2>6. \A x \in Newer : x \in newest(x.conn)
      BY <2>2
    <2>7. UNION {newest(x.conn) : x \in positions} = Newer
      <3> HIDE DEF newest, past
      <3>1. Newer \subseteq positions
        OBVIOUS
      <3> HIDE DEF Newer
      <3> QED
        BY <2>5, <2>6, <3>1
    <2> QED
      BY <2>7 DEF Shown
  <1>5. Uploaded(a, date) =
            IF days = {} THEN {}
            ELSE {<<last(Max(days)), s>> : s \in jobs[last(Max(days))].file.symbols}
    BY DEF Uploaded, OfDay
  <1>6. \A x \in mine : /\ x.date \in days /\ x.job = last(x.date)
                        /\ x.symbol \in jobs[last(x.date)].file.symbols
    <2> SUFFICES ASSUME NEW x \in mine
                 PROVE  /\ x.date \in days /\ x.job = last(x.date)
                        /\ x.symbol \in jobs[last(x.date)].file.symbols
      OBVIOUS
    <2>1. PICK i \in DOMAIN order : order[i] = x.job /\ IsLast(i)
      BY <1>1 DEF LastIsStored
    <2>2. /\ jobs[x.job].file.account = a /\ jobs[x.job].file.date = x.date
          /\ x.symbol \in jobs[x.job].file.symbols
      BY <1>1 DEF AsStated
    <2>3. i \in OfDay(a, x.date)
      BY <2>1, <2>2 DEF OfDay
    <2>4. i = Max(OfDay(a, x.date))
      BY <1>1, <2>1, <2>3, DaysHaveALast
    <2>5. x.date \in dates
      BY <1>2, <2>1, <2>2
    <2> QED
      BY <2>1, <2>2, <2>3, <2>4, <2>5
  <1>7. ASSUME NEW d \in days, NEW s \in jobs[last(d)].file.symbols
        PROVE  \E x \in mine : x.job = last(d) /\ x.symbol = s /\ x.date = d
    <2>1. /\ IsLast(Max(OfDay(a, d))) /\ Max(OfDay(a, d)) \in OfDay(a, d)
      BY <1>1, <1>7, DaysHaveALast, SMTT(20)
    <2>2. /\ Max(OfDay(a, d)) \in DOMAIN order
          /\ jobs[last(d)].file.account = a /\ jobs[last(d)].file.date = d
      BY <2>1 DEF OfDay
    <2>3. PICK x \in positions : x.job = last(d) /\ x.symbol = s
      BY <1>1, <1>7, <2>1, <2>2 DEF LastIsStored
    <2>4. x.account = a /\ x.date = d
      BY <1>1, <2>2, <2>3, SMTT(20) DEF AsStated
    <2> QED
      BY <1>7, <2>3, <2>4
  <1>8. CASE days = {}
    <2>1. mine = {}
      BY <1>6, <1>8
    <2> QED
      BY <1>4, <1>5, <1>8, <2>1
  <1>9. CASE days # {}
    <2> DEFINE D == Max(days)
    <2>1. days \subseteq 0 .. date /\ date \in Nat
      OBVIOUS
    <2>2. D \in days /\ \A d \in days : d <= D
      <3> HIDE DEF days
      <3> QED
        BY <1>9, <2>1, BoundedHasMax
    <2>3. D \in Nat /\ \A d \in days : d \in Nat
      BY <2>1, <2>2
    <2>4. PICK t \in jobs[last(D)].file.symbols : TRUE
      BY <2>2
    <2>5. PICK w \in mine : w.date = D
      BY <1>7, <2>2
    <2> DEFINE Newer == {z \in mine : \A y \in mine : y.date <= z.date}
    <2>6. \A x \in mine : x \in Newer <=> x.date = D
      <3> HIDE DEF D, days, last
      <3>1. \A x \in mine : x.date <= D /\ x.date \in Nat
        BY <1>6, <2>2, <2>3
      <3> QED
        BY <2>3, <2>5, <3>1
    <2>7. ASSUME NEW x \in Newer
          PROVE  x.job = last(D) /\ x.symbol \in jobs[last(D)].file.symbols
      BY <1>6, <2>6, <2>7
    <2>8. ASSUME NEW s \in jobs[last(D)].file.symbols
          PROVE  \E x \in Newer : x.job = last(D) /\ x.symbol = s
      <3>1. PICK x \in mine : x.job = last(D) /\ x.symbol = s /\ x.date = D
        BY <1>7, <2>2, <2>8
      <3> QED
        BY <2>6, <3>1
    <2>9. Shown(a, date) = {<<x.job, x.symbol>> : x \in Newer}
      BY <1>4
    <2>10. Uploaded(a, date) = {<<last(D), s>> : s \in jobs[last(D)].file.symbols}
      BY <1>5, <1>9
    <2> HIDE DEF Newer, last, D, days
    <2> QED
      BY <2>7, <2>8, <2>9, <2>10
  <1> QED
    BY <1>8, <1>9

\* An upload is there whole, by what every job, position and completeness satisfies.
LEMMA UploadsStayWhole ==
    ASSUME UploadsInv
    PROVE  UploadsAreWhole
  <1>1. Ended /\ AsStated
    BY DEF UploadsInv
  <1>2. ASSUME NEW x \in complete
        PROVE  x.holdings <=> \E y \in positions :
                   y.conn = x.conn /\ y.account = x.account /\ y.date = x.date
    <2>1. x.holdings => \E y \in positions : Same(y, x)
      BY <1>1 DEF AsStated
    <2>2. ASSUME NEW y \in positions, Same(y, x) PROVE x.holdings
      <3>1. PICK z \in complete : Same(y, z) /\ z.holdings
        BY <1>1 DEF AsStated
      <3>2. Same(x, z)
        BY <2>2, <3>1 DEF Same
      <3>3. x = z
        BY <1>1, <3>2 DEF AsStated
      <3> QED
        BY <3>1, <3>3
    <2> QED
      BY <2>1, <2>2 DEF Same
  <1>3. \A x \in positions : \E y \in complete : y.job = x.job /\ y.holdings
    BY <1>1 DEF AsStated
  <1>4. \A x \in stored : x[1] = "instrument" => Asset(x[2]) \in stored
    BY <1>1 DEF AsStated, HasAssets
  <1> QED
    BY <1>1, <1>2, <1>3, <1>4 DEF UploadsAreWhole, Ended, AsStated

\* An account with one broker account under the platform shows at every date its newest upload and
\* no other, and an upload is kept whole or not at all (run_upload_canonical_adapter), for any files,
\* any number of clients, failures and crashes: dates only have to be days.
THEOREM HoldingsAreAlwaysUploads ==
    ASSUME \A f \in Uploads : f.date \in Nat
    PROVE  UploadsSpec => []HoldingsAreUploads
  <1>1. UploadsInv => HoldingsAreUploads
    BY UploadsAreTheNewest, UploadsStayWhole DEF HoldingsAreUploads
  <1> QED
    BY <1>1, UploadsInvHolds, PTL

(***************************************************************************)
(* Sums over finite sets (SumFunctionOnSet), which the month's figures are *)
(* built from.                                                             *)
(***************************************************************************)

\* A property of the subsets of S, as the set G of those that have it, that passes from the proper
\* subsets of a set to the set.
Inductive(S, G) ==
    /\ G \subseteq SUBSET S
    /\ \A T \in SUBSET S : (\A U \in SUBSET T : U # T => U \in G) => T \in G

\* Induction over the subsets of a finite set.
LEMMA SubsetInduction ==
  ASSUME NEW S, IsFiniteSet(S), NEW G, Inductive(S, G)
  PROVE  \A T \in SUBSET S : T \in G
  <1> DEFINE R == StrictSubsetOrdering(S)
             Bad == (SUBSET S) \ G
  <1>1. IsWellFoundedOn(R, SUBSET S)
    BY FS_StrictSubsetOrderingWellFounded, FS_FiniteSubsetsOfFinite
  <1>2. SUFFICES ASSUME Bad # {} PROVE FALSE
    OBVIOUS
  <1>3. PICK T \in Bad : \A U \in Bad : <<U, T>> \notin R
    <2> HIDE DEF R
    <2> QED
      BY <1>1, <1>2, WFMin
  <1>4. ASSUME NEW U \in SUBSET T, U # T PROVE U \in G
    <2>1. <<U, T>> \in R
      BY <1>4 DEF StrictSubsetOrdering
    <2> QED
      BY <1>3, <2>1
  <1> QED
    BY <1>3, <1>4 DEF Inductive

\* SumFunctionOnSet, unfolded: the sums g of f over every subset of S, one element after the other.
SomeOf(s) == CHOOSE x \in s : TRUE
SumFrom(f, g, s) == IF s = {} THEN 0 ELSE f[SomeOf(s)] + g[s \ {SomeOf(s)}]
IsSum(f, g, S) == g = [s \in SUBSET S |-> SumFrom(f, g, s)]

\* What the community modules define.
LEMMA SumIs ==
  ASSUME NEW f, NEW S
  PROVE SumFunctionOnSet(f, S) = (CHOOSE g : IsSum(f, g, S))[S]
    BY DEF SumFunctionOnSet, FoldFunctionOnSet, MapThenFoldSet, IsSum, SumFrom, SomeOf

LEMMA SomeOfIn == ASSUME NEW s, s # {} PROVE SomeOf(s) \in s
    BY DEF SomeOf

\* There is one such g,
LEMMA SumUnique ==
  ASSUME NEW f, NEW S, IsFiniteSet(S), NEW g, NEW h, IsSum(f, g, S), IsSum(f, h, S)
  PROVE  g = h
  <1> DEFINE G == {T \in SUBSET S : g[T] = h[T]}
  <1>1. ASSUME NEW T \in SUBSET S, \A U \in SUBSET T : U # T => U \in G PROVE T \in G
    <2>1. g[T] = SumFrom(f, g, T) /\ h[T] = SumFrom(f, h, T)
      BY DEF IsSum
    <2>2. CASE T = {}
      BY <2>1, <2>2 DEF SumFrom
    <2>3. CASE T # {}
      <3>1. T \ {SomeOf(T)} \in G
        BY <1>1, <2>3, SomeOfIn
      <3> QED
        BY <3>1, <2>1, <2>3 DEF SumFrom
    <2> QED
      BY <2>2, <2>3
  <1>2. \A T \in SUBSET S : T \in G
    <2>1. Inductive(S, G)
      BY <1>1 DEF Inductive
    <2> HIDE DEF G
    <2> QED
      BY <2>1, SubsetInduction
  <1>3. DOMAIN g = SUBSET S /\ DOMAIN h = SUBSET S
    BY DEF IsSum
  <1>4. g = [s \in SUBSET S |-> g[s]] /\ h = [s \in SUBSET S |-> h[s]]
    BY DEF IsSum
  <1> QED
    BY <1>2, <1>4

\* on a subset it is the g of that subset,
LEMMA SumWithin ==
  ASSUME NEW f, NEW S, NEW U \in SUBSET S, NEW g, IsSum(f, g, S)
  PROVE  IsSum(f, [s \in SUBSET U |-> g[s]], U)
  <1> DEFINE h == [s \in SUBSET U |-> g[s]]
  <1>1. ASSUME NEW s \in SUBSET U PROVE g[s] = SumFrom(f, h, s)
    <2>1. g[s] = SumFrom(f, g, s)
      BY DEF IsSum
    <2>2. CASE s = {}
      BY <2>1, <2>2 DEF SumFrom
    <2>3. CASE s # {}
      <3>1. s \ {SomeOf(s)} \in SUBSET U
        OBVIOUS
      <3> QED
        BY <3>1, <2>1, <2>3 DEF SumFrom
    <2> QED
      BY <2>2, <2>3
  <1>2. h = [s \in SUBSET U |-> SumFrom(f, h, s)]
    <2>1. h = [s \in SUBSET U |-> g[s]]
      OBVIOUS
    <2> HIDE DEF h
    <2> QED
      BY <1>1, <2>1
  <1> QED
    BY <1>2 DEF IsSum

\* so that it has the sum of every subset,
TotalOf(f, s) == (CHOOSE g : IsSum(f, g, s))[s]

LEMMA SumAt ==
  ASSUME NEW f, NEW S, IsFiniteSet(S), NEW g, IsSum(f, g, S), NEW U \in SUBSET S
  PROVE  g[U] = TotalOf(f, U)
  <1> DEFINE h == [s \in SUBSET U |-> g[s]]
  <1>1. IsSum(f, h, U)
    BY SumWithin
  <1>2. h[U] = g[U]
    OBVIOUS
  <1>3. IsFiniteSet(U)
    BY FS_Subset
  <1>4. IsSum(f, CHOOSE x : IsSum(f, x, U), U)
    BY <1>1
  <1>5. h = CHOOSE x : IsSum(f, x, U)
    <2> HIDE DEF h
    <2> QED
      BY <1>1, <1>3, <1>4, SumUnique
  <1> QED
    BY <1>2, <1>5 DEF TotalOf

\* and there always is one.
LEMMA SumExists ==
  ASSUME NEW f, NEW S, IsFiniteSet(S)
  PROVE  \E g : IsSum(f, g, S)
  <1> DEFINE G == {T \in SUBSET S : \E g : IsSum(f, g, T)}
  <1>1. ASSUME NEW T \in SUBSET S, \A U \in SUBSET T : U # T => U \in G PROVE T \in G
    <2> DEFINE last == IF T = {} THEN 0 ELSE f[SomeOf(T)] + TotalOf(f, T \ {SomeOf(T)})
               g == [s \in SUBSET T |-> IF s = T THEN last ELSE TotalOf(f, s)]
    <2>0. IsFiniteSet(T)
      BY FS_Subset
    <2>1. ASSUME NEW s \in SUBSET T PROVE g[s] = SumFrom(f, g, s)
      <3>1. CASE s = {} /\ s # T
        <4>1. PICK h : IsSum(f, h, s)
          BY <1>1, <3>1
        <4>2. h[s] = TotalOf(f, s)
          BY <4>1, <3>1, FS_EmptySet, SumAt
        <4>3. h[s] = 0
          BY <4>1, <3>1 DEF IsSum, SumFrom
        <4> QED
          BY <4>2, <4>3, <3>1 DEF SumFrom
      <3>2. CASE s = T
        <4>1. g[s] = last
          BY <3>2
        <4>2. CASE T = {}
          BY <4>1, <4>2, <3>2 DEF SumFrom
        <4>3. CASE T # {}
          <5>1. T \ {SomeOf(T)} \in SUBSET T /\ T \ {SomeOf(T)} # T
            BY <4>3, SomeOfIn
          <5>2. g[T \ {SomeOf(T)}] = TotalOf(f, T \ {SomeOf(T)})
            BY <5>1
          <5>3. last = f[SomeOf(T)] + TotalOf(f, T \ {SomeOf(T)})
            BY <4>3
          <5> HIDE DEF g, last
          <5> QED
            BY <4>1, <5>2, <5>3, <4>3, <3>2 DEF SumFrom
        <4> QED
          BY <4>2, <4>3
      <3>3. CASE s # {} /\ s # T
        <4>1. PICK h : IsSum(f, h, s)
          BY <1>1, <3>3
        <4>2. IsFiniteSet(s)
          BY <2>0, FS_Subset
        <4>3. h[s] = TotalOf(f, s)
          BY <4>1, <4>2, SumAt
        <4>4. s \ {SomeOf(s)} \in SUBSET s /\ s \ {SomeOf(s)} # T /\ s \ {SomeOf(s)} \in SUBSET T
          BY <3>3, SomeOfIn
        <4>5. h[s \ {SomeOf(s)}] = TotalOf(f, s \ {SomeOf(s)})
          <5>1. \A U \in SUBSET s : h[U] = TotalOf(f, U)
            BY <4>1, <4>2, SumAt
          <5> QED
            BY <4>4, <5>1
        <4>6. h[s] = SumFrom(f, h, s)
          BY <4>1 DEF IsSum
        <4>7. g[s] = TotalOf(f, s)
          BY <3>3
        <4>8. g[s \ {SomeOf(s)}] = TotalOf(f, s \ {SomeOf(s)})
          BY <4>4
        <4> HIDE DEF g
        <4> QED
          BY <4>3, <4>5, <4>6, <4>7, <4>8, <3>3 DEF SumFrom
      <3> QED
        BY <3>1, <3>2, <3>3
    <2>2. g = [s \in SUBSET T |-> g[s]]
      OBVIOUS
    <2>3. IsSum(f, g, T)
      <3> HIDE DEF g
      <3> QED
        BY <2>1, <2>2 DEF IsSum
    <2> QED
      BY <2>3
  <1>2. Inductive(S, G)
    BY <1>1 DEF Inductive
  <1>3. S \in G
    <2> HIDE DEF G
    <2> QED
      BY <1>2, SubsetInduction
  <1> QED
    BY <1>3

\* A sum is an element's value and the sum of the rest.
LEMMA SumUnfolds ==
  ASSUME NEW f, NEW S, IsFiniteSet(S)
  PROVE  SumFunctionOnSet(f, S) =
             IF S = {} THEN 0 ELSE f[SomeOf(S)] + SumFunctionOnSet(f, S \ {SomeOf(S)})
  <1>1. PICK g : IsSum(f, g, S)
    BY SumExists
  <1>2. g[S] = TotalOf(f, S)
    BY <1>1, SumAt
  <1>3. g[S] = SumFrom(f, g, S)
    BY <1>1 DEF IsSum
  <1>4. S \ {SomeOf(S)} \in SUBSET S
    OBVIOUS
  <1>5. g[S \ {SomeOf(S)}] = TotalOf(f, S \ {SomeOf(S)})
    BY <1>1, <1>4, SumAt
  <1>6. /\ SumFunctionOnSet(f, S) = TotalOf(f, S)
        /\ SumFunctionOnSet(f, S \ {SomeOf(S)}) = TotalOf(f, S \ {SomeOf(S)})
    BY SumIs DEF TotalOf
  <1> QED
    BY <1>2, <1>3, <1>5, <1>6 DEF SumFrom

\* Nothing sums to zero.
LEMMA SumEmpty == ASSUME NEW f PROVE SumFunctionOnSet(f, {}) = 0
    BY SumUnfolds, FS_EmptySet

\* A sum of numbers is a number.
LEMMA SumInt ==
  ASSUME NEW f, NEW S, IsFiniteSet(S), \A x \in S : f[x] \in Int
  PROVE  \A T \in SUBSET S : SumFunctionOnSet(f, T) \in Int
  <1> DEFINE G == {T \in SUBSET S : SumFunctionOnSet(f, T) \in Int}
  <1>1. ASSUME NEW T \in SUBSET S, \A U \in SUBSET T : U # T => U \in G PROVE T \in G
    <2>1. IsFiniteSet(T)
      BY FS_Subset
    <2>2. CASE T = {}
      BY <2>2, SumEmpty
    <2>3. CASE T # {}
      <3>1. SomeOf(T) \in T
        BY <2>3, SomeOfIn
      <3>2. T \ {SomeOf(T)} \in G
        BY <1>1, <3>1
      <3>3. SumFunctionOnSet(f, T) = f[SomeOf(T)] + SumFunctionOnSet(f, T \ {SomeOf(T)})
        BY <2>1, <2>3, SumUnfolds
      <3> QED
        BY <3>1, <3>2, <3>3
    <2> QED
      BY <2>2, <2>3
  <1>2. Inductive(S, G)
    BY <1>1 DEF Inductive
  <1>3. \A T \in SUBSET S : T \in G
    <2> HIDE DEF G
    <2> QED
      BY <1>2, SubsetInduction
  <1> QED
    BY <1>3

\* Any element may be taken out first.
LEMMA SumWithout ==
  ASSUME NEW f, NEW S, IsFiniteSet(S), \A x \in S : f[x] \in Int
  PROVE  \A x \in S : SumFunctionOnSet(f, S) = f[x] + SumFunctionOnSet(f, S \ {x})
  <1> DEFINE Sigma(T) == SumFunctionOnSet(f, T)
             G == {T \in SUBSET S : \A x \in T : Sigma(T) = f[x] + Sigma(T \ {x})}
  <1>0. \A T \in SUBSET S : Sigma(T) \in Int
    BY SumInt
  <1>1. ASSUME NEW T \in SUBSET S, \A U \in SUBSET T : U # T => U \in G PROVE T \in G
    <2>1. IsFiniteSet(T)
      BY FS_Subset
    <2>2. SUFFICES ASSUME NEW x \in T PROVE Sigma(T) = f[x] + Sigma(T \ {x})
      OBVIOUS
    <2> DEFINE p == SomeOf(T)
    <2>3. p \in T
      BY SomeOfIn
    <2>4. Sigma(T) = f[p] + Sigma(T \ {p})
      BY <2>1, SumUnfolds
    <2>5. CASE x = p
      BY <2>4, <2>5
    <2>6. CASE x # p
      <3>1. T \ {p} \in G /\ T \ {x} \in G /\ x \in T \ {p} /\ p \in T \ {x}
        BY <1>1, <2>3, <2>6
      <3>2. Sigma(T \ {p}) = f[x] + Sigma((T \ {p}) \ {x})
        BY <3>1
      <3>3. Sigma(T \ {x}) = f[p] + Sigma((T \ {x}) \ {p})
        BY <3>1
      <3>4. (T \ {p}) \ {x} = (T \ {x}) \ {p}
        OBVIOUS
      <3>5. Sigma((T \ {x}) \ {p}) \in Int
        BY <1>0
      <3>6. f[x] \in Int /\ f[p] \in Int
        BY <2>3
      <3>7. ASSUME NEW a \in Int, NEW b \in Int, NEW c \in Int PROVE a + (b + c) = b + (a + c)
        OBVIOUS
      <3>8. f[p] + (f[x] + Sigma((T \ {x}) \ {p})) = f[x] + (f[p] + Sigma((T \ {x}) \ {p}))
        <4> HIDE DEF Sigma, p
        <4> QED
          BY <3>5, <3>6, <3>7
      <3>9. Sigma((T \ {p}) \ {x}) = Sigma((T \ {x}) \ {p})
        BY <3>4
      <3> HIDE DEF Sigma, p
      <3> QED
        BY <2>4, <3>2, <3>3, <3>8, <3>9, Zenon
    <2> QED
      BY <2>5, <2>6
  <1>2. Inductive(S, G)
    BY <1>1 DEF Inductive
  <1>3. S \in G
    <2> HIDE DEF G
    <2> QED
      BY <1>2, SubsetInduction
  <1> QED
    BY <1>3

\* The sum of two sets with nothing in common is the sum of their sums.
LEMMA SumUnion ==
  ASSUME NEW f, NEW S, IsFiniteSet(S), NEW T, IsFiniteSet(T), S \cap T = {},
           \A x \in S \cup T : f[x] \in Int
  PROVE  SumFunctionOnSet(f, S \cup T) = SumFunctionOnSet(f, S) + SumFunctionOnSet(f, T)
  <1> DEFINE Sigma(U) == SumFunctionOnSet(f, U)
             G == {U \in SUBSET S : Sigma(U \cup T) = Sigma(U) + Sigma(T)}
  <1>0. IsFiniteSet(S \cup T)
    BY FS_Union
  <1>1. \A U \in SUBSET (S \cup T) : Sigma(U) \in Int
    BY <1>0, SumInt
  <1>2. ASSUME NEW U \in SUBSET S, \A V \in SUBSET U : V # U => V \in G PROVE U \in G
    <2>1. CASE U = {}
      <3>1. Sigma({}) = 0
        BY SumEmpty
      <3>2. U \cup T = T
        BY <2>1
      <3>3. Sigma(T) \in Int
        BY <1>1
      <3> HIDE DEF Sigma
      <3> QED
        BY <2>1, <3>1, <3>2, <3>3
    <2>2. CASE U # {}
      <3>1. PICK x \in U : TRUE
        BY <2>2
      <3>2. U \ {x} \in G
        BY <1>2
      <3>3. IsFiniteSet(U) /\ IsFiniteSet(U \cup T)
        BY <1>0, FS_Subset
      <3>4. Sigma(U) = f[x] + Sigma(U \ {x})
        BY <3>3, SumWithout
      <3>5. Sigma(U \cup T) = f[x] + Sigma((U \cup T) \ {x})
        BY <3>3, SumWithout
      <3>6. (U \cup T) \ {x} = (U \ {x}) \cup T
        OBVIOUS
      <3>7. Sigma(U \ {x}) \in Int /\ Sigma(T) \in Int /\ f[x] \in Int
        BY <1>1
      <3>8. ASSUME NEW a \in Int, NEW b \in Int, NEW c \in Int PROVE a + (b + c) = (a + b) + c
        OBVIOUS
      <3>9. Sigma((U \cup T) \ {x}) = Sigma(U \ {x}) + Sigma(T)
        BY <3>2, <3>6
      <3> HIDE DEF Sigma
      <3>10. f[x] + (Sigma(U \ {x}) + Sigma(T)) = (f[x] + Sigma(U \ {x})) + Sigma(T)
        BY <3>7, <3>8
      <3>11. Sigma(U \cup T) = Sigma(U) + Sigma(T)
        BY <3>4, <3>5, <3>9, <3>10, Zenon
      <3> QED
        BY <3>2, <3>11
    <2> QED
      BY <2>1, <2>2
  <1>3. Inductive(S, G)
    BY <1>2 DEF Inductive
  <1>4. S \in G
    <2> HIDE DEF G
    <2> QED
      BY <1>3, SubsetInduction
  <1> QED
    BY <1>4

\* A sum depends on the values of its elements only.
LEMMA SumSame ==
  ASSUME NEW f, NEW g, NEW S, IsFiniteSet(S), \A x \in S : f[x] = g[x]
  PROVE  SumFunctionOnSet(f, S) = SumFunctionOnSet(g, S)
  <1> DEFINE G == {T \in SUBSET S : SumFunctionOnSet(f, T) = SumFunctionOnSet(g, T)}
  <1>1. ASSUME NEW T \in SUBSET S, \A U \in SUBSET T : U # T => U \in G PROVE T \in G
    <2>1. IsFiniteSet(T)
      BY FS_Subset
    <2>2. CASE T = {}
      BY <2>2, SumEmpty
    <2>3. CASE T # {}
      <3>1. SomeOf(T) \in T
        BY <2>3, SomeOfIn
      <3>2. T \ {SomeOf(T)} \in G
        BY <1>1, <3>1
      <3>3. SumFunctionOnSet(f, T) = f[SomeOf(T)] + SumFunctionOnSet(f, T \ {SomeOf(T)})
        BY <2>1, <2>3, SumUnfolds
      <3>4. SumFunctionOnSet(g, T) = g[SomeOf(T)] + SumFunctionOnSet(g, T \ {SomeOf(T)})
        BY <2>1, <2>3, SumUnfolds
      <3> QED
        BY <3>1, <3>2, <3>3, <3>4
    <2> QED
      BY <2>2, <2>3
  <1>2. Inductive(S, G)
    BY <1>1 DEF Inductive
  <1>3. S \in G
    <2> HIDE DEF G
    <2> QED
      BY <1>2, SubsetInduction
  <1> QED
    BY <1>3

\* Numbers have a least one.
LEMMA NaturalsHaveMin ==
    ASSUME NEW S \in SUBSET Nat, S # {}
    PROVE  /\ Min(S) \in S
           /\ \A d \in S : Min(S) <= d
  <1>1. \E m \in S : \A d \in S : ~ (<<d, m>> \in OpToRel(<, Nat))
    BY WFMin, NatLessThanWellFounded
  <1>2. \E m \in S : \A d \in S : m <= d
    <2>1. PICK m \in S : \A d \in S : ~ (d < m)
      BY <1>1 DEF OpToRel
    <2> QED
      BY <2>1
  <1>3. Min(S) = CHOOSE y \in S : \A d \in S : y <= d
    BY DEF Min
  <1> QED
    BY <1>2, <1>3

(***************************************************************************)
(* CashFlow.                                                               *)
(***************************************************************************)

FlowRow == [at : Nat, account : {"bank", "card"}, type : {"INCOME", "EXPENSE", "FEE", "TRANSFER"},
            amount : {-1, 1}, moved : BOOLEAN, rent : BOOLEAN]

FlowsInv ==
    /\ flowDay \in FlowDays
    /\ flows \in Seq(FlowRow)
    /\ snapshots \subseteq FlowDays

LEMMA FlowBounds ==
    /\ MonthLength \in Nat /\ MonthLength > 0 /\ LastMonth \in Nat
    /\ MonthLength * LastMonth \in Nat
    /\ 1 \in FlowDays
    /\ \A d \in FlowDays : d \in Nat /\ d >= 1
  <1>1. MonthLength * LastMonth \in Nat /\ MonthLength * LastMonth >= 1
    BY FlowAssumption
  <1> QED
    BY <1>1, FlowAssumption DEF FlowDays

LEMMA FlowsType == FlowSpec => []FlowsInv
  <1>1. FlowInit => FlowsInv
    BY FlowBounds DEF FlowInit, FlowsInv
  <1>2. FlowsInv /\ [FlowNext]_flowVars => FlowsInv'
    <2> SUFFICES ASSUME FlowsInv, [FlowNext]_flowVars PROVE FlowsInv'
      OBVIOUS
    <2> USE DEF FlowsInv
    <2>1. CASE FlowDayPasses
      BY <2>1 DEF FlowDayPasses
    <2>2. ASSUME NEW kind \in FlowKinds, NEW at \in InstantsOf(flowDay), RecordFlow(at, kind)
          PROVE  FlowsInv'
      <3>1. kind \in Kind
        BY FlowAssumption
      <3>2. at \in Nat
        BY FlowBounds DEF InstantsOf, Midnight, Daytime, Night
      <3>3. [at |-> at, account |-> kind.account, type |-> kind.type, amount |-> kind.amount,
             moved |-> kind.moved, rent |-> kind.rent] \in FlowRow
        BY <3>1, <3>2 DEF Kind, FlowRow
      <3> QED
        BY <2>2, <3>3 DEF RecordFlow
    <2>3. ASSUME NEW i \in DOMAIN flows, Refile(i) PROVE FlowsInv'
      <3>1. flows[i] \in FlowRow
        OBVIOUS
      <3>2. [flows[i] EXCEPT !.moved = ~@] \in FlowRow
        BY <3>1 DEF FlowRow
      <3>3. flows' = [flows EXCEPT ![i] = [flows[i] EXCEPT !.moved = ~@]]
        BY <2>3 DEF Refile
      <3> QED
        BY <2>3, <3>2, <3>3 DEF Refile
    <2>4. CASE Snapshot
      BY <2>4 DEF Snapshot
    <2>5. CASE UNCHANGED flowVars
      BY <2>5 DEF flowVars
    <2> QED
      BY <2>1, <2>2, <2>3, <2>4, <2>5 DEF FlowNext
  <1> QED
    BY <1>1, <1>2, PTL DEF FlowSpec

\* Months follow one another, none before the day it begins on.
LEMMA MonthsAdvance ==
    ASSUME NEW m \in Int, NEW n \in Int, m <= n
    PROVE  /\ FirstOf(m) \in Int /\ FirstOf(m) <= FirstOf(n)
           /\ FirstOf(m + 1) = FirstOf(m) + MonthLength
  <1>1. \A a, b \in Int : a <= b => a * MonthLength <= b * MonthLength
    BY FlowBounds
  <1>2. (m - 1) * MonthLength <= (n - 1) * MonthLength
    BY <1>1
  <1>3. (m + 1 - 1) * MonthLength = (m - 1) * MonthLength + MonthLength
    BY FlowBounds
  <1>4. (m - 1) * MonthLength \in Int /\ (n - 1) * MonthLength \in Int
    BY FlowBounds
  <1> QED
    BY <1>2, <1>3, <1>4, FlowBounds DEF FirstOf

\* A day's month is the one it lies in.
LEMMA MonthOfDay ==
    ASSUME NEW d \in Int, NEW m \in Int
    PROVE  /\ MonthOf(d) \in Int
           /\ MonthOf(d) = m <=> FirstOf(m) <= d /\ d < NextMonth(m)
  <1> DEFINE n == MonthLength  q == (d - 1) \div n  r == (d - 1) % n
  <1>1. q \in Int /\ r \in 0 .. n - 1 /\ d - 1 = n * q + r
    BY FlowBounds
  <1>2. ASSUME q = m - 1
        PROVE  FirstOf(m) <= d /\ d < NextMonth(m)
    BY <1>1, <1>2, FlowBounds, MonthsAdvance DEF FirstOf, NextMonth
  <1>3. ASSUME FirstOf(m) <= d, d < NextMonth(m), q # m - 1
        PROVE  FALSE
    <2>1. (m - 1) * n <= d - 1 /\ d - 1 < m * n
      BY <1>3, FlowBounds DEF FirstOf, NextMonth
    <2>2. CASE q <= m - 2
      <3>1. n * q <= n * (m - 2)
        BY <2>2, <1>1, FlowBounds
      <3>2. n * (m - 2) = (m - 1) * n - n
        BY FlowBounds
      <3> QED
        BY <1>1, <2>1, <3>1, <3>2, FlowBounds
    <2>3. CASE q >= m
      <3>1. n * q >= n * m /\ n * m = m * n
        BY <2>3, <1>1, FlowBounds
      <3> QED
        BY <1>1, <2>1, <3>1, FlowBounds
    <2> QED
      BY <1>1, <1>3, <2>2, <2>3
  <1> QED
    BY <1>1, <1>2, <1>3 DEF MonthOf

\* An instant is in a window when the user's day of it is.
LEMMA InWindowByDay ==
    ASSUME NEW at \in Nat, NEW start \in Int, NEW end \in Int
    PROVE  /\ DayOf(at) \in Nat
           /\ InWindow(at, start, end) <=> start <= DayOf(at) /\ DayOf(at) < end
  <1> DEFINE q == at \div 3  r == at % 3
  <1>1. q \in Nat /\ r \in 0 .. 2 /\ at = 3 * q + r
    OBVIOUS
  <1> HIDE DEF q, r
  <1>2. CASE r = 0
    BY <1>1, <1>2 DEF InWindow, DayOf, IsDateOnly, q, r
  <1>3. CASE r = 1
    BY <1>1, <1>3 DEF InWindow, DayOf, IsDateOnly, LocalMidnight, Night, q, r
  <1>4. CASE r = 2
    BY <1>1, <1>4 DEF InWindow, DayOf, IsDateOnly, LocalMidnight, Night, q, r
  <1> QED
    BY <1>1, <1>2, <1>3, <1>4

\* The rows of a month, whatever the page that has them.
InMonthRows(m) == {i \in DOMAIN flows : MonthOf(DayOf(flows[i].at)) = m}

LEMMA RowsAre ==
    ASSUME FlowsInv, NEW i \in DOMAIN flows
    PROVE  /\ flows[i] \in FlowRow /\ flows[i].at \in Nat /\ flows[i].amount \in {-1, 1}
           /\ DayOf(flows[i].at) \in Nat
  <1>1. flows[i] \in FlowRow
    BY DEF FlowsInv
  <1>2. flows[i].at \in Nat /\ flows[i].amount \in {-1, 1}
    BY <1>1 DEF FlowRow
  <1>3. DayOf(flows[i].at) \in Nat
    BY <1>2, InWindowByDay, 0 \in Int
  <1> QED
    BY <1>1, <1>2, <1>3

LEMMA PageRowsByDay ==
    ASSUME FlowsInv, NEW start \in Int, NEW end \in Int
    PROVE  PageRows(start, end) = {i \in DOMAIN flows : start <= DayOf(flows[i].at) /\ DayOf(flows[i].at) < end}
  BY RowsAre, InWindowByDay DEF PageRows

LEMMA MonthIsItsDays ==
    ASSUME FlowsInv, NEW m \in Int
    PROVE  PageRows(FirstOf(m), NextMonth(m)) = InMonthRows(m)
  <1>1. FirstOf(m) \in Int /\ NextMonth(m) \in Int
    BY MonthsAdvance DEF NextMonth
  <1>2. \A i \in DOMAIN flows : DayOf(flows[i].at) \in Int
    BY RowsAre, InWindowByDay
  <1> QED
    BY <1>1, <1>2, PageRowsByDay, MonthOfDay DEF InMonthRows

LEMMA MonthInLookback ==
    ASSUME FlowsInv, NEW m \in Int, NEW n \in Int, m <= n, n <= m + 5
    PROVE  OfMonth(Lookback(n), m) = InMonthRows(m)
  <1>1. FirstOf(n - 5) <= FirstOf(m) /\ NextMonth(m) <= NextMonth(n)
    BY MonthsAdvance DEF NextMonth
  <1>2. /\ FirstOf(n - 5) \in Int /\ FirstOf(m) \in Int
        /\ NextMonth(m) \in Int /\ NextMonth(n) \in Int
    BY MonthsAdvance DEF NextMonth
  <1>3. Lookback(n) = {i \in DOMAIN flows : FirstOf(n - 5) <= DayOf(flows[i].at) /\ DayOf(flows[i].at) < NextMonth(n)}
    BY <1>2, PageRowsByDay DEF Lookback
  <1>4. ASSUME NEW i \in InMonthRows(m) PROVE i \in Lookback(n)
    <2>1. DayOf(flows[i].at) \in Int
      BY RowsAre DEF InMonthRows
    <2>2. FirstOf(m) <= DayOf(flows[i].at) /\ DayOf(flows[i].at) < NextMonth(m)
      BY <2>1, MonthOfDay DEF InMonthRows
    <2>3. FirstOf(n - 5) <= DayOf(flows[i].at) /\ DayOf(flows[i].at) < NextMonth(n)
      BY <1>1, <1>2, <2>1, <2>2
    <2> QED
      BY <1>3, <2>3 DEF InMonthRows
  <1>5. Lookback(n) \subseteq DOMAIN flows
    BY <1>3
  <1> QED
    BY <1>4, <1>5 DEF OfMonth, InMonthRows

\* What it compares itself with.
LEMMA PriorIsCounted ==
    ASSUME FlowsInv, NEW m \in Int
    PROVE  Prior(m + 1) = Flows({i \in InMonthRows(m) :
                MonthOf(flowDay) = m + 1 =>
                    DayOf(flows[i].at) - FirstOf(m) <= flowDay - FirstOf(m + 1)})
  <1> DEFINE at(i) == DayOf(flows[i].at)
             counted == {i \in InMonthRows(m) :
                MonthOf(flowDay) = m + 1 => at(i) - FirstOf(m) <= flowDay - FirstOf(m + 1)}
  <1>0. flowDay \in Int
    BY FlowBounds DEF FlowsInv
  <1>1. CASE MonthOf(flowDay) # m + 1
    <2>1. counted = InMonthRows(m)
      BY <1>1 DEF InMonthRows
    <2>2. OfMonth(Lookback(m + 1), m + 1 - 1) = InMonthRows(m)
      BY MonthInLookback
    <2>3. Prior(m + 1) = Flows(OfMonth(Lookback(m + 1), m + 1 - 1))
      BY <1>1 DEF Prior
    <2> QED
      BY <2>1, <2>2, <2>3, Zenon
  <1>2. CASE MonthOf(flowDay) = m + 1
    <2> DEFINE start == FirstOf(m)  end == PriorEnd(m + 1)
               taken == {i \in Lookback(m + 1) : InWindow(flows[i].at, FirstOf(m + 1 - 1), end)}
    <2>1. /\ start \in Int /\ FirstOf(m + 1) = start + MonthLength
          /\ NextMonth(m) = start + MonthLength /\ NextMonth(m + 1) = start + 2 * MonthLength
          /\ FirstOf(m + 1 - 5) \in Int /\ FirstOf(m + 1 - 5) <= start
      <3>1. FirstOf(m) \in Int /\ FirstOf(m + 1) = FirstOf(m) + MonthLength
        BY MonthsAdvance
      <3>2. FirstOf(m + 1 + 1) = FirstOf(m + 1) + MonthLength
        BY MonthsAdvance, m + 1 \in Int
      <3>3. FirstOf(m + 1 - 5) \in Int /\ FirstOf(m + 1 - 5) <= FirstOf(m)
        BY MonthsAdvance, m + 1 - 5 \in Int, m + 1 - 5 <= m
      <3> QED
        BY <3>1, <3>2, <3>3, FlowBounds DEF NextMonth
    <2>2. FirstOf(m + 1) <= flowDay /\ flowDay < NextMonth(m + 1)
      BY <1>0, <1>2, MonthOfDay
    <2>3. end = start + (flowDay - FirstOf(m + 1) + 1) /\ end <= start + MonthLength /\ end \in Int
      <3>1. flowDay - FirstOf(m + 1) + 1 <= MonthLength
        BY <1>0, <2>1, <2>2, FlowBounds
      <3>2. Lesser(flowDay - FirstOf(m + 1) + 1, MonthLength) = flowDay - FirstOf(m + 1) + 1
        BY <3>1 DEF Lesser
      <3>3. m + 1 - 1 = m
        OBVIOUS
      <3>4. end = FirstOf(m) + (flowDay - FirstOf(m + 1) + 1)
        BY <3>2, <3>3 DEF PriorEnd
      <3> QED
        BY <1>0, <2>1, <3>1, <3>4, FlowBounds
    <2>4. Lookback(m + 1) = {i \in DOMAIN flows : FirstOf(m + 1 - 5) <= at(i) /\ at(i) < NextMonth(m + 1)}
      BY <2>1, PageRowsByDay, FlowBounds DEF Lookback
    <2>5. ASSUME NEW i \in DOMAIN flows
          PROVE  i \in taken <=> i \in counted
      <3>1. at(i) \in Nat /\ (InWindow(flows[i].at, start, end) <=> start <= at(i) /\ at(i) < end)
        BY <2>1, <2>3, RowsAre, InWindowByDay
      <3>2. MonthOf(at(i)) = m <=> start <= at(i) /\ at(i) < start + MonthLength
        BY <2>1, <3>1, MonthOfDay
      <3>3. i \in Lookback(m + 1) <=> FirstOf(m + 1 - 5) <= at(i) /\ at(i) < NextMonth(m + 1)
        BY <2>4
      <3>4. i \in taken <=> i \in Lookback(m + 1) /\ InWindow(flows[i].at, start, end)
        <4>1. m + 1 - 1 = m
          OBVIOUS
        <4> QED
          BY <4>1
      <3>5. i \in counted <=> MonthOf(at(i)) = m /\ at(i) - start <= flowDay - FirstOf(m + 1)
        BY <1>2 DEF InMonthRows
      <3> HIDE DEF at, taken, counted, start, end
      <3> QED
        BY <1>0, <2>1, <2>2, <2>3, <3>1, <3>2, <3>3, <3>4, <3>5, FlowBounds DEF start
    <2>6. taken \subseteq DOMAIN flows /\ counted \subseteq DOMAIN flows
      BY <2>4 DEF InMonthRows
    <2>7. taken = counted
      <3> HIDE DEF taken, counted
      <3> QED
        BY <2>5, <2>6
    <2>8. Prior(m + 1) = Flows(taken)
      BY <1>2 DEF Prior
    <2> QED
      BY <2>7, <2>8, Zenon
  <1> QED
    BY <1>1, <1>2

\* Sums of rows: what two sets without a common row come to together.
LEMMA SumOfBoth ==
    ASSUME FlowsInv, NEW S, NEW T, S \subseteq DOMAIN flows, T \subseteq DOMAIN flows, S \cap T = {}
    PROVE  SumOf(S) \in Int /\ SumOf(T) \in Int /\ SumOf(S \cup T) = SumOf(S) + SumOf(T)
  <1>1. IsFiniteSet(DOMAIN flows)
    <2>1. DOMAIN flows = 1 .. Len(flows) /\ Len(flows) \in Nat
      BY DEF FlowsInv
    <2> QED
      BY <2>1, FS_Interval
  <1>2. IsFiniteSet(S) /\ IsFiniteSet(T)
    BY <1>1, FS_Subset
  <1> DEFINE f == [i \in DOMAIN flows |-> flows[i].amount]
  <1>3. \A i \in DOMAIN flows : f[i] \in Int
    BY RowsAre
  <1>4. SumFunctionOnSet(f, S \cup T) = SumFunctionOnSet(f, S) + SumFunctionOnSet(f, T)
    <2> HIDE DEF f
    <2> QED
      BY <1>2, <1>3, SumUnion
  <1>5. SumFunctionOnSet(f, S) \in Int /\ SumFunctionOnSet(f, T) \in Int
    <2> HIDE DEF f
    <2> QED
      BY <1>1, <1>3, SumInt
  <1> QED
    BY <1>4, <1>5 DEF SumOf

\* CashFlow: every page has a month's income and spending the same (MonthPagesAgree).
THEOREM MonthPagesAlwaysAgree == FlowSpec => []MonthPagesAgree
  <1>1. FlowsInv => MonthPagesAgree
    <2> SUFFICES ASSUME FlowsInv, NEW m \in FlowMonths
                 PROVE  MonthPagesAgree!(m)
      BY DEF MonthPagesAgree
    <2>0. m \in Int
      BY DEF FlowMonths
    <2> DEFINE R == InMonthRows(m)
    <2>1. R \subseteq DOMAIN flows
      BY DEF InMonthRows
    <2>2. PageRows(FirstOf(m), NextMonth(m)) = R
      BY <2>0, MonthIsItsDays
    <2>3. \A n \in FlowMonths \cap (m .. m + 5) : OfMonth(Lookback(n), m) = R
      BY <2>0, MonthInLookback DEF FlowMonths
    <2>4. OfMonth(Lookback(m), m) = R
      BY <2>0, MonthInLookback
    <2>5. MonthSummary(m) = Flows(R) /\ Detail(m) = Flows(R)
      BY <2>2, <2>4 DEF MonthSummary, Detail
    <2>6. \A n \in FlowMonths \cap (m .. m + 5) : TrendPoint(n, m) = Flows(R)
      BY <2>3 DEF TrendPoint
    <2>7. Prior(m + 1) = Flows({i \in DOMAIN flows : MonthOf(DayOf(flows[i].at)) = m /\ 
              (MonthOf(flowDay) = m + 1 =>
                    DayOf(flows[i].at) - FirstOf(m) <= flowDay - FirstOf(m + 1))})
      <3>1. {i \in R : MonthOf(flowDay) = m + 1 =>
                    DayOf(flows[i].at) - FirstOf(m) <= flowDay - FirstOf(m + 1)}
            = {i \in DOMAIN flows : MonthOf(DayOf(flows[i].at)) = m /\ 
              (MonthOf(flowDay) = m + 1 =>
                    DayOf(flows[i].at) - FirstOf(m) <= flowDay - FirstOf(m + 1))}
        BY DEF InMonthRows
      <3> QED
        BY <2>0, <3>1, PriorIsCounted
    <2>8. ASSUME \A i \in DOMAIN flows : MonthOf(DayOf(flows[i].at)) = m =>
                   ~IsTransfer(flows[i]) /\ ~(flows[i].type = "INCOME" /\ IsRentPaid(flows[i]))
          PROVE  OverviewFlows(m) = MonthSummary(m)
      <3>1. ASSUME NEW i \in R
            PROVE  /\ Bucket(flows[i]) = "income" <=> flows[i].type = "INCOME"
                   /\ Bucket(flows[i]) = "expense" <=> flows[i].type \in Expenses
        <4>1. i \in DOMAIN flows /\ ~IsTransfer(flows[i])
              /\ ~(flows[i].type = "INCOME" /\ IsRentPaid(flows[i]))
          BY <2>8 DEF InMonthRows
        <4>2. flows[i].type \in {"INCOME", "EXPENSE", "FEE"}
          BY <4>1, RowsAre DEF FlowRow, IsTransfer
        <4> QED
          BY <4>1, <4>2 DEF Bucket, Expenses
      <3>2. /\ {i \in R : Bucket(flows[i]) = "income"} = {i \in R : flows[i].type = "INCOME"}
            /\ {i \in R : Bucket(flows[i]) = "expense"} = {i \in R : flows[i].type \in Expenses}
        BY <3>1
      <3> HIDE DEF R
      <3> QED
        BY <2>2, <2>5, <3>2 DEF OverviewFlows, Flows
    <2>9. CurrentDue(m) = CardSpend(m) - Reversed(m)
      <3> DEFINE spent == {i \in R : IsCharge(flows[i]) /\ flows[i].amount < 0}
                 back  == {i \in R : IsCharge(flows[i]) /\ flows[i].amount > 0}
      <3>1. {i \in R : IsCharge(flows[i])} = spent \cup back
        BY <2>1, RowsAre
      <3>2. spent \cap back = {}
        BY <2>1, RowsAre
      <3>3. SumOf(spent) \in Int /\ SumOf(back) \in Int
            /\ SumOf(spent \cup back) = SumOf(spent) + SumOf(back)
        <4>1. spent \subseteq DOMAIN flows /\ back \subseteq DOMAIN flows
          BY <2>1
        <4> HIDE DEF spent, back
        <4> QED
          BY <3>2, <4>1, SumOfBoth
      <3>4. /\ CurrentDue(m) = -SumOf(spent \cup back)
            /\ CardSpend(m) = -SumOf(spent)
            /\ Reversed(m) = SumOf(back)
        BY <2>2, <2>4, <3>1 DEF CurrentDue, CardSpend, Reversed
      <3> HIDE DEF spent, back
      <3> QED
        BY <3>3, <3>4
    <2>10. CardPage(m).due = -SumOf({i \in CardPage(m).rows : IsCharge(flows[i])})
      <3>1. CardPage(m).rows = {i \in R : flows[i].account = "card"}
        BY <2>2 DEF CardPage
      <3>2. {i \in {j \in R : flows[j].account = "card"} : IsCharge(flows[i])} = {i \in R : IsCharge(flows[i])}
        BY DEF IsCharge
      <3>3. CardPage(m).due = -SumOf({i \in R : IsCharge(flows[i])})
        BY <2>2 DEF CardPage, CurrentDue
      <3> HIDE DEF R
      <3> QED
        BY <3>1, <3>2, <3>3
    <2> HIDE DEF R
    <2> QED
      BY <2>5, <2>6, <2>7, <2>8, <2>9, <2>10
  <1> QED
    BY <1>1, FlowsType, PTL

\* The newest snapshot at a date is one of them, and none later than a later date's.
LEMMA SnapshotsAdvance ==
    ASSUME FlowsInv, NEW d \in Int, NEW e \in Int, d <= e
    PROVE  /\ SnapshotAt(d) \in Nat /\ SnapshotAt(e) \in Nat
           /\ SnapshotAt(d) <= SnapshotAt(e)
  <1> DEFINE Past(x) == {y \in snapshots : y <= x}
  <1>0. /\ MonthLength * LastMonth \in Nat
        /\ \A x \in Int : Past(x) \in SUBSET (0 .. MonthLength * LastMonth)
    <2>1. MonthLength * LastMonth \in Nat
      BY FlowBounds
    <2>2. snapshots \subseteq 0 .. MonthLength * LastMonth
      BY <2>1 DEF FlowsInv, FlowDays
    <2> QED
      BY <2>1, <2>2
  <1>1. ASSUME NEW x \in Int, Past(x) # {}
        PROVE  Max(Past(x)) \in Past(x) /\ \A y \in Past(x) : y <= Max(Past(x))
    <2> HIDE DEF Past
    <2> QED
      BY <1>0, <1>1, BoundedHasMax
  <1>2. ASSUME NEW x \in Int
        PROVE  /\ SnapshotAt(x) \in Nat
               /\ Past(x) # {} => SnapshotAt(x) = Max(Past(x))
               /\ Past(x) = {} => SnapshotAt(x) = 0
    <2>1. CASE Past(x) = {}
      BY <2>1 DEF SnapshotAt
    <2>2. CASE Past(x) # {}
      <3>1. SnapshotAt(x) = Max(Past(x))
        BY <2>2 DEF SnapshotAt
      <3>2. Max(Past(x)) \in 0 .. MonthLength * LastMonth
        <4> HIDE DEF Past
        <4> QED
          BY <1>0, <1>1, <2>2
      <3> QED
        BY <1>0, <2>2, <3>1, <3>2
    <2> QED
      BY <2>1, <2>2
  <1>3. Past(d) \subseteq Past(e)
    BY <1>0
  <1>4. CASE Past(d) = {}
    <2>1. SnapshotAt(d) = 0 /\ SnapshotAt(d) \in Nat /\ SnapshotAt(e) \in Nat
      BY <1>2, <1>4
    <2> HIDE DEF Past
    <2> QED
      BY <2>1
  <1>5. CASE Past(d) # {}
    <2>1. Past(e) # {} /\ Max(Past(d)) \in Past(e)
      <3> HIDE DEF Past
      <3> QED
        BY <1>1, <1>3, <1>5
    <2>2. Max(Past(d)) <= Max(Past(e))
      <3> HIDE DEF Past
      <3> QED
        BY <1>1, <2>1
    <2> HIDE DEF Past
    <2> QED
      BY <1>2, <1>5, <2>1, <2>2
  <1> QED
    BY <1>2, <1>4, <1>5

\* CashFlow: no flow is explained by two months' bridges, nor on two lines of one
\* (NoFlowIsBridgedTwice).
THEOREM NoFlowIsEverBridgedTwice == FlowSpec => []NoFlowIsBridgedTwice
  <1>1. FlowsInv => NoFlowIsBridgedTwice
    <2> SUFFICES ASSUME FlowsInv, NEW m \in FlowMonths, IsBridged(m)
                 PROVE  /\ \A n \in FlowMonths : n > m /\ IsBridged(n)
                               => BridgeRows(m) \cap BridgeRows(n) = {}
                        /\ BridgeFlows(m).in - BridgeFlows(m).out + BridgeFlows(m).moved
                               = SumOf(BridgeRows(m))
      BY DEF NoFlowIsBridgedTwice
    <2>0. m \in Int
      BY DEF FlowMonths
    <2>1. ASSUME NEW n \in FlowMonths, n > m, NEW i \in BridgeRows(m), i \in BridgeRows(n)
          PROVE  FALSE
      <3>1. n \in Int /\ m + 1 <= n
        BY <2>0, <2>1 DEF FlowMonths
      <3>2. NextMonth(m) \in Int /\ FirstOf(n) \in Int /\ NextMonth(m) <= FirstOf(n)
        BY <2>0, <3>1, MonthsAdvance DEF NextMonth
      <3>3. SpanEnd(m) \in Nat /\ SpanStart(n) \in Nat /\ SpanEnd(m) <= SpanStart(n)
        BY <3>2, SnapshotsAdvance DEF SpanEnd, SpanStart
      <3>4. i \in DOMAIN flows /\ InSpan(i, m) /\ InSpan(i, n)
        BY <2>1 DEF BridgeRows, Lookback, PageRows
      <3>5. flows[i].at <= Midnight(SpanEnd(m)) /\ Midnight(SpanStart(n)) < flows[i].at
        BY <3>4 DEF InSpan
      <3>6. flows[i].at \in Nat
        BY <3>4, RowsAre
      <3> QED
        BY <3>3, <3>5, <3>6 DEF Midnight
    <2>2. BridgeFlows(m).in - BridgeFlows(m).out + BridgeFlows(m).moved = SumOf(BridgeRows(m))
      <3> DEFINE all   == BridgeRows(m)
                 moved == {i \in all : IsTransfer(flows[i])}
                 in    == {i \in all \ moved : Bucket(flows[i]) = "income"}
                 out   == {i \in all \ moved : Bucket(flows[i]) = "expense"}
      <3>1. all \subseteq DOMAIN flows
        BY DEF BridgeRows, Lookback, PageRows
      <3>2. in \cup out = all \ moved
        BY DEF Bucket
      <3>3. in \cap out = {}
        OBVIOUS
      <3>4. (all \ moved) \cup moved = all
        OBVIOUS
      <3>5. /\ BridgeFlows(m).in = SumOf(in)
            /\ BridgeFlows(m).out = -SumOf(out)
            /\ BridgeFlows(m).moved = SumOf(moved)
        BY DEF BridgeFlows, Flows
      <3>6. in \subseteq DOMAIN flows /\ out \subseteq DOMAIN flows /\ moved \subseteq DOMAIN flows
            /\ all \ moved \subseteq DOMAIN flows
        BY <3>1
      <3>7. (all \ moved) \cap moved = {}
        OBVIOUS
      <3> HIDE DEF all, moved, in, out
      <3>8. /\ SumOf(in) \in Int /\ SumOf(out) \in Int
            /\ SumOf(all \ moved) = SumOf(in) + SumOf(out)
        BY <3>2, <3>3, <3>6, SumOfBoth
      <3>9. SumOf(moved) \in Int /\ SumOf(all) = SumOf(all \ moved) + SumOf(moved)
        BY <3>4, <3>6, <3>7, SumOfBoth
      <3> QED
        BY <3>5, <3>8, <3>9 DEF all
    <2> QED
      BY <2>1, <2>2
  <1> QED
    BY <1>1, FlowsType, PTL

(***************************************************************************)
(* CardLedger.                                                             *)
(***************************************************************************)

ChargeRow == [day : CardDays, type : CardTypes, amount : Int]

\* What the bank knows of days that are over does not change, and a printed balance is what it knew.
CardInv ==
    /\ cardDay \in CardDays
    /\ happened \in Seq(ChargeRow)
    /\ \A i \in DOMAIN happened : happened[i].day <= cardDay
    /\ uploaded \subseteq DOMAIN happened
    /\ closedOn \in CardDays \cup {Unset}
    /\ printed \in [CardDays -> Int \cup {Unset}]
    /\ \A d \in CardDays : printed[d] # Unset => d < cardDay /\ printed[d] = TrueOwed(d)

LEMMA CardDayBounds ==
    /\ LastCardDay \in Nat /\ 1 \in CardDays
    /\ CardDays \subseteq Nat /\ CardDays \subseteq 0 .. LastCardDay
    /\ \A d \in CardDays : d >= 1
    /\ Unset \notin Int
  BY CardAssumption DEF CardDays

LEMMA ChargesAre ==
    ASSUME CardInv, NEW i \in DOMAIN happened
    PROVE  /\ happened[i].day \in CardDays /\ happened[i].day \in Nat /\ happened[i].day >= 1
           /\ happened[i].day <= cardDay
           /\ happened[i].type \in CardTypes /\ happened[i].amount \in Int
  <1>1. happened[i] \in ChargeRow
    BY DEF CardInv
  <1> QED
    BY <1>1, CardDayBounds DEF CardInv, ChargeRow

LEMMA ChargesAreFinite ==
    ASSUME CardInv
    PROVE  IsFiniteSet(DOMAIN happened)
  <1>1. DOMAIN happened = 1 .. Len(happened) /\ Len(happened) \in Nat
    BY DEF CardInv
  <1> QED
    BY <1>1, FS_Interval

\* What two sets without a common row come to together.
LEMMA AmountsAdd ==
    ASSUME CardInv, NEW S, NEW T, S \subseteq DOMAIN happened, T \subseteq DOMAIN happened,
           S \cap T = {}
    PROVE  /\ AmountOf(S) \in Int /\ AmountOf(T) \in Int
           /\ AmountOf(S \cup T) = AmountOf(S) + AmountOf(T)
  <1>1. IsFiniteSet(S) /\ IsFiniteSet(T)
    BY ChargesAreFinite, FS_Subset
  <1> DEFINE f == [i \in DOMAIN happened |-> happened[i].amount]
  <1>2. \A i \in DOMAIN happened : f[i] \in Int
    BY ChargesAre
  <1>3. SumFunctionOnSet(f, S \cup T) = SumFunctionOnSet(f, S) + SumFunctionOnSet(f, T)
    <2> HIDE DEF f
    <2> QED
      BY <1>1, <1>2, SumUnion
  <1>4. SumFunctionOnSet(f, S) \in Int /\ SumFunctionOnSet(f, T) \in Int
    <2> HIDE DEF f
    <2> QED
      BY ChargesAreFinite, <1>2, SumInt
  <1> QED
    BY <1>3, <1>4 DEF AmountOf

\* What the bank knew at the end of a day is settled once the day is over.
LEMMA PastIsSettled ==
    ASSUME CardInv, NEW d \in CardDays, d < cardDay, NEW type, NEW amount, Happen(type, amount)
    PROVE  TrueOwed(d)' = TrueOwed(d)
  <1> DEFINE row == [day |-> cardDay, type |-> type, amount |-> amount]
             n   == Len(happened)
             f   == [i \in DOMAIN happened |-> happened[i].amount]
             g   == [i \in DOMAIN happened' |-> happened'[i].amount]
             S   == Between(OnCard, 0, d)
             T   == Between(OnCard, 0, d)'
  <1>1. happened' = Append(happened, row)
    BY DEF Happen
  <1>2. /\ n \in Nat /\ DOMAIN happened = 1 .. n /\ DOMAIN happened' = 1 .. (n + 1)
        /\ \A i \in 1 .. n : happened'[i] = happened[i]
        /\ happened'[n + 1] = row
    BY <1>1 DEF CardInv
  <1>3. T = {i \in DOMAIN happened' : 0 < happened'[i].day /\ happened'[i].day <= d}
    BY DEF Between, OnCard
  <1>4. S = {i \in DOMAIN happened : 0 < happened[i].day /\ happened[i].day <= d}
    BY DEF Between, OnCard
  <1>5. n + 1 \notin T
    BY <1>2, <1>3, CardDayBounds DEF CardInv
  <1>6. S = T
    <2> HIDE DEF S, T
    <2>1. \A i \in 1 .. (n + 1) : i \in 1 .. n \/ i = n + 1
      BY <1>2
    <2> QED
      BY <1>2, <1>3, <1>4, <1>5, <2>1
  <1>7. \A i \in S : f[i] = g[i]
    BY <1>2, <1>4
  <1>8. IsFiniteSet(S)
    BY <1>4, ChargesAreFinite, FS_Subset
  <1>9. SumFunctionOnSet(f, S) = SumFunctionOnSet(g, S)
    <2> HIDE DEF f, g, S
    <2> QED
      BY <1>7, <1>8, SumSame
  <1>10. TrueOwed(d) = -SumFunctionOnSet(f, S)
    BY DEF TrueOwed, AmountOf
  <1>11. TrueOwed(d)' = -SumFunctionOnSet(g, T)
    BY DEF TrueOwed, AmountOf
  <1> HIDE DEF f, g, S, T
  <1> QED
    BY <1>6, <1>9, <1>10, <1>11

LEMMA TrueOwedIsANumber ==
    ASSUME CardInv, NEW d
    PROVE  TrueOwed(d) \in Int
  <1>1. Between(OnCard, 0, d) \subseteq DOMAIN happened
    BY DEF Between, OnCard
  <1>2. AmountOf(Between(OnCard, 0, d)) \in Int
    <2>1. {} \subseteq DOMAIN happened /\ Between(OnCard, 0, d) \cap {} = {}
      OBVIOUS
    <2> QED
      BY <1>1, <2>1, AmountsAdd
  <1> QED
    BY <1>2 DEF TrueOwed

LEMMA CardsType == CardSpec => []CardInv
  <1>1. CardInit => CardInv
    BY CardDayBounds DEF CardInit, CardInv
  <1>2. CardInv /\ [CardNext]_cardVars => CardInv'
    <2> SUFFICES ASSUME CardInv, [CardNext]_cardVars PROVE CardInv'
      OBVIOUS
    <2>0. ASSUME UNCHANGED <<happened, printed>>, cardDay' >= cardDay, cardDay' \in CardDays,
                 NEW d \in CardDays
          PROVE  printed'[d] # Unset => d < cardDay' /\ printed'[d] = TrueOwed(d)'
      <3>1. TrueOwed(d)' = TrueOwed(d)
        BY <2>0 DEF TrueOwed, AmountOf, Between, OnCard
      <3> QED
        BY <2>0, <3>1, CardDayBounds DEF CardInv
    <2>1. CASE CardDayPasses
      <3>1. cardDay' \in CardDays /\ cardDay' >= cardDay
        BY <2>1, CardDayBounds DEF CardDayPasses, CardInv, CardDays
      <3>2. \A i \in DOMAIN happened : happened[i].day <= cardDay'
        BY <3>1, ChargesAre, CardDayBounds DEF CardInv
      <3> QED
        BY <2>0, <2>1, <3>1, <3>2 DEF CardDayPasses, CardInv
    <2>2. ASSUME NEW type \in CardTypes, NEW x \in Int, Happen(type, x) PROVE CardInv'
      <3>1. [day |-> cardDay, type |-> type, amount |-> x] \in ChargeRow
        BY DEF CardInv, ChargeRow
      <3>2. happened' = Append(happened, [day |-> cardDay, type |-> type, amount |-> x])
            /\ UNCHANGED <<cardDay, uploaded, printed, closedOn>>
        BY <2>2 DEF Happen
      <3>3. /\ happened' \in Seq(ChargeRow) /\ DOMAIN happened \subseteq DOMAIN happened'
            /\ \A i \in DOMAIN happened' :
                  \/ i \in DOMAIN happened /\ happened'[i] = happened[i]
                  \/ happened'[i].day = cardDay
        BY <3>1, <3>2 DEF CardInv
      <3>4. \A i \in DOMAIN happened' : happened'[i].day <= cardDay'
        BY <3>2, <3>3, ChargesAre, CardDayBounds DEF CardInv
      <3>5. ASSUME NEW d \in CardDays, printed'[d] # Unset
            PROVE  d < cardDay' /\ printed'[d] = TrueOwed(d)'
        <4>1. d < cardDay /\ printed[d] = TrueOwed(d)
          BY <3>2, <3>5 DEF CardInv
        <4>2. TrueOwed(d)' = TrueOwed(d)
          BY <2>2, <4>1, PastIsSettled
        <4> QED
          BY <3>2, <4>1, <4>2
      <3> QED
        BY <3>2, <3>3, <3>4, <3>5 DEF CardInv
    <2>3. ASSUME NEW i \in OnCard, UploadRow(i) \/ RemoveRow(i) PROVE CardInv'
      <3>1. uploaded' \subseteq DOMAIN happened /\ UNCHANGED <<cardDay, happened, printed, closedOn>>
        BY <2>3 DEF UploadRow, RemoveRow, OnCard, CardInv
      <3> QED
        BY <2>0, <3>1, CardDayBounds DEF CardInv
    <2>4. ASSUME NEW d \in CardDays, StateBalance(d) PROVE CardInv'
      <3>1. /\ printed' = [printed EXCEPT ![d] = TrueOwed(d)] /\ d < cardDay
            /\ UNCHANGED <<cardDay, happened, uploaded, closedOn>>
        BY <2>4 DEF StateBalance
      <3>2. printed' \in [CardDays -> Int \cup {Unset}]
        BY <3>1, TrueOwedIsANumber DEF CardInv
      <3>3. ASSUME NEW e \in CardDays, printed'[e] # Unset
            PROVE  e < cardDay' /\ printed'[e] = TrueOwed(e)'
        <4>1. TrueOwed(e)' = TrueOwed(e)
          BY <3>1 DEF TrueOwed, AmountOf, Between, OnCard
        <4>2. CASE e = d
          BY <3>1, <4>1, <4>2 DEF CardInv
        <4>3. CASE e # d
          BY <3>1, <3>3, <4>1, <4>3 DEF CardInv
        <4> QED
          BY <4>2, <4>3
      <3> QED
        BY <3>1, <3>2, <3>3 DEF CardInv
    <2>5. CASE Close
      <3>1. closedOn' \in CardDays /\ UNCHANGED <<cardDay, happened, uploaded, printed>>
        BY <2>5 DEF Close, CardInv
      <3> QED
        BY <2>0, <3>1, CardDayBounds DEF CardInv
    <2>6. CASE UNCHANGED cardVars
      <3>1. UNCHANGED <<cardDay, happened, uploaded, printed, closedOn>>
        BY <2>6 DEF cardVars
      <3> QED
        BY <2>0, <3>1, CardDayBounds DEF CardInv
    <2>7. \A x \in CardAmounts : x \in Int /\ -x \in Int
      BY CardAssumption
    <2> QED
      BY <2>1, <2>2, <2>3, <2>4, <2>5, <2>6, <2>7 DEF CardNext
  <1> QED
    BY <1>1, <1>2, PTL DEF CardSpec

\* What the lines of a period come to is what its rows come to: each row is on one line.
LEMMA EveryRowIsBooked ==
    ASSUME CardInv, NEW S, S \subseteq DOMAIN happened
    PROVE  /\ AmountOf(S) \in Int
           /\ LET p == Book(S)
              IN  /\ p.charges \in Int /\ p.fees \in Int /\ p.interest \in Int
                  /\ p.payments \in Int /\ p.credits \in Int
                  /\ p.charges + p.fees + p.interest - p.payments - p.credits = -AmountOf(S)
  <1> DEFINE of(type) == {i \in S : happened[i].type = type}
             back == {i \in of("EXPENSE") : happened[i].amount > 0}
             spent == of("EXPENSE") \ back
             credits == of("INCOME") \cup back
             a == spent \cup of("FEE")
             b == a \cup of("INTEREST")
             c == b \cup of("TRANSFER")
  <1>1. /\ Book(S).charges = -AmountOf(spent) /\ Book(S).fees = -AmountOf(of("FEE"))
        /\ Book(S).interest = -AmountOf(of("INTEREST")) /\ Book(S).payments = AmountOf(of("TRANSFER"))
        /\ Book(S).credits = AmountOf(credits)
    BY DEF Book
  <1>2. c \cup credits = S
    <2>1. \A i \in S : happened[i].type \in CardTypes
      BY ChargesAre
    <2> QED
      BY <2>1 DEF CardTypes
  <1>3. /\ spent \cap of("FEE") = {} /\ a \cap of("INTEREST") = {} /\ b \cap of("TRANSFER") = {}
        /\ c \cap credits = {}
    OBVIOUS
  <1>4. /\ spent \subseteq DOMAIN happened /\ a \subseteq DOMAIN happened
        /\ b \subseteq DOMAIN happened /\ c \subseteq DOMAIN happened
        /\ credits \subseteq DOMAIN happened /\ of("FEE") \subseteq DOMAIN happened
        /\ of("INTEREST") \subseteq DOMAIN happened /\ of("TRANSFER") \subseteq DOMAIN happened
    OBVIOUS
  <1> HIDE DEF of, back, spent, credits
  <1>5. /\ AmountOf(spent) \in Int /\ AmountOf(of("FEE")) \in Int
        /\ AmountOf(a) = AmountOf(spent) + AmountOf(of("FEE"))
    BY <1>3, <1>4, AmountsAdd
  <1> HIDE DEF a
  <1>6. /\ AmountOf(of("INTEREST")) \in Int
        /\ AmountOf(b) = AmountOf(a) + AmountOf(of("INTEREST"))
    BY <1>3, <1>4, AmountsAdd
  <1> HIDE DEF b
  <1>7. /\ AmountOf(of("TRANSFER")) \in Int
        /\ AmountOf(c) = AmountOf(b) + AmountOf(of("TRANSFER"))
    BY <1>3, <1>4, AmountsAdd
  <1> HIDE DEF c
  <1>8. /\ AmountOf(credits) \in Int
        /\ AmountOf(S) = AmountOf(c) + AmountOf(credits)
    <2>1. AmountOf(c \cup credits) = AmountOf(c) + AmountOf(credits) /\ AmountOf(credits) \in Int
      BY <1>3, <1>4, AmountsAdd
    <2> QED
      BY <1>2, <2>1
  <1> QED
    BY <1>1, <1>5, <1>6, <1>7, <1>8

LEMMA BetweenAre ==
    ASSUME NEW S, NEW d, NEW e
    PROVE  Between(S, d, e) \subseteq S
  BY DEF Between

\* The balance expected at the end of the days after a printed one.
LEMMA ExpectedIs ==
    ASSUME CardInv, NEW d \in Dated
    PROVE  /\ printed[d] \in Int
           /\ AmountOf(Between(uploaded, d, EndOf(d))) \in Int
           /\ Expected(d) = printed[d] - AmountOf(Between(uploaded, d, EndOf(d)))
  <1>1. printed[d] \in Int
    BY DEF Dated, CardInv
  <1> DEFINE S == Between(uploaded, d, EndOf(d))
  <1>2. S \subseteq DOMAIN happened
    BY BetweenAre DEF CardInv
  <1>3. Expected(d) = printed[d] + Book(S).charges + Book(S).fees + Book(S).interest
                      - Book(S).payments - Book(S).credits
    BY DEF Expected, Period
  <1> HIDE DEF S
  <1>4. /\ AmountOf(S) \in Int
        /\ Book(S).charges \in Int /\ Book(S).fees \in Int /\ Book(S).interest \in Int
        /\ Book(S).payments \in Int /\ Book(S).credits \in Int
        /\ Book(S).charges + Book(S).fees + Book(S).interest - Book(S).payments - Book(S).credits
             = -AmountOf(S)
    BY <1>2, EveryRowIsBooked
  <1> QED
    BY <1>1, <1>3, <1>4 DEF S

\* The dated balances have a newest one, after which comes today.
LEMMA NewestBalance ==
    ASSUME CardInv, Dated # {}
    PROVE  /\ Max(Dated) \in Dated
           /\ \A d \in Dated : d <= Max(Dated)
           /\ EndOf(Max(Dated)) = cardDay
           /\ \A d \in Dated : IsNewest(d) => d = Max(Dated)
  <1>1. Dated \in SUBSET (0 .. LastCardDay)
    BY CardDayBounds DEF Dated
  <1>2. Max(Dated) \in Dated /\ \A d \in Dated : d <= Max(Dated)
    BY <1>1, CardDayBounds, BoundedHasMax
  <1> DEFINE newest == Max(Dated)
  <1>3. newest \in Int /\ \A d \in Dated : d \in Int
    <2>1. \A d \in Dated : d \in Int
      BY CardDayBounds DEF Dated
    <2> QED
      BY <1>2, <2>1
  <1>4. EndOf(newest) = cardDay
    <2> HIDE DEF newest
    <2>1. \A e \in Dated : ~(e > newest)
      <3> TAKE e \in Dated
      <3>1. e <= Max(Dated) /\ e \in Int
        BY <1>2, <1>3
      <3> QED
        BY <1>3, <3>1 DEF newest
    <2>2. {e \in Dated : e > newest} = {}
      BY <2>1
    <2> QED
      BY <2>2 DEF EndOf
  <1>5. ASSUME NEW d \in Dated, IsNewest(d)
        PROVE  d = Max(Dated)
    <2>1. newest <= d /\ d <= newest /\ d \in Int /\ newest \in Int
      BY <1>2, <1>3, <1>5 DEF IsNewest
    <2>2. d = newest
      <3> HIDE DEF newest
      <3> QED
        BY <2>1
    <2> QED
      BY <2>2
  <1> QED
    BY <1>2, <1>4, <1>5

\* The card page and net worth.
LEMMA OneNumber ==
    CardInv => CardsOweOneNumber
  <1> SUFFICES ASSUME CardInv PROVE CardsOweOneNumber
    OBVIOUS
  <1>1. Statement(cardDay) = Dated
    BY DEF Statement, Dated
  <1>2. LiabilityNow = IF Listed THEN OwedNow ELSE 0
    <2>1. Listed <=> ~(closedOn # Unset /\ closedOn < cardDay)
      BY CardDayBounds DEF Listed, CardInv
    <2>2. CASE ~Listed
      BY <2>1, <2>2 DEF LiabilityNow, LiabilityAt
    <2>3. CASE Listed /\ Dated = {}
      BY <1>1, <2>1, <2>3 DEF LiabilityNow, LiabilityAt, OwedNow
    <2>4. CASE Listed /\ Dated # {}
      <3> DEFINE n == Max(Dated)
      <3>1. n \in Dated /\ EndOf(n) = cardDay
        BY <2>4, NewestBalance
      <3>2. OwedNow = Expected(n)
        BY <2>4 DEF OwedNow
      <3>3. LiabilityNow = printed[n] + OwedSince(n, cardDay)
        BY <1>1, <2>1, <2>4 DEF LiabilityNow, LiabilityAt
      <3>4. OwedSince(n, cardDay) = -AmountOf(Between(uploaded, n, cardDay))
        BY DEF OwedSince
      <3> HIDE DEF n
      <3> QED
        BY <2>4, <3>1, <3>2, <3>3, <3>4, ExpectedIs
    <2> QED
      BY <2>2, <2>3, <2>4
  <1>3. ASSUME cardDay = MonthStart(cardDay), closedOn = Unset, Statement(cardDay) # {},
               \A i \in uploaded : happened[i].day < cardDay
        PROVE  LiabilityAtMonthEnd(cardDay) = LiabilityNow
    <2> DEFINE n == Max(Statement(cardDay))
    <2>1. LiabilityAtMonthEnd(cardDay) = LiabilityAt(cardDay, cardDay - 1, MonthBefore(cardDay))
      BY <1>3 DEF LiabilityAtMonthEnd
    <2>2. LiabilityAtMonthEnd(cardDay) = printed[n] + OwedSince(n, cardDay - 1)
      BY <1>3, <2>1 DEF LiabilityAt
    <2>3. LiabilityNow = printed[n] + OwedSince(n, cardDay)
      BY <1>3 DEF LiabilityNow, LiabilityAt
    <2>4. Between(uploaded, n, cardDay - 1) = Between(uploaded, n, cardDay)
      <3>1. \A i \in uploaded : happened[i].day \in Nat /\ cardDay \in Nat
        BY ChargesAre, CardDayBounds DEF CardInv
      <3> HIDE DEF n
      <3> QED
        BY <1>3, <3>1 DEF Between
    <2> HIDE DEF n
    <2> QED
      BY <2>2, <2>3, <2>4 DEF OwedSince
  <1> QED
    BY <1>2, <1>3 DEF CardsOweOneNumber

\* Rows of some days are those of the days up to one of them, and those of the days after.
LEMMA BetweenSplits ==
    ASSUME CardInv, NEW S, S \subseteq DOMAIN happened,
           NEW c \in Int, NEW d \in Int, NEW e \in Int, c <= d, d <= e
    PROVE  /\ AmountOf(Between(S, c, e)) \in Int /\ AmountOf(Between(S, c, d)) \in Int
           /\ AmountOf(Between(S, d, e)) \in Int
           /\ AmountOf(Between(S, c, e)) = AmountOf(Between(S, c, d)) + AmountOf(Between(S, d, e))
  <1>1. \A i \in S : happened[i].day \in Int
    BY ChargesAre
  <1>2. /\ Between(S, c, e) = Between(S, c, d) \cup Between(S, d, e)
        /\ Between(S, c, d) \cap Between(S, d, e) = {}
    BY <1>1 DEF Between
  <1>3. Between(S, c, d) \subseteq DOMAIN happened /\ Between(S, d, e) \subseteq DOMAIN happened
    BY BetweenAre
  <1>4. /\ AmountOf(Between(S, c, d)) \in Int /\ AmountOf(Between(S, d, e)) \in Int
        /\ AmountOf(Between(S, c, d) \cup Between(S, d, e))
             = AmountOf(Between(S, c, d)) + AmountOf(Between(S, d, e))
    BY <1>2, <1>3, AmountsAdd
  <1> QED
    BY <1>2, <1>4

\* What is not uploaded of some days.
LEMMA MissingIsTheRest ==
    ASSUME CardInv, NEW d \in Int, NEW e \in Int
    PROVE  /\ AmountOf(Between(OnCard, d, e)) \in Int
           /\ AmountOf(Between(uploaded, d, e)) \in Int
           /\ AmountOf(Between(OnCard \ uploaded, d, e)) \in Int
           /\ AmountOf(Between(OnCard, d, e))
                = AmountOf(Between(uploaded, d, e)) + AmountOf(Between(OnCard \ uploaded, d, e))
  <1>1. /\ Between(OnCard, d, e) = Between(uploaded, d, e) \cup Between(OnCard \ uploaded, d, e)
        /\ Between(uploaded, d, e) \cap Between(OnCard \ uploaded, d, e) = {}
    BY DEF Between, OnCard, CardInv
  <1>2. /\ Between(uploaded, d, e) \subseteq DOMAIN happened
        /\ Between(OnCard \ uploaded, d, e) \subseteq DOMAIN happened
    BY BetweenAre DEF OnCard, CardInv
  <1>3. /\ AmountOf(Between(uploaded, d, e)) \in Int
        /\ AmountOf(Between(OnCard \ uploaded, d, e)) \in Int
        /\ AmountOf(Between(uploaded, d, e) \cup Between(OnCard \ uploaded, d, e))
             = AmountOf(Between(uploaded, d, e)) + AmountOf(Between(OnCard \ uploaded, d, e))
    BY <1>1, <1>2, AmountsAdd
  <1> QED
    BY <1>1, <1>3

\* What the bank has a card owe grows by what happened since.
LEMMA TrueOwedGrows ==
    ASSUME CardInv, NEW d \in Nat, NEW e \in Nat, d <= e
    PROVE  /\ TrueOwed(d) \in Int /\ TrueOwed(e) \in Int
           /\ TrueOwed(e) = TrueOwed(d) - AmountOf(Between(OnCard, d, e))
  <1>1. /\ AmountOf(Between(OnCard, 0, e)) \in Int /\ AmountOf(Between(OnCard, 0, d)) \in Int
        /\ AmountOf(Between(OnCard, d, e)) \in Int
        /\ AmountOf(Between(OnCard, 0, e)) = AmountOf(Between(OnCard, 0, d)) + AmountOf(Between(OnCard, d, e))
    <2>1. OnCard \subseteq DOMAIN happened
      BY DEF OnCard
    <2> QED
      BY <2>1, BetweenSplits
  <1> QED
    BY <1>1 DEF TrueOwed

\* What the card page flags.
LEMMA FlagsAreTheGaps ==
    CardInv => FlagsAreGaps
  <1> SUFFICES ASSUME CardInv, NEW d \in Dated
               PROVE  IF IsNewest(d)
                      THEN TrueOwed(cardDay) - OwedNow = -AmountOf(Between(OnCard \ uploaded, d, EndOf(d)))
                      ELSE Difference(d) = -AmountOf(Between(OnCard \ uploaded, d, EndOf(d)))
    BY DEF FlagsAreGaps
  <1>1. \A e \in Dated : e \in CardDays /\ e \in Nat /\ e <= cardDay /\ printed[e] = TrueOwed(e)
    BY CardDayBounds DEF Dated, CardInv
  <1>2. cardDay \in Nat
    BY CardDayBounds DEF CardInv
  <1> DEFINE e == EndOf(d)
  <1>3. /\ printed[d] \in Int /\ AmountOf(Between(uploaded, d, e)) \in Int
        /\ Expected(d) = printed[d] - AmountOf(Between(uploaded, d, e))
    BY ExpectedIs
  <1>4. ASSUME e \in Nat, d <= e
        PROVE  /\ TrueOwed(e) \in Int /\ AmountOf(Between(OnCard \ uploaded, d, e)) \in Int
               /\ TrueOwed(e) - Expected(d) = -AmountOf(Between(OnCard \ uploaded, d, e))
    <2> HIDE DEF e
    <2>1. TrueOwed(d) \in Int /\ TrueOwed(e) \in Int
          /\ TrueOwed(e) = TrueOwed(d) - AmountOf(Between(OnCard, d, e))
      BY <1>1, <1>4, TrueOwedGrows
    <2>2. /\ AmountOf(Between(OnCard, d, e)) \in Int
          /\ AmountOf(Between(OnCard \ uploaded, d, e)) \in Int
          /\ AmountOf(Between(OnCard, d, e))
               = AmountOf(Between(uploaded, d, e)) + AmountOf(Between(OnCard \ uploaded, d, e))
      <3>1. d \in Int /\ e \in Int /\ CardInv
        BY <1>1, <1>4
      <3> QED
        BY <3>1, MissingIsTheRest
    <2>3. printed[d] = TrueOwed(d)
      BY <1>1
    <2> QED
      BY <1>3, <2>1, <2>2, <2>3
  <1>5. CASE IsNewest(d)
    <2>1. Dated # {} /\ d = Max(Dated) /\ e = cardDay
      BY <1>5, NewestBalance
    <2>2. OwedNow = Expected(d)
      BY <2>1 DEF OwedNow
    <2>3. e \in Nat /\ d <= e
      BY <1>1, <1>2, <2>1
    <2> HIDE DEF e
    <2> QED
      BY <1>4, <1>5, <2>1, <2>2, <2>3 DEF e
  <1>6. CASE ~IsNewest(d)
    <2> DEFINE later == {x \in Dated : x > d}
    <2>1. later # {}
      BY <1>1, <1>6 DEF IsNewest
    <2>2. later \in SUBSET Nat
      BY <1>1
    <2>3. Min(later) \in later
      <3> HIDE DEF later
      <3> QED
        BY <2>1, <2>2, NaturalsHaveMin
    <2>4. e = Min(later)
      BY <2>1 DEF EndOf
    <2>5. e \in Dated /\ e > d
      <3> HIDE DEF e
      <3> QED
        BY <2>3, <2>4
    <2>6. e \in Nat /\ d <= e /\ printed[e] = TrueOwed(e)
      <3> HIDE DEF e
      <3> QED
        BY <1>1, <2>5
    <2>7. Difference(d) = printed[e] - Expected(d)
      BY DEF Difference
    <2> HIDE DEF e
    <2> QED
      BY <1>4, <1>6, <2>6, <2>7 DEF e
  <1> QED
    BY <1>5, <1>6

\* CardLedger: the card page and net worth have a card owe the same, and a flagged difference
\* is what is missing from the uploads of its days (CardsAddUp).
THEOREM CardsAlwaysAddUp == CardSpec => []CardsAddUp
  <1>1. CardInv => CardsAddUp
    BY OneNumber, FlagsAreTheGaps DEF CardsAddUp
  <1> QED
    BY <1>1, CardsType, PTL

(***************************************************************************)
(* The dashboard's pages.                                                  *)
(***************************************************************************)

LEMMA OpenMonthIs ==
    /\ MonthDays \in Nat /\ MonthDays >= 1 /\ OpenMonth \in Nat
    /\ MonthDays * OpenMonth <= Today - 1 /\ Today - 1 < MonthDays * (OpenMonth + 1)
  <1>1. Today - 1 \in Nat /\ MonthDays \in Nat /\ MonthDays >= 1
    BY FiguresAssumption, PagesAssumption DEF TodayAssumption
  <1>2. ASSUME NEW a \in Nat, NEW b \in Nat, b >= 1
        PROVE  a \div b \in Nat /\ b * (a \div b) <= a /\ a < b * ((a \div b) + 1)
    BY <1>2, SMT
  <1> QED
    BY <1>1, <1>2 DEF OpenMonth

LEMMA TimesGrows ==
    ASSUME NEW a \in Nat, NEW m \in Int, NEW n \in Int, m <= n
    PROVE  a * m <= a * n
  <1>1. PICK k \in Nat : n = m + k
    <2>1. n - m \in Nat /\ n = m + (n - m)
      OBVIOUS
    <2> QED
      BY <2>1
  <1>2. a * n = a * m + a * k /\ a * k \in Nat /\ a * m \in Int
    BY <1>1
  <1> QED
    BY <1>2

\* The month-end of a month whose next one has days is of one of those; of any earlier one, day 0.
LEMMA AnchorIs ==
    ASSUME NEW m \in AllMonths, NEW s \in SnapshotDays
    PROVE  /\ AnchorOf(m, s) = IF m < -1 THEN 0 ELSE MonthDays * (m + 1) + s
           /\ AnchorOf(m, s) \in Nat
  <1>1. m \in Int /\ s \in Int /\ s >= 1 /\ MonthDays \in Nat /\ MonthDays >= 1
    BY OpenMonthIs DEF AllMonths, SnapshotDays
  <1>2. AnchorOf(m, s) = IF MonthDays * (m + 1) + 1 < 1 THEN 0
                         ELSE MonthDays * (m + 1) + 1 + s - 1
    BY DEF AnchorOf
  <1>3. CASE m < -1
    <2>1. MonthDays * (m + 1) <= MonthDays * (-1)
      BY <1>1, <1>3, TimesGrows
    <2>2. MonthDays * (m + 1) \in Int /\ MonthDays * (-1) < 0
      BY <1>1
    <2> QED
      BY <1>1, <1>2, <1>3, <2>1, <2>2
  <1>4. CASE ~ (m < -1)
    <2>1. MonthDays * 0 <= MonthDays * (m + 1)
      BY <1>1, <1>4, TimesGrows
    <2>2. MonthDays * (m + 1) \in Int /\ MonthDays * 0 = 0
      BY <1>1
    <2> QED
      BY <1>1, <1>2, <1>4, <2>1, <2>2
  <1> QED
    BY <1>3, <1>4

\* The open month has no month-end yet, and months that ended before the last one have theirs.
LEMMA MonthEndsPass ==
    ASSUME NEW m \in AllMonths, NEW s \in SnapshotDays
    PROVE  /\ HasPassed(m, s) <=> AnchorOf(m, s) <= Today
           /\ m = OpenMonth => ~HasPassed(m, s)
           /\ m < OpenMonth - 1 => HasPassed(m, s)
           /\ \A n \in AllMonths : n <= m /\ HasPassed(m, s) => HasPassed(n, s)
  <1>1. /\ m \in Int /\ s \in Int /\ s >= 1 /\ s <= MonthDays /\ Today \in Nat
        /\ MonthDays \in Nat /\ MonthDays >= 1 /\ OpenMonth \in Nat /\ Today >= 1
    BY OpenMonthIs, DaysAreNaturals DEF AllMonths, SnapshotDays
  <1>2. \A n \in AllMonths : HasPassed(n, s) <=> AnchorOf(n, s) <= Today
    BY DEF HasPassed
  <1>3. MonthDays * OpenMonth \in Int /\ MonthDays * (OpenMonth + 1) \in Int
    BY <1>1
  <1>4. ASSUME m = OpenMonth PROVE ~HasPassed(m, s)
    <2>1. AnchorOf(m, s) = MonthDays * (OpenMonth + 1) + s
      BY <1>1, <1>4, AnchorIs
    <2> QED
      BY <1>1, <1>2, <1>3, <2>1, OpenMonthIs
  <1>5. ASSUME m < OpenMonth - 1 PROVE HasPassed(m, s)
    <2>1. CASE m < -1
      BY <1>1, <1>2, <2>1, AnchorIs
    <2>2. CASE ~ (m < -1)
      <3>1. AnchorOf(m, s) = MonthDays * (m + 1) + s
        BY <2>2, AnchorIs
      <3>2. MonthDays * (m + 2) <= MonthDays * OpenMonth
        BY <1>1, <1>5, TimesGrows
      <3>3. MonthDays * (m + 2) = MonthDays * (m + 1) + MonthDays /\ MonthDays * (m + 1) \in Int
        BY <1>1
      <3>4. AnchorOf(m, s) <= Today
        BY <1>1, <1>3, <3>1, <3>2, <3>3, OpenMonthIs
      <3> QED
        BY <1>2, <3>4
    <2> QED
      BY <2>1, <2>2
  <1>6. ASSUME NEW n \in AllMonths, n <= m, HasPassed(m, s) PROVE HasPassed(n, s)
    <2>1. CASE n < -1
      BY <1>1, <1>2, <2>1, AnchorIs
    <2>2. CASE ~ (n < -1)
      <3>1. n \in Int
        BY DEF AllMonths
      <3>2. AnchorOf(m, s) = MonthDays * (m + 1) + s /\ AnchorOf(n, s) = MonthDays * (n + 1) + s
        BY <1>1, <1>6, <2>2, <3>1, AnchorIs
      <3>3. MonthDays * (n + 1) <= MonthDays * (m + 1)
        BY <1>1, <1>6, <3>1, TimesGrows
      <3>4. MonthDays * (n + 1) \in Int /\ MonthDays * (m + 1) \in Int
        BY <1>1, <3>1
      <3>5. AnchorOf(m, s) <= Today
        BY <1>2, <1>6
      <3>6. AnchorOf(n, s) <= Today
        BY <1>1, <3>2, <3>3, <3>4, <3>5
      <3> QED
        BY <1>2, <3>6
    <2> QED
      BY <2>1, <2>2
  <1> QED
    BY <1>2, <1>4, <1>5, <1>6

\* A month has a month-end to compare with: one that passed, before the open month.
IsOver(p, s) == p \in AllMonths /\ p < OpenMonth /\ HasPassed(p, s)

LEMMA LatestHasEnded ==
    ASSUME NEW s \in SnapshotDays PROVE IsOver(LatestCompletedMonth[s], s)
  <1> DEFINE S == {m \in AllMonths : m < OpenMonth /\ HasPassed(m, s)}
             T == {m + 3 : m \in S}
  <1>1. OpenMonth + 3 \in Nat /\ AllMonths \subseteq Int /\ -3 \in AllMonths /\ -3 < OpenMonth - 1
    BY OpenMonthIs DEF AllMonths
  <1>2. -3 \in S
    BY <1>1, MonthEndsPass, OpenMonthIs
  <1>3. T \in SUBSET (0 .. (OpenMonth + 3))
    BY OpenMonthIs DEF AllMonths
  <1>4. T # {}
    BY <1>2
  <1>5. Max(T) \in T /\ \A n \in T : n <= Max(T)
    <2> HIDE DEF T
    <2> QED
      BY <1>1, <1>3, <1>4, BoundedHasMax
  <1>6. PICK top \in S : Max(T) = top + 3
    BY <1>5
  <1>7. \A m \in S : top >= m
    <2> SUFFICES ASSUME NEW m \in S PROVE top >= m
      OBVIOUS
    <2>1. m + 3 \in T
      OBVIOUS
    <2>2. m + 3 <= top + 3
      BY <1>5, <1>6, <2>1
    <2>3. m \in Int /\ top \in Int
      BY <1>1
    <2> QED
      BY <2>2, <2>3
  <1>8. Max(S) \in S
    <2>1. Max(S) = CHOOSE x \in S : \A y \in S : x >= y
      BY DEF Max
    <2> HIDE DEF S
    <2> QED
      BY <1>7, <2>1
  <1>9. LatestCompletedMonth[s] = Max(S)
    BY DEF LatestCompletedMonth
  <1> QED
    BY <1>8, <1>9 DEF IsOver

\* What a month's pages read, and what they compare with: month-ends that have passed.
LEMMA ComparedMonths ==
    ASSUME NEW m \in Months, NEW s \in SnapshotDays
    PROVE  /\ m \in AllMonths /\ OpenMonth \in AllMonths
           /\ IsOver(CompareMonth(m, s), s)
           /\ m = OpenMonth => CompareMonth(m, s) = LatestCompletedMonth[s]
           /\ m # OpenMonth => /\ IsOver(CompletedMonth[m][s], s)
                               /\ CompareMonth(m, s) = CompletedMonth[m][s] - 1
           /\ HasPassed(m, s) => m # OpenMonth /\ CompletedMonth[m][s] = m
  <1>1. m \in AllMonths /\ OpenMonth \in AllMonths /\ m <= OpenMonth /\ m >= -1 /\ m \in Int
        /\ OpenMonth \in Nat
    BY OpenMonthIs DEF Months, AllMonths
  <1>2. CompareMonth(m, s) = IF m = OpenMonth THEN LatestCompletedMonth[s]
                                             ELSE CompletedMonth[m][s] - 1
    BY <1>1 DEF CompareMonth
  <1>3. CompletedMonth[m][s] = IF HasPassed(m, s) THEN m ELSE m - 1
    BY <1>1 DEF CompletedMonth
  <1>4. ASSUME m # OpenMonth
        PROVE  IsOver(CompletedMonth[m][s], s) /\ IsOver(CompletedMonth[m][s] - 1, s)
    <2>1. m - 1 \in AllMonths /\ m - 2 \in AllMonths /\ m < OpenMonth
      BY <1>1, <1>4 DEF AllMonths
    <2>2. HasPassed(m - 1, s) /\ HasPassed(m - 2, s)
      <3>1. m - 1 < OpenMonth - 1 /\ m - 2 < OpenMonth - 1
        BY <1>1, <2>1
      <3> QED
        BY <2>1, <3>1, MonthEndsPass
    <2>3. m - 1 < OpenMonth /\ m - 2 < OpenMonth /\ m - 1 - 1 = m - 2
      BY <1>1, <2>1
    <2> QED
      BY <1>1, <1>3, <2>1, <2>2, <2>3 DEF IsOver
  <1>5. HasPassed(m, s) => m # OpenMonth
    BY <1>1, MonthEndsPass
  <1> QED
    BY <1>1, <1>2, <1>3, <1>4, <1>5, LatestHasEnded

\* A month that ended is shown at its month-end by every page.
LEMMA EndedIsShown ==
    ASSUME NEW p, NEW s \in SnapshotDays, IsOver(p, s)
    PROVE  /\ CompletedMonth[p][s] = p
           /\ View[p][s] = [at |-> AnchorOf(p, s), live |-> FALSE]
           /\ AnchorOf(p, s) \in 0 .. Today
  <1>1. p \in AllMonths /\ HasPassed(p, s) /\ p # OpenMonth
    BY DEF IsOver, AllMonths
  <1>2. CompletedMonth[p][s] = p
    BY <1>1 DEF CompletedMonth
  <1>3. View[p][s] = [at |-> AnchorOf(p, s), live |-> FALSE]
    BY <1>1, <1>2 DEF View
  <1>4. AnchorOf(p, s) \in 0 .. Today
    BY <1>1, AnchorIs, MonthEndsPass, DaysAreNaturals
  <1> QED
    BY <1>2, <1>3, <1>4

\* What the pages need of the figures: amounts are numbers, and a view's stocks are the page's
\* of stocks, its countries nothing or its platforms, unless a NAV is worth less than nothing.
Amounts(f, v) ==
    /\ Seen(f, v).net.total \in Int
    /\ ~NavBelowNothing(v.at, v.live) =>
          /\ Seen(f, v).exposure = Seen(f, v).net.stocks
          /\ Seen(f, v).geography \in {0, Seen(f, v).platforms}

Views == {[at |-> Today, live |-> TRUE]} \cup [at : 0 .. Today, live : {FALSE}]

LEMMA ChangeIs ==
    \A f, v, p, s : LET from == f.monthEnd[AnchorOf(p, s)].net.total
                    IN  /\ NetWorthChange(f, v, p, s).of = from
                        /\ NetWorthChange(f, v, p, s).abs = v - from
  BY DEF NetWorthChange, Change

\* A past month, and its neighbour.
LEMMA PastMonthIsOneStory ==
    ASSUME NEW f, \A v \in Views : Amounts(f, v),
           NEW m \in Months, NEW s \in SnapshotDays, m # OpenMonth
    PROVE  LET h == Headline(f, m, s)  p == CompareMonth(m, s)
               change == HeadlineChange(f, m, s)  summary == Summary(f, m, s)
               cash == CashPage(f, m, s)  stock == StockPage(f, m, s)
               rest == SummaryRest(f, m, s)  history == Timeline(f, s)
           IN  /\ RiskSummary(f, m, s).net = h
               /\ HasPassed(m, s) => history.points[m] = h
               /\ summary.shares = stock.shares
               /\ rest.shares = summary.shares /\ rest.geography = summary.geography
               /\ \A c \in DOMAIN summary.components :
                     summary.components[c].abs = h[c] - Headline(f, p, s)[c]
               /\ summary.mover = stock.shares - StockPage(f, p, s).shares
               /\ change.of = Headline(f, p, s).total
               /\ change.of + change.abs = h.total
               /\ cash.snapshot = CashPage(f, p, s).current
               /\ stock.snapshot = StockPage(f, p, s).current
  <1> DEFINE q == CompletedMonth[m][s]
             now == f.monthEnd[AnchorOf(q, s)]
             was == f.monthEnd[AnchorOf(q - 1, s)]
  <1>1. IsOver(q, s) /\ IsOver(q - 1, s) /\ CompareMonth(m, s) = q - 1
    BY ComparedMonths
  <1>2. /\ View[m][s] = [at |-> AnchorOf(q, s), live |-> FALSE]
        /\ View[q - 1][s] = [at |-> AnchorOf(q - 1, s), live |-> FALSE]
        /\ CompletedMonth[q - 1][s] = q - 1
        /\ AnchorOf(q, s) \in 0 .. Today /\ AnchorOf(q - 1, s) \in 0 .. Today
    <2>1. m \in AllMonths
      BY ComparedMonths
    <2>2. View[m][s] = [at |-> AnchorOf(q, s), live |-> FALSE]
      BY <2>1 DEF View
    <2> HIDE DEF q
    <2> QED
      BY <1>1, <2>2, EndedIsShown
  <1>3. Seen(f, View[m][s]) = now /\ Seen(f, View[q - 1][s]) = was
    BY <1>2 DEF Seen
  <1>4. Headline(f, m, s) = now.net /\ Headline(f, q - 1, s) = was.net
    BY <1>2 DEF Headline, Bootstrap
  <1>5. now.net.total \in Int /\ was.net.total \in Int
    <2>1. View[m][s] \in Views /\ View[q - 1][s] \in Views
      <3>1. \A a \in 0 .. Today : [at |-> a, live |-> FALSE] \in Views
        BY DEF Views
      <3> HIDE DEF q
      <3> QED
        BY <1>2, <3>1
    <2> QED
      BY <1>3, <2>1 DEF Amounts
  <1>6. HasPassed(m, s) => Timeline(f, s).points[m] = now.net
    <2>1. HasPassed(m, s) => q = m
      BY ComparedMonths
    <2> QED
      BY <2>1 DEF Timeline
  <1>7. /\ Summary(f, m, s).shares = now.shares
        /\ Summary(f, m, s).geography = IF now.net.total <= 0 THEN 0 ELSE now.geography
        /\ Summary(f, m, s).mover = now.shares - was.shares
        /\ Summary(f, m, s).change = NetWorthChange(f, now.net.total, q - 1, s)
        /\ Summary(f, m, s).components = ComponentChange(f, q, s)
    BY <1>2, <1>3 DEF Summary, TimelineMover, Mover
  <1>8. /\ SummaryRest(f, m, s).shares = now.shares
        /\ SummaryRest(f, m, s).geography = IF now.net.total <= 0 THEN 0 ELSE now.geography
    BY <1>3 DEF SummaryRest
  <1>9. \A c \in DOMAIN ComponentChange(f, q, s) :
           ComponentChange(f, q, s)[c].abs = now.net[c] - was.net[c]
    <2> HIDE DEF q
    <2> QED
      BY DEF ComponentChange, Change
  <1>10. HeadlineChange(f, m, s) = NetWorthChange(f, now.net.total, q - 1, s)
    BY <1>2, <1>7 DEF HeadlineChange
  <1>11. /\ StockPage(f, m, s).shares = now.shares /\ StockPage(f, m, s).snapshot = was.exposure
         /\ StockPage(f, q - 1, s).shares = was.shares
         /\ StockPage(f, q - 1, s).current = was.exposure
         /\ CashPage(f, m, s).snapshot = was.net.cash + was.stable
         /\ CashPage(f, q - 1, s).current = was.net.cash + was.stable
    BY <1>1, <1>3 DEF StockPage, CashPage
  <1>12. RiskSummary(f, m, s).net = now.net
    BY <1>2 DEF RiskSummary
  <1> HIDE DEF q, now, was
  <1>13. /\ NetWorthChange(f, now.net.total, q - 1, s).of = was.net.total
         /\ NetWorthChange(f, now.net.total, q - 1, s).of
              + NetWorthChange(f, now.net.total, q - 1, s).abs = now.net.total
    <2>1. f.monthEnd[AnchorOf(q - 1, s)].net.total = was.net.total
      BY DEF was
    <2> DEFINE change == NetWorthChange(f, now.net.total, q - 1, s)
    <2>2. change.of = was.net.total /\ change.abs = now.net.total - was.net.total
      BY ONLY <2>1, ChangeIs
    <2> HIDE DEF change
    <2>3. was.net.total + (now.net.total - was.net.total) = now.net.total
      BY ONLY <1>5
    <2>4. change.of = was.net.total /\ change.of + change.abs = now.net.total
      BY ONLY <2>2, <2>3
    <2> QED
      BY ONLY <2>4 DEF change
  <1> QED
    BY <1>1, <1>4, <1>6, <1>7, <1>8, <1>9, <1>10, <1>11, <1>12, <1>13

\* The open month, and the month-end it compares with.
LEMMA OpenMonthIsOneStory ==
    ASSUME NEW f, \A v \in Views : Amounts(f, v), NEW s \in SnapshotDays
    PROVE  LET m == OpenMonth
               h == Headline(f, m, s)  p == CompareMonth(m, s)
               change == HeadlineChange(f, m, s)  summary == Summary(f, m, s)
               cash == CashPage(f, m, s)  stock == StockPage(f, m, s)
               rest == SummaryRest(f, m, s)  history == Timeline(f, s)
           IN  /\ RiskSummary(f, m, s).net = h
               /\ history.now = h
               /\ summary.shares = stock.shares
               /\ rest.shares = summary.shares /\ rest.geography = summary.geography
               /\ change.of = Headline(f, p, s).total
               /\ change.of + change.abs = h.total
               /\ cash.snapshot = CashPage(f, p, s).current
               /\ stock.snapshot = StockPage(f, p, s).current
  <1> DEFINE m == OpenMonth
             p == LatestCompletedMonth[s]
             now == f.live[Today]
             was == f.monthEnd[AnchorOf(p, s)]
  <1>1. IsOver(p, s) /\ CompareMonth(m, s) = p
    BY LatestHasEnded DEF CompareMonth
  <1>2. /\ View[m][s] = [at |-> Today, live |-> TRUE]
        /\ View[p][s] = [at |-> AnchorOf(p, s), live |-> FALSE]
        /\ CompletedMonth[p][s] = p /\ AnchorOf(p, s) \in 0 .. Today
    <2>1. m \in AllMonths
      BY OpenMonthIs DEF AllMonths
    <2> QED
      BY <1>1, <2>1, EndedIsShown DEF View
  <1>3. Seen(f, View[m][s]) = now /\ Seen(f, View[p][s]) = was /\ Now(f) = now
    BY <1>2 DEF Seen, Now
  <1>4. Headline(f, m, s) = now.net /\ Headline(f, p, s) = was.net
    BY <1>2, <1>3 DEF Headline, Bootstrap
  <1>5. now.net.total \in Int /\ was.net.total \in Int
    <2>1. View[m][s] \in Views /\ View[p][s] \in Views
      BY <1>2 DEF Views
    <2> QED
      BY <1>3, <2>1 DEF Amounts
  <1>6. Timeline(f, s).now = now.net
    BY <1>3 DEF Timeline
  <1>7. /\ Summary(f, m, s).shares = now.shares
        /\ Summary(f, m, s).geography = IF now.net.total <= 0 THEN 0 ELSE now.geography
        /\ Summary(f, m, s).currentChange = NetWorthChange(f, now.net.total, p, s)
    BY <1>2, <1>3 DEF Summary
  <1>8. /\ SummaryRest(f, m, s).shares = now.shares
        /\ SummaryRest(f, m, s).geography = IF now.net.total <= 0 THEN 0 ELSE now.geography
    BY <1>3 DEF SummaryRest
  <1>9. HeadlineChange(f, m, s) = NetWorthChange(f, now.net.total, p, s)
    BY <1>2, <1>7 DEF HeadlineChange
  <1>10. /\ StockPage(f, m, s).shares = now.shares /\ StockPage(f, m, s).snapshot = was.exposure
         /\ StockPage(f, p, s).current = was.exposure
         /\ CashPage(f, m, s).snapshot = was.net.cash + was.stable
         /\ CashPage(f, p, s).current = was.net.cash + was.stable
    BY <1>1, <1>3 DEF StockPage, CashPage
  <1>11. RiskSummary(f, m, s).net = now.net
    BY <1>2, <1>3 DEF RiskSummary
  <1> HIDE DEF p, now, was
  <1>12. /\ NetWorthChange(f, now.net.total, p, s).of = was.net.total
         /\ NetWorthChange(f, now.net.total, p, s).of
              + NetWorthChange(f, now.net.total, p, s).abs = now.net.total
    <2>1. f.monthEnd[AnchorOf(p, s)].net.total = was.net.total
      BY DEF was
    <2> DEFINE change == NetWorthChange(f, now.net.total, p, s)
    <2>2. change.of = was.net.total /\ change.abs = now.net.total - was.net.total
      BY ONLY <2>1, ChangeIs
    <2> HIDE DEF change
    <2>3. was.net.total + (now.net.total - was.net.total) = now.net.total
      BY ONLY <1>5
    <2>4. change.of = was.net.total /\ change.of + change.abs = now.net.total
      BY ONLY <2>2, <2>3
    <2> QED
      BY ONLY <2>4 DEF change
  <1> QED
    BY <1>1, <1>4, <1>6, <1>7, <1>8, <1>9, <1>10, <1>11, <1>12

\* The trends, and what is shown of the countries and of the stocks.
LEMMA ViewIsOneStory ==
    ASSUME NEW f, \A v \in Views : Amounts(f, v), NEW m \in Months, NEW s \in SnapshotDays
    PROVE  /\ HasTrendPoint(m, s) =>
                 /\ StockTrend(f, m, s) = StockPage(f, m, s).current
                 /\ CashTrend(f, m, s) # 0 => CashTrend(f, m, s) = CashPage(f, m, s).current
           /\ \/ /\ ExposurePage(f, m, s) = Headline(f, m, s).stocks
                 /\ GeographyPage(f, m, s) \in {0, Allocation(f, m, s)}
              \/ NavBelowNothing(View[m][s].at, View[m][s].live)
  <1>0. m \in AllMonths
    BY ComparedMonths
  <1>1. HasTrendPoint(m, s) => TrendView(m, s) = View[m][s]
    <2>1. CASE m = OpenMonth
      BY <1>0, <2>1 DEF TrendView, View
    <2>2. CASE m # OpenMonth
      BY <2>2, ComparedMonths DEF TrendView, View, HasTrendPoint
    <2> QED
      BY <2>1, <2>2
  <1>2. View[m][s] \in Views /\ Headline(f, m, s) = Seen(f, View[m][s]).net
    <2>1. CASE m = OpenMonth
      BY <1>0, <2>1 DEF View, Views, Headline, Bootstrap, Seen, Now
    <2>2. CASE m # OpenMonth
      <3>1. AnchorOf(CompletedMonth[m][s], s) \in 0 .. Today
        BY <2>2, ComparedMonths, EndedIsShown
      <3> QED
        BY <1>0, <2>2, <3>1 DEF View, Views, Headline, Bootstrap, Seen
    <2> QED
      BY <2>1, <2>2
  <1>3. Amounts(f, View[m][s])
    BY <1>2
  <1>4. HasTrendPoint(m, s) =>
           /\ StockTrend(f, m, s) = StockPage(f, m, s).current
           /\ CashTrend(f, m, s) # 0 => CashTrend(f, m, s) = CashPage(f, m, s).current
    BY <1>1 DEF StockTrend, StockPage, CashTrend, CashPage
  <1> QED
    BY <1>2, <1>3, <1>4 DEF Amounts, ExposurePage, GeographyPage, Allocation

LEMMA MonthsAgree ==
    ASSUME NEW f, \A v \in Views : Amounts(f, v) PROVE MonthsAreOneStory(f)
  <1> SUFFICES ASSUME NEW s \in SnapshotDays, NEW m \in Months PROVE MonthsAreOneStory(f)!(s, m)
    BY DEF MonthsAreOneStory
  <1>1. CASE m = OpenMonth
    <2>1. ~HasPassed(m, s) /\ View[m][s].live
      BY <1>1, ComparedMonths DEF View
    <2> QED
      BY <1>1, <2>1, OpenMonthIsOneStory, ViewIsOneStory
  <1>2. CASE m # OpenMonth
    BY <1>2, PastMonthIsOneStory, ViewIsOneStory
  <1> QED
    BY <1>1, <1>2

\* What the figures of a view are.
LEMMA SeenIs ==
    /\ \A v \in Views : Seen(Figures, v) = FiguresOf(v.at, v.live) /\ v.live \in BOOLEAN
    /\ \A at \in 0 .. Today : /\ Figures.live[at] = FiguresOf(at, TRUE)
                              /\ Figures.monthEnd[at] = FiguresOf(at, FALSE)
  <1>1. 0 .. Today \subseteq 0 .. Today + MonthDays - 1 /\ Today \in 0 .. Today
    BY OpenMonthIs, DaysAreNaturals
  <1>2. \A at \in 0 .. Today : /\ Figures.live[at] = FiguresOf(at, TRUE)
                               /\ Figures.monthEnd[at] = FiguresOf(at, FALSE)
    BY <1>1 DEF Figures
  <1>3. \A v \in Views : Seen(Figures, v) = FiguresOf(v.at, v.live) /\ v.live \in BOOLEAN
    <2> TAKE v \in Views
    <2>1. CASE v = [at |-> Today, live |-> TRUE]
      BY <1>1, <1>2, <2>1 DEF Seen
    <2>2. CASE v \in [at : 0 .. Today, live : {FALSE}]
      <3>1. v.live = FALSE /\ v.at \in 0 .. Today
        BY <2>2
      <3> QED
        BY <1>2, <3>1 DEF Seen
    <2> QED
      BY <2>1, <2>2 DEF Views
  <1> QED
    BY <1>2, <1>3

LEMMA OwedIsInt ==
    ASSUME FactsInv, NEW at, NEW live \in BOOLEAN PROVE CardOwed(at, live) \in Int
  <1>1. \A S \in SUBSET Days : SpentOn(S) \in Int
    <2>1. IsFiniteSet(Days) /\ \A d \in Days : Spent[d] \in Int
      BY FS_Interval, PagesAssumption, DaysAreNaturals DEF Days
    <2> QED
      BY <2>1, SumInt DEF SpentOn
  <1>2. charges \in SUBSET Days /\ balances["card"] \in SUBSET Days
    BY DEF FactsInv, TypeOK, Accounts
  <1> DEFINE until == IF live THEN at ELSE at - 1
             statement == Newest("card", balances["card"], at)
  <1>3. statement \in Days \cup {0}
    BY <1>2, NewestIsOne
  <1>4. 1 .. statement \in SUBSET Days
    BY <1>3, DaysAreNaturals DEF Days
  <1>5. SpentOn(1 .. statement) + SpentOn({d \in charges : d > statement /\ d <= until}) \in Int
    <2>1. \A x, y : {d \in charges : d > x /\ d <= y} \in SUBSET Days
      BY <1>2
    <2>2. \A x, y \in Int : x + y \in Int
      OBVIOUS
    <2> HIDE DEF statement, until
    <2> QED
      BY <1>1, <1>4, <2>1, <2>2
  <1>6. SpentOn({d \in charges : d > until - Window /\ d <= until}) \in Int
    BY <1>1, <1>2
  <1> HIDE DEF statement, until
  <1>7. CASE ~IsOpen("card", at)
    BY <1>7 DEF CardOwed
  <1>8. CASE IsOpen("card", at) /\ statement # 0
    BY <1>5, <1>8 DEF CardOwed, statement, until
  <1>9. CASE IsOpen("card", at) /\ statement = 0
    BY <1>6, <1>9 DEF CardOwed, statement, until
  <1> QED
    BY <1>7, <1>8, <1>9

LEMMA NetIs ==
    ASSUME NEW at, NEW live
    PROVE  /\ FiguresOf(at, live).net =
                 [cash |-> CashPart(at), stocks |-> StocksPart(at, live), crypto |-> Crypto(at),
                  owed |-> CardOwed(at, live),
                  total |-> CashPart(at) + StocksPart(at, live) + Crypto(at) - CardOwed(at, live)]
           /\ FiguresOf(at, live).exposure = StockExposure(at, live)
           /\ FiguresOf(at, live).platforms = PlatformTotal(at, live)
           /\ FiguresOf(at, live).coverage = Coverage(at)
           /\ FiguresOf(at, live).currencies = CurrencyTotal(at, live)
           /\ FiguresOf(at, live).geography =
                 IF StockExposure(at, live) + CashPart(at) + Crypto(at) > 0
                 THEN StockExposure(at, live) + CashPart(at) + Crypto(at) ELSE 0
           /\ FiguresOf(at, live).net.total \in Int /\ FiguresOf(at, live).net.total > 0
                 => FiguresOf(at, live).shares = SharesHeld(at, live)
  <1> DEFINE total == CashPart(at) + StocksPart(at, live) + Crypto(at) - CardOwed(at, live)
  <1>1. FiguresOf(at, live).net.total = total
    BY DEF FiguresOf
  <1>2. FiguresOf(at, live).shares = IF total <= 0 THEN 0 ELSE SharesHeld(at, live)
    BY DEF FiguresOf
  <1>3. FiguresOf(at, live).net =
           [cash |-> CashPart(at), stocks |-> StocksPart(at, live), crypto |-> Crypto(at),
            owed |-> CardOwed(at, live), total |-> total]
    BY DEF FiguresOf
  <1>4. /\ FiguresOf(at, live).exposure = StockExposure(at, live)
        /\ FiguresOf(at, live).platforms = PlatformTotal(at, live)
        /\ FiguresOf(at, live).coverage = Coverage(at)
        /\ FiguresOf(at, live).currencies = CurrencyTotal(at, live)
    BY DEF FiguresOf
  <1>5. FiguresOf(at, live).geography =
           IF StockExposure(at, live) + CashPart(at) + Crypto(at) > 0
           THEN StockExposure(at, live) + CashPart(at) + Crypto(at) ELSE 0
    BY DEF FiguresOf
  <1>6. total > 0 /\ total \in Int => ~ (total <= 0)
    <2> HIDE DEF total
    <2> QED
      OBVIOUS
  <1> HIDE DEF total
  <1> QED
    BY <1>1, <1>2, <1>3, <1>4, <1>5, <1>6 DEF total

LEMMA FiguresAmount ==
    ASSUME FactsInv PROVE \A v \in Views : Amounts(Figures, v)
  <1> SUFFICES ASSUME NEW v \in Views PROVE Amounts(Figures, v)
    OBVIOUS
  <1>1. Seen(Figures, v) = FiguresOf(v.at, v.live) /\ v.live \in BOOLEAN
    BY SeenIs
  <1>2. /\ CashPart(v.at) \in Int /\ Crypto(v.at) \in Int /\ CardOwed(v.at, v.live) \in Int
        /\ StocksPart(v.at, v.live) \in Int
        /\ PlatformTotal(v.at, v.live) = Assets(v.at, v.live)
        /\ \/ StockExposure(v.at, v.live) = StocksPart(v.at, v.live)
           \/ NavBelowNothing(v.at, v.live)
    BY <1>1, PagesAgreeOn, OwedIsInt DEF NavBelowNothing
  <1> DEFINE cash == CashPart(v.at)
             crypto == Crypto(v.at)
             owed == CardOwed(v.at, v.live)
             stocks == StocksPart(v.at, v.live)
             exposure == StockExposure(v.at, v.live)
             platforms == PlatformTotal(v.at, v.live)
  <1> DEFINE F == FiguresOf(v.at, v.live)
  <1>3. /\ F.net.total = cash + stocks + crypto - owed /\ F.net.stocks = stocks
        /\ F.exposure = exposure /\ F.platforms = platforms
        /\ F.geography = IF exposure + cash + crypto > 0 THEN exposure + cash + crypto ELSE 0
    <2>1. F.net = [cash |-> cash, stocks |-> stocks, crypto |-> crypto, owed |-> owed,
                   total |-> cash + stocks + crypto - owed]
      BY ONLY NetIs
    <2>2. F.exposure = exposure /\ F.platforms = platforms
      BY ONLY NetIs
    <2>3. F.geography = IF exposure + cash + crypto > 0 THEN exposure + cash + crypto ELSE 0
      <3>1. \A at, live : FiguresOf(at, live).geography =
               IF StockExposure(at, live) + CashPart(at) + Crypto(at) > 0
               THEN StockExposure(at, live) + CashPart(at) + Crypto(at) ELSE 0
        BY ONLY NetIs
      <3> QED
        BY ONLY <3>1
    <2> HIDE DEF F, cash, crypto, owed, stocks, exposure, platforms
    <2> QED
      BY <2>1, <2>2, <2>3
  <1>4. platforms = cash + stocks + crypto
    BY <1>2 DEF Assets
  <1> HIDE DEF F, cash, crypto, owed, stocks, exposure, platforms
  <1>5. cash \in Int /\ crypto \in Int /\ owed \in Int /\ stocks \in Int
    BY <1>2 DEF cash, crypto, owed, stocks
  <1>6. F.net.total \in Int
    BY <1>3, <1>5
  <1>7. ASSUME exposure = stocks
        PROVE  F.exposure = F.net.stocks /\ F.geography \in {0, F.platforms}
    <2>1. exposure + cash + crypto = platforms
      BY <1>4, <1>5, <1>7
    <2> QED
      BY <1>3, <1>7, <2>1
  <1>8. exposure = stocks \/ NavBelowNothing(v.at, v.live)
    BY <1>2 DEF exposure, stocks
  <1> QED
    BY <1>1, <1>6, <1>7, <1>8 DEF Amounts, F

LEMMA FiguresTotalsAgree == ASSUME FactsInv PROVE TotalsAgree(Figures)
  <1> SUFFICES ASSUME NEW at \in 0 .. Today, NEW live \in BOOLEAN
               PROVE  TotalsAgree(Figures)!(at, live)
    BY DEF TotalsAgree
  <1> DEFINE F == FiguresOf(at, live)
             cash == CashPart(at)
             crypto == Crypto(at)
             owed == CardOwed(at, live)
             stocks == StocksPart(at, live)
  <1>1. Seen(Figures, [at |-> at, live |-> live]) = F
    BY SeenIs DEF Seen
  <1>2. F.net = [cash |-> cash, stocks |-> stocks, crypto |-> crypto, owed |-> owed,
                 total |-> cash + stocks + crypto - owed]
    BY ONLY NetIs
  <1>3. F.platforms = PlatformTotal(at, live) /\ F.currencies = CurrencyTotal(at, live)
    BY ONLY NetIs
  <1>4. /\ PlatformTotal(at, live) = Assets(at, live)
        /\ CurrencyTotal(at, live) = Total(at, live) \/ NavBelowNothing(at, live)
    BY PagesAgreeOn DEF NavBelowNothing
  <1>5. Assets(at, live) = cash + stocks + crypto /\ Total(at, live) = Assets(at, live) - owed
    BY DEF Assets, Total
  <1>. cash \in Int /\ crypto \in Int /\ owed \in Int /\ stocks \in Int
    BY PagesAgreeOn, OwedIsInt
  <1> HIDE DEF F, cash, crypto, owed, stocks
  <1>6. /\ F.net.cash = cash /\ F.net.stocks = stocks /\ F.net.crypto = crypto
        /\ F.net.total = cash + stocks + crypto - owed
    BY <1>2
  <1>7. F.platforms = F.net.cash + F.net.stocks + F.net.crypto
    BY <1>3, <1>4, <1>5, <1>6
  <1>8. F.currencies = F.net.total \/ NavBelowNothing(at, live)
    <2>1. F.net.total = Total(at, live)
      BY <1>5, <1>6
    <2> QED
      BY <1>3, <1>4, <2>1
  <1> QED
    BY <1>1, <1>7, <1>8, Zenon

(***************************************************************************)
(* Since the last update.                                                  *)
(***************************************************************************)

\* Nothing is dated after day e, and no account closed and no window ended since.
Quiet(e) ==
    /\ e \in 0 .. Today
    /\ \A S \in {nav, holdings, brokercash, quotes, wallets, charges,
                 balances["ibkr"], balances["card"]} : \A d \in S : d <= e
    /\ \A u \in uploads : u.day <= e
    /\ \A a \in Accounts : closed[a] < e \/ closed[a] >= Today
    /\ window = NoWindow \/ window.to < e \/ window.to >= Today
    /\ balances["card"] # {} \/ charges = {}

LEMMA QuietDays ==
    ASSUME FactsInv, NEW e, Quiet(e)
    PROVE  /\ e \in Nat /\ Today \in Nat /\ e <= Today
           /\ nav \subseteq Nat /\ holdings \subseteq Nat /\ brokercash \subseteq Nat
           /\ quotes \subseteq Nat /\ wallets \subseteq Nat /\ charges \subseteq Nat
           /\ balances["ibkr"] \subseteq Nat /\ balances["card"] \subseteq Nat
           /\ \A u \in uploads : u.day \in Nat
           /\ \A a \in Accounts : closed[a] \in Nat
           /\ window # NoWindow => window.from \in Nat /\ window.to \in Nat
  <1>1. e \in Nat /\ Today \in Nat /\ e <= Today
    BY DaysAreNaturals DEF Quiet
  <1>2. /\ nav \subseteq Nat /\ holdings \subseteq Nat /\ brokercash \subseteq Nat
        /\ quotes \subseteq Nat /\ wallets \subseteq Nat /\ charges \subseteq Nat
        /\ balances["ibkr"] \subseteq Nat /\ balances["card"] \subseteq Nat
    BY DaysAreNaturals DEF FactsInv, TypeOK, Accounts
  <1>3. \A u \in uploads : u.day \in Nat
    BY DaysAreNaturals DEF FactsInv, TypeOK
  <1>4. \A a \in Accounts : closed[a] \in Nat
    BY DaysAreNaturals DEF FactsInv, TypeOK
  <1>5. window # NoWindow => window.from \in Nat /\ window.to \in Nat
    BY DaysAreNaturals DEF FactsInv, TypeOK
  <1> QED
    BY <1>1, <1>2, <1>3, <1>4, <1>5

\* What is newest now was newest then.
LEMMA NewestStays ==
    ASSUME FactsInv, NEW e, Quiet(e), NEW a \in Accounts, NEW S \in SUBSET Nat, \A d \in S : d <= e
    PROVE  Newest(a, S, Today) = Newest(a, S, e)
  <1>1. e \in Nat /\ Today \in Nat /\ e <= Today /\ closed[a] \in Nat
    BY QuietDays
  <1>2. {d \in S : d <= Today} = {d \in S : d <= e}
    <2>1. \A d \in S : d <= Today
      <3> TAKE d \in S
      <3>1. d \in Nat /\ d <= e
        OBVIOUS
      <3> QED
        BY <1>1, <3>1
    <2> QED
      BY <2>1
  <1>3. IsOpen(a, Today) <=> IsOpen(a, e)
    BY <1>1 DEF IsOpen, Quiet
  <1> QED
    BY <1>2, <1>3 DEF Newest

LEMMA AuthorityStays ==
    ASSUME FactsInv, NEW e, Quiet(e)
    PROVE  /\ ValuedByNav(Today) <=> ValuedByNav(e)
           /\ FlexOwns(Today) <=> FlexOwns(e)
  <1>1. /\ e \in Nat /\ Today \in Nat /\ e <= Today
        /\ nav \subseteq Nat /\ holdings \subseteq Nat /\ brokercash \subseteq Nat
        /\ window # NoWindow => window.from \in Nat /\ window.to \in Nat
    BY QuietDays
  <1>2. \A d \in nav \cup holdings \cup brokercash : d \in Nat /\ d <= e /\ d <= Today
    BY <1>1 DEF Quiet
  <1>3. ValuedByNav(Today) <=> ValuedByNav(e)
    BY <1>2 DEF ValuedByNav
  <1>4. window = NoWindow \/ window.to < e \/ window.to >= Today
    BY DEF Quiet
  <1>5. ASSUME FlexOwns(Today) PROVE FlexOwns(e)
    <2>1. PICK d \in window.from .. Today : d \in nav \cup holdings \cup brokercash
      BY <1>5 DEF FlexOwns
    <2>2. window # NoWindow /\ window.to >= Today /\ window.from \in Nat /\ window.to \in Nat
      BY <1>1, <1>4, <1>5 DEF FlexOwns, Covers
    <2>3. d \in window.from .. e /\ window.from <= e /\ e <= window.to
      BY <1>1, <1>2, <2>1, <2>2
    <2> QED
      BY <2>1, <2>2, <2>3 DEF FlexOwns, Covers
  <1>6. ASSUME FlexOwns(e) PROVE FlexOwns(Today)
    <2>1. PICK d \in window.from .. e : d \in nav \cup holdings \cup brokercash
      BY <1>6 DEF FlexOwns
    <2>2. /\ window # NoWindow /\ window.from <= e /\ e <= window.to
          /\ window.from \in Nat /\ window.to \in Nat
      BY <1>1, <1>6 DEF FlexOwns, Covers
    <2>3. d \in window.from .. Today /\ window.from <= Today /\ Today <= window.to
      BY <1>1, <1>4, <2>1, <2>2
    <2> QED
      BY <2>1, <2>2, <2>3 DEF FlexOwns, Covers
  <1> QED
    BY <1>3, <1>5, <1>6

LEMMA SourcesStay ==
    ASSUME FactsInv, NEW e, Quiet(e)
    PROVE  /\ EffectiveNav(Today) = EffectiveNav(e)
           /\ \A detail \in BOOLEAN : EffectiveHoldings(Today, detail) = EffectiveHoldings(e, detail)
           /\ \A a \in {"ibkr", "dark"} : EffectiveUploads(a, Today) = EffectiveUploads(a, e)
           /\ EffectiveBalance("ibkr", Today) = EffectiveBalance("ibkr", e)
           /\ EffectiveBrokerCash(Today) = EffectiveBrokerCash(e)
           /\ WalletDay(Today) = WalletDay(e)
  <1>1. \A a \in Accounts : \A S \in SUBSET Nat :
           (\A d \in S : d <= e) => Newest(a, S, Today) = Newest(a, S, e)
    BY NewestStays
  <1>2. \A S \in {nav, holdings, brokercash} :
           /\ {d \in S : Covers(d)} \in SUBSET Nat
           /\ \A d \in {d \in S : Covers(d)} : d <= e
    BY QuietDays DEF Quiet
  <1>3. EffectiveNav(Today) = EffectiveNav(e)
    BY <1>1, <1>2 DEF EffectiveNav, Accounts
  <1>4. \A detail \in BOOLEAN : EffectiveHoldings(Today, detail) = EffectiveHoldings(e, detail)
    BY <1>1, <1>2, AuthorityStays DEF EffectiveHoldings, Accounts
  <1>5. ASSUME NEW a \in {"ibkr", "dark"} PROVE EffectiveUploads(a, Today) = EffectiveUploads(a, e)
    <2> DEFINE S == {u.day : u \in {v \in uploads : v.account = a /\ v.counts}}
    <2>1. S \in SUBSET Nat /\ \A d \in S : d <= e
      BY QuietDays DEF Quiet
    <2>2. Newest(a, S, Today) = Newest(a, S, e)
      <3> HIDE DEF S
      <3> QED
        BY <1>1, <2>1 DEF Accounts
    <2> QED
      BY <2>2, AuthorityStays DEF EffectiveUploads
  <1>6. EffectiveBalance("ibkr", Today) = EffectiveBalance("ibkr", e)
    <2>1. balances["ibkr"] \in SUBSET Nat /\ \A d \in balances["ibkr"] : d <= e
      BY QuietDays DEF Quiet
    <2> QED
      BY <1>1, <2>1, AuthorityStays DEF EffectiveBalance, Accounts
  <1>7. EffectiveBrokerCash(Today) = EffectiveBrokerCash(e)
    BY <1>1, <1>2, <1>6 DEF EffectiveBrokerCash, Accounts
  <1>8. WalletDay(Today) = WalletDay(e)
    <2>1. {d \in wallets : d <= Today} = {d \in wallets : d <= e}
      BY QuietDays DEF Quiet
    <2> QED
      BY <2>1 DEF WalletDay
  <1> QED
    BY <1>3, <1>4, <1>5, <1>6, <1>7, <1>8

LEMMA OwedStays ==
    ASSUME FactsInv, NEW e, Quiet(e) PROVE CardOwed(Today, TRUE) = CardOwed(e, TRUE)
  <1>1. e \in Nat /\ Today \in Nat /\ e <= Today /\ charges \subseteq Nat
        /\ \A d \in charges : d <= e /\ d <= Today
    BY QuietDays DEF Quiet
  <1>2. balances["card"] \in SUBSET Nat /\ \A d \in balances["card"] : d <= e
    BY QuietDays DEF Quiet
  <1>3. Newest("card", balances["card"], Today) = Newest("card", balances["card"], e)
    BY <1>2, NewestStays DEF Accounts
  <1>4. IsOpen("card", Today) <=> IsOpen("card", e)
    BY QuietDays DEF IsOpen, Quiet, Accounts
  <1>5. \A x : {d \in charges : d > x /\ d <= Today} = {d \in charges : d > x /\ d <= e}
    BY <1>1
  <1>6. charges = {} =>
           {d \in charges : d > Today - Window /\ d <= Today}
              = {d \in charges : d > e - Window /\ d <= e}
    OBVIOUS
  <1>7. ASSUME charges # {}, IsOpen("card", e) PROVE Newest("card", balances["card"], e) # 0
    <2>1. balances["card"] \in SUBSET Days /\ balances["card"] # {}
      BY <1>7 DEF FactsInv, TypeOK, Accounts, Quiet
    <2> QED
      BY <1>2, <1>7, <2>1, NewestIsOne
  <1> QED
    BY <1>3, <1>4, <1>5, <1>6, <1>7 DEF CardOwed

LEMMA FiguresStay ==
    ASSUME FactsInv, NEW e, Quiet(e)
    PROVE  /\ FiguresOf(Today, TRUE).net = FiguresOf(e, TRUE).net
           /\ FiguresOf(Today, TRUE).exposure = FiguresOf(e, TRUE).exposure
  <1>1. {q \in quotes : q <= Today} = {q \in quotes : q <= e}
    BY QuietDays DEF Quiet
  <1>2. \A a, d : Priced(a, d, Today, TRUE) = Priced(a, d, e, TRUE)
    BY <1>1 DEF Priced
  <1>3. CashPart(Today) = CashPart(e) /\ Crypto(Today) = Crypto(e)
    BY SourcesStay DEF CashPart, AccountCash, NavCash, Crypto, StableUsd
  <1>4. Positions(Today, TRUE) = Positions(e, TRUE)
    BY <1>2, SourcesStay DEF Positions
  <1>5. NavStock(Today) = NavStock(e) /\ NavDelta(Today, TRUE) = NavDelta(e, TRUE)
    BY <1>2, SourcesStay, AuthorityStays DEF NavStock, NavDelta
  <1>6. StocksPart(Today, TRUE) = StocksPart(e, TRUE)
    BY <1>4, <1>5, SourcesStay DEF StocksPart
  <1>7. StockExposure(Today, TRUE) = StockExposure(e, TRUE)
    BY <1>2, <1>5, SourcesStay, AuthorityStays DEF StockExposure
  <1> QED
    BY <1>3, <1>6, <1>7, OwedStays, NetIs

\* The newest fact of a day is of that day or an earlier one.
LEMMA CoverageIsPast ==
    ASSUME FactsInv, NEW at \in Nat PROVE Coverage(at) \in 0 .. at
  <1>1. \A a : \A S \in SUBSET Days : Newest(a, S, at) \in 0 .. at
    <2> TAKE a
    <2> TAKE S \in SUBSET Days
    <2>1. Newest(a, S, at) \in S \cup {0} /\ (Newest(a, S, at) = 0 \/ Newest(a, S, at) <= at)
      BY NewestIsOne
    <2>2. Newest(a, S, at) \in Nat
      <3>1. \A x : x \in S \cup {0} => x \in Nat
        BY DaysAreNaturals
      <3> QED
        BY <2>1, <3>1
    <2> QED
      BY <2>1, <2>2
  <1>2. /\ {d \in nav : Covers(d)} \in SUBSET Days
        /\ {d \in holdings : Covers(d)} \in SUBSET Days
        /\ {d \in brokercash : Covers(d)} \in SUBSET Days
        /\ balances["ibkr"] \in SUBSET Days
        /\ \A a : {u.day : u \in {v \in uploads : v.account = a /\ v.counts}} \in SUBSET Days
    BY DEF FactsInv, TypeOK, Accounts
  <1>3. /\ EffectiveNav(at) \in 0 .. at /\ EffectiveHoldings(at, TRUE) \in 0 .. at
        /\ EffectiveBalance("ibkr", at) \in 0 .. at
        /\ Newest("ibkr", {d \in brokercash : Covers(d)}, at) \in 0 .. at
    BY <1>1, <1>2 DEF EffectiveNav, EffectiveHoldings, EffectiveBalance
  <1>4. EffectiveUploads("ibkr", at) \in 0 .. at /\ EffectiveUploads("dark", at) \in 0 .. at
    BY <1>1, <1>2 DEF EffectiveUploads
  <1>5. \A S \in SUBSET (0 .. at) : S # {} => Max(S) \in 0 .. at
    BY BoundedHasMax
  <1>6. PositionsCoverage(at) \in 0 .. at
    BY <1>3, <1>4, <1>5 DEF PositionsCoverage
  <1> QED
    BY <1>3, <1>5, <1>6 DEF Coverage

LEMMA NetIsInt ==
    ASSUME FactsInv, NEW at, NEW live \in BOOLEAN
    PROVE  /\ FiguresOf(at, live).exposure \in Int
           /\ DOMAIN FiguresOf(at, live).net = {"cash", "stocks", "crypto", "owed", "total"}
           /\ \A c \in DOMAIN FiguresOf(at, live).net : FiguresOf(at, live).net[c] \in Int
  <1>1. /\ CashPart(at) \in Int /\ Crypto(at) \in Int /\ StocksPart(at, live) \in Int
        /\ StockExposure(at, live) \in Int /\ CardOwed(at, live) \in Int
    BY PagesAgreeOn, OwedIsInt
  <1>2. CashPart(at) + StocksPart(at, live) + Crypto(at) - CardOwed(at, live) \in Int
    BY <1>1
  <1>3. FiguresOf(at, live).exposure = StockExposure(at, live)
    BY NetIs
  <1>4. FiguresOf(at, live).net =
           [cash |-> CashPart(at), stocks |-> StocksPart(at, live), crypto |-> Crypto(at),
            owed |-> CardOwed(at, live),
            total |-> CashPart(at) + StocksPart(at, live) + Crypto(at) - CardOwed(at, live)]
    BY NetIs
  <1> QED
    BY <1>1, <1>2, <1>3, <1>4

LEMMA SinceUpdateAgrees == ASSUME FactsInv PROVE SinceUpdateIsNews(Figures)
  <1> DEFINE f == Figures
             newest == f.monthEnd[Today - 1].coverage
             e == IF newest = 0 THEN Today - 1 ELSE newest
             since == SinceUpdate(f)
             dated == nav \cup holdings \cup brokercash \cup quotes \cup wallets \cup charges
                      \cup balances["ibkr"] \cup balances["card"] \cup {u.day : u \in uploads}
             ended == {closed[a] : a \in Accounts}
                      \cup (IF window = NoWindow THEN {} ELSE {window.to})
  <1>1. Today - 1 \in 0 .. Today /\ Today \in 0 .. Today /\ Today \in Nat /\ Today - 1 \in Nat
    BY DaysAreNaturals, FiguresAssumption DEF TodayAssumption
  <1>2. newest \in 0 .. Today - 1
    BY <1>1, SeenIs, CoverageIsPast, NetIs
  <1>3. e \in 0 .. Today - 1
    <2> HIDE DEF newest
    <2> QED
      BY <1>1, <1>2
  <1>4. /\ since.at = e
        /\ since.change = [c \in DOMAIN Now(f).net |-> Now(f).net[c] - f.live[e].net[c]]
    BY DEF SinceUpdate
  <1> HIDE DEF newest, e, f, since
  <1> SUFFICES ASSUME \A d \in dated : d <= e, \A d \in ended : d < e \/ d >= Today,
                      balances["card"] # {} \/ charges = {}
               PROVE  DayChange(f) = 0 /\ \A c \in DOMAIN since.change : since.change[c] = 0
    BY <1>4 DEF SinceUpdateIsNews, since, f
  <1>5. ASSUME NEW x, x \in 0 .. Today - 1, e <= x PROVE Quiet(x)
    <2>1. \A d \in dated : d \in Nat
      BY DaysAreNaturals DEF FactsInv, TypeOK, Accounts
    <2>2. \A d \in dated : d <= x
      BY <1>1, <1>3, <1>5, <2>1
    <2>3. \A d \in ended : d \in Nat
      BY DaysAreNaturals DEF FactsInv, TypeOK
    <2>4. \A d \in ended : d < x \/ d >= Today
      BY <1>1, <1>3, <1>5, <2>3
    <2>5. x \in 0 .. Today
      BY <1>1, <1>5
    <2> QED
      BY <2>2, <2>4, <2>5 DEF Quiet
  <1>6. Quiet(e) /\ Quiet(Today - 1)
    <2>1. e <= e /\ e <= Today - 1 /\ Today - 1 \in 0 .. Today - 1
      BY <1>1, <1>3
    <2> QED
      BY <1>3, <1>5, <2>1
  <1>7. /\ Now(f) = FiguresOf(Today, TRUE) /\ f.live[e] = FiguresOf(e, TRUE)
        /\ f.live[Today - 1] = FiguresOf(Today - 1, TRUE)
    <2>1. e \in 0 .. Today
      BY <1>1, <1>3
    <2> QED
      BY <1>1, <2>1, SeenIs DEF Now, f
  <1>8. DayChange(f) = 0
    <2>1. /\ FiguresOf(Today, TRUE).exposure = FiguresOf(Today - 1, TRUE).exposure
          /\ FiguresOf(Today, TRUE).exposure \in Int
      BY <1>6, FiguresStay, NetIsInt
    <2>2. DayChange(f) = FiguresOf(Today, TRUE).exposure - FiguresOf(Today - 1, TRUE).exposure
      BY <1>7 DEF DayChange
    <2>3. \A x \in Int : x - x = 0
      OBVIOUS
    <2> QED
      BY <2>1, <2>2, <2>3
  <1>9. \A c \in DOMAIN since.change : since.change[c] = 0
    <2>1. Now(f).net = f.live[e].net
      BY <1>6, <1>7, FiguresStay
    <2>2. \A c \in DOMAIN Now(f).net : Now(f).net[c] \in Int
      BY <1>7, NetIsInt
    <2> QED
      BY <1>4, <2>1, <2>2
  <1> QED
    BY <1>8, <1>9

\* The holdings add up to the stocks.
LEMMA HoldingsAgree == ASSUME FactsInv PROVE HoldingsAddUp(Figures)
  <1> SUFFICES ASSUME NEW at \in 1 .. Today, NEW live \in BOOLEAN,
                      EffectiveNav(at) = EffectiveHoldings(at, TRUE),
                      FiguresOf(at, live).net.total > 0
               PROVE  FiguresOf(at, live).shares = FiguresOf(at, live).exposure
    <2>1. ASSUME NEW at \in 1 .. Today, NEW live \in BOOLEAN
          PROVE  /\ Seen(Figures, [at |-> at, live |-> live]) = FiguresOf(at, live)
                 /\ FiguresOf(at, live).net.total \in Int
      <3>1. at \in 0 .. Today
        BY DaysAreNaturals
      <3>2. Seen(Figures, [at |-> at, live |-> live]) = FiguresOf(at, live)
        BY <3>1, SeenIs DEF Seen
      <3> QED
        BY <3>2, NetIsInt
    <2>2. \A x \in Int : x > 0 \/ x <= 0
      OBVIOUS
    <2> QED
      BY <2>1, <2>2 DEF HoldingsAddUp
  <1> DEFINE d == EffectiveNav(at)
             p == Priced("ibkr", EffectiveUploads("ibkr", at), at, live)
             q == Priced("dark", EffectiveUploads("dark", at), at, live)
             h == Priced("ibkr", d, at, live)
  <1>1. /\ d \in Days \cup {0} /\ p \in Nat /\ q \in Nat /\ h \in Nat /\ Stated("ibkr", d) \in Nat
        /\ (d = 0 => h = 0)
    BY EffectiveDays, PricedIsNatural
  <1>2. SharesHeld(at, live) = (IF p > 0 THEN p ELSE 0) + (IF q > 0 THEN q ELSE 0)
                               + (IF h > 0 THEN h ELSE 0)
    BY DEF SharesHeld
  <1>3. FiguresOf(at, live).shares = SharesHeld(at, live)
    BY NetIs, NetIsInt
  <1>4. d # 0 => NavStock(at) + NavDelta(at, live) = h /\ ValuedByNav(at)
    <2> SUFFICES ASSUME d # 0 PROVE NavStock(at) + NavDelta(at, live) = h /\ ValuedByNav(at)
      OBVIOUS
    <2>1. ValuedByNav(at)
      BY NavCounts
    <2>2. NavStock(at) = Stated("ibkr", d)
      BY DEF NavStock, Stated, Quantity
    <2>3. NavDelta(at, live) = h - Stated("ibkr", d)
      BY <2>1 DEF NavDelta
    <2> HIDE DEF d, h
    <2> QED
      BY <1>1, <2>1, <2>2, <2>3
  <1>5. StockExposure(at, live)
          = (IF d = 0 THEN 0 ELSE IF h > 0 THEN h ELSE 0)
            + (IF p > 0 THEN p ELSE 0) + (IF q > 0 THEN q ELSE 0)
            + (IF ValuedByNav(at) THEN 0 ELSE IF h > 0 THEN h ELSE 0)
    <2>1. CASE d = 0
      BY <2>1 DEF StockExposure
    <2>2. CASE d # 0
      BY <1>4, <2>2 DEF StockExposure
    <2> QED
      BY <2>1, <2>2
  <1>6. FiguresOf(at, live).exposure = StockExposure(at, live)
    BY NetIs
  <1> HIDE DEF d, p, q, h
  <1>7. SharesHeld(at, live) = StockExposure(at, live)
    BY <1>1, <1>2, <1>4, <1>5
  <1> QED
    BY <1>3, <1>6, <1>7

\* The pages of the dashboard tell one story: every page has a month's figures the same, a change
\* is from what the month compared with shows, "since last update" is nothing where nothing was
\* reported, and the holdings add up to the stocks, for any length of month and of history.
THEOREM PagesAreAlwaysOneStory == Spec => []PagesAreOneStory
  <1>1. FactsInv => PagesAreOneStory
    BY FiguresAmount, FiguresTotalsAgree, MonthsAgree, SinceUpdateAgrees, HoldingsAgree
    DEF PagesAreOneStory
  <1> QED
    BY <1>1, FactsAlways, PTL

(***************************************************************************)
(* MonthBridge.                                                            *)
(***************************************************************************)

BridgeRow == [account : Cashed \cup {"card"}, type : {"INCOME", "EXPENSE", "TRANSFER", "DIVIDEND"},
              amount : Int, day : Nat, of : Nat, linked : BOOLEAN]
BridgeLine == [code : {"DEP", "DIV"}, amount : Int, day : Nat, of : Nat]
Holding == [cash : [Cashed -> Int], shares : [Traded -> Int], coins : Int, owed : Int,
            price : Int, rate : Int]
Truth == [outside : Int, kept : Int, yield : Int, gained : Int, unbilled : Int, sent : Int,
          unseen : Int]

BridgeTypes ==
    /\ day \in Nat /\ moves \in Nat
    /\ holds \in Holding /\ ends \in [start : Holding, end : Holding]
    /\ moving \subseteq [to : Cashed, amount : Int, id : Nat \ {0}, sent : Nat]
    /\ rows \in Seq(BridgeRow) /\ ledger \in Seq(BridgeLine) /\ actual \in Truth

BridgeMonth == BridgeFirst .. BridgeLast

\* The records of a sequence s that are in C come to this.
ComesTo(s, C) == SumFunctionOnSet(AmountsOf(s), {i \in DOMAIN s : s[i] \in C})

LEMMA ComesToInt ==
    ASSUME NEW R, \A r \in R : r.amount \in Int, NEW s \in Seq(R), NEW C
    PROVE  ComesTo(s, C) \in Int
  <1>1. IsFiniteSet(DOMAIN s)
    BY FS_Interval
  <1>2. \A i \in DOMAIN s : AmountsOf(s)[i] \in Int
    BY DEF AmountsOf
  <1> QED
    BY <1>1, <1>2, SumInt DEF ComesTo

\* One record more.
LEMMA ComesToGrows ==
    ASSUME NEW R, \A r \in R : r.amount \in Int, NEW s \in Seq(R), NEW e \in R, NEW C
    PROVE  ComesTo(Append(s, e), C) = ComesTo(s, C) + IF e \in C THEN e.amount ELSE 0
  <1> DEFINE t == Append(s, e)
             n == Len(s) + 1
             S == {i \in DOMAIN s : s[i] \in C}
             T == {i \in DOMAIN t : t[i] \in C}
             f == AmountsOf(s)
             g == AmountsOf(t)
  <1>1. /\ n \in Nat /\ n \notin DOMAIN s /\ DOMAIN t = DOMAIN s \cup {n} /\ t[n] = e
        /\ \A i \in DOMAIN s : t[i] = s[i]
    OBVIOUS
  <1>2. IsFiniteSet(DOMAIN s) /\ IsFiniteSet(DOMAIN t)
    BY FS_Interval
  <1>3. IsFiniteSet(S) /\ IsFiniteSet(T)
    BY <1>2, FS_Subset
  <1>4. /\ \A i \in DOMAIN s : f[i] = s[i].amount /\ g[i] = s[i].amount
        /\ g[n] = e.amount
        /\ \A i \in DOMAIN t : g[i] \in Int
    BY <1>1 DEF AmountsOf
  <1>5. SumFunctionOnSet(f, S) = SumFunctionOnSet(g, S)
    <2>1. \A i \in S : f[i] = g[i]
      BY <1>4
    <2> HIDE DEF f, g, S
    <2> QED
      BY <1>3, <2>1, SumSame
  <1>6. CASE e \in C
    <2>1. T = S \cup {n} /\ n \in T /\ T \ {n} = S
      BY <1>1, <1>6
    <2>2. \A i \in T : g[i] \in Int
      BY <1>4
    <2>3. SumFunctionOnSet(g, T) = g[n] + SumFunctionOnSet(g, T \ {n})
      <3> HIDE DEF g, T, n
      <3> QED
        BY <1>3, <2>1, <2>2, SumWithout
    <2>4. SumFunctionOnSet(f, S) \in Int /\ e.amount \in Int
      BY ComesToInt DEF ComesTo
    <2>5. g[n] = e.amount
      BY <1>4
    <2>6. SumFunctionOnSet(g, T) = e.amount + SumFunctionOnSet(f, S)
      <3> HIDE DEF f, g, S, T, n
      <3> QED
        BY <1>5, <2>1, <2>3, <2>5
    <2> HIDE DEF f, g, S, T, n
    <2>7. SumFunctionOnSet(g, T) = SumFunctionOnSet(f, S) + e.amount
      BY <2>4, <2>6
    <2> QED
      BY <1>6, <2>7 DEF ComesTo, f, g, S, T, t
  <1>7. CASE e \notin C
    <2>1. T = S
      BY <1>1, <1>7
    <2>2. SumFunctionOnSet(f, S) \in Int
      BY ComesToInt DEF ComesTo
    <2>3. SumFunctionOnSet(g, T) = SumFunctionOnSet(f, S) + 0
      <3> HIDE DEF f, g, S, T
      <3> QED
        BY <1>5, <2>1, <2>2
    <2> HIDE DEF f, g, S, T
    <2> QED
      BY <1>7, <2>3 DEF ComesTo, f, g, S, T, t
  <1> QED
    BY <1>6, <1>7

\* Two sequences whose records are in C at the same places, and of the same amounts.
LEMMA ComesToSame ==
    ASSUME NEW s, NEW t, IsFiniteSet(DOMAIN s), DOMAIN s = DOMAIN t, NEW C,
           \A i \in DOMAIN s : s[i].amount = t[i].amount /\ (s[i] \in C <=> t[i] \in C)
    PROVE  ComesTo(s, C) = ComesTo(t, C)
  <1> DEFINE S == {i \in DOMAIN s : s[i] \in C}
             T == {i \in DOMAIN t : t[i] \in C}
  <1>1. S = T /\ IsFiniteSet(S)
    BY FS_Subset
  <1>2. \A i \in S : AmountsOf(s)[i] = AmountsOf(t)[i]
    BY DEF AmountsOf
  <1>3. SumFunctionOnSet(AmountsOf(s), S) = SumFunctionOnSet(AmountsOf(t), S)
    <2> HIDE DEF S
    <2> QED
      BY <1>1, <1>2, SumSame
  <1> QED
    BY <1>1, <1>3 DEF ComesTo

\* The rows and lines of the month that each of the bridge's lines adds up.
KeptRows     == {r \in BridgeRow : r.day \in BridgeMonth /\ r.type \in {"INCOME", "EXPENSE"}}
CardRows     == {r \in BridgeRow : r.day \in BridgeMonth /\ r.account = "card"}
OldDividends == {r \in BridgeRow : r.day \in BridgeMonth /\ r.type = "DIVIDEND"
                                   /\ r.day < BridgeSince}
PaidInRows   == {r \in BridgeRow : r.day \in BridgeMonth /\ r.type = "TRANSFER"
                                   /\ r.account \in Brokers /\ r.of = 0}
UnseenRows   == {r \in PaidInRows : r.account = "flex"}
YieldLines   == {l \in BridgeLine : l.day \in BridgeMonth /\ l.code # "DEP"}
PaidInLines  == {l \in BridgeLine : l.day \in BridgeMonth /\ l.code = "DEP" /\ l.of = 0}

\* What a row more adds to each.
LEMMA RowCounts ==
    ASSUME NEW s \in Seq(BridgeRow), NEW r \in BridgeRow
    PROVE  LET t == Append(s, r)
               Adds(C, x) == ComesTo(t, C) = ComesTo(s, C) + IF x THEN r.amount ELSE 0
               in == r.day \in BridgeMonth
           IN  /\ t \in Seq(BridgeRow)
               /\ Adds(KeptRows, in /\ r.type \in {"INCOME", "EXPENSE"})
               /\ Adds(CardRows, in /\ r.account = "card")
               /\ Adds(OldDividends, in /\ r.type = "DIVIDEND" /\ r.day < BridgeSince)
               /\ Adds(PaidInRows, in /\ r.type = "TRANSFER" /\ r.account \in Brokers /\ r.of = 0)
               /\ Adds(UnseenRows, in /\ r.type = "TRANSFER" /\ r.account = "flex" /\ r.of = 0)
  <1>1. \A q \in BridgeRow : q.amount \in Int
    BY DEF BridgeRow
  <1>2. \A C : ComesTo(Append(s, r), C) = ComesTo(s, C) + IF r \in C THEN r.amount ELSE 0
    BY <1>1, ComesToGrows
  <1>3. Append(s, r) \in Seq(BridgeRow)
    OBVIOUS
  <1> QED
    BY <1>2, <1>3 DEF KeptRows, CardRows, OldDividends, PaidInRows, UnseenRows, Brokers

LEMMA LineCounts ==
    ASSUME NEW s \in Seq(BridgeLine), NEW l \in BridgeLine
    PROVE  LET t == Append(s, l)
               Adds(C, x) == ComesTo(t, C) = ComesTo(s, C) + IF x THEN l.amount ELSE 0
               in == l.day \in BridgeMonth
           IN  /\ t \in Seq(BridgeLine)
               /\ Adds(YieldLines, in /\ l.code # "DEP")
               /\ Adds(PaidInLines, in /\ l.code = "DEP" /\ l.of = 0)
  <1>1. \A q \in BridgeLine : q.amount \in Int
    BY DEF BridgeLine
  <1>2. \A C : ComesTo(Append(s, l), C) = ComesTo(s, C) + IF l \in C THEN l.amount ELSE 0
    BY <1>1, ComesToGrows
  <1>3. Append(s, l) \in Seq(BridgeLine)
    OBVIOUS
  <1> QED
    BY <1>2, <1>3 DEF YieldLines, PaidInLines

Causes == {"outside", "kept", "yield", "gained", "unbilled", "sent", "unseen"}

\* What the day's share of x in the month is.
Counted(x) == IF day \in BridgeMonth THEN x ELSE 0

LEMMA CountedInt == ASSUME NEW x \in Int PROVE Counted(x) \in Int
  BY DEF Counted

\* Happened moves one field, and only in the month.
LEMMA HappenedMeans ==
    ASSUME actual \in Truth, NEW f \in Causes, NEW x \in Int, Happened(f, x)
    PROVE  LET Becomes(g, v) == IF f = g THEN v + Counted(x) ELSE v
           IN  /\ actual' \in Truth
               /\ actual'.outside = Becomes("outside", actual.outside)
               /\ actual'.kept = Becomes("kept", actual.kept)
               /\ actual'.yield = Becomes("yield", actual.yield)
               /\ actual'.gained = Becomes("gained", actual.gained)
               /\ actual'.unbilled = Becomes("unbilled", actual.unbilled)
               /\ actual'.sent = Becomes("sent", actual.sent)
               /\ actual'.unseen = Becomes("unseen", actual.unseen)
  <1> DEFINE y == Counted(x)
  <1>1. y \in Int
    BY CountedInt
  <1>2. actual' = [actual EXCEPT ![f] = @ + y]
    BY DEF Happened, Counted, BridgeMonth
  <1> HIDE DEF y
  <1>3. \A g \in Causes : actual'[g] = IF f = g THEN actual[g] + y ELSE actual[g]
    BY <1>2 DEF Truth, Causes
  <1>4. actual' \in Truth
    BY <1>1, <1>2 DEF Truth, Causes
  <1> QED
    BY <1>3, <1>4 DEF Causes, y

\* What the bridge follows of what is held: cash, the Flex broker's shares and the card's debt.
Followed(h) == h.cash["bank"] + h.cash["flex"] + h.cash["hand"]
               + h.shares["flex"] * (h.price * h.rate) - h.owed

LEMMA CashMoves ==
    ASSUME NEW h \in Holding, NEW a \in Cashed, NEW x \in Int
    PROVE  LET g == [h EXCEPT !.cash[a] = @ + x]
           IN  g \in Holding /\ Followed(g) = Followed(h) + x /\ g.owed = h.owed
  <1> DEFINE g == [h EXCEPT !.cash[a] = @ + x]
  <1>1. /\ g \in Holding /\ g.owed = h.owed /\ g.shares = h.shares /\ g.price = h.price
        /\ g.rate = h.rate /\ g.cash = [h.cash EXCEPT ![a] = @ + x] /\ h.cash \in [Cashed -> Int]
    BY DEF Holding
  <1>2. /\ h.cash["bank"] \in Int /\ h.cash["flex"] \in Int /\ h.cash["hand"] \in Int
        /\ h.owed \in Int
    BY DEF Holding, Cashed
  <1>3. h.shares["flex"] * (h.price * h.rate) \in Int
    BY DEF Holding, Traded
  <1>4. g.shares["flex"] * (g.price * g.rate) = h.shares["flex"] * (h.price * h.rate)
    BY <1>1
  <1>5. g.cash["bank"] + g.cash["flex"] + g.cash["hand"]
          = h.cash["bank"] + h.cash["flex"] + h.cash["hand"] + x
    <2> HIDE DEF g
    <2>1. CASE a = "bank"
      BY <1>1, <1>2, <2>1 DEF Cashed
    <2>2. CASE a = "flex"
      BY <1>1, <1>2, <2>2 DEF Cashed
    <2>3. CASE a = "hand"
      BY <1>1, <1>2, <2>3 DEF Cashed
    <2> QED
      BY <2>1, <2>2, <2>3 DEF Cashed
  <1> DEFINE s == h.shares["flex"] * (h.price * h.rate)
             c == h.cash["bank"] + h.cash["flex"] + h.cash["hand"]
             d == g.cash["bank"] + g.cash["flex"] + g.cash["hand"]
  <1>6. Followed(g) = d + s - h.owed /\ Followed(h) = c + s - h.owed
    BY <1>1, <1>4 DEF Followed
  <1>7. d = c + x /\ c \in Int /\ s \in Int /\ h.owed \in Int
    BY <1>2, <1>3, <1>5
  <1> HIDE DEF g, s, c, d
  <1>8. Followed(g) = Followed(h) + x
    BY <1>6, <1>7
  <1> QED
    BY <1>1, <1>8 DEF g

\* Records writes one entry, of the account and the amount.
LEMMA RecordsMeans ==
    ASSUME BridgeTypes, NEW a \in Cashed, NEW x \in Int, NEW of \in Nat, Records(a, x, of)
    PROVE  /\ holds' \in Holding /\ Followed(holds') = Followed(holds) + x
           /\ holds'.owed = holds.owed
           /\ Row(a, "TRANSFER", x, of) \in BridgeRow
           /\ Line("DEP", x, of) \in BridgeLine
           /\ \/ /\ a = "flex" /\ day >= BridgeSince
                 /\ ledger' = Append(ledger, Line("DEP", x, of)) /\ rows' = rows
              \/ /\ ~(a = "flex" /\ day >= BridgeSince)
                 /\ rows' = Append(rows, Row(a, "TRANSFER", x, of)) /\ ledger' = ledger
  <1>1. holds' = [holds EXCEPT !.cash[a] = @ + x]
    BY DEF Records
  <1>2. Row(a, "TRANSFER", x, of) \in BridgeRow /\ Line("DEP", x, of) \in BridgeLine
    BY DEF Row, Line, BridgeRow, BridgeLine, BridgeTypes
  <1>3. holds \in Holding
    BY DEF BridgeTypes
  <1>4. holds' \in Holding /\ Followed(holds') = Followed(holds) + x /\ holds'.owed = holds.owed
    BY <1>1, <1>3, CashMoves
  <1>5. \/ /\ a = "flex" /\ day >= BridgeSince
           /\ ledger' = Append(ledger, Line("DEP", x, of)) /\ rows' = rows
        \/ /\ ~(a = "flex" /\ day >= BridgeSince)
           /\ rows' = Append(rows, Row(a, "TRANSFER", x, of)) /\ ledger' = ledger
    BY DEF Records
  <1> QED
    BY <1>2, <1>4, <1>5

LEMMA TruthChanges ==
    ASSUME NEW t \in Truth, NEW y \in Int, NEW z \in Int, NEW u,
           u = [t EXCEPT !.outside = @ + y, !.unseen = @ + z]
    PROVE  /\ u \in Truth /\ u.outside = t.outside + y /\ u.unseen = t.unseen + z
           /\ u.kept = t.kept /\ u.yield = t.yield /\ u.gained = t.gained
           /\ u.unbilled = t.unbilled /\ u.sent = t.sent
  <1>1. t.outside + y \in Int /\ t.unseen + z \in Int
    BY DEF Truth
  <1>2. \A v, w \in Int : [t EXCEPT !.outside = v, !.unseen = w] \in Truth
    BY DEF Truth
  <1>3. u \in Truth
    BY <1>1, <1>2
  <1> QED
    BY <1>3 DEF Truth

LEMMA HoldingChanges ==
    ASSUME NEW h \in Holding, NEW x \in Int, NEW y \in Int
    PROVE  /\ [h EXCEPT !.owed = @ + x] \in Holding
           /\ [h EXCEPT !.cash["bank"] = @ - x, !.owed = @ - x] \in Holding
           /\ [h EXCEPT !.coins = @ + x] \in Holding
           /\ [h EXCEPT !.price = x, !.rate = y] \in Holding
           /\ \A b \in Traded : [h EXCEPT !.shares[b] = @ + x, !.cash["flex"] = @ - y] \in Holding
  <1>1. h.cash \in [Cashed -> Int] /\ h.shares \in [Traded -> Int] /\ h.owed \in Int /\ h.coins \in Int
    BY DEF Holding
  <1>2. \A z \in Int : [h.cash EXCEPT !["bank"] = @ - z] \in [Cashed -> Int]
                       /\ [h.cash EXCEPT !["flex"] = @ - z] \in [Cashed -> Int]
    BY <1>1 DEF Cashed
  <1>3. \A b \in Traded : [h.shares EXCEPT ![b] = @ + x] \in [Traded -> Int]
    BY <1>1
  <1>4. \A c \in [Cashed -> Int], z \in Int : [h EXCEPT !.cash = c, !.owed = z] \in Holding
    BY DEF Holding
  <1>5. \A c \in [Cashed -> Int], z \in [Traded -> Int] :
           [h EXCEPT !.shares = z, !.cash = c] \in Holding
    BY DEF Holding
  <1>6. [h EXCEPT !.owed = @ + x] \in Holding
    BY <1>1 DEF Holding
  <1>7. [h EXCEPT !.coins = @ + x] \in Holding
    BY <1>1 DEF Holding
  <1>8. [h EXCEPT !.price = x, !.rate = y] \in Holding
    BY DEF Holding
  <1>9. [h EXCEPT !.cash["bank"] = @ - x, !.owed = @ - x] \in Holding
    <2>1. [h EXCEPT !.cash["bank"] = @ - x, !.owed = @ - x]
            = [h EXCEPT !.cash = [h.cash EXCEPT !["bank"] = @ - x], !.owed = h.owed - x]
      OBVIOUS
    <2>2. [h.cash EXCEPT !["bank"] = @ - x] \in [Cashed -> Int] /\ h.owed - x \in Int
      BY <1>1, <1>2
    <2> QED
      BY <1>4, <2>1, <2>2
  <1>10. ASSUME NEW b \in Traded
         PROVE  [h EXCEPT !.shares[b] = @ + x, !.cash["flex"] = @ - y] \in Holding
    <2>1. [h EXCEPT !.shares[b] = @ + x, !.cash["flex"] = @ - y]
            = [h EXCEPT !.shares = [h.shares EXCEPT ![b] = @ + x],
                        !.cash = [h.cash EXCEPT !["flex"] = @ - y]]
      OBVIOUS
    <2> QED
      BY <1>2, <1>3, <1>5, <2>1
  <1> QED
    BY <1>6, <1>7, <1>8, <1>9, <1>10

LEMMA EntriesStayTyped ==
    ASSUME BridgeTypes, NEW a \in Cashed, NEW x \in Int, NEW of \in Nat, Records(a, x, of)
    PROVE  holds' \in Holding /\ rows' \in Seq(BridgeRow) /\ ledger' \in Seq(BridgeLine)
  <1>1. rows \in Seq(BridgeRow) /\ ledger \in Seq(BridgeLine)
    BY DEF BridgeTypes
  <1>2. \A r \in BridgeRow : Append(rows, r) \in Seq(BridgeRow)
    BY <1>1
  <1>3. \A l \in BridgeLine : Append(ledger, l) \in Seq(BridgeLine)
    BY <1>1
  <1> QED
    BY <1>1, <1>2, <1>3, RecordsMeans

LEMMA BridgeTypesKept ==
    ASSUME BridgeTypes, [BridgeNext]_bridgeVars
    PROVE  BridgeTypes'
  <1> USE BridgeAssumption DEF BridgeTypes
  <1>0. \A x \in BridgeAmounts : x \in Int /\ -x \in Int
    OBVIOUS
  <1>1. CASE PassDay
    BY <1>1 DEF PassDay
  <1>2. ASSUME NEW x \in Int, Earn(x) PROVE BridgeTypes'
    <2>1. holds' \in Holding
      BY <1>2, CashMoves DEF Earn, Cashed
    <2>2. Row("bank", IF x > 0 THEN "INCOME" ELSE "EXPENSE", x, 0) \in BridgeRow
      BY DEF Row, BridgeRow, Cashed
    <2>3. actual' \in Truth
      BY <1>2, HappenedMeans DEF Earn, Causes
    <2> QED
      BY <1>2, <2>1, <2>2, <2>3 DEF Earn, Move
  <1>3. ASSUME NEW x \in Int, PayCard(x) PROVE BridgeTypes'
    <2>1. Row("bank", "TRANSFER", -x, 0) \in BridgeRow /\ Row("card", "TRANSFER", x, 0) \in BridgeRow
      BY DEF Row, BridgeRow, Cashed
    <2>2. holds' \in Holding
      BY <1>3, HoldingChanges DEF PayCard
    <2> QED
      BY <1>3, <2>1, <2>2, SMTT(20) DEF PayCard, Move
  <1>4. ASSUME NEW x \in Int, NEW listed \in BOOLEAN, Charge(x, listed) PROVE BridgeTypes'
    <2>1. Row("card", "EXPENSE", -x, 0) \in BridgeRow
      BY DEF Row, BridgeRow
    <2>2. holds' \in Holding
      BY <1>4, HoldingChanges DEF Charge
    <2>3. actual' \in Truth
      BY <1>4, HappenedMeans DEF Charge, Causes
    <2> QED
      BY <1>4, <2>1, <2>2, <2>3, SMTT(20) DEF Charge, Move
  <1>5. ASSUME NEW x \in Int, NEW stated \in BOOLEAN, Dividend(x, stated) PROVE BridgeTypes'
    <2>1. Row("flex", "DIVIDEND", x, 0) \in BridgeRow /\ Line("DIV", x, 0) \in BridgeLine
      BY DEF Row, Line, BridgeRow, BridgeLine, Cashed
    <2>2. holds' \in Holding
      BY <1>5, CashMoves DEF Dividend, Cashed
    <2>3. actual' \in Truth
      BY <1>5, HappenedMeans DEF Dividend, Causes
    <2> QED
      BY <1>5, <2>1, <2>2, <2>3, SMTT(20) DEF Dividend, Move
  <1>6. ASSUME NEW x \in Int, NEW b \in Brokers, Deposit(b, x) PROVE BridgeTypes'
    <2>1. holds' \in Holding /\ rows' \in Seq(BridgeRow) /\ ledger' \in Seq(BridgeLine)
      BY <1>6, EntriesStayTyped DEF Deposit, Brokers, Cashed
    <2>2. actual' \in Truth
      <3>1. actual \in Truth
        OBVIOUS
      <3>2. actual' = actual \/ \E y, z \in Int : actual' = [actual EXCEPT !.outside = @ + y, !.unseen = @ + z]
        <4>1. x \in Int /\ 0 \in Int
          OBVIOUS
        <4> HIDE DEF BridgeTypes
        <4> QED
          BY <1>6, <4>1 DEF Deposit
      <3>3. ASSUME NEW y \in Int, NEW z \in Int
            PROVE  [actual EXCEPT !.outside = @ + y, !.unseen = @ + z] \in Truth
        BY <3>1, TruthChanges
      <3> QED
        BY <3>1, <3>2, <3>3
    <2> QED
      BY <1>6, <2>1, <2>2 DEF Deposit, Move
  <1>7. ASSUME NEW x \in Int, NEW a \in Cashed, NEW b \in Cashed, SendMoney(a, b, x)
        PROVE  BridgeTypes'
    <2>1. holds' \in Holding /\ rows' \in Seq(BridgeRow) /\ ledger' \in Seq(BridgeLine)
      BY <1>7, EntriesStayTyped DEF SendMoney
    <2>2. actual' \in Truth
      BY <1>7, HappenedMeans DEF SendMoney, Causes
    <2> QED
      BY <1>7, <2>1, <2>2 DEF SendMoney, Move
  <1>8. ASSUME NEW m \in moving, Arrive(m) PROVE BridgeTypes'
    <2>1. holds' \in Holding /\ rows' \in Seq(BridgeRow) /\ ledger' \in Seq(BridgeLine)
      BY <1>8, EntriesStayTyped DEF Arrive
    <2>2. actual' \in Truth
      BY <1>8, HappenedMeans DEF Arrive, Causes
    <2> QED
      BY <1>8, <2>1, <2>2 DEF Arrive
  <1>9. ASSUME NEW i \in DOMAIN rows, NEW j \in DOMAIN rows, LinkUp(i, j) PROVE BridgeTypes'
    <2>1. rows[i] \in BridgeRow /\ rows[j] \in BridgeRow
      OBVIOUS
    <2>2. [rows[i] EXCEPT !.linked = TRUE] \in BridgeRow /\ [rows[j] EXCEPT !.linked = TRUE] \in BridgeRow
      BY <2>1 DEF BridgeRow
    <2>3. rows' = [rows EXCEPT ![i] = [rows[i] EXCEPT !.linked = TRUE],
                               ![j] = [rows[j] EXCEPT !.linked = TRUE]]
      BY <1>9 DEF LinkUp
    <2>4. rows' \in Seq(BridgeRow)
      BY <2>2, <2>3
    <2> QED
      BY <1>9, <2>4 DEF LinkUp
  <1>10. ASSUME NEW b \in Traded, NEW n \in Int, Trade(b, n) PROVE BridgeTypes'
    <2>1. holds \in Holding
      OBVIOUS
    <2>2. n * holds.price * holds.rate \in Int
      BY SMTT(20) DEF Holding
    <2>3. \E y \in Int : holds' = [holds EXCEPT !.shares[b] = @ + n, !.cash["flex"] = @ - y]
      <3> HIDE DEF BridgeTypes
      <3>1. 0 \in Int
        OBVIOUS
      <3>2. holds' = [holds EXCEPT !.shares[b] = @ + n, !.cash["flex"]
                        = @ - IF b = "flex" THEN n * holds.price * holds.rate ELSE 0]
        BY <1>10 DEF Trade
      <3> QED
        BY <2>2, <3>1, <3>2
    <2>4. holds' \in Holding
      <3>1. PICK y \in Int : holds' = [holds EXCEPT !.shares[b] = @ + n, !.cash["flex"] = @ - y]
        BY <2>3
      <3>2. [holds EXCEPT !.shares[b] = @ + n, !.cash["flex"] = @ - y] \in Holding
        BY <2>1, HoldingChanges
      <3> QED
        BY <3>1, <3>2
    <2> QED
      BY <1>10, <2>4 DEF Trade, Move
  <1>11. ASSUME NEW n \in Int, MoveCoins(n) PROVE BridgeTypes'
    <2>1. holds' \in Holding
      BY <1>11, HoldingChanges DEF MoveCoins
    <2> QED
      BY <1>11, <2>1, SMTT(20) DEF MoveCoins, Move
  <1>12. ASSUME NEW p \in Int, NEW r \in Int, MarketMoves(p, r) PROVE BridgeTypes'
    <2>1. holds.shares["flex"] \in Int /\ holds.price * holds.rate \in Int /\ p * r \in Int
      BY SMTT(20) DEF Holding, Traded
    <2>2. holds.shares["flex"] * (p * r - holds.price * holds.rate) \in Int
      BY <2>1
    <2>3. actual' \in Truth
      BY <1>12, <2>2, HappenedMeans, SMTT(20) DEF MarketMoves, Causes
    <2>4. holds' \in Holding
      BY <1>12, HoldingChanges DEF MarketMoves
    <2> QED
      BY <1>12, <2>3, <2>4 DEF MarketMoves, Move
  <1>13. CASE UNCHANGED bridgeVars
    BY <1>13 DEF bridgeVars
  <1>14. holds.price \in Int /\ holds.rate \in Int
    BY DEF Holding
  <1>15. Brokers \subseteq Cashed
    BY DEF Brokers, Cashed
  <1>16. BridgeNext \/ UNCHANGED bridgeVars
    OBVIOUS
  <1> HIDE DEF BridgeTypes
  <1> QED
    BY <1>0, <1>1, <1>2, <1>3, <1>4, <1>5, <1>6, <1>7, <1>8, <1>9, <1>10, <1>11, <1>12, <1>13, <1>14,
       <1>16 DEF BridgeNext

LEMMA SumsAreNumbers ==
    ASSUME NEW s \in Seq(BridgeRow), NEW t \in Seq(BridgeLine), NEW C
    PROVE  ComesTo(s, C) \in Int /\ ComesTo(t, C) \in Int
  <1>1. /\ \A r \in BridgeRow : r.amount \in Int
        /\ \A l \in BridgeLine : l.amount \in Int
    BY DEF BridgeRow, BridgeLine
  <1>2. ComesTo(s, C) \in Int
    BY <1>1, ComesToInt
  <1>3. ComesTo(t, C) \in Int
    BY <1>1, ComesToInt
  <1> QED
    BY <1>2, <1>3

\* The rows, or the lines, in C come to y more, or to the same, after a step.
RowsMove(C, y)  == ComesTo(rows', C) = ComesTo(rows, C) + y
RowsStay(C)     == ComesTo(rows', C) = ComesTo(rows, C)
LinesMove(C, y) == ComesTo(ledger', C) = ComesTo(ledger, C) + y
LinesStay(C)    == ComesTo(ledger', C) = ComesTo(ledger, C)

LEMMA RowAdds ==
    ASSUME BridgeTypes, NEW a, NEW type, NEW x \in Int, NEW of, Row(a, type, x, of) \in BridgeRow,
           rows' = Append(rows, Row(a, type, x, of))
    PROVE  LET Adds(C, in) == IF in THEN RowsMove(C, Counted(x)) ELSE RowsStay(C)
           IN  /\ Adds(KeptRows, type \in {"INCOME", "EXPENSE"})
               /\ Adds(CardRows, a = "card")
               /\ Adds(OldDividends, type = "DIVIDEND" /\ day < BridgeSince)
               /\ Adds(PaidInRows, type = "TRANSFER" /\ a \in Brokers /\ of = 0)
               /\ Adds(UnseenRows, type = "TRANSFER" /\ a = "flex" /\ of = 0)
  <1> DEFINE r == Row(a, type, x, of)
  <1>1. r.account = a /\ r.type = type /\ r.amount = x /\ r.day = day /\ r.of = of
    BY DEF Row
  <1>2. rows \in Seq(BridgeRow) /\ r \in BridgeRow /\ ledger \in Seq(BridgeLine)
    BY DEF BridgeTypes
  <1>3. \A C : ComesTo(rows, C) + 0 = ComesTo(rows, C)
    <2>1. \A C : ComesTo(rows, C) \in Int
      BY <1>2, SumsAreNumbers
    <2> QED
      BY <2>1
  <1> HIDE DEF r
  <1>4. rows' = Append(rows, r)
    BY DEF r
  <1> QED
    BY <1>1, <1>2, <1>3, <1>4, RowCounts DEF Counted, RowsMove, RowsStay

LEMMA LineAdds ==
    ASSUME BridgeTypes, NEW code, NEW x \in Int, NEW of, Line(code, x, of) \in BridgeLine,
           ledger' = Append(ledger, Line(code, x, of))
    PROVE  LET Adds(C, in) == IF in THEN LinesMove(C, Counted(x)) ELSE LinesStay(C)
           IN  /\ Adds(YieldLines, code # "DEP")
               /\ Adds(PaidInLines, code = "DEP" /\ of = 0)
  <1> DEFINE l == Line(code, x, of)
  <1>1. l.code = code /\ l.amount = x /\ l.day = day /\ l.of = of
    BY DEF Line
  <1>2. rows \in Seq(BridgeRow) /\ l \in BridgeLine /\ ledger \in Seq(BridgeLine)
    BY DEF BridgeTypes
  <1>3. \A C : ComesTo(ledger, C) + 0 = ComesTo(ledger, C)
    <2>1. \A C : ComesTo(ledger, C) \in Int
      BY <1>2, SumsAreNumbers
    <2> QED
      BY <2>1
  <1> HIDE DEF l
  <1>4. ledger' = Append(ledger, l)
    BY DEF l
  <1> QED
    BY <1>1, <1>2, <1>3, <1>4, LineCounts DEF Counted, LinesMove, LinesStay

LEMMA EntriesStay ==
    ASSUME NEW C
    PROVE  (rows' = rows => RowsStay(C)) /\ (ledger' = ledger => LinesStay(C))
  BY DEF RowsStay, LinesStay

\* The bridge's sums are numbers.
BridgeSums == /\ ComesTo(rows, KeptRows) \in Int /\ ComesTo(rows, CardRows) \in Int
              /\ ComesTo(rows, OldDividends) \in Int /\ ComesTo(rows, PaidInRows) \in Int
              /\ ComesTo(rows, UnseenRows) \in Int
              /\ ComesTo(ledger, YieldLines) \in Int /\ ComesTo(ledger, PaidInLines) \in Int

\* What the rows and lines of the month add up to is what happened in it.
BridgeBooks ==
    /\ ComesTo(rows, KeptRows) = actual.kept
    /\ ComesTo(rows, OldDividends) + ComesTo(ledger, YieldLines) = actual.yield
    /\ ComesTo(rows, PaidInRows) + ComesTo(ledger, PaidInLines) = actual.outside
    /\ ComesTo(rows, UnseenRows) = actual.unseen

\* The month's ends, as far as they have been reached.
StartHolds == IF day < BridgeFirst THEN holds ELSE ends.start
EndHolds   == IF day <= BridgeLast THEN holds ELSE ends.end

Caused(t) == (t.kept + t.yield) + (t.unbilled + t.gained) + (t.outside - t.sent)

\* What is followed has changed by what happened in the month, and the debt by the card's rows
\* and its charges without a row.
BridgeBalance ==
    /\ Followed(EndHolds) - Followed(StartHolds) = Caused(actual)
    /\ EndHolds.owed - StartHolds.owed = -(ComesTo(rows, CardRows) + actual.unbilled)

LEMMA FollowedInt == \A h \in Holding : Followed(h) \in Int /\ h.owed \in Int
  BY DEF Holding, Followed, Cashed, Traded

LEMMA TotalInt == \A t \in Truth : Caused(t) \in Int
  BY DEF Truth, Caused

LEMMA BalanceMoves ==
    ASSUME BridgeTypes, BridgeTypes', BridgeBalance, day' = day, ends' = ends,
           NEW x \in Int, NEW y \in Int,
           Followed(holds') = Followed(holds) + x, holds'.owed = holds.owed + y,
           Caused(actual') = Caused(actual) + Counted(x),
           ComesTo(rows', CardRows) + actual'.unbilled
             = (ComesTo(rows, CardRows) + actual.unbilled) - Counted(y)
    PROVE  BridgeBalance'
  <1>1. /\ Followed(holds) \in Int /\ holds.owed \in Int
        /\ Followed(ends.start) \in Int /\ ends.start.owed \in Int
        /\ Followed(ends.end) \in Int /\ ends.end.owed \in Int
        /\ Caused(actual) \in Int /\ actual.unbilled \in Int
    BY FollowedInt, TotalInt DEF BridgeTypes, Truth
  <1>2. ComesTo(rows, CardRows) \in Int
    BY SumsAreNumbers DEF BridgeTypes
  <1>3. day \in Nat /\ BridgeFirst \in Nat /\ BridgeLast \in Nat /\ BridgeFirst <= BridgeLast
    BY BridgeAssumption DEF BridgeTypes
  <1> DEFINE c == ComesTo(rows, CardRows) + actual.unbilled
             d == ComesTo(rows', CardRows) + actual'.unbilled
  <1>4. c \in Int /\ d = c - Counted(y) /\ c = ComesTo(rows, CardRows) + actual.unbilled
    BY <1>1, <1>2
  <1>5. /\ Followed(EndHolds) - Followed(StartHolds) = Caused(actual)
        /\ EndHolds.owed - StartHolds.owed = -c
    BY DEF BridgeBalance
  <1> HIDE DEF c, d
  <1>6. CASE day < BridgeFirst
    <2>1. EndHolds = holds /\ StartHolds = holds /\ EndHolds' = holds' /\ StartHolds' = holds'
      BY <1>3, <1>6 DEF EndHolds, StartHolds
    <2>2. Counted(x) = 0 /\ Counted(y) = 0
      BY <1>3, <1>6 DEF Counted, BridgeMonth
    <2>3. Followed(EndHolds') - Followed(StartHolds') = Caused(actual')
      <3>1. Followed(holds) - Followed(holds) = Caused(actual)
        BY <1>5, <2>1
      <3>2. Followed(holds') - Followed(holds') = Caused(actual')
        BY <1>1, <2>2, <3>1
      <3> QED
        BY <2>1, <3>2
    <2>4. EndHolds'.owed - StartHolds'.owed = -d
      <3>1. holds.owed - holds.owed = -c
        BY <1>5, <2>1
      <3>2. holds'.owed - holds'.owed = -d
        BY <1>1, <1>4, <2>2, <3>1
      <3> QED
        BY <2>1, <3>2
    <2> QED
      BY <2>3, <2>4 DEF BridgeBalance, d
  <1>7. CASE day \in BridgeMonth
    <2>1. EndHolds = holds /\ StartHolds = ends.start /\ EndHolds' = holds'
          /\ StartHolds' = ends.start
      BY <1>3, <1>7 DEF EndHolds, StartHolds, BridgeMonth
    <2>2. Counted(x) = x /\ Counted(y) = y
      BY <1>7 DEF Counted
    <2>3. Followed(EndHolds') - Followed(StartHolds') = Caused(actual')
      <3>1. Followed(holds) - Followed(ends.start) = Caused(actual)
        BY <1>5, <2>1
      <3>2. Followed(holds') - Followed(ends.start) = Caused(actual')
        BY <1>1, <2>2, <3>1
      <3> QED
        BY <2>1, <3>2
    <2>4. EndHolds'.owed - StartHolds'.owed = -d
      <3>1. holds.owed - ends.start.owed = -c
        BY <1>5, <2>1
      <3>2. holds'.owed - ends.start.owed = -d
        BY <1>1, <1>4, <2>2, <3>1
      <3> QED
        BY <2>1, <3>2
    <2> QED
      BY <2>3, <2>4 DEF BridgeBalance, d
  <1>8. CASE day > BridgeLast
    <2>1. EndHolds = ends.end /\ StartHolds = ends.start /\ EndHolds' = ends.end
          /\ StartHolds' = ends.start
      BY <1>3, <1>8 DEF EndHolds, StartHolds
    <2>2. Counted(x) = 0 /\ Counted(y) = 0
      BY <1>3, <1>8 DEF Counted, BridgeMonth
    <2>3. /\ Followed(EndHolds') - Followed(StartHolds') = Caused(actual')
          /\ EndHolds'.owed - StartHolds'.owed = -d
      BY <1>1, <1>4, <1>5, <2>1, <2>2
    <2> QED
      BY <2>3 DEF BridgeBalance, d
  <1> QED
    BY <1>3, <1>6, <1>7, <1>8 DEF BridgeMonth

LEMMA CountedMeans ==
    ASSUME NEW x \in Int
    PROVE  Counted(0) = 0 /\ Counted(x) \in Int /\ Counted(-x) = -Counted(x)
  BY DEF Counted

\* The balance where the card is left alone.
LEMMA BalanceMovesByCash ==
    ASSUME BridgeTypes, BridgeTypes', BridgeBalance, day' = day, ends' = ends, NEW x \in Int,
           Followed(holds') = Followed(holds) + x, holds'.owed = holds.owed,
           Caused(actual') = Caused(actual) + Counted(x),
           RowsStay(CardRows), actual'.unbilled = actual.unbilled
    PROVE  BridgeBalance'
  <1>1. holds'.owed = holds.owed + 0
    BY FollowedInt DEF BridgeTypes
  <1>2. ComesTo(rows, CardRows) \in Int /\ actual.unbilled \in Int
    BY SumsAreNumbers DEF BridgeTypes, Truth
  <1> DEFINE c == ComesTo(rows, CardRows) + actual.unbilled
  <1>3. ComesTo(rows', CardRows) + actual'.unbilled = c - Counted(0)
    <2>1. ComesTo(rows', CardRows) + actual'.unbilled = c /\ c \in Int
      BY <1>2 DEF RowsStay
    <2> HIDE DEF c
    <2> QED
      BY <2>1, CountedMeans
  <1> QED
    BY <1>1, <1>3, BalanceMoves

\* The causes move together with the rows and lines they are the sums of.
LEMMA BooksMove ==
    ASSUME BridgeSums, actual \in Truth, BridgeBooks, NEW y \in Int,
           \/ actual'.kept = actual.kept /\ RowsStay(KeptRows)
           \/ actual'.kept = actual.kept + y /\ RowsMove(KeptRows, y),
           \/ actual'.yield = actual.yield /\ RowsStay(OldDividends) /\ LinesStay(YieldLines)
           \/ actual'.yield = actual.yield + y /\ RowsMove(OldDividends, y) /\ LinesStay(YieldLines)
           \/ actual'.yield = actual.yield + y /\ RowsStay(OldDividends) /\ LinesMove(YieldLines, y),
           \/ actual'.outside = actual.outside /\ RowsStay(PaidInRows) /\ LinesStay(PaidInLines)
           \/ actual'.outside = actual.outside + y /\ RowsMove(PaidInRows, y) /\ LinesStay(PaidInLines)
           \/ actual'.outside = actual.outside + y /\ RowsStay(PaidInRows) /\ LinesMove(PaidInLines, y),
           \/ actual'.unseen = actual.unseen /\ RowsStay(UnseenRows)
           \/ actual'.unseen = actual.unseen + y /\ RowsMove(UnseenRows, y)
    PROVE  BridgeBooks'
  <1>1. ComesTo(rows', KeptRows) = actual'.kept
    BY DEF BridgeBooks, BridgeSums, RowsStay, RowsMove
  <1>2. ComesTo(rows', OldDividends) + ComesTo(ledger', YieldLines) = actual'.yield
    BY DEF BridgeBooks, BridgeSums, RowsStay, RowsMove, LinesStay, LinesMove
  <1>3. ComesTo(rows', PaidInRows) + ComesTo(ledger', PaidInLines) = actual'.outside
    BY DEF BridgeBooks, BridgeSums, RowsStay, RowsMove, LinesStay, LinesMove
  <1>4. ComesTo(rows', UnseenRows) = actual'.unseen
    BY DEF BridgeBooks, BridgeSums, RowsStay, RowsMove
  <1> QED
    BY <1>1, <1>2, <1>3, <1>4 DEF BridgeBooks

\* What each cause does to their total.
LEMMA TotalMoves ==
    ASSUME actual \in Truth, NEW x \in Int, NEW f \in Causes, Happened(f, x)
    PROVE  /\ f \in {"kept", "yield", "unbilled", "gained", "outside"}
                 => Caused(actual') = Caused(actual) + Counted(x)
           /\ f = "sent" => Caused(actual') = Caused(actual) - Counted(x)
  <1>1. /\ actual.outside \in Int /\ actual.kept \in Int /\ actual.yield \in Int
        /\ actual.gained \in Int /\ actual.unbilled \in Int /\ actual.sent \in Int
        /\ Counted(x) \in Int
    BY CountedMeans DEF Truth
  <1>2. /\ actual'.outside = IF f = "outside" THEN actual.outside + Counted(x) ELSE actual.outside
        /\ actual'.kept = IF f = "kept" THEN actual.kept + Counted(x) ELSE actual.kept
        /\ actual'.yield = IF f = "yield" THEN actual.yield + Counted(x) ELSE actual.yield
        /\ actual'.gained = IF f = "gained" THEN actual.gained + Counted(x) ELSE actual.gained
        /\ actual'.unbilled = IF f = "unbilled" THEN actual.unbilled + Counted(x) ELSE actual.unbilled
        /\ actual'.sent = IF f = "sent" THEN actual.sent + Counted(x) ELSE actual.sent
    BY HappenedMeans
  <1> QED
    BY <1>1, <1>2 DEF Caused, Causes

LEMMA BooksKept ==
    ASSUME BridgeTypes, BridgeBooks, BridgeBalance, [BridgeNext]_bridgeVars
    PROVE  BridgeBooks' /\ BridgeBalance'
  <1> DEFINE Goal == BridgeBooks' /\ BridgeBalance'
  <1>0. /\ BridgeTypes' /\ BridgeSums
        /\ \A x \in BridgeAmounts : x \in Int /\ -x \in Int
    <2>1. BridgeTypes'
      BY BridgeTypesKept
    <2>2. BridgeSums
      BY SumsAreNumbers DEF BridgeSums, BridgeTypes
    <2>3. \A x \in BridgeAmounts : x \in Int /\ -x \in Int
      BY BridgeAssumption
    <2> QED
      BY <2>1, <2>2, <2>3
  <1>t. actual \in Truth /\ holds \in Holding /\ Followed(holds) \in Int /\ holds.owed \in Int
    BY <1>0, FollowedInt DEF BridgeTypes
  <1>1. CASE PassDay
    <2>1. /\ holds' = holds /\ rows' = rows /\ ledger' = ledger /\ actual' = actual
          /\ day' = day + 1
          /\ ends'.start = IF day + 1 = BridgeFirst THEN holds ELSE ends.start
          /\ ends'.end = IF day = BridgeLast THEN holds ELSE ends.end
      BY <1>1 DEF PassDay
    <2>2. EndHolds' = EndHolds /\ StartHolds' = StartHolds
      BY <2>1, BridgeAssumption DEF EndHolds, StartHolds, BridgeTypes
    <2> QED
      BY <2>1, <2>2 DEF BridgeBooks, BridgeBalance
  <1>2. ASSUME NEW x \in Int, Earn(x) PROVE Goal
    <2> DEFINE type == IF x > 0 THEN "INCOME" ELSE "EXPENSE"
    <2>1. Row("bank", type, x, 0) \in BridgeRow
      BY DEF Row, BridgeRow, Cashed, BridgeTypes
    <2>2. /\ rows' = Append(rows, Row("bank", type, x, 0)) /\ ledger' = ledger
          /\ holds' = [holds EXCEPT !.cash["bank"] = @ + x] /\ day' = day /\ ends' = ends
          /\ Happened("kept", x) /\ "kept" \in Causes
      BY <1>2 DEF Earn, Move, Causes
    <2>3. /\ actual'.kept = actual.kept + Counted(x) /\ actual'.yield = actual.yield
          /\ actual'.outside = actual.outside /\ actual'.unbilled = actual.unbilled
          /\ actual'.unseen = actual.unseen /\ Caused(actual') = Caused(actual) + Counted(x)
      BY <1>t, <2>2, HappenedMeans, TotalMoves
    <2>4. type \in {"INCOME", "EXPENSE"} /\ "bank" # "card"
      OBVIOUS
    <2> HIDE DEF type
    <2>5. /\ RowsMove(KeptRows, Counted(x)) /\ RowsStay(CardRows) /\ RowsStay(OldDividends)
          /\ RowsStay(PaidInRows) /\ RowsStay(UnseenRows)
          /\ LinesStay(YieldLines) /\ LinesStay(PaidInLines)
      BY <2>1, <2>2, <2>4, RowAdds, EntriesStay
    <2>6. Followed(holds') = Followed(holds) + x /\ holds'.owed = holds.owed
      BY <1>t, <2>2, CashMoves DEF Cashed
    <2>7. BridgeBooks'
      BY <1>0, <1>t, <2>3, <2>5, CountedMeans, BooksMove
    <2>8. BridgeBalance'
      BY <1>0, <2>2, <2>3, <2>5, <2>6, BalanceMovesByCash
    <2> QED
      BY <2>7, <2>8

  <1>3. ASSUME NEW x \in Int, PayCard(x) PROVE Goal
    <2> DEFINE paid == Row("bank", "TRANSFER", -x, 0)
               got  == Row("card", "TRANSFER", x, 0)
               half == Append(rows, paid)
    <2>1. paid \in BridgeRow /\ got \in BridgeRow
      BY DEF Row, BridgeRow, Cashed, BridgeTypes
    <2>2. /\ rows' = Append(half, got) /\ ledger' = ledger /\ actual' = actual
          /\ day' = day /\ ends' = ends
          /\ holds' = [holds EXCEPT !.cash["bank"] = @ - x, !.owed = @ - x]
      <3>1. rows \in Seq(BridgeRow)
        BY DEF BridgeTypes
      <3>2. rows \o <<paid, got>> = Append(Append(rows, paid), got)
        BY <2>1, <3>1
      <3> QED
        BY <1>3, <3>2 DEF PayCard, Move
    <2>3. /\ paid.account = "bank" /\ paid.type = "TRANSFER" /\ paid.of = 0
          /\ got.account = "card" /\ got.type = "TRANSFER" /\ got.amount = x /\ got.day = day
      BY DEF Row
    <2>4. rows \in Seq(BridgeRow) /\ half \in Seq(BridgeRow) /\ ledger \in Seq(BridgeLine)
      BY <2>1 DEF BridgeTypes
    <2>5. \A s \in Seq(BridgeRow) : \A C : ComesTo(s, C) \in Int
      BY <2>4, SumsAreNumbers
    <2> HIDE DEF paid, got
    <2>6. /\ RowsStay(KeptRows) /\ RowsStay(OldDividends) /\ RowsStay(PaidInRows)
          /\ RowsStay(UnseenRows) /\ RowsMove(CardRows, Counted(x))
      <3>1. \A C : ComesTo(rows, C) + 0 = ComesTo(rows, C) /\ ComesTo(half, C) + 0 = ComesTo(half, C)
        <4> HIDE DEF half
        <4> QED
          BY <2>4, <2>5
      <3>2. /\ ComesTo(half, KeptRows) = ComesTo(rows, KeptRows)
            /\ ComesTo(half, OldDividends) = ComesTo(rows, OldDividends)
            /\ ComesTo(half, PaidInRows) = ComesTo(rows, PaidInRows)
            /\ ComesTo(half, UnseenRows) = ComesTo(rows, UnseenRows)
            /\ ComesTo(half, CardRows) = ComesTo(rows, CardRows)
        BY <2>1, <2>3, <2>4, <3>1, RowCounts DEF Brokers
      <3> HIDE DEF half
      <3>3. /\ ComesTo(rows', KeptRows) = ComesTo(half, KeptRows)
            /\ ComesTo(rows', OldDividends) = ComesTo(half, OldDividends)
            /\ ComesTo(rows', PaidInRows) = ComesTo(half, PaidInRows)
            /\ ComesTo(rows', UnseenRows) = ComesTo(half, UnseenRows)
            /\ ComesTo(rows', CardRows) = ComesTo(half, CardRows) + Counted(x)
        BY <2>1, <2>2, <2>3, <2>4, <3>1, RowCounts DEF Brokers, Counted
      <3> QED
        BY <3>2, <3>3 DEF RowsStay, RowsMove
    <2>7. LinesStay(YieldLines) /\ LinesStay(PaidInLines)
      BY <2>2, EntriesStay
    <2>8. BridgeBooks'
      BY <1>0, <1>t, <2>2, <2>6, <2>7, BooksMove
    <2>9. Followed(holds') = Followed(holds) + 0 /\ holds'.owed = holds.owed + -x
      <3>1. /\ holds.cash["bank"] \in Int /\ holds.cash["flex"] \in Int
            /\ holds.cash["hand"] \in Int
        BY <1>t DEF Holding, Cashed
      <3>2. /\ holds'.shares = holds.shares /\ holds'.price = holds.price
            /\ holds'.rate = holds.rate /\ holds'.owed = holds.owed - x
            /\ holds'.cash["bank"] = holds.cash["bank"] - x
            /\ holds'.cash["flex"] = holds.cash["flex"]
            /\ holds'.cash["hand"] = holds.cash["hand"]
        BY <1>t, <2>2 DEF Holding, Cashed
      <3> DEFINE worth == holds.shares["flex"] * (holds.price * holds.rate)
      <3>3. worth \in Int
        BY <1>t DEF Holding, Traded
      <3>4. /\ Followed(holds) = holds.cash["bank"] + holds.cash["flex"] + holds.cash["hand"]
                                 + worth - holds.owed
            /\ Followed(holds') = holds'.cash["bank"] + holds'.cash["flex"] + holds'.cash["hand"]
                                  + worth - holds'.owed
        BY <3>2 DEF Followed
      <3> HIDE DEF worth
      <3> QED
        BY <1>t, <3>1, <3>2, <3>3, <3>4
    <2>10. /\ Caused(actual') = Caused(actual) + Counted(0)
           /\ ComesTo(rows', CardRows) + actual'.unbilled
                = (ComesTo(rows, CardRows) + actual.unbilled) - Counted(-x)
      <3>1. /\ Counted(0) = 0 /\ Counted(-x) = -Counted(x) /\ Counted(x) \in Int
            /\ Caused(actual) \in Int /\ ComesTo(rows, CardRows) \in Int /\ actual.unbilled \in Int
        BY <1>0, <1>t, TotalInt, CountedMeans DEF BridgeSums, Truth
      <3>2. ComesTo(rows', CardRows) = ComesTo(rows, CardRows) + Counted(x)
        BY <2>6 DEF RowsMove
      <3> QED
        BY <2>2, <3>1, <3>2
    <2>11. BridgeBalance'
      BY <1>0, <2>2, <2>9, <2>10, BalanceMoves
    <2> QED
      BY <2>8, <2>11
  <1>4. ASSUME NEW x \in Int, NEW listed \in BOOLEAN, Charge(x, listed)
        PROVE  Goal
    <2>1. Row("card", "EXPENSE", -x, 0) \in BridgeRow
      BY DEF Row, BridgeRow, BridgeTypes
    <2>2. /\ ledger' = ledger /\ day' = day /\ ends' = ends
          /\ holds' = [holds EXCEPT !.owed = @ + x]
          /\ \/ rows' = Append(rows, Row("card", "EXPENSE", -x, 0)) /\ Happened("kept", -x)
             \/ rows' = rows /\ Happened("unbilled", -x)
      BY <1>4 DEF Charge, Move
    <2>3. "kept" \in Causes /\ "unbilled" \in Causes /\ -x \in Int /\ Counted(-x) \in Int
      BY CountedMeans DEF Causes
    <2>4. LinesStay(YieldLines) /\ LinesStay(PaidInLines)
      BY <2>2, EntriesStay
    <2>5. Followed(holds') = Followed(holds) + -x /\ holds'.owed = holds.owed + x
      <3>1. /\ holds'.shares = holds.shares /\ holds'.price = holds.price
            /\ holds'.rate = holds.rate /\ holds'.owed = holds.owed + x
            /\ holds'.cash = holds.cash
        BY <1>t, <2>2 DEF Holding
      <3> DEFINE rest == holds.cash["bank"] + holds.cash["flex"] + holds.cash["hand"]
                         + holds.shares["flex"] * (holds.price * holds.rate)
      <3>2. rest \in Int
        BY <1>t DEF Holding, Traded, Cashed
      <3>3. Followed(holds) = rest - holds.owed /\ Followed(holds') = rest - holds'.owed
        BY <1>t, <3>1 DEF Followed, Holding, Traded, Cashed
      <3> HIDE DEF rest
      <3> QED
        BY <1>t, <3>1, <3>2, <3>3
    <2>6. BridgeBooks' /\ Caused(actual') = Caused(actual) + Counted(-x)
          /\ ComesTo(rows', CardRows) + actual'.unbilled
               = (ComesTo(rows, CardRows) + actual.unbilled) + Counted(-x)
      <3>0. ComesTo(rows, CardRows) \in Int /\ actual.unbilled \in Int
        BY <1>0, <1>t DEF BridgeSums, Truth
      <3>1. CASE rows' = Append(rows, Row("card", "EXPENSE", -x, 0)) /\ Happened("kept", -x)
        <4>1. /\ RowsMove(KeptRows, Counted(-x)) /\ RowsMove(CardRows, Counted(-x))
              /\ RowsStay(OldDividends) /\ RowsStay(PaidInRows) /\ RowsStay(UnseenRows)
          BY <2>1, <2>3, <3>1, RowAdds
        <4>2. /\ actual'.kept = actual.kept + Counted(-x) /\ actual'.yield = actual.yield
              /\ actual'.outside = actual.outside /\ actual'.unbilled = actual.unbilled
              /\ actual'.unseen = actual.unseen /\ Caused(actual') = Caused(actual) + Counted(-x)
          BY <1>t, <2>3, <3>1, HappenedMeans, TotalMoves
        <4>3. BridgeBooks'
          BY <1>0, <1>t, <2>3, <2>4, <4>1, <4>2, BooksMove
        <4>4. ComesTo(rows', CardRows) = ComesTo(rows, CardRows) + Counted(-x)
          BY <4>1 DEF RowsMove
        <4> QED
          BY <2>3, <3>0, <4>2, <4>3, <4>4
      <3>2. CASE rows' = rows /\ Happened("unbilled", -x)
        <4>1. /\ RowsStay(KeptRows) /\ RowsStay(CardRows) /\ RowsStay(OldDividends)
              /\ RowsStay(PaidInRows) /\ RowsStay(UnseenRows)
          BY <3>2, EntriesStay
        <4>2. /\ actual'.kept = actual.kept /\ actual'.yield = actual.yield
              /\ actual'.outside = actual.outside
              /\ actual'.unbilled = actual.unbilled + Counted(-x)
              /\ actual'.unseen = actual.unseen /\ Caused(actual') = Caused(actual) + Counted(-x)
          BY <1>t, <2>3, <3>2, HappenedMeans, TotalMoves
        <4>3. BridgeBooks'
          BY <1>0, <1>t, <2>3, <2>4, <4>1, <4>2, BooksMove
        <4> QED
          BY <2>3, <3>0, <3>2, <4>2, <4>3
      <3> QED
        BY <2>2, <3>1, <3>2
    <2>7. ComesTo(rows', CardRows) + actual'.unbilled
            = (ComesTo(rows, CardRows) + actual.unbilled) - Counted(x)
      <3>1. /\ Counted(-x) = -Counted(x) /\ Counted(x) \in Int
            /\ ComesTo(rows, CardRows) \in Int /\ actual.unbilled \in Int
        BY <1>0, <1>t, CountedMeans DEF BridgeSums, Truth
      <3> QED
        BY <2>6, <3>1
    <2>8. BridgeBalance'
      BY <1>0, <2>2, <2>3, <2>5, <2>6, <2>7, BalanceMoves
    <2> QED
      BY <2>6, <2>8

  <1>5. ASSUME NEW x \in Int, NEW stated \in BOOLEAN, Dividend(x, stated)
        PROVE  Goal
    <2>1. Row("flex", "DIVIDEND", x, 0) \in BridgeRow /\ Line("DIV", x, 0) \in BridgeLine
      BY DEF Row, Line, BridgeRow, BridgeLine, Cashed, BridgeTypes
    <2>2. /\ day' = day /\ ends' = ends
          /\ holds' = [holds EXCEPT !.cash["flex"] = @ + x]
          /\ Happened("yield", x) /\ "yield" \in Causes
      BY <1>5 DEF Dividend, Move, Causes
    <2>3. /\ actual'.kept = actual.kept /\ actual'.yield = actual.yield + Counted(x)
          /\ actual'.outside = actual.outside /\ actual'.unbilled = actual.unbilled
          /\ actual'.unseen = actual.unseen /\ Caused(actual') = Caused(actual) + Counted(x)
      BY <1>t, <2>2, HappenedMeans, TotalMoves
    <2>4. \/ day >= BridgeSince /\ ledger' = Append(ledger, Line("DIV", x, 0))
          \/ day < BridgeSince /\ ledger' = ledger /\ rows' = Append(rows, Row("flex", "DIVIDEND", x, 0))
      BY <1>5, BridgeAssumption DEF Dividend, BridgeTypes
    <2>5. rows' = rows \/ rows' = Append(rows, Row("flex", "DIVIDEND", x, 0))
      BY <1>5 DEF Dividend
    <2>6. /\ RowsStay(KeptRows) /\ RowsStay(CardRows) /\ RowsStay(PaidInRows)
          /\ RowsStay(UnseenRows)
          /\ rows' = Append(rows, Row("flex", "DIVIDEND", x, 0))
               => IF day < BridgeSince THEN RowsMove(OldDividends, Counted(x))
                                       ELSE RowsStay(OldDividends)
          /\ rows' = rows => RowsStay(OldDividends)
      <3>1. CASE rows' = rows
        <4>1. rows' = rows /\ RowsStay(OldDividends)
          BY <3>1, EntriesStay
        <4>2. RowsStay(KeptRows) /\ RowsStay(CardRows) /\ RowsStay(PaidInRows) /\ RowsStay(UnseenRows)
          BY <3>1, EntriesStay
        <4>3. rows' # Append(rows, Row("flex", "DIVIDEND", x, 0))
          <5>1. rows \in Seq(BridgeRow)
            BY DEF BridgeTypes
          <5>2. Len(Append(rows, Row("flex", "DIVIDEND", x, 0))) = Len(rows) + 1 /\ Len(rows) \in Nat
            BY <2>1, <5>1
          <5> QED
            BY <3>1, <5>2
        <4> QED
          BY <4>1, <4>2, <4>3
      <3>2. CASE rows' = Append(rows, Row("flex", "DIVIDEND", x, 0))
        <4>1. rows' # rows
          <5>1. rows \in Seq(BridgeRow)
            BY DEF BridgeTypes
          <5>2. Len(Append(rows, Row("flex", "DIVIDEND", x, 0))) = Len(rows) + 1 /\ Len(rows) \in Nat
            BY <2>1, <5>1
          <5> QED
            BY <3>2, <5>2
        <4>2. /\ RowsStay(KeptRows) /\ RowsStay(CardRows) /\ RowsStay(PaidInRows)
              /\ RowsStay(UnseenRows)
              /\ IF day < BridgeSince THEN RowsMove(OldDividends, Counted(x))
                                      ELSE RowsStay(OldDividends)
          BY <2>1, <3>2, RowAdds
        <4> QED
          BY <3>2, <4>1, <4>2
      <3> QED
        BY <2>5, <3>1, <3>2
    <2>7. BridgeBooks'
      <3>1. CASE day >= BridgeSince /\ ledger' = Append(ledger, Line("DIV", x, 0))
        <4>1. LinesMove(YieldLines, Counted(x)) /\ LinesStay(PaidInLines)
          BY <2>1, <3>1, LineAdds
        <4>2. ~(day < BridgeSince)
          BY <3>1, BridgeAssumption DEF BridgeTypes
        <4>3. RowsStay(OldDividends)
          BY <2>5, <2>6, <4>2
        <4> QED
          BY <1>0, <1>t, <2>3, <2>6, <4>1, <4>3, CountedMeans, BooksMove
      <3>2. CASE day < BridgeSince /\ ledger' = ledger /\ rows' = Append(rows, Row("flex", "DIVIDEND", x, 0))
        <4>1. LinesStay(YieldLines) /\ LinesStay(PaidInLines)
          BY <3>2, EntriesStay
        <4>2. RowsMove(OldDividends, Counted(x))
          BY <2>6, <3>2
        <4> QED
          BY <1>0, <1>t, <2>3, <2>6, <4>1, <4>2, CountedMeans, BooksMove
      <3> QED
        BY <2>4, <3>1, <3>2
    <2>8. Followed(holds') = Followed(holds) + x /\ holds'.owed = holds.owed
      BY <1>t, <2>2, CashMoves DEF Cashed
    <2>9. BridgeBalance'
      BY <1>0, <2>2, <2>3, <2>6, <2>8, BalanceMovesByCash
    <2> QED
      BY <2>7, <2>9
  <1>6. ASSUME NEW x \in Int, NEW b \in Brokers, Deposit(b, x)
        PROVE  Goal
    <2>1. b \in Cashed /\ b # "card" /\ b \in {"flex", "hand"} /\ 0 \in Nat
      BY DEF Brokers, Cashed
    <2>2. /\ day' = day /\ ends' = ends /\ Records(b, x, 0)
          /\ actual' = IF day \in BridgeMonth
                       THEN [actual EXCEPT !.outside = @ + x,
                               !.unseen = @ + IF b = "flex" /\ day < BridgeSince THEN x ELSE 0]
                       ELSE actual
      BY <1>6 DEF Deposit, Move, BridgeMonth
    <2>3. /\ holds' \in Holding /\ Followed(holds') = Followed(holds) + x /\ holds'.owed = holds.owed
          /\ Row(b, "TRANSFER", x, 0) \in BridgeRow /\ Line("DEP", x, 0) \in BridgeLine
          /\ \/ b = "flex" /\ day >= BridgeSince /\ ledger' = Append(ledger, Line("DEP", x, 0))
                /\ rows' = rows
             \/ ~(b = "flex" /\ day >= BridgeSince)
                /\ rows' = Append(rows, Row(b, "TRANSFER", x, 0)) /\ ledger' = ledger
      BY <2>1, <2>2, RecordsMeans
    <2> DEFINE old == b = "flex" /\ day < BridgeSince
    <2>4. /\ actual'.kept = actual.kept /\ actual'.yield = actual.yield
          /\ actual'.outside = actual.outside + Counted(x)
          /\ actual'.unseen = IF old THEN actual.unseen + Counted(x) ELSE actual.unseen
          /\ actual'.unbilled = actual.unbilled /\ Caused(actual') = Caused(actual) + Counted(x)
      <3>1. /\ actual.outside \in Int /\ actual.kept \in Int /\ actual.yield \in Int
            /\ actual.gained \in Int /\ actual.unbilled \in Int /\ actual.sent \in Int
            /\ actual.unseen \in Int
        BY <1>t DEF Truth
      <3>2. /\ actual'.kept = actual.kept /\ actual'.yield = actual.yield
            /\ actual'.gained = actual.gained /\ actual'.unbilled = actual.unbilled
            /\ actual'.sent = actual.sent
            /\ actual'.outside = actual.outside + Counted(x)
            /\ actual'.unseen = IF old THEN actual.unseen + Counted(x) ELSE actual.unseen
        <4>1. CASE day \in BridgeMonth
          <5>1. actual' = [actual EXCEPT !.outside = @ + x, !.unseen = @ + IF old THEN x ELSE 0]
            BY <2>2, <4>1
          <5>2. Counted(x) = x /\ (IF old THEN x ELSE 0) \in Int
            BY <4>1 DEF Counted
          <5>3. actual.unseen + 0 = actual.unseen
            BY <3>1
          <5> DEFINE z == IF old THEN x ELSE 0
          <5>z. z \in Int /\ actual' = [actual EXCEPT !.outside = @ + x, !.unseen = @ + z]
            BY <5>1, <5>2
          <5>y. z = IF old THEN x ELSE 0
            OBVIOUS
          <5> HIDE DEF old, z
          <5>4. /\ actual'.outside = actual.outside + x
                /\ actual'.unseen = actual.unseen + z
                /\ actual'.kept = actual.kept /\ actual'.yield = actual.yield
                /\ actual'.gained = actual.gained /\ actual'.unbilled = actual.unbilled
                /\ actual'.sent = actual.sent
            <6>1. actual \in Truth /\ x \in Int
              BY <1>t
            <6> QED
              BY ONLY <6>1, <5>z DEF Truth
          <5> QED
            BY <5>2, <5>3, <5>4, <5>y
        <4>2. CASE day \notin BridgeMonth
          <5>1. actual' = actual /\ Counted(x) = 0
            BY <2>2, <4>2 DEF Counted
          <5> QED
            BY <3>1, <5>1
        <4> QED
          BY <4>1, <4>2
      <3> QED
        BY <3>1, <3>2, CountedMeans DEF Caused
    <2>5. BridgeBooks' /\ RowsStay(CardRows)
      <3>1. CASE /\ b = "flex" /\ day >= BridgeSince
                 /\ ledger' = Append(ledger, Line("DEP", x, 0)) /\ rows' = rows
        <4>1. ~old
          BY <3>1, BridgeAssumption DEF BridgeTypes
        <4>2. LinesStay(YieldLines) /\ LinesMove(PaidInLines, Counted(x))
          BY <2>3, <3>1, LineAdds
        <4>3. /\ RowsStay(KeptRows) /\ RowsStay(CardRows) /\ RowsStay(OldDividends)
              /\ RowsStay(PaidInRows) /\ RowsStay(UnseenRows)
          BY <3>1, EntriesStay
        <4> HIDE DEF old
        <4> QED
          BY <1>0, <1>t, <2>4, <4>1, <4>2, <4>3, CountedMeans, BooksMove
      <3>2. CASE /\ ~(b = "flex" /\ day >= BridgeSince)
                 /\ rows' = Append(rows, Row(b, "TRANSFER", x, 0)) /\ ledger' = ledger
        <4>1. old <=> b = "flex"
          BY <3>2, BridgeAssumption DEF BridgeTypes
        <4>2. LinesStay(YieldLines) /\ LinesStay(PaidInLines)
          BY <3>2, EntriesStay
        <4> HIDE DEF old
        <4>3. /\ RowsStay(KeptRows) /\ RowsStay(CardRows) /\ RowsStay(OldDividends)
              /\ RowsMove(PaidInRows, Counted(x))
              /\ IF old THEN RowsMove(UnseenRows, Counted(x)) ELSE RowsStay(UnseenRows)
          BY <2>1, <2>3, <3>2, <4>1, RowAdds
        <4> QED
          BY <1>0, <1>t, <2>4, <4>2, <4>3, CountedMeans, BooksMove
      <3> QED
        BY <2>3, <3>1, <3>2
    <2>6. BridgeBalance'
      BY <1>0, <2>2, <2>3, <2>4, <2>5, BalanceMovesByCash
    <2> QED
      BY <2>5, <2>6

  <1>7. ASSUME NEW x \in Int, NEW a \in Cashed, NEW of \in Nat \ {0}, Records(a, x, of),
               Happened("sent", -x), day' = day, ends' = ends
        PROVE  Goal
    <2>1. /\ holds' \in Holding /\ Followed(holds') = Followed(holds) + x /\ holds'.owed = holds.owed
          /\ Row(a, "TRANSFER", x, of) \in BridgeRow /\ Line("DEP", x, of) \in BridgeLine
          /\ \/ a = "flex" /\ day >= BridgeSince /\ ledger' = Append(ledger, Line("DEP", x, of))
                /\ rows' = rows
             \/ ~(a = "flex" /\ day >= BridgeSince)
                /\ rows' = Append(rows, Row(a, "TRANSFER", x, of)) /\ ledger' = ledger
      BY <1>7, RecordsMeans
    <2>2. a # "card" /\ of # 0 /\ -x \in Int /\ "sent" \in Causes
      BY DEF Cashed, Causes
    <2>3. /\ actual'.kept = actual.kept /\ actual'.yield = actual.yield
          /\ actual'.outside = actual.outside /\ actual'.unseen = actual.unseen
          /\ actual'.unbilled = actual.unbilled /\ Caused(actual') = Caused(actual) - Counted(-x)
      BY <1>7, <1>t, <2>2, HappenedMeans, TotalMoves
    <2>4. Caused(actual') = Caused(actual) + Counted(x)
      <3>1. Caused(actual) \in Int /\ Counted(x) \in Int /\ Counted(-x) = -Counted(x)
        BY <1>t, TotalInt, CountedMeans
      <3> QED
        BY <2>3, <3>1
    <2>5. /\ LinesStay(YieldLines) /\ LinesStay(PaidInLines)
          /\ RowsStay(KeptRows) /\ RowsStay(CardRows) /\ RowsStay(OldDividends)
          /\ RowsStay(PaidInRows) /\ RowsStay(UnseenRows)
      <3>1. CASE ledger' = Append(ledger, Line("DEP", x, of)) /\ rows' = rows
        BY <2>1, <2>2, <3>1, LineAdds, EntriesStay
      <3>2. CASE rows' = Append(rows, Row(a, "TRANSFER", x, of)) /\ ledger' = ledger
        BY <2>1, <2>2, <3>2, RowAdds, EntriesStay
      <3> QED
        BY <2>1, <3>1, <3>2
    <2>6. BridgeBooks'
      BY <1>0, <1>t, <2>3, <2>5, BooksMove
    <2>7. BridgeBalance'
      BY <1>0, <1>7, <2>1, <2>3, <2>4, <2>5, BalanceMovesByCash
    <2> QED
      BY <2>6, <2>7
  <1>8. ASSUME NEW x \in Int, NEW a \in Cashed, NEW b \in Cashed, SendMoney(a, b, x)
        PROVE  Goal
    <2>1. -x \in Int /\ moves + 1 \in Nat \ {0} /\ -(-x) = x
      BY DEF BridgeTypes
    <2>2. Records(a, -x, moves + 1) /\ Happened("sent", x) /\ day' = day /\ ends' = ends
      BY <1>8 DEF SendMoney, Move
    <2> QED
      BY <1>7, <2>1, <2>2
  <1>9. ASSUME NEW m \in moving, Arrive(m) PROVE Goal
    <2>1. m.amount \in Int /\ m.to \in Cashed /\ m.id \in Nat \ {0}
      BY DEF BridgeTypes
    <2>2. Records(m.to, m.amount, m.id) /\ Happened("sent", -m.amount) /\ day' = day /\ ends' = ends
      BY <1>9 DEF Arrive
    <2> QED
      BY <1>7, <2>1, <2>2
  <1>10. ASSUME NEW i \in DOMAIN rows, NEW j \in DOMAIN rows, LinkUp(i, j)
        PROVE  Goal
    <2>1. /\ rows' = [rows EXCEPT ![i].linked = TRUE, ![j].linked = TRUE]
          /\ holds' = holds /\ day' = day /\ ends' = ends /\ ledger' = ledger /\ actual' = actual
      BY <1>10 DEF LinkUp
    <2>2. DOMAIN rows' = DOMAIN rows /\ IsFiniteSet(DOMAIN rows)
      <3>1. rows \in Seq(BridgeRow)
        BY DEF BridgeTypes
      <3>2. DOMAIN rows = 1 .. Len(rows) /\ Len(rows) \in Int
        BY <3>1
      <3>3. DOMAIN rows' = DOMAIN rows
        BY <2>1
      <3> QED
        BY <3>2, <3>3, FS_Interval
    <2>3. \A k \in DOMAIN rows : /\ rows[k] \in BridgeRow /\ rows'[k] \in BridgeRow
                                 /\ rows'[k].amount = rows[k].amount /\ rows'[k].of = rows[k].of
                                 /\ rows'[k].type = rows[k].type /\ rows'[k].day = rows[k].day
                                 /\ rows'[k].account = rows[k].account
      <3>1. rows \in Seq(BridgeRow) /\ rows' \in Seq(BridgeRow)
        BY <1>0 DEF BridgeTypes
      <3>2. \A k \in DOMAIN rows : rows[k] \in BridgeRow /\ rows'[k] \in BridgeRow
        BY <2>2, <3>1
      <3>3. ASSUME NEW k \in DOMAIN rows
            PROVE  rows'[k] = rows[k] \/ rows'[k] = [rows[k] EXCEPT !.linked = TRUE]
        <4>1. rows[k] \in BridgeRow
          BY <3>2
        <4>2. /\ k = j => rows'[k] = [[rows EXCEPT ![i].linked = TRUE][k] EXCEPT !.linked = TRUE]
              /\ k # j => rows'[k] = [rows EXCEPT ![i].linked = TRUE][k]
          BY <2>1, <3>1
        <4>3. /\ k = i => [rows EXCEPT ![i].linked = TRUE][k] = [rows[k] EXCEPT !.linked = TRUE]
              /\ k # i => [rows EXCEPT ![i].linked = TRUE][k] = rows[k]
          BY <3>1
        <4>4. [[rows[k] EXCEPT !.linked = TRUE] EXCEPT !.linked = TRUE]
                = [rows[k] EXCEPT !.linked = TRUE]
          BY <4>1 DEF BridgeRow
        <4> QED
          BY <4>2, <4>3, <4>4
      <3>4. \A r \in BridgeRow :
               LET q == [r EXCEPT !.linked = TRUE]
               IN  /\ q.amount = r.amount /\ q.of = r.of /\ q.type = r.type /\ q.day = r.day
                   /\ q.account = r.account
        BY DEF BridgeRow
      <3> QED
        BY <3>2, <3>3, <3>4
    <2>4. /\ ComesTo(rows, KeptRows) = ComesTo(rows', KeptRows)
          /\ ComesTo(rows, CardRows) = ComesTo(rows', CardRows)
          /\ ComesTo(rows, OldDividends) = ComesTo(rows', OldDividends)
          /\ ComesTo(rows, PaidInRows) = ComesTo(rows', PaidInRows)
          /\ ComesTo(rows, UnseenRows) = ComesTo(rows', UnseenRows)
      <3>1. \A k \in DOMAIN rows : /\ rows[k] \in KeptRows <=> rows'[k] \in KeptRows
                                   /\ rows[k] \in CardRows <=> rows'[k] \in CardRows
                                   /\ rows[k] \in OldDividends <=> rows'[k] \in OldDividends
                                   /\ rows[k] \in PaidInRows <=> rows'[k] \in PaidInRows
                                   /\ rows[k] \in UnseenRows <=> rows'[k] \in UnseenRows
        BY <2>3 DEF KeptRows, CardRows, OldDividends, PaidInRows, UnseenRows
      <3> QED
        BY <2>2, <2>3, <3>1, ComesToSame
    <2>5. /\ RowsStay(KeptRows) /\ RowsStay(CardRows) /\ RowsStay(OldDividends)
          /\ RowsStay(PaidInRows) /\ RowsStay(UnseenRows)
          /\ LinesStay(YieldLines) /\ LinesStay(PaidInLines)
      BY <2>1, <2>4, EntriesStay DEF RowsStay
    <2> QED
      BY <2>1, <2>4 DEF BridgeBooks, BridgeBalance, EndHolds, StartHolds

  <1>11. ASSUME rows' = rows, ledger' = ledger, day' = day, ends' = ends, actual' \in Truth,
                NEW y \in Int, Followed(holds') = Followed(holds) + y, holds'.owed = holds.owed,
                Caused(actual') = Caused(actual) + Counted(y),
                actual'.kept = actual.kept, actual'.yield = actual.yield,
                actual'.outside = actual.outside, actual'.unseen = actual.unseen,
                actual'.unbilled = actual.unbilled
        PROVE  Goal
    <2>1. /\ RowsStay(KeptRows) /\ RowsStay(CardRows) /\ RowsStay(OldDividends)
          /\ RowsStay(PaidInRows) /\ RowsStay(UnseenRows)
          /\ LinesStay(YieldLines) /\ LinesStay(PaidInLines)
      BY <1>11, EntriesStay
    <2>2. BridgeBooks'
      BY <1>0, <1>t, <1>11, <2>1, BooksMove
    <2>3. BridgeBalance'
      BY <1>0, <1>11, <2>1, BalanceMovesByCash
    <2> QED
      BY <2>2, <2>3
  <1>12. ASSUME rows' = rows, ledger' = ledger, day' = day, ends' = ends, actual' = actual,
                Followed(holds') = Followed(holds), holds'.owed = holds.owed
        PROVE  Goal
    <2>1. Followed(holds') = Followed(holds) + 0 /\ Caused(actual') = Caused(actual) + Counted(0)
      <3>1. Caused(actual) \in Int /\ Counted(0) = 0
        BY <1>t, TotalInt, CountedMeans
      <3> QED
        BY <1>t, <1>12, <3>1
    <2> QED
      BY <1>11, <1>12, <1>t, <2>1
  <1>13. ASSUME NEW b \in Traded, NEW n \in Int, Trade(b, n) PROVE Goal
    <2> DEFINE paid == IF b = "flex" THEN n * holds.price * holds.rate ELSE 0
    <2>1. /\ rows' = rows /\ ledger' = ledger /\ day' = day /\ ends' = ends /\ actual' = actual
          /\ holds' = [holds EXCEPT !.shares[b] = @ + n, !.cash["flex"] = @ - paid]
      BY <1>13 DEF Trade, Move
    <2>2. /\ holds.cash["bank"] \in Int /\ holds.cash["flex"] \in Int
          /\ holds.cash["hand"] \in Int /\ holds.shares["flex"] \in Int
          /\ holds.price \in Int /\ holds.rate \in Int
      BY <1>t DEF Holding, Cashed, Traded
    <2>3. /\ holds'.owed = holds.owed /\ holds'.price = holds.price /\ holds'.rate = holds.rate
          /\ holds'.cash["bank"] = holds.cash["bank"] /\ holds'.cash["hand"] = holds.cash["hand"]
          /\ holds'.cash["flex"] = holds.cash["flex"] - paid
          /\ holds'.shares["flex"] = IF b = "flex" THEN holds.shares["flex"] + n
                                                   ELSE holds.shares["flex"]
      BY <1>t, <2>1 DEF Holding, Cashed, Traded
    <2>4. Followed(holds') = Followed(holds)
      <3> DEFINE unit == holds.price * holds.rate
                 s == holds.shares["flex"]
      <3>1. unit \in Int /\ s * unit \in Int /\ n * unit \in Int
        BY <2>2
      <3>2. n * holds.price * holds.rate = n * unit
        BY <2>2
      <3>3. (s + n) * unit = s * unit + n * unit
        <4>1. \A p, q, r \in Int : (p + q) * r = p * r + q * r
          OBVIOUS
        <4> HIDE DEF unit, s
        <4>2. s \in Int
          BY <2>2 DEF s
        <4> QED
          BY <3>1, <4>1, <4>2
      <3>4. /\ Followed(holds) = holds.cash["bank"] + holds.cash["flex"] + holds.cash["hand"]
                                 + s * unit - holds.owed
            /\ Followed(holds') = holds.cash["bank"] + (holds.cash["flex"] - paid)
                                  + holds.cash["hand"]
                                  + holds'.shares["flex"] * unit - holds.owed
        BY <2>3 DEF Followed
      <3>5. CASE b = "flex"
        <4>1. paid = n * unit /\ holds'.shares["flex"] * unit = s * unit + n * unit
          BY <2>3, <3>2, <3>3, <3>5
        <4> DEFINE worth == s * unit
                   more == n * unit
        <4>2. worth \in Int /\ more \in Int
          BY <3>1
        <4>3. /\ Followed(holds) = holds.cash["bank"] + holds.cash["flex"] + holds.cash["hand"]
                                   + worth - holds.owed
              /\ Followed(holds') = holds.cash["bank"] + (holds.cash["flex"] - more)
                                    + holds.cash["hand"] + (worth + more) - holds.owed
          BY <3>4, <4>1
        <4> HIDE DEF worth, more, unit, s, paid
        <4> QED
          BY <1>t, <2>2, <4>2, <4>3
      <3>6. CASE b # "flex"
        <4>1. paid = 0 /\ holds'.shares["flex"] * unit = s * unit
          BY <2>3, <3>6
        <4> DEFINE worth == s * unit
        <4>2. worth \in Int
          BY <3>1
        <4>3. /\ Followed(holds) = holds.cash["bank"] + holds.cash["flex"] + holds.cash["hand"]
                                   + worth - holds.owed
              /\ Followed(holds') = holds.cash["bank"] + (holds.cash["flex"] - 0)
                                    + holds.cash["hand"] + worth - holds.owed
          BY <3>4, <4>1
        <4> HIDE DEF worth, unit, s, paid
        <4> QED
          BY <1>t, <2>2, <4>2, <4>3
      <3> QED
        BY <3>5, <3>6
    <2> QED
      BY <1>12, <2>1, <2>3, <2>4
  <1>14. ASSUME NEW n \in Int, MoveCoins(n) PROVE Goal
    <2>1. /\ rows' = rows /\ ledger' = ledger /\ day' = day /\ ends' = ends /\ actual' = actual
          /\ holds' = [holds EXCEPT !.coins = @ + n]
      BY <1>14 DEF MoveCoins, Move
    <2>2. /\ holds'.owed = holds.owed /\ holds'.price = holds.price /\ holds'.rate = holds.rate
          /\ holds'.cash = holds.cash /\ holds'.shares = holds.shares
      BY <1>t, <2>1 DEF Holding
    <2> QED
      BY <1>12, <2>1, <2>2 DEF Followed
  <1>15. ASSUME NEW p \in Int, NEW r \in Int, MarketMoves(p, r) PROVE Goal
    <2> DEFINE s == holds.shares["flex"]
               unit == holds.price * holds.rate
               y == s * (p * r - unit)
    <2>1. /\ rows' = rows /\ ledger' = ledger /\ day' = day /\ ends' = ends
          /\ holds' = [holds EXCEPT !.price = p, !.rate = r] /\ Happened("gained", y)
      BY <1>15 DEF MarketMoves, Move
    <2>2. s \in Int /\ unit \in Int /\ p * r \in Int /\ y \in Int
      <3>1. s \in Int /\ unit \in Int /\ p * r \in Int
        BY <1>t DEF Holding, Traded
      <3> QED
        BY <3>1
    <2>3. "gained" \in Causes
      BY DEF Causes
    <2>4. /\ holds'.owed = holds.owed /\ holds'.price = p /\ holds'.rate = r
          /\ holds'.cash = holds.cash /\ holds'.shares = holds.shares
      BY <1>t, <2>1 DEF Holding
    <2>5. Followed(holds') = Followed(holds) + y
      <3> DEFINE rest == holds.cash["bank"] + holds.cash["flex"] + holds.cash["hand"]
                 worth == s * unit
                 now == s * (p * r)
      <3>1. rest \in Int /\ worth \in Int /\ now \in Int /\ holds.owed \in Int
        BY <1>t, <2>2 DEF Holding, Cashed
      <3>2. y = now - worth
        <4>1. \A u, v, w \in Int : u * (v - w) = u * v - u * w
          OBVIOUS
        <4> HIDE DEF s, unit
        <4> QED
          BY <2>2, <4>1
      <3>3. Followed(holds) = rest + worth - holds.owed /\ Followed(holds') = rest + now - holds.owed
        BY <2>4 DEF Followed
      <3> HIDE DEF rest, worth, now, y
      <3> QED
        BY <3>1, <3>2, <3>3
    <2> HIDE DEF y
    <2>6. /\ actual' \in Truth /\ actual'.kept = actual.kept /\ actual'.yield = actual.yield
          /\ actual'.outside = actual.outside /\ actual'.unseen = actual.unseen
          /\ actual'.unbilled = actual.unbilled /\ Caused(actual') = Caused(actual) + Counted(y)
      BY <1>t, <2>1, <2>2, <2>3, HappenedMeans, TotalMoves
    <2> QED
      BY <1>11, <2>1, <2>2, <2>4, <2>5, <2>6
  <1>16. CASE UNCHANGED bridgeVars
    BY <1>12, <1>16 DEF bridgeVars
  <1>17. Brokers \subseteq Cashed /\ holds.price \in Int /\ holds.rate \in Int
    BY <1>t DEF Brokers, Cashed, Holding
  <1>18. BridgeNext \/ UNCHANGED bridgeVars
    OBVIOUS
  <1> QED
    BY <1>0, <1>1, <1>2, <1>3, <1>4, <1>5, <1>6, <1>8, <1>9, <1>10, <1>13, <1>14, <1>15, <1>16,
       <1>17, <1>18 DEF BridgeNext

Value(q, p, r) == q * p * r

\* A change of worth is split without a rest.
LEMMA SplitAdds ==
    ASSUME NEW q0 \in Int, NEW p0 \in Int, NEW r0 \in Int, NEW q1 \in Int, NEW p1 \in Int,
           NEW r1 \in Int
    PROVE  LET s == Split(q0, p0, r0, q1, p1, r1)
           IN  /\ s.price \in Int /\ s.fx \in Int /\ s.quantity \in Int
               /\ s.price + s.fx + s.quantity = Value(q1, p1, r1) - Value(q0, p0, r0)
  <1> DEFINE s == Split(q0, p0, r0, q1, p1, r1)
             then == q0 * p0 * r0
             now  == q1 * p1 * r1
             price == q0 * (p1 - p0) * r1
             fx    == q0 * p0 * (r1 - r0)
             quantity == (q1 - q0) * p1 * r1
             cross == q0 * p0 * r1
             start == q0 * p1 * r1
  <1>1. /\ then \in Int /\ now \in Int /\ price \in Int /\ fx \in Int /\ quantity \in Int
        /\ cross \in Int /\ start \in Int
    OBVIOUS
  <1>2. price = start - cross
    <2>1. q0 * (p1 - p0) = q0 * p1 - q0 * p0
      OBVIOUS
    <2>2. \A a, b, c \in Int : (a - b) * c = a * c - b * c
      OBVIOUS
    <2>3. q0 * p1 \in Int /\ q0 * p0 \in Int
      OBVIOUS
    <2> QED
      BY <2>1, <2>2, <2>3
  <1>3. fx = cross - then
    <2>1. \A a, b, c \in Int : a * (b - c) = a * b - a * c
      OBVIOUS
    <2>2. q0 * p0 \in Int
      OBVIOUS
    <2> QED
      BY <2>1, <2>2
  <1>4. quantity = now - start
    <2>1. (q1 - q0) * p1 = q1 * p1 - q0 * p1
      OBVIOUS
    <2>2. \A a, b, c \in Int : (a - b) * c = a * c - b * c
      OBVIOUS
    <2>3. q1 * p1 \in Int /\ q0 * p1 \in Int
      OBVIOUS
    <2> QED
      BY <2>1, <2>2, <2>3
  <1>5. CASE q0 = 0 \/ q1 = 0
    <2>1. s = [price |-> 0, fx |-> 0, quantity |-> now - then]
      BY <1>5 DEF Split
    <2> HIDE DEF now, then, s
    <2>2. s.price = 0 /\ s.fx = 0 /\ s.quantity = now - then
      BY <2>1
    <2>3. s.price + s.fx + s.quantity = now - then
      BY <1>1, <2>2
    <2>4. s.price \in Int /\ s.fx \in Int /\ s.quantity \in Int
      BY <1>1, <2>2
    <2> QED
      BY <2>3, <2>4 DEF s, now, then, Value
  <1>6. CASE ~(q0 = 0 \/ q1 = 0)
    <2>1. s = [price |-> price, fx |-> fx, quantity |-> quantity]
      BY <1>6 DEF Split
    <2> HIDE DEF now, then, s, price, fx, quantity, cross, start
    <2>2. s.price = price /\ s.fx = fx /\ s.quantity = quantity
      BY <2>1
    <2>3. s.price + s.fx + s.quantity = now - then
      BY <1>1, <1>2, <1>3, <1>4, <2>2
    <2>4. s.price \in Int /\ s.fx \in Int /\ s.quantity \in Int
      BY <1>1, <2>2
    <2> QED
      BY <2>3, <2>4 DEF s, now, then, Value
  <1> QED
    BY <1>5, <1>6

\* The sum of some of a sequence's records.
LEMMA PartInt ==
    ASSUME NEW s \in Seq(BridgeRow) \cup Seq(BridgeLine), NEW S \in SUBSET DOMAIN s
    PROVE  SumFunctionOnSet(AmountsOf(s), S) \in Int
  <1>1. DOMAIN s = 1 .. Len(s) /\ Len(s) \in Int
    OBVIOUS
  <1>2. IsFiniteSet(DOMAIN s)
    BY <1>1, FS_Interval
  <1>3. \A i \in DOMAIN s : AmountsOf(s)[i] \in Int
    <2>1. /\ \A r \in BridgeRow : r.amount \in Int
          /\ \A l \in BridgeLine : l.amount \in Int
      BY DEF BridgeRow, BridgeLine
    <2>2. \A i \in DOMAIN s : s[i] \in BridgeRow \/ s[i] \in BridgeLine
      OBVIOUS
    <2> QED
      BY <2>1, <2>2 DEF AmountsOf
  <1> QED
    BY <1>2, <1>3, SumInt

\* The ledger's lines are of days that it runs, and a dividend's row has a line from then on.
DividendsKnown ==
    /\ \A i \in DOMAIN ledger : ledger[i].day >= BridgeSince /\ ledger[i].day <= day
    /\ \A i \in DOMAIN rows : rows[i].type = "DIVIDEND" =>
           /\ rows[i].account = "flex"
           /\ rows[i].day >= BridgeSince => ledger # <<>> /\ ledger[1].day <= rows[i].day

LEMMA LinesAddUp ==
    ASSUME BridgeTypes, BridgeBooks, BridgeBalance, DividendsKnown, Read
    PROVE  /\ CashKept = actual.kept /\ DividendsAndInterest = actual.yield
           /\ CardBalances = actual.unbilled
           /\ EndHolds = ends.end /\ StartHolds = ends.start
  <1>1. rows \in Seq(BridgeRow) /\ ledger \in Seq(BridgeLine)
    BY DEF BridgeTypes
  <1>2. /\ \A i \in DOMAIN rows : rows[i] \in BridgeRow /\ rows[i].day \in Nat
        /\ \A i \in DOMAIN ledger : ledger[i] \in BridgeLine /\ ledger[i].day \in Nat
    <2>1. /\ \A i \in DOMAIN rows : rows[i] \in BridgeRow
          /\ \A i \in DOMAIN ledger : ledger[i] \in BridgeLine
      BY <1>1
    <2> QED
      BY <2>1 DEF BridgeRow, BridgeLine
  <1>3. CashKept = ComesTo(rows, KeptRows)
    <2>1. {i \in InMonth : rows[i].type \in {"INCOME", "EXPENSE"}}
            = {i \in DOMAIN rows : rows[i] \in KeptRows}
      BY <1>2 DEF InMonth, KeptRows, BridgeMonth
    <2> QED
      BY <2>1 DEF CashKept, SumRows, ComesTo
  <1>4. CardActivity = ComesTo(rows, CardRows)
    <2>1. {i \in InMonth : rows[i].account = "card"} = {i \in DOMAIN rows : rows[i] \in CardRows}
      BY <1>2 DEF InMonth, CardRows, BridgeMonth
    <2> QED
      BY <2>1 DEF CardActivity, SumRows, ComesTo
  <1>5. DividendsAndInterest = ComesTo(rows, OldDividends) + ComesTo(ledger, YieldLines)
    <2>1. ASSUME NEW i \in DOMAIN rows, rows[i].type = "DIVIDEND"
          PROVE  ~CoveredByLedger(rows[i]) <=> rows[i].day < BridgeSince
      <3>1. rows[i].account = "flex" /\ rows[i].day \in Nat /\ BridgeSince \in Nat
        BY <1>2, <2>1, BridgeAssumption DEF DividendsKnown
      <3>2. CASE rows[i].day >= BridgeSince
        <4>1. ledger # <<>> /\ ledger[1].day <= rows[i].day
          BY <2>1, <3>2 DEF DividendsKnown
        <4>2. ledger[1].day \in Nat
          <5>1. 1 \in DOMAIN ledger
            BY <1>1, <4>1
          <5> QED
            BY <1>2, <5>1
        <4> QED
          BY <3>1, <3>2, <4>1, <4>2 DEF CoveredByLedger, LedgerAccounts
      <3>3. CASE rows[i].day < BridgeSince
        <4>1. CASE ledger = <<>>
          BY <3>3, <4>1 DEF CoveredByLedger, LedgerAccounts
        <4>2. CASE ledger # <<>>
          <5>1. 1 \in DOMAIN ledger
            BY <1>1, <4>2
          <5>2. ledger[1].day \in Nat /\ ledger[1].day >= BridgeSince
            BY <1>2, <5>1 DEF DividendsKnown
          <5> QED
            BY <3>1, <3>3, <5>2 DEF CoveredByLedger
        <4> QED
          BY <4>1, <4>2
      <3> QED
        BY <3>1, <3>2, <3>3
    <2>2. {i \in InMonth : rows[i].type = "DIVIDEND" /\ ~CoveredByLedger(rows[i])}
            = {i \in DOMAIN rows : rows[i] \in OldDividends}
      BY <1>2, <2>1 DEF InMonth, OldDividends, BridgeMonth
    <2>3. {i \in Lines : ledger[i].code # "DEP"} = {i \in DOMAIN ledger : ledger[i] \in YieldLines}
      BY <1>2 DEF Lines, YieldLines, BridgeMonth
    <2> QED
      BY <2>2, <2>3 DEF DividendsAndInterest, SumRows, SumLines, ComesTo
  <1>6. EndHolds = ends.end /\ StartHolds = ends.start
    BY BridgeAssumption DEF Read, EndHolds, StartHolds
  <1>7. CardBalances = actual.unbilled
    <2>1. /\ ends.end.owed \in Int /\ ends.start.owed \in Int /\ actual.unbilled \in Int
          /\ ComesTo(rows, CardRows) \in Int
      BY <1>1, SumsAreNumbers, FollowedInt DEF BridgeTypes, Truth
    <2>2. ends.end.owed - ends.start.owed = -(ComesTo(rows, CardRows) + actual.unbilled)
      BY <1>6 DEF BridgeBalance
    <2>3. CardBalances = -(ends.end.owed - ends.start.owed) - ComesTo(rows, CardRows)
      BY <1>4 DEF CardBalances
    <2> QED
      BY <2>1, <2>2, <2>3
  <1> QED
    BY <1>3, <1>5, <1>6, <1>7 DEF BridgeBooks

LEMMA NewMoneyInt == ASSUME BridgeTypes PROVE NewMoney \in Int
  <1>1. rows \in Seq(BridgeRow) /\ ledger \in Seq(BridgeLine)
    BY DEF BridgeTypes
  <1>2. SumLines({i \in DOMAIN ledger : IsNew(i)}) \in Int
    BY <1>1, PartInt DEF SumLines
  <1>3. SumRows({i \in DOMAIN rows : IsNew(PlaceOf(i))}) \in Int
    BY <1>1, PartInt DEF SumRows
  <1> QED
    BY <1>2, <1>3 DEF NewMoney

\* What is left over, whatever has been taken for new money.
LEMMA OtherIs ==
    ASSUME BridgeTypes, BridgeBooks, BridgeBalance, DividendsKnown, Read
    PROVE  Other = actual.gained - (SharesSplit("flex").price + SharesSplit("flex").fx)
                   - actual.sent + (actual.outside - NewMoney)
  <1> DEFINE h0 == ends.start
             h1 == ends.end
             flex == SharesSplit("flex")
             dark == SharesSplit("dark")
             coins == CoinsSplit
             cash0 == h0.cash["bank"] + h0.cash["flex"] + h0.cash["hand"]
             cash1 == h1.cash["bank"] + h1.cash["flex"] + h1.cash["hand"]
             f0 == h0.shares["flex"] * h0.price * h0.rate
             f1 == h1.shares["flex"] * h1.price * h1.rate
             d0 == h0.shares["dark"] * h0.price * h0.rate
             d1 == h1.shares["dark"] * h1.price * h1.rate
             c0 == h0.coins * h0.rate
             c1 == h1.coins * h1.rate
  <1>1. h0 \in Holding /\ h1 \in Holding /\ actual \in Truth
    BY DEF BridgeTypes
  <1>2. \A h \in Holding :
           /\ h.cash["bank"] \in Int /\ h.cash["flex"] \in Int /\ h.cash["hand"] \in Int
           /\ h.shares["flex"] \in Int /\ h.shares["dark"] \in Int /\ h.price \in Int
           /\ h.rate \in Int /\ h.coins \in Int /\ h.owed \in Int
    BY DEF Holding, Cashed, Traded
  <1>3. /\ cash0 \in Int /\ cash1 \in Int /\ f0 \in Int /\ f1 \in Int /\ d0 \in Int /\ d1 \in Int
        /\ c0 \in Int /\ c1 \in Int /\ h0.owed \in Int /\ h1.owed \in Int
        /\ h0.rate \in Int /\ h1.rate \in Int
    <2>1. \A h \in Holding :
             /\ h.cash["bank"] + h.cash["flex"] + h.cash["hand"] \in Int
             /\ h.shares["flex"] * h.price * h.rate \in Int
             /\ h.shares["dark"] * h.price * h.rate \in Int
             /\ h.coins * h.rate \in Int
      BY <1>2
    <2> QED
      BY <1>1, <1>2, <2>1
  <1>4. \A h \in Holding :
           /\ WorthOf(h) = h.cash["bank"] + h.cash["flex"] + h.cash["hand"] + h.rate
                           + (h.shares["flex"] * h.price * h.rate
                              + h.shares["dark"] * h.price * h.rate)
                           + h.coins * h.rate - h.owed
           /\ Followed(h) = h.cash["bank"] + h.cash["flex"] + h.cash["hand"]
                            + h.shares["flex"] * h.price * h.rate - h.owed
    <2>1. ASSUME NEW h \in Holding
          PROVE  /\ (h.shares["flex"] + h.shares["dark"]) * h.price * h.rate
                      = h.shares["flex"] * h.price * h.rate + h.shares["dark"] * h.price * h.rate
                 /\ h.shares["flex"] * (h.price * h.rate) = h.shares["flex"] * h.price * h.rate
      <3>1. \A a, b, p, r \in Int : /\ (a + b) * p * r = a * p * r + b * p * r
                                    /\ a * (p * r) = a * p * r
        <4>1. \A a, b, p \in Int : (a + b) * p = a * p + b * p
          OBVIOUS
        <4>2. \A a, p, r \in Int : a * (p * r) = a * p * r
          OBVIOUS
        <4> QED
          BY <4>1, <4>2
      <3> QED
        BY <1>2, <3>1
    <2> QED
      BY <2>1 DEF WorthOf, Followed
  <1>5. /\ WorthOf(h0) = cash0 + h0.rate + (f0 + d0) + c0 - h0.owed
        /\ WorthOf(h1) = cash1 + h1.rate + (f1 + d1) + c1 - h1.owed
        /\ Followed(h0) = cash0 + f0 - h0.owed /\ Followed(h1) = cash1 + f1 - h1.owed
    BY <1>1, <1>4
  <1>6. /\ flex.price \in Int /\ flex.fx \in Int
        /\ dark.price \in Int /\ dark.fx \in Int /\ dark.quantity \in Int
        /\ dark.price + dark.fx + dark.quantity = d1 - d0
        /\ coins.price \in Int /\ coins.fx \in Int /\ coins.quantity \in Int
        /\ coins.price + coins.fx + coins.quantity = c1 - c0
    <2>1. flex.price \in Int /\ flex.fx \in Int
      BY <1>1, <1>2, SplitAdds DEF SharesSplit
    <2>2. /\ dark.price \in Int /\ dark.fx \in Int /\ dark.quantity \in Int
          /\ dark.price + dark.fx + dark.quantity = d1 - d0
      <3> DEFINE q0 == h0.shares["dark"]
                 q1 == h1.shares["dark"]
                 p0 == h0.price
                 p1 == h1.price
                 r0 == h0.rate
                 r1 == h1.rate
      <3>1. /\ q0 \in Int /\ q1 \in Int /\ p0 \in Int /\ p1 \in Int /\ r0 \in Int /\ r1 \in Int
        BY <1>1, <1>2
      <3>2. dark = Split(q0, p0, r0, q1, p1, r1)
        BY DEF SharesSplit
      <3>3. d1 = Value(q1, p1, r1) /\ d0 = Value(q0, p0, r0)
        BY DEF Value
      <3> HIDE DEF dark, d0, d1, q0, q1, p0, p1, r0, r1
      <3> DEFINE s == Split(q0, p0, r0, q1, p1, r1)
      <3>4. /\ s.price \in Int /\ s.fx \in Int /\ s.quantity \in Int
            /\ s.price + s.fx + s.quantity = Value(q1, p1, r1) - Value(q0, p0, r0)
        BY ONLY <3>1, SplitAdds
      <3> HIDE DEF s
      <3>5. dark = s
        BY <3>2 DEF s
      <3> QED
        BY ONLY <3>3, <3>4, <3>5
    <2>3. /\ coins.price \in Int /\ coins.fx \in Int /\ coins.quantity \in Int
          /\ coins.price + coins.fx + coins.quantity = Value(h1.coins, 1, h1.rate) - Value(h0.coins, 1, h0.rate)
      <3> DEFINE q0 == h0.coins
                 q1 == h1.coins
                 r0 == h0.rate
                 r1 == h1.rate
      <3>1. q0 \in Int /\ q1 \in Int /\ r0 \in Int /\ r1 \in Int /\ 1 \in Int
        BY <1>1, <1>2
      <3>2. coins = Split(q0, 1, r0, q1, 1, r1)
        BY DEF CoinsSplit
      <3> HIDE DEF coins
      <3>3. /\ coins.price \in Int /\ coins.fx \in Int /\ coins.quantity \in Int
            /\ coins.price + coins.fx + coins.quantity = Value(q1, 1, r1) - Value(q0, 1, r0)
        <4> HIDE DEF q0, q1, r0, r1
        <4> DEFINE s == Split(q0, 1, r0, q1, 1, r1)
        <4>1. /\ s.price \in Int /\ s.fx \in Int /\ s.quantity \in Int
              /\ s.price + s.fx + s.quantity = Value(q1, 1, r1) - Value(q0, 1, r0)
          BY ONLY <3>1, SplitAdds
        <4> HIDE DEF s
        <4>2. coins = s
          BY <3>2 DEF s
        <4> QED
          BY ONLY <4>1, <4>2
      <3> QED
        BY <3>3
    <2>4. Value(h1.coins, 1, h1.rate) = c1 /\ Value(h0.coins, 1, h0.rate) = c0
      <3>1. h1.coins * 1 = h1.coins /\ h0.coins * 1 = h0.coins
        BY <1>1, <1>2
      <3> QED
        BY <3>1 DEF Value
    <2> QED
      BY <2>1, <2>2, <2>3, <2>4
  <1>7. /\ CashKept = actual.kept /\ DividendsAndInterest = actual.yield
        /\ CardBalances = actual.unbilled
        /\ Followed(h1) - Followed(h0) = Caused(actual)
    BY LinesAddUp DEF BridgeBalance
  <1>8. /\ actual.outside \in Int /\ actual.kept \in Int /\ actual.yield \in Int
        /\ actual.gained \in Int /\ actual.unbilled \in Int /\ actual.sent \in Int
        /\ NewMoney \in Int
    BY <1>1, NewMoneyInt DEF Truth
  <1>9. Other = WorthOf(h1) - WorthOf(h0)
                - (NewMoney + (flex.price + dark.price + coins.price)
                   + (flex.fx + dark.fx + coins.fx + (h1.rate - h0.rate)) + actual.yield + actual.kept)
                - dark.quantity - coins.quantity - actual.unbilled
    BY <1>7 DEF Other, Residual, Markets, Fx, CashFx, UntrackedTrades, CryptoMoved
  <1> HIDE DEF h0, h1, flex, dark, coins, cash0, cash1, f0, f1, d0, d1, c0, c1
  <1>10. WorthOf(h1) - WorthOf(h0)
           = Caused(actual) + (h1.rate - h0.rate) + (d1 - d0) + (c1 - c0)
    <2>1. Caused(actual) \in Int
      BY <1>1, TotalInt
    <2> QED
      BY <1>3, <1>5, <1>7, <2>1
  <1>11. Caused(actual) = (actual.kept + actual.yield) + (actual.unbilled + actual.gained)
                         + (actual.outside - actual.sent)
    BY DEF Caused
  <1>12. Other = actual.gained - (flex.price + flex.fx) - actual.sent + (actual.outside - NewMoney)
    BY <1>3, <1>6, <1>8, <1>9, <1>10, <1>11
  <1> QED
    BY <1>12 DEF flex

\* What a step leaves of the rows and lines there are, and what it says of those it adds.
NewRows  == DOMAIN rows' \ DOMAIN rows
NewLines == DOMAIN ledger' \ DOMAIN ledger

EntriesKept ==
    /\ DOMAIN rows \subseteq DOMAIN rows' /\ DOMAIN ledger \subseteq DOMAIN ledger'
    /\ \A i \in DOMAIN rows :
          /\ rows'[i].account = rows[i].account /\ rows'[i].type = rows[i].type
          /\ rows'[i].amount = rows[i].amount /\ rows'[i].day = rows[i].day
          /\ rows'[i].of = rows[i].of
          /\ rows'[i].linked => rows[i].linked \/ rows[i].of # 0
    /\ \A i \in DOMAIN ledger : ledger'[i] = ledger[i]

EntriesNew ==
    /\ \A i \in NewRows :
          /\ rows'[i].day = day /\ ~rows'[i].linked
          /\ rows'[i].type = "DIVIDEND" =>
                rows'[i].account = "flex" /\ (day >= BridgeSince => NewLines # {})
    /\ \A i \in NewLines : ledger'[i].day = day /\ day >= BridgeSince
    /\ NewRows \cup NewLines # {} => day' = day

\* The entries that are new are of the transfer `of', or of none.
Enters(of) == /\ \A i \in NewRows : rows'[i].of = of
              /\ \A i \in NewLines : ledger'[i].of = of

LEMMA AppendKeeps ==
    ASSUME NEW R, NEW s \in Seq(R), NEW e \in R, NEW t, t = Append(s, e)
    PROVE  /\ DOMAIN s \subseteq DOMAIN t /\ DOMAIN t \ DOMAIN s = {Len(s) + 1}
           /\ t[Len(s) + 1] = e /\ \A i \in DOMAIN s : t[i] = s[i]
  OBVIOUS

LEMMA AppendTwo ==
    ASSUME NEW R, NEW s \in Seq(R), NEW e \in R, NEW f \in R
    PROVE  s \o <<e, f>> = Append(Append(s, e), f)
  OBVIOUS

LEMMA NothingEnters ==
    ASSUME rows' = rows, ledger' = ledger
    PROVE  EntriesKept /\ EntriesNew /\ \A of : Enters(of)
  BY DEF EntriesKept, EntriesNew, Enters, NewRows, NewLines

LEMMA RowEnters ==
    ASSUME BridgeTypes, NEW r \in BridgeRow, rows' = Append(rows, r), ledger' = ledger, day' = day,
           r.day = day, ~r.linked,
           r.type = "DIVIDEND" => r.account = "flex" /\ day < BridgeSince
    PROVE  /\ EntriesKept /\ EntriesNew /\ Enters(r.of)
           /\ NewRows = {Len(rows) + 1} /\ rows'[Len(rows) + 1] = r /\ NewLines = {}
  <1>1. rows \in Seq(BridgeRow) /\ day \in Nat /\ BridgeSince \in Nat
    BY BridgeAssumption DEF BridgeTypes
  <1>2. /\ DOMAIN rows \subseteq DOMAIN rows' /\ NewRows = {Len(rows) + 1}
        /\ rows'[Len(rows) + 1] = r /\ \A i \in DOMAIN rows : rows'[i] = rows[i]
    BY <1>1, AppendKeeps DEF NewRows
  <1>3. NewLines = {} /\ ledger' = ledger
    BY DEF NewLines
  <1> QED
    BY <1>1, <1>2, <1>3 DEF EntriesKept, EntriesNew, Enters

LEMMA LineEnters ==
    ASSUME BridgeTypes, NEW l \in BridgeLine, ledger' = Append(ledger, l), rows' = rows, day' = day,
           l.day = day, day >= BridgeSince
    PROVE  /\ EntriesKept /\ EntriesNew /\ Enters(l.of)
           /\ NewLines = {Len(ledger) + 1} /\ ledger'[Len(ledger) + 1] = l /\ NewRows = {}
  <1>1. ledger \in Seq(BridgeLine)
    BY DEF BridgeTypes
  <1>2. /\ DOMAIN ledger \subseteq DOMAIN ledger' /\ NewLines = {Len(ledger) + 1}
        /\ ledger'[Len(ledger) + 1] = l /\ \A i \in DOMAIN ledger : ledger'[i] = ledger[i]
    BY <1>1, AppendKeeps DEF NewLines
  <1>3. NewRows = {} /\ rows' = rows
    BY DEF NewRows
  <1> QED
    BY <1>2, <1>3 DEF EntriesKept, EntriesNew, Enters

\* Records enters one entry, a row or a line.
LEMMA RecordEnters ==
    ASSUME BridgeTypes, NEW a \in Cashed, NEW x \in Int, NEW of \in Nat, Records(a, x, of), day' = day
    PROVE  /\ EntriesKept /\ EntriesNew /\ Enters(of)
           /\ \/ /\ NewLines = {} /\ NewRows = {Len(rows) + 1}
                 /\ rows'[Len(rows) + 1] = Row(a, "TRANSFER", x, of)
              \/ /\ a = "flex" /\ NewRows = {} /\ NewLines = {Len(ledger) + 1}
                 /\ ledger'[Len(ledger) + 1] = Line("DEP", x, of)
  <1>1. /\ Row(a, "TRANSFER", x, of) \in BridgeRow
        /\ Line("DEP", x, of) \in BridgeLine
        /\ \/ /\ a = "flex" /\ day >= BridgeSince
              /\ ledger' = Append(ledger, Line("DEP", x, of)) /\ rows' = rows
           \/ /\ ~(a = "flex" /\ day >= BridgeSince)
              /\ rows' = Append(rows, Row(a, "TRANSFER", x, of)) /\ ledger' = ledger
    BY RecordsMeans
  <1> DEFINE r == Row(a, "TRANSFER", x, of)
             l == Line("DEP", x, of)
  <1>2. r.day = day /\ ~r.linked /\ r.type # "DIVIDEND" /\ r.of = of /\ l.day = day /\ l.of = of
    BY DEF Row, Line
  <1>3. CASE a = "flex" /\ day >= BridgeSince /\ ledger' = Append(ledger, l) /\ rows' = rows
    <2> HIDE DEF l, r
    <2>1. l \in BridgeLine
      BY <1>1 DEF l
    <2>2. /\ EntriesKept /\ EntriesNew /\ Enters(of)
          /\ NewLines = {Len(ledger) + 1} /\ ledger'[Len(ledger) + 1] = l /\ NewRows = {}
      BY <1>2, <1>3, <2>1, LineEnters
    <2> QED
      BY <1>3, <2>2 DEF l
  <1>4. CASE rows' = Append(rows, r) /\ ledger' = ledger
    <2> HIDE DEF l, r
    <2>1. r \in BridgeRow
      BY <1>1 DEF r
    <2>2. /\ EntriesKept /\ EntriesNew /\ Enters(of)
          /\ NewRows = {Len(rows) + 1} /\ rows'[Len(rows) + 1] = r /\ NewLines = {}
      BY <1>2, <1>4, <2>1, RowEnters
    <2> QED
      BY <2>2 DEF r
  <1> QED
    BY <1>1, <1>3, <1>4

\* What every step does to the entries.
LEMMA StepKeepsEntries ==
    ASSUME BridgeTypes, [BridgeNext]_bridgeVars
    PROVE  /\ EntriesKept /\ EntriesNew /\ day' >= day /\ moves' >= moves
           /\ \/ moving' = moving /\ Enters(0)
              \/ \E a, b \in Cashed, x \in Int : SendMoney(a, b, x)
              \/ \E m \in moving : Arrive(m)
  <1> DEFINE Goal == /\ EntriesKept /\ EntriesNew /\ day' >= day /\ moves' >= moves
                     /\ \/ moving' = moving /\ Enters(0)
                        \/ \E a, b \in Cashed, x \in Int : SendMoney(a, b, x)
                        \/ \E m \in moving : Arrive(m)
  <1>t. /\ day \in Nat /\ moves \in Nat /\ rows \in Seq(BridgeRow) /\ ledger \in Seq(BridgeLine)
        /\ BridgeSince \in Nat
    BY BridgeAssumption DEF BridgeTypes
  <1>a. \A a, type, x, of : /\ Row(a, type, x, of).day = day /\ ~Row(a, type, x, of).linked
                            /\ Row(a, type, x, of).of = of /\ Row(a, type, x, of).type = type
                            /\ Row(a, type, x, of).account = a
                            /\ Line(type, x, of).day = day /\ Line(type, x, of).of = of
    BY DEF Row, Line
  <1>q. ASSUME rows' = rows, ledger' = ledger, moving' = moving, day' >= day, moves' >= moves PROVE Goal
    BY <1>q, NothingEnters
  <1>r. ASSUME NEW r \in BridgeRow, rows' = Append(rows, r), ledger' = ledger, day' = day,
               moving' = moving, moves' >= moves, r.day = day, ~r.linked, r.of = 0,
               r.type = "DIVIDEND" => r.account = "flex" /\ day < BridgeSince
        PROVE  Goal
    <2>1. EntriesKept /\ EntriesNew /\ Enters(0)
      BY <1>r, RowEnters
    <2> QED
      BY <1>r, <1>t, <2>1
  <1>l. ASSUME NEW l \in BridgeLine, ledger' = Append(ledger, l), rows' = rows, day' = day,
               moving' = moving, moves' >= moves, l.day = day, day >= BridgeSince, l.of = 0
        PROVE  Goal
    <2>1. EntriesKept /\ EntriesNew /\ Enters(0)
      BY <1>l, LineEnters
    <2> QED
      BY <1>l, <1>t, <2>1
  <1>m. Move => moves' >= moves /\ day' = day
    BY <1>t DEF Move
  <1> HIDE DEF Goal
  <1>1. ASSUME PassDay PROVE Goal
    <2>1. /\ rows' = rows /\ ledger' = ledger /\ moving' = moving
          /\ day' = day + 1 /\ moves' = moves
      BY <1>1 DEF PassDay
    <2> QED
      BY <1>q, <1>t, <2>1
  <1>2. ASSUME NEW x \in Int, Earn(x) PROVE Goal
    <2> DEFINE r == Row("bank", IF x > 0 THEN "INCOME" ELSE "EXPENSE", x, 0)
    <2>1. r \in BridgeRow
      BY <1>t DEF Row, BridgeRow, Cashed
    <2>2. r.day = day /\ ~r.linked /\ r.of = 0 /\ r.type # "DIVIDEND"
      BY DEF Row
    <2>3. rows' = Append(rows, r) /\ ledger' = ledger /\ moving' = moving /\ Move
      BY <1>2 DEF Earn
    <2> HIDE DEF r
    <2> QED
      BY <1>r, <1>m, <2>1, <2>2, <2>3
  <1>3. ASSUME NEW x \in Int, PayCard(x) PROVE Goal
    <2> DEFINE paid == Row("bank", "TRANSFER", -x, 0)
               got  == Row("card", "TRANSFER", x, 0)
               half == Append(rows, paid)
    <2>1. paid \in BridgeRow /\ got \in BridgeRow
      BY <1>t DEF Row, BridgeRow, Cashed
    <2>2. /\ paid.day = day /\ ~paid.linked /\ paid.of = 0 /\ paid.type = "TRANSFER"
          /\ got.day = day /\ ~got.linked /\ got.of = 0 /\ got.type = "TRANSFER"
      BY DEF Row
    <2>3. rows' = rows \o <<paid, got>> /\ ledger' = ledger /\ moving' = moving /\ Move
      BY <1>3 DEF PayCard
    <2> HIDE DEF paid, got
    <2>4. /\ DOMAIN rows \subseteq DOMAIN rows' /\ NewRows = {Len(rows) + 1, Len(rows) + 2}
          /\ rows'[Len(rows) + 1] = paid /\ rows'[Len(rows) + 2] = got
          /\ \A i \in DOMAIN rows : rows'[i] = rows[i]
      <3>1. half \in Seq(BridgeRow) /\ Len(half) = Len(rows) + 1 /\ Len(rows) \in Nat
        BY <1>t, <2>1
      <3>2. rows' = Append(half, got)
        BY <1>t, <2>1, <2>3, AppendTwo
      <3>3. /\ DOMAIN rows \subseteq DOMAIN half /\ DOMAIN half \ DOMAIN rows = {Len(rows) + 1}
            /\ half[Len(rows) + 1] = paid /\ \A i \in DOMAIN rows : half[i] = rows[i]
        BY <1>t, <2>1, AppendKeeps
      <3> HIDE DEF half
      <3>4. /\ DOMAIN half \subseteq DOMAIN rows' /\ DOMAIN rows' \ DOMAIN half = {Len(half) + 1}
            /\ rows'[Len(half) + 1] = got /\ \A i \in DOMAIN half : rows'[i] = half[i]
        BY <2>1, <3>1, <3>2, AppendKeeps
      <3>5. Len(half) + 1 = Len(rows) + 2
        BY <3>1
      <3> QED
        BY <3>3, <3>4, <3>5 DEF NewRows
    <2>5. NewLines = {} /\ ledger' = ledger
      BY <2>3 DEF NewLines
    <2>6. \A i \in NewRows : rows'[i] = paid \/ rows'[i] = got
      BY <2>4
    <2>7. EntriesKept /\ EntriesNew /\ Enters(0)
      BY <1>m, <2>2, <2>3, <2>4, <2>5, <2>6 DEF EntriesKept, EntriesNew, Enters
    <2> QED
      BY <1>m, <1>t, <2>3, <2>7 DEF Goal
  <1>4. ASSUME NEW x \in Int, NEW listed \in BOOLEAN, Charge(x, listed) PROVE Goal
    <2> DEFINE r == Row("card", "EXPENSE", -x, 0)
    <2>1. r \in BridgeRow
      BY <1>t DEF Row, BridgeRow
    <2>2. r.day = day /\ ~r.linked /\ r.of = 0 /\ r.type # "DIVIDEND"
      BY DEF Row
    <2>3. (rows' = Append(rows, r) \/ rows' = rows) /\ ledger' = ledger /\ moving' = moving /\ Move
      BY <1>4 DEF Charge
    <2> HIDE DEF r
    <2> QED
      BY <1>q, <1>r, <1>m, <1>t, <2>1, <2>2, <2>3
  <1>5. ASSUME NEW x \in Int, NEW stated \in BOOLEAN, Dividend(x, stated) PROVE Goal
    <2> DEFINE r == Row("flex", "DIVIDEND", x, 0)
               l == Line("DIV", x, 0)
    <2>1. r \in BridgeRow /\ l \in BridgeLine
      BY <1>t DEF Row, Line, BridgeRow, BridgeLine, Cashed
    <2>2. /\ r.day = day /\ ~r.linked /\ r.of = 0 /\ r.account = "flex"
          /\ l.day = day /\ l.of = 0
      BY DEF Row, Line
    <2>3. /\ moving' = moving /\ Move
          /\ \/ day >= BridgeSince /\ ledger' = Append(ledger, l) /\ rows' = rows
             \/ day >= BridgeSince /\ ledger' = Append(ledger, l) /\ rows' = Append(rows, r)
             \/ day < BridgeSince /\ ledger' = ledger /\ rows' = Append(rows, r)
      BY <1>5, <1>t DEF Dividend
    <2> HIDE DEF r, l
    <2>4. CASE day >= BridgeSince /\ ledger' = Append(ledger, l) /\ rows' = rows
      BY <1>l, <1>m, <2>1, <2>2, <2>3, <2>4
    <2>5. CASE day >= BridgeSince /\ ledger' = Append(ledger, l) /\ rows' = Append(rows, r)
      <3>1. /\ DOMAIN rows \subseteq DOMAIN rows' /\ NewRows = {Len(rows) + 1}
            /\ rows'[Len(rows) + 1] = r /\ \A i \in DOMAIN rows : rows'[i] = rows[i]
        BY <1>t, <2>1, <2>5, AppendKeeps DEF NewRows
      <3>2. /\ DOMAIN ledger \subseteq DOMAIN ledger' /\ NewLines = {Len(ledger) + 1}
            /\ ledger'[Len(ledger) + 1] = l /\ \A i \in DOMAIN ledger : ledger'[i] = ledger[i]
        BY <1>t, <2>1, <2>5, AppendKeeps DEF NewLines
      <3>3. EntriesKept /\ EntriesNew /\ Enters(0)
        BY <1>m, <2>2, <2>3, <2>5, <3>1, <3>2 DEF EntriesKept, EntriesNew, Enters
      <3> QED
        BY <1>m, <1>t, <2>3, <3>3 DEF Goal
    <2>6. CASE day < BridgeSince /\ ledger' = ledger /\ rows' = Append(rows, r)
      BY <1>r, <1>m, <2>1, <2>2, <2>3, <2>6
    <2> QED
      BY <2>3, <2>4, <2>5, <2>6
  <1>6. ASSUME NEW x \in Int, NEW b \in Brokers, Deposit(b, x) PROVE Goal
    <2>1. b \in Cashed /\ 0 \in Nat
      BY DEF Brokers, Cashed
    <2>2. Records(b, x, 0) /\ Move /\ moving' = moving
      BY <1>6 DEF Deposit
    <2>3. EntriesKept /\ EntriesNew /\ Enters(0)
      BY <1>m, <2>1, <2>2, RecordEnters
    <2> QED
      BY <1>m, <1>t, <2>2, <2>3 DEF Goal
  <1>7. ASSUME NEW x \in Int, NEW a \in Cashed, NEW b \in Cashed, SendMoney(a, b, x) PROVE Goal
    <2>1. Records(a, -x, moves + 1) /\ Move /\ -x \in Int /\ moves + 1 \in Nat
      BY <1>7, <1>t DEF SendMoney
    <2>2. EntriesKept /\ EntriesNew
      BY <1>m, <2>1, RecordEnters
    <2> QED
      BY <1>m, <1>t, <1>7, <2>1, <2>2 DEF Goal
  <1>8. ASSUME NEW m \in moving, Arrive(m) PROVE Goal
    <2>1. /\ Records(m.to, m.amount, m.id) /\ m.to \in Cashed /\ m.amount \in Int /\ m.id \in Nat
          /\ day' = day /\ moves' = moves
      BY <1>8 DEF Arrive, BridgeTypes
    <2>2. EntriesKept /\ EntriesNew
      BY <2>1, RecordEnters
    <2> QED
      BY <1>t, <1>8, <2>1, <2>2 DEF Goal
  <1>9. ASSUME NEW i \in DOMAIN rows, NEW j \in DOMAIN rows, LinkUp(i, j) PROVE Goal
    <2>1. /\ rows' = [rows EXCEPT ![i].linked = TRUE, ![j].linked = TRUE]
          /\ rows[i].of # 0 /\ rows[j].of # 0
          /\ day' = day /\ moves' = moves /\ ledger' = ledger /\ moving' = moving
      BY <1>9 DEF LinkUp
    <2>2. DOMAIN rows' = DOMAIN rows
      BY <2>1
    <2>3. \A k \in DOMAIN rows : /\ rows'[k].amount = rows[k].amount /\ rows'[k].of = rows[k].of
                                 /\ rows'[k].type = rows[k].type /\ rows'[k].day = rows[k].day
                                 /\ rows'[k].account = rows[k].account
                                 /\ rows'[k].linked => rows[k].linked \/ rows[k].of # 0
      <3>1. \A k \in DOMAIN rows : rows[k] \in BridgeRow
        BY <1>t
      <3>2. ASSUME NEW k \in DOMAIN rows
            PROVE  \/ rows'[k] = rows[k]
                   \/ rows'[k] = [rows[k] EXCEPT !.linked = TRUE] /\ rows[k].of # 0
        <4>1. rows[k] \in BridgeRow
          BY <3>1
        <4>2. /\ k = j => rows'[k] = [[rows EXCEPT ![i].linked = TRUE][k] EXCEPT !.linked = TRUE]
              /\ k # j => rows'[k] = [rows EXCEPT ![i].linked = TRUE][k]
          BY <1>t, <2>1
        <4>3. /\ k = i => [rows EXCEPT ![i].linked = TRUE][k] = [rows[k] EXCEPT !.linked = TRUE]
              /\ k # i => [rows EXCEPT ![i].linked = TRUE][k] = rows[k]
          BY <1>t
        <4>4. [[rows[k] EXCEPT !.linked = TRUE] EXCEPT !.linked = TRUE]
                = [rows[k] EXCEPT !.linked = TRUE]
          BY <4>1 DEF BridgeRow
        <4> QED
          BY <2>1, <4>2, <4>3, <4>4
      <3>3. \A r \in BridgeRow :
               LET q == [r EXCEPT !.linked = TRUE]
               IN  /\ q.amount = r.amount /\ q.of = r.of /\ q.type = r.type /\ q.day = r.day
                   /\ q.account = r.account
        BY DEF BridgeRow
      <3> QED
        BY <3>1, <3>2, <3>3
    <2>4. NewRows = {} /\ NewLines = {}
      BY <2>1, <2>2 DEF NewRows, NewLines
    <2>5. EntriesKept /\ EntriesNew /\ Enters(0)
      BY <2>1, <2>2, <2>3, <2>4 DEF EntriesKept, EntriesNew, Enters
    <2> QED
      BY <1>t, <2>1, <2>5 DEF Goal
  <1>10. ASSUME NEW b \in Traded, NEW n \in Int, Trade(b, n) PROVE Goal
    BY <1>10, <1>q, <1>m, <1>t DEF Trade
  <1>11. ASSUME NEW n \in Int, MoveCoins(n) PROVE Goal
    BY <1>11, <1>q, <1>m, <1>t DEF MoveCoins
  <1>12. ASSUME NEW p \in Int, NEW r \in Int, MarketMoves(p, r) PROVE Goal
    BY <1>12, <1>q, <1>m, <1>t DEF MarketMoves
  <1>13. ASSUME UNCHANGED bridgeVars PROVE Goal
    <2>1. /\ rows' = rows /\ ledger' = ledger /\ moving' = moving
          /\ day' = day /\ moves' = moves
      BY <1>13 DEF bridgeVars
    <2> QED
      BY <1>q, <1>t, <2>1
  <1>14. \A x \in BridgeAmounts : x \in Int /\ -x \in Int
    BY BridgeAssumption
  <1>15. holds.price \in Int /\ holds.rate \in Int
    BY DEF BridgeTypes, Holding
  <1>16. BridgeNext \/ UNCHANGED bridgeVars
    OBVIOUS
  <1>17. Goal
    BY <1>1, <1>2, <1>3, <1>4, <1>5, <1>6, <1>7, <1>8, <1>9, <1>10, <1>11, <1>12, <1>13, <1>14,
       <1>15, <1>16 DEF BridgeNext
  <1> QED
    BY <1>17 DEF Goal

\* The entries of the household's own transfers at the accounts other than the bank.
Sides(rs, ls) ==
    {<<"row", i>> : i \in {j \in DOMAIN rs : rs[j].account # "bank" /\ rs[j].of # 0}}
    \cup {<<"line", i>> : i \in {j \in DOMAIN ls : ls[j].of # 0}}

Entry(rs, ls, p) == IF p[1] = "row" THEN rs[p[2]] ELSE ls[p[2]]

EntryIs(e, x, of, d) == e.amount = x /\ e.of = of /\ e.day = d

BankRow(rs, x, of, d) ==
    \E i \in DOMAIN rs : /\ rs[i].account = "bank" /\ rs[i].type = "TRANSFER"
                         /\ EntryIs(rs[i], x, of, d)

\* The other side of the transfer `of' at the bank: it is there, or on its way there.
BankHas(rs, mv, x, of, d) ==
    \/ \E e \in Nat : BankRow(rs, x, of, e) /\ e - d \in -BridgeReach .. BridgeReach
    \/ \E m \in mv : m.to = "bank" /\ m.id = of /\ m.amount = x /\ m.sent = d

\* Every transfer of the household's own has one entry at a broker, which the bank answers.
SidesKnown(rs, ls, mv, n) ==
    /\ \A p \in Sides(rs, ls) :
          LET e == Entry(rs, ls, p) IN e.of <= n /\ BankHas(rs, mv, -e.amount, e.of, e.day)
    /\ \A p, q \in Sides(rs, ls) : Entry(rs, ls, p).of = Entry(rs, ls, q).of => p = q

MovingKnown(rs, ls, mv, n, d) ==
    /\ \A m \in mv : /\ m.id <= n /\ m.sent <= d
                     /\ m.to # "bank" => /\ BankRow(rs, -m.amount, m.id, m.sent)
                                         /\ \A p \in Sides(rs, ls) : Entry(rs, ls, p).of # m.id
    /\ \A m, o \in mv : m.id = o.id => m = o

LinksKnown == \A i \in DOMAIN rows : rows[i].linked => rows[i].of # 0

TransfersKnown == /\ LinksKnown /\ SidesKnown(rows, ledger, moving, moves)
                  /\ MovingKnown(rows, ledger, moving, moves, day)

LEMMA SidesMean ==
    ASSUME NEW rs \in Seq(BridgeRow), NEW ls \in Seq(BridgeLine), NEW p \in Sides(rs, ls)
    PROVE  LET e == Entry(rs, ls, p) IN e.of \in Nat \ {0} /\ e.amount \in Int /\ e.day \in Nat
  <1>1. /\ \A i \in DOMAIN rs : rs[i] \in BridgeRow
        /\ \A i \in DOMAIN ls : ls[i] \in BridgeLine
    OBVIOUS
  <1>2. /\ \A r \in BridgeRow : r.of \in Nat /\ r.amount \in Int /\ r.day \in Nat
        /\ \A l \in BridgeLine : l.of \in Nat /\ l.amount \in Int /\ l.day \in Nat
    BY DEF BridgeRow, BridgeLine
  <1>3. \/ p[1] = "row" /\ p[2] \in DOMAIN rs /\ rs[p[2]].of # 0
        \/ p[1] = "line" /\ p[2] \in DOMAIN ls /\ ls[p[2]].of # 0
    BY DEF Sides
  <1> QED
    BY <1>1, <1>2, <1>3 DEF Entry

\* What there was stays what it was, and an entry that is new is a new row's or a new line's.
LEMMA SidesStay ==
    ASSUME EntriesKept
    PROVE  /\ \A p \in Sides(rows, ledger) :
                 /\ p \in Sides(rows', ledger')
                 /\ LET e == Entry(rows, ledger, p)
                    IN  EntryIs(Entry(rows', ledger', p), e.amount, e.of, e.day)
           /\ \A p \in Sides(rows', ledger') : p \notin Sides(rows, ledger) =>
                 \/ \E i \in NewRows : /\ p = <<"row", i>> /\ rows'[i].account # "bank"
                                       /\ rows'[i].of # 0 /\ Entry(rows', ledger', p) = rows'[i]
                 \/ \E i \in NewLines : /\ p = <<"line", i>> /\ ledger'[i].of # 0
                                        /\ Entry(rows', ledger', p) = ledger'[i]
           /\ \A x, of, d : BankRow(rows, x, of, d) => BankRow(rows', x, of, d)
  <1>1. ASSUME NEW p \in Sides(rows, ledger)
        PROVE  /\ p \in Sides(rows', ledger')
               /\ LET e == Entry(rows, ledger, p)
                  IN  EntryIs(Entry(rows', ledger', p), e.amount, e.of, e.day)
    <2>1. CASE \E i \in DOMAIN rows : p = <<"row", i>> /\ rows[i].account # "bank" /\ rows[i].of # 0
      BY <2>1 DEF Sides, Entry, EntryIs, EntriesKept
    <2>2. CASE \E i \in DOMAIN ledger : p = <<"line", i>> /\ ledger[i].of # 0
      BY <2>2 DEF Sides, Entry, EntryIs, EntriesKept
    <2> QED
      BY <2>1, <2>2 DEF Sides
  <1>2. ASSUME NEW p \in Sides(rows', ledger'), p \notin Sides(rows, ledger)
        PROVE  \/ \E i \in NewRows : /\ p = <<"row", i>> /\ rows'[i].account # "bank"
                                     /\ rows'[i].of # 0 /\ Entry(rows', ledger', p) = rows'[i]
               \/ \E i \in NewLines : /\ p = <<"line", i>> /\ ledger'[i].of # 0
                                      /\ Entry(rows', ledger', p) = ledger'[i]
    <2>1. CASE \E i \in DOMAIN rows' : p = <<"row", i>> /\ rows'[i].account # "bank"
                                       /\ rows'[i].of # 0
      <3>1. PICK i \in DOMAIN rows' : p = <<"row", i>> /\ rows'[i].account # "bank"
                                      /\ rows'[i].of # 0
        BY <2>1
      <3>2. i \notin DOMAIN rows
        BY <1>2, <3>1 DEF Sides, EntriesKept
      <3>3. i \in NewRows /\ Entry(rows', ledger', p) = rows'[i]
        BY <3>1, <3>2 DEF NewRows, Entry
      <3> QED
        BY <3>1, <3>3
    <2>2. CASE \E i \in DOMAIN ledger' : p = <<"line", i>> /\ ledger'[i].of # 0
      <3>1. PICK i \in DOMAIN ledger' : p = <<"line", i>> /\ ledger'[i].of # 0
        BY <2>2
      <3>2. i \notin DOMAIN ledger
        BY <1>2, <3>1 DEF Sides, EntriesKept
      <3>3. i \in NewLines /\ Entry(rows', ledger', p) = ledger'[i]
        BY <3>1, <3>2 DEF NewLines, Entry
      <3> QED
        BY <3>1, <3>3
    <2> QED
      BY <2>1, <2>2 DEF Sides
  <1>3. \A x, of, d : BankRow(rows, x, of, d) => BankRow(rows', x, of, d)
    BY DEF BankRow, EntryIs, EntriesKept
  <1> QED
    BY <1>1, <1>2, <1>3

\* A transfer recorded at the bank is a row there; at a broker, one entry more.
LEMMA RecordSides ==
    ASSUME BridgeTypes, NEW a \in Cashed, NEW x \in Int, NEW of \in Nat, Records(a, x, of), day' = day
    PROVE  /\ EntriesKept /\ EntriesNew
           /\ a = "bank" => /\ Sides(rows', ledger') \subseteq Sides(rows, ledger)
                            /\ BankRow(rows', x, of, day)
           /\ a # "bank" => \E p : /\ Sides(rows', ledger') \subseteq Sides(rows, ledger) \cup {p}
                                   /\ EntryIs(Entry(rows', ledger', p), x, of, day)
  <1>1. /\ EntriesKept /\ EntriesNew
        /\ \/ /\ NewLines = {} /\ NewRows = {Len(rows) + 1}
              /\ rows'[Len(rows) + 1] = Row(a, "TRANSFER", x, of)
           \/ /\ a = "flex" /\ NewRows = {} /\ NewLines = {Len(ledger) + 1}
              /\ ledger'[Len(ledger) + 1] = Line("DEP", x, of)
    BY RecordEnters
  <1>2. /\ EntryIs(Row(a, "TRANSFER", x, of), x, of, day) /\ EntryIs(Line("DEP", x, of), x, of, day)
        /\ Row(a, "TRANSFER", x, of).account = a /\ Row(a, "TRANSFER", x, of).type = "TRANSFER"
    BY DEF Row, Line, EntryIs
  <1>3. CASE /\ NewLines = {} /\ NewRows = {Len(rows) + 1}
             /\ rows'[Len(rows) + 1] = Row(a, "TRANSFER", x, of)
    <2> DEFINE p == <<"row", Len(rows) + 1>>
    <2>1. Len(rows) + 1 \in DOMAIN rows'
      BY <1>3 DEF NewRows
    <2>2. a = "bank" => BankRow(rows', x, of, day)
      BY <1>2, <1>3, <2>1 DEF BankRow
    <2>3. \A q \in Sides(rows', ledger') : q \notin Sides(rows, ledger) => q = p /\ a # "bank"
      BY <1>1, <1>2, <1>3, SidesStay
    <2>4. EntryIs(Entry(rows', ledger', p), x, of, day)
      BY <1>2, <1>3 DEF Entry
    <2> QED
      BY <1>1, <2>2, <2>3, <2>4
  <1>4. CASE /\ a = "flex" /\ NewRows = {} /\ NewLines = {Len(ledger) + 1}
             /\ ledger'[Len(ledger) + 1] = Line("DEP", x, of)
    <2> DEFINE p == <<"line", Len(ledger) + 1>>
    <2>1. \A q \in Sides(rows', ledger') : q \notin Sides(rows, ledger) => q = p
      BY <1>1, <1>4, SidesStay
    <2>2. EntryIs(Entry(rows', ledger', p), x, of, day)
      BY <1>2, <1>4 DEF Entry
    <2> QED
      BY <1>1, <1>4, <2>1, <2>2
  <1> QED
    BY <1>1, <1>3, <1>4

\* A step that neither sends nor receives.
LEMMA CalmTransfers ==
    ASSUME BridgeTypes, BridgeTypes', TransfersKnown, EntriesKept, EntriesNew, Enters(0),
           moving' = moving, day' >= day, moves' >= moves
    PROVE  SidesKnown(rows', ledger', moving', moves') /\ MovingKnown(rows', ledger', moving', moves', day')
  <1>1. /\ day \in Nat /\ moves \in Nat /\ day' \in Nat /\ moves' \in Nat
        /\ rows \in Seq(BridgeRow) /\ ledger \in Seq(BridgeLine)
        /\ \A m \in moving : m.id \in Nat /\ m.sent \in Nat
    BY DEF BridgeTypes
  <1>2. \A p \in Sides(rows', ledger') :
           /\ p \in Sides(rows, ledger)
           /\ LET e == Entry(rows, ledger, p)
              IN  EntryIs(Entry(rows', ledger', p), e.amount, e.of, e.day)
    BY SidesStay DEF Enters
  <1>3. \A x, of, d : BankRow(rows, x, of, d) => BankRow(rows', x, of, d)
    BY SidesStay
  <1>4. \A x, of, d : BankHas(rows, moving, x, of, d) => BankHas(rows', moving', x, of, d)
    BY <1>3 DEF BankHas
  <1>5. SidesKnown(rows', ledger', moving', moves')
    <2>1. ASSUME NEW p \in Sides(rows', ledger')
          PROVE  LET e == Entry(rows', ledger', p)
                 IN  e.of <= moves' /\ BankHas(rows', moving', -e.amount, e.of, e.day)
      <3> DEFINE e == Entry(rows, ledger, p)
                 f == Entry(rows', ledger', p)
      <3>1. p \in Sides(rows, ledger) /\ f.amount = e.amount /\ f.of = e.of /\ f.day = e.day
        BY <1>2 DEF EntryIs
      <3>2. e.of \in Nat
        BY <1>1, <3>1, SidesMean
      <3>3. e.of <= moves /\ BankHas(rows, moving, -e.amount, e.of, e.day)
        BY <3>1 DEF TransfersKnown, SidesKnown
      <3> HIDE DEF e, f
      <3>4. f.of <= moves'
        BY <1>1, <3>1, <3>2, <3>3
      <3>5. BankHas(rows', moving', -f.amount, f.of, f.day)
        BY <1>4, <3>1, <3>3
      <3> QED
        BY <3>4, <3>5 DEF f
    <2>2. ASSUME NEW p \in Sides(rows', ledger'), NEW q \in Sides(rows', ledger'),
                 Entry(rows', ledger', p).of = Entry(rows', ledger', q).of
          PROVE  p = q
      <3>1. /\ p \in Sides(rows, ledger) /\ q \in Sides(rows, ledger)
            /\ Entry(rows, ledger, p).of = Entry(rows, ledger, q).of
        BY <1>2, <2>2 DEF EntryIs
      <3> QED
        BY <3>1 DEF TransfersKnown, SidesKnown
    <2> QED
      BY <2>1, <2>2 DEF SidesKnown
  <1>6. MovingKnown(rows', ledger', moving', moves', day')
    <2>1. ASSUME NEW m \in moving
          PROVE  /\ m.id <= moves' /\ m.sent <= day'
                 /\ m.to # "bank" => /\ BankRow(rows', -m.amount, m.id, m.sent)
                                     /\ \A p \in Sides(rows', ledger') :
                                           Entry(rows', ledger', p).of # m.id
      <3>1. /\ m.id <= moves /\ m.sent <= day
            /\ m.to # "bank" => /\ BankRow(rows, -m.amount, m.id, m.sent)
                                /\ \A p \in Sides(rows, ledger) : Entry(rows, ledger, p).of # m.id
        BY DEF TransfersKnown, MovingKnown
      <3>2. m.id <= moves' /\ m.sent <= day'
        BY <1>1, <3>1
      <3> QED
        BY <1>2, <1>3, <3>1, <3>2 DEF EntryIs
    <2>2. \A m, o \in moving : m.id = o.id => m = o
      BY DEF TransfersKnown, MovingKnown
    <2> QED
      BY <2>1, <2>2 DEF MovingKnown
  <1> QED
    BY <1>5, <1>6

\* A transfer is sent: from the bank, or to it.
LEMMA SendTransfers ==
    ASSUME BridgeTypes, BridgeTypes', TransfersKnown, NEW a \in Cashed, NEW b \in Cashed,
           NEW x \in Int, SendMoney(a, b, x)
    PROVE  SidesKnown(rows', ledger', moving', moves') /\ MovingKnown(rows', ledger', moving', moves', day')
  <1> DEFINE n == moves + 1
             new == [to |-> b, amount |-> x, id |-> n, sent |-> day]
  <1>1. /\ day \in Nat /\ moves \in Nat /\ n \in Nat /\ -x \in Int
        /\ rows \in Seq(BridgeRow) /\ ledger \in Seq(BridgeLine)
        /\ rows' \in Seq(BridgeRow) /\ ledger' \in Seq(BridgeLine)
        /\ \A m \in moving : m.id \in Nat /\ m.sent \in Nat
    BY DEF BridgeTypes
  <1>2. /\ Records(a, -x, n) /\ day' = day /\ moves' = n /\ moving' = moving \cup {new}
        /\ a # b /\ "bank" \in {a, b}
    BY DEF SendMoney, Move
  <1>n. new.to = b /\ new.amount = x /\ new.id = n /\ new.sent = day
    OBVIOUS
  <1>f. \A k \in Nat : k <= moves => k <= n /\ k # n
    BY <1>1
  <1> HIDE DEF n, new
  <1>3. /\ EntriesKept
        /\ a = "bank" => /\ Sides(rows', ledger') \subseteq Sides(rows, ledger)
                         /\ BankRow(rows', -x, n, day)
        /\ a # "bank" => \E p : /\ Sides(rows', ledger') \subseteq Sides(rows, ledger) \cup {p}
                                /\ EntryIs(Entry(rows', ledger', p), -x, n, day)
    BY <1>1, <1>2, RecordSides
  <1>4. \A p \in Sides(rows, ledger) :
           LET e == Entry(rows, ledger, p)
           IN  /\ EntryIs(Entry(rows', ledger', p), e.amount, e.of, e.day)
               /\ e.of <= moves /\ e.of \in Nat
               /\ BankHas(rows, moving, -e.amount, e.of, e.day)
    BY <1>1, <1>3, SidesStay, SidesMean DEF TransfersKnown, SidesKnown
  <1>5. \A y, of, d : BankRow(rows, y, of, d) => BankRow(rows', y, of, d)
    BY <1>3, SidesStay
  <1>6. \A y, of, d : BankHas(rows, moving, y, of, d) => BankHas(rows', moving', y, of, d)
    BY <1>2, <1>5 DEF BankHas
  \* Every entry is an older one, or the new one at a broker.
  <1>7. ASSUME NEW p \in Sides(rows', ledger')
        PROVE  \/ p \in Sides(rows, ledger)
               \/ /\ a # "bank" /\ EntryIs(Entry(rows', ledger', p), -x, n, day)
                  /\ \A q \in Sides(rows', ledger') : q \in Sides(rows, ledger) \/ q = p
    BY <1>3
  <1>8. SidesKnown(rows', ledger', moving', moves')
    <2>1. ASSUME NEW p \in Sides(rows', ledger')
          PROVE  LET e == Entry(rows', ledger', p)
                 IN  e.of <= moves' /\ BankHas(rows', moving', -e.amount, e.of, e.day)
      <3>1. CASE p \in Sides(rows, ledger)
        <4> DEFINE e == Entry(rows, ledger, p)
                   f == Entry(rows', ledger', p)
        <4>1. /\ f.amount = e.amount /\ f.of = e.of /\ f.day = e.day /\ e.of \in Nat /\ e.of <= moves
              /\ BankHas(rows, moving, -e.amount, e.of, e.day)
          BY <1>4, <3>1 DEF EntryIs
        <4> HIDE DEF e, f
        <4>2. f.of <= moves'
          BY <1>f, <1>2, <4>1
        <4>3. BankHas(rows', moving', -f.amount, f.of, f.day)
          BY <1>6, <4>1
        <4> QED
          BY <4>2, <4>3 DEF f
      <3>2. CASE p \notin Sides(rows, ledger)
        <4> DEFINE f == Entry(rows', ledger', p)
        <4>1. a # "bank" /\ f.amount = -x /\ f.of = n /\ f.day = day
          BY <1>7, <3>2 DEF EntryIs
        <4>2. b = "bank" /\ new \in moving'
          BY <1>2, <4>1
        <4>3. -f.amount = x /\ n <= n
          BY <1>1, <4>1
        <4> HIDE DEF f
        <4>4. BankHas(rows', moving', -f.amount, f.of, f.day)
          BY <1>n, <4>1, <4>2, <4>3 DEF BankHas
        <4> QED
          BY <1>2, <4>1, <4>3, <4>4 DEF f
      <3> QED
        BY <3>1, <3>2
    <2>2. ASSUME NEW p \in Sides(rows', ledger'), NEW q \in Sides(rows', ledger'),
                 Entry(rows', ledger', p).of = Entry(rows', ledger', q).of
          PROVE  p = q
      <3>1. CASE p \in Sides(rows, ledger) /\ q \in Sides(rows, ledger)
        <4>1. Entry(rows, ledger, p).of = Entry(rows, ledger, q).of
          BY <1>4, <2>2, <3>1 DEF EntryIs
        <4> QED
          BY <3>1, <4>1 DEF TransfersKnown, SidesKnown
      <3>2. \A s, t \in Sides(rows', ledger') : s \in Sides(rows, ledger) /\ t \notin Sides(rows, ledger)
               => Entry(rows', ledger', s).of # Entry(rows', ledger', t).of
        BY <1>4, <1>7, <1>f DEF EntryIs
      <3> QED
        BY <1>7, <2>2, <3>1, <3>2
    <2> QED
      BY <2>1, <2>2 DEF SidesKnown
  <1>9. MovingKnown(rows', ledger', moving', moves', day')
    <2>1. \A m \in moving :
             /\ m.id <= moves /\ m.sent <= day /\ m.id # n
             /\ m.to # "bank" => /\ BankRow(rows, -m.amount, m.id, m.sent)
                                 /\ \A p \in Sides(rows, ledger) : Entry(rows, ledger, p).of # m.id
      BY <1>1, <1>f DEF TransfersKnown, MovingKnown
    <2>2. ASSUME NEW m \in moving'
          PROVE  /\ m.id <= moves' /\ m.sent <= day'
                 /\ m.to # "bank" => /\ BankRow(rows', -m.amount, m.id, m.sent)
                                     /\ \A p \in Sides(rows', ledger') :
                                           Entry(rows', ledger', p).of # m.id
      <3>1. CASE m \in moving
        <4>1. m.id <= moves' /\ m.sent <= day'
          BY <1>1, <1>2, <1>f, <2>1, <3>1
        <4>2. \A p \in Sides(rows', ledger') : m.to # "bank" => Entry(rows', ledger', p).of # m.id
          BY <1>4, <1>7, <2>1, <3>1 DEF EntryIs
        <4> QED
          BY <1>5, <2>1, <3>1, <4>1, <4>2
      <3>2. CASE m = new
        <4>1. m.id <= moves' /\ m.sent <= day'
          BY <1>1, <1>2, <1>n, <3>2
        <4>2. m.to # "bank" => a = "bank"
          BY <1>2, <1>n, <3>2
        <4>3. m.to # "bank" => BankRow(rows', -m.amount, m.id, m.sent)
          BY <1>3, <1>n, <3>2, <4>2
        <4>4. \A p \in Sides(rows', ledger') : m.to # "bank" => Entry(rows', ledger', p).of # m.id
          BY <1>3, <1>4, <1>f, <1>n, <3>2, <4>2 DEF EntryIs
        <4> QED
          BY <4>1, <4>3, <4>4
      <3> QED
        BY <1>2, <3>1, <3>2
    <2>3. \A m, o \in moving' : m.id = o.id => m = o
      BY <1>2, <1>n, <2>1 DEF TransfersKnown, MovingKnown
    <2> QED
      BY <2>2, <2>3 DEF MovingKnown
  <1> QED
    BY <1>8, <1>9

\* A transfer arrives: at the bank, where its sender's entry has awaited it, or at a broker.
LEMMA ArriveTransfers ==
    ASSUME BridgeTypes, BridgeTypes', TransfersKnown, NEW m \in moving, Arrive(m)
    PROVE  SidesKnown(rows', ledger', moving', moves') /\ MovingKnown(rows', ledger', moving', moves', day')
  <1>1. /\ day \in Nat /\ moves \in Nat
        /\ rows \in Seq(BridgeRow) /\ ledger \in Seq(BridgeLine)
        /\ rows' \in Seq(BridgeRow) /\ ledger' \in Seq(BridgeLine)
        /\ \A o \in moving : o.id \in Nat /\ o.sent \in Nat
        /\ m.to \in Cashed /\ m.amount \in Int /\ m.id \in Nat /\ m.sent \in Nat
        /\ BridgeReach \in Nat
    BY BridgeAssumption DEF BridgeTypes
  <1>2. /\ Records(m.to, m.amount, m.id) /\ day' = day /\ moves' = moves
        /\ moving' = moving \ {m} /\ day <= m.sent + BridgeReach
    BY DEF Arrive
  <1>3. /\ EntriesKept
        /\ m.to = "bank" => /\ Sides(rows', ledger') \subseteq Sides(rows, ledger)
                            /\ BankRow(rows', m.amount, m.id, day)
        /\ m.to # "bank" => \E p : /\ Sides(rows', ledger') \subseteq Sides(rows, ledger) \cup {p}
                                   /\ EntryIs(Entry(rows', ledger', p), m.amount, m.id, day)
    BY <1>1, <1>2, RecordSides
  <1>4. \A p \in Sides(rows, ledger) :
           LET e == Entry(rows, ledger, p)
           IN  /\ EntryIs(Entry(rows', ledger', p), e.amount, e.of, e.day)
               /\ e.of <= moves /\ e.of \in Nat
               /\ BankHas(rows, moving, -e.amount, e.of, e.day)
    BY <1>1, <1>3, SidesStay, SidesMean DEF TransfersKnown, SidesKnown
  <1>5. \A y, of, d : BankRow(rows, y, of, d) => BankRow(rows', y, of, d)
    BY <1>3, SidesStay
  <1>6. /\ m.id <= moves /\ m.sent <= day
        /\ m.to # "bank" => /\ BankRow(rows, -m.amount, m.id, m.sent)
                            /\ \A p \in Sides(rows, ledger) : Entry(rows, ledger, p).of # m.id
    BY DEF TransfersKnown, MovingKnown
  <1>7. \A o \in moving : o.id = m.id => o = m
    BY DEF TransfersKnown, MovingKnown
  <1>8. day - m.sent \in -BridgeReach .. BridgeReach /\ m.sent - day \in -BridgeReach .. BridgeReach
    <2>1. \A d, s, r \in Nat : s <= d /\ d <= s + r => d - s \in -r .. r /\ s - d \in -r .. r
      OBVIOUS
    <2> QED
      BY <1>1, <1>2, <1>6, <2>1
  \* What the bank was to answer, it has or has yet to answer.
  <1>9. ASSUME NEW y, NEW of, NEW d, BankHas(rows, moving, y, of, d)
        PROVE  BankHas(rows', moving', y, of, d)
    <2>1. CASE \E e \in Nat : BankRow(rows, y, of, e) /\ e - d \in -BridgeReach .. BridgeReach
      BY <1>5, <2>1 DEF BankHas
    <2>2. CASE \E o \in moving : o.to = "bank" /\ o.id = of /\ o.amount = y /\ o.sent = d
      <3>1. PICK o \in moving : o.to = "bank" /\ o.id = of /\ o.amount = y /\ o.sent = d
        BY <2>2
      <3>2. CASE o = m
        BY <1>1, <1>3, <1>8, <3>1, <3>2 DEF BankHas
      <3>3. CASE o # m
        BY <1>2, <3>1, <3>3 DEF BankHas
      <3> QED
        BY <3>2, <3>3
    <2> QED
      BY <1>9, <2>1, <2>2 DEF BankHas
  <1>10. ASSUME NEW p \in Sides(rows', ledger')
         PROVE  \/ p \in Sides(rows, ledger)
                \/ /\ m.to # "bank" /\ EntryIs(Entry(rows', ledger', p), m.amount, m.id, day)
                   /\ \A q \in Sides(rows', ledger') : q \in Sides(rows, ledger) \/ q = p
    BY <1>3
  <1>11. SidesKnown(rows', ledger', moving', moves')
    <2>1. ASSUME NEW p \in Sides(rows', ledger')
          PROVE  LET e == Entry(rows', ledger', p)
                 IN  e.of <= moves' /\ BankHas(rows', moving', -e.amount, e.of, e.day)
      <3> DEFINE f == Entry(rows', ledger', p)
      <3>1. CASE p \in Sides(rows, ledger)
        <4> DEFINE e == Entry(rows, ledger, p)
        <4>1. /\ f.amount = e.amount /\ f.of = e.of /\ f.day = e.day /\ e.of <= moves
              /\ BankHas(rows, moving, -e.amount, e.of, e.day)
          BY <1>4, <3>1 DEF EntryIs
        <4> HIDE DEF e, f
        <4>2. BankHas(rows', moving', -f.amount, f.of, f.day)
          BY <1>9, <4>1
        <4> QED
          BY <1>2, <4>1, <4>2 DEF f
      <3>2. CASE p \notin Sides(rows, ledger)
        <4>1. m.to # "bank" /\ f.amount = m.amount /\ f.of = m.id /\ f.day = day
          BY <1>10, <3>2 DEF EntryIs
        <4> HIDE DEF f
        <4>2. BankRow(rows', -f.amount, f.of, m.sent)
          BY <1>5, <1>6, <4>1
        <4>3. BankHas(rows', moving', -f.amount, f.of, f.day)
          BY <1>1, <1>8, <4>1, <4>2 DEF BankHas
        <4> QED
          BY <1>2, <1>6, <4>1, <4>3 DEF f
      <3> QED
        BY <3>1, <3>2
    <2>2. ASSUME NEW p \in Sides(rows', ledger'), NEW q \in Sides(rows', ledger'),
                 Entry(rows', ledger', p).of = Entry(rows', ledger', q).of
          PROVE  p = q
      <3>1. CASE p \in Sides(rows, ledger) /\ q \in Sides(rows, ledger)
        <4>1. Entry(rows, ledger, p).of = Entry(rows, ledger, q).of
          BY <1>4, <2>2, <3>1 DEF EntryIs
        <4> QED
          BY <3>1, <4>1 DEF TransfersKnown, SidesKnown
      <3>2. \A s, t \in Sides(rows', ledger') : s \in Sides(rows, ledger) /\ t \notin Sides(rows, ledger)
               => Entry(rows', ledger', s).of # Entry(rows', ledger', t).of
        BY <1>4, <1>6, <1>10 DEF EntryIs
      <3> QED
        BY <1>10, <2>2, <3>1, <3>2
    <2> QED
      BY <2>1, <2>2 DEF SidesKnown
  <1>12. MovingKnown(rows', ledger', moving', moves', day')
    <2>1. \A o \in moving' : o \in moving /\ o.id # m.id
      BY <1>2, <1>7
    <2>2. ASSUME NEW o \in moving'
          PROVE  /\ o.id <= moves' /\ o.sent <= day'
                 /\ o.to # "bank" => /\ BankRow(rows', -o.amount, o.id, o.sent)
                                     /\ \A p \in Sides(rows', ledger') :
                                           Entry(rows', ledger', p).of # o.id
      <3>1. /\ o.id <= moves /\ o.sent <= day
            /\ o.to # "bank" => /\ BankRow(rows, -o.amount, o.id, o.sent)
                                /\ \A p \in Sides(rows, ledger) : Entry(rows, ledger, p).of # o.id
        BY <2>1 DEF TransfersKnown, MovingKnown
      <3>2. \A p \in Sides(rows', ledger') : o.to # "bank" => Entry(rows', ledger', p).of # o.id
        BY <1>4, <1>10, <2>1, <3>1 DEF EntryIs
      <3> QED
        BY <1>2, <1>5, <3>1, <3>2
    <2>3. \A n, o \in moving' : n.id = o.id => n = o
      BY <2>1 DEF TransfersKnown, MovingKnown
    <2> QED
      BY <2>2, <2>3 DEF MovingKnown
  <1> QED
    BY <1>11, <1>12

LEMMA TransfersKept ==
    ASSUME BridgeTypes, BridgeTypes', TransfersKnown, [BridgeNext]_bridgeVars
    PROVE  TransfersKnown'
  <1>1. /\ EntriesKept /\ EntriesNew /\ day' >= day /\ moves' >= moves
        /\ \/ moving' = moving /\ Enters(0)
           \/ \E a, b \in Cashed, x \in Int : SendMoney(a, b, x)
           \/ \E m \in moving : Arrive(m)
    BY StepKeepsEntries
  <1>2. LinksKnown'
    <2>1. ASSUME NEW i \in DOMAIN rows', rows'[i].linked PROVE rows'[i].of # 0
      <3>1. CASE i \in DOMAIN rows
        BY <1>1, <2>1, <3>1 DEF EntriesKept, TransfersKnown, LinksKnown
      <3>2. CASE i \notin DOMAIN rows
        BY <1>1, <2>1, <3>2 DEF EntriesNew, NewRows
      <3> QED
        BY <3>1, <3>2
    <2> QED
      BY <2>1 DEF LinksKnown
  <1>3. /\ SidesKnown(rows', ledger', moving', moves')
        /\ MovingKnown(rows', ledger', moving', moves', day')
    BY <1>1, CalmTransfers, SendTransfers, ArriveTransfers
  <1> QED
    BY <1>2, <1>3 DEF TransfersKnown, SidesKnown, MovingKnown

LEMMA DividendsKept ==
    ASSUME BridgeTypes, BridgeTypes', DividendsKnown, [BridgeNext]_bridgeVars
    PROVE  DividendsKnown'
  <1>1. /\ EntriesKept /\ EntriesNew /\ day' >= day
    BY StepKeepsEntries
  <1>2. /\ day \in Nat /\ day' \in Nat /\ BridgeSince \in Nat
        /\ \A i \in DOMAIN ledger : ledger[i].day \in Nat
        /\ \A i \in DOMAIN rows' : rows'[i].day \in Nat
    <2>1. /\ \A i \in DOMAIN ledger : ledger[i] \in BridgeLine
          /\ \A i \in DOMAIN rows' : rows'[i] \in BridgeRow
      BY DEF BridgeTypes
    <2> QED
      BY <2>1, BridgeAssumption DEF BridgeTypes, BridgeLine, BridgeRow
  <1>3. ASSUME NEW i \in DOMAIN ledger'
        PROVE  ledger'[i].day >= BridgeSince /\ ledger'[i].day <= day'
    <2>1. CASE i \in DOMAIN ledger
      BY <1>1, <1>2, <2>1 DEF EntriesKept, DividendsKnown
    <2>2. CASE i \notin DOMAIN ledger
      BY <1>1, <1>2, <2>2 DEF EntriesNew, NewLines
    <2> QED
      BY <2>1, <2>2
  <1>4. ASSUME NEW i \in DOMAIN rows', rows'[i].type = "DIVIDEND"
        PROVE  /\ rows'[i].account = "flex"
               /\ rows'[i].day >= BridgeSince => ledger' # <<>> /\ ledger'[1].day <= rows'[i].day
    <2>0. /\ ledger \in Seq(BridgeLine) /\ ledger' \in Seq(BridgeLine)
      BY DEF BridgeTypes
    <2>1. CASE i \in DOMAIN rows
      <3>1. rows[i].type = "DIVIDEND" /\ rows'[i].account = rows[i].account /\ rows'[i].day = rows[i].day
        BY <1>1, <1>4, <2>1 DEF EntriesKept
      <3>2. /\ rows[i].account = "flex"
            /\ rows[i].day >= BridgeSince => ledger # <<>> /\ ledger[1].day <= rows[i].day
        BY <2>1, <3>1 DEF DividendsKnown
      <3>3. ledger # <<>> => ledger' # <<>> /\ ledger'[1] = ledger[1]
        <4>1. ledger # <<>> => 1 \in DOMAIN ledger
          BY <2>0
        <4>2. 1 \in DOMAIN ledger' => ledger' # <<>>
          OBVIOUS
        <4> QED
          BY <1>1, <4>1, <4>2 DEF EntriesKept
      <3> QED
        BY <3>1, <3>2, <3>3
    <2>2. CASE i \notin DOMAIN rows
      <3>1. /\ rows'[i].day = day /\ rows'[i].account = "flex"
            /\ day >= BridgeSince => NewLines # {}
        BY <1>1, <1>4, <2>2 DEF EntriesNew, NewRows
      <3>2. ASSUME NewLines # {} PROVE ledger' # <<>> /\ ledger'[1].day <= day
        <4>1. ledger' # <<>> /\ 1 \in DOMAIN ledger'
          BY <2>0, <3>2 DEF NewLines
        <4>2. CASE 1 \in DOMAIN ledger
          BY <1>1, <4>1, <4>2 DEF EntriesKept, DividendsKnown
        <4>3. CASE 1 \notin DOMAIN ledger
          BY <1>1, <1>2, <4>1, <4>3 DEF EntriesNew, NewLines
        <4> QED
          BY <4>1, <4>2, <4>3
      <3> QED
        BY <3>1, <3>2
    <2> QED
      BY <2>1, <2>2
  <1> QED
    BY <1>3, <1>4 DEF DividendsKnown

\* What is used once place k has been read too.
UsedOn(used, k) ==
    LET free == Opposites(Candidate(k)) \ used
    IN  IF k \in Candidates /\ ~Candidate(k).linked /\ free # {} THEN used \cup {Max(free)} ELSE used

UsesUpTo(g, n) == g = [k \in 0 .. n |-> IF k = 0 THEN {} ELSE UsedOn(g[k - 1], k)]

\* There is a list of what is used up to any place.
LEMMA UsesExist == ASSUME NEW n \in Nat PROVE \E g : UsesUpTo(g, n)
  <1> DEFINE Without == {i \in Nat : ~\E g : UsesUpTo(g, i)}
  <1>1. CASE Without = {}
    BY <1>1
  <1>2. CASE Without # {}
    <2> DEFINE i == Min(Without)
    <2>1. i \in Without /\ \A d \in Without : i <= d
      <3>1. Without \in SUBSET Nat
        OBVIOUS
      <3> HIDE DEF Without
      <3> QED
        BY <1>2, <3>1, NaturalsHaveMin
    <2> HIDE DEF i
    <2>2. i \in Nat
      BY <2>1
    <2>3. CASE i = 0
      <3> DEFINE g == [k \in 0 .. 0 |-> {}]
      <3>1. UsesUpTo(g, 0)
        BY DEF UsesUpTo
      <3> QED
        BY <2>1, <2>3, <3>1
    <2>4. CASE i # 0
      <3>1. i - 1 \in Nat /\ ~(i <= i - 1)
        BY <2>2, <2>4
      <3>2. i - 1 \notin Without
        BY <2>1, <3>1
      <3>3. PICK g : UsesUpTo(g, i - 1)
        BY <3>1, <3>2
      <3> DEFINE last == UsedOn(g[i - 1], i)
                 h == [k \in 0 .. i |-> IF k = i THEN last ELSE g[k]]
      <3>4. \A k \in 0 .. i - 1 : g[k] = IF k = 0 THEN {} ELSE UsedOn(g[k - 1], k)
        BY <3>3 DEF UsesUpTo
      <3>5. \A k \in 0 .. i : k # i => k \in 0 .. i - 1
        BY <2>2
      <3>6. \A k \in 0 .. i : k # 0 => k - 1 \in 0 .. i /\ k - 1 # i
        BY <2>2
      <3>7. ASSUME NEW k \in 0 .. i
            PROVE  h[k] = IF k = 0 THEN {} ELSE UsedOn(h[k - 1], k)
        <4>1. CASE k = i
          <5>1. h[k] = last /\ h[k - 1] = g[i - 1]
            BY <2>4, <3>6, <4>1
          <5> QED
            BY <2>4, <4>1, <5>1
        <4>2. CASE k # i
          <5>1. h[k] = g[k] /\ (k # 0 => h[k - 1] = g[k - 1])
            BY <3>6, <4>2
          <5>2. g[k] = IF k = 0 THEN {} ELSE UsedOn(g[k - 1], k)
            BY <3>4, <3>5, <4>2
          <5> HIDE DEF h
          <5> QED
            BY <5>1, <5>2
        <4> QED
          BY <4>1, <4>2
      <3>8. h = [k \in 0 .. i |-> h[k]]
        OBVIOUS
      <3>9. UsesUpTo(h, i)
        <4> HIDE DEF h
        <4> QED
          BY <3>7, <3>8 DEF UsesUpTo
      <3> QED
        BY <2>1, <3>9
    <2> QED
      BY <2>3, <2>4
  <1> QED
    BY <1>1, <1>2

LEMMA UsedIs ==
    ASSUME BridgeTypes
    PROVE  UsesUpTo(Used, Len(ledger) + Len(rows))
  <1>1. Len(ledger) + Len(rows) \in Nat
    BY DEF BridgeTypes
  <1>2. Used = CHOOSE g : UsesUpTo(g, Len(ledger) + Len(rows))
    BY DEF Used, UsesUpTo, UsedOn
  <1> QED
    BY <1>1, <1>2, UsesExist

\* A place is of a line, or of a row, and of no two of them.
LEMMA PlacesAreNumbers ==
    ASSUME BridgeTypes
    PROVE  /\ \A i \in DOMAIN rows : /\ PlaceOf(i) \in Nat /\ PlaceOf(i) > Len(ledger)
                                     /\ PlaceOf(PlaceOf(i)) = i
                                     /\ PlaceOf(i) \in 1 .. Len(ledger) + Len(rows)
           /\ \A i \in DOMAIN ledger : i \in Nat /\ i <= Len(ledger) /\ i \in 1 .. Len(ledger) + Len(rows)
           /\ \A k \in Candidates : k \in Nat /\ k \in 1 .. Len(ledger) + Len(rows)
  <1>1. /\ rows \in Seq(BridgeRow) /\ ledger \in Seq(BridgeLine)
        /\ Len(rows) \in Nat /\ Len(ledger) \in Nat
        /\ DOMAIN rows = 1 .. Len(rows) /\ DOMAIN ledger = 1 .. Len(ledger)
    BY DEF BridgeTypes
  <1>2. \A i \in DOMAIN rows : /\ PlaceOf(i) \in Nat /\ PlaceOf(i) > Len(ledger)
                               /\ PlaceOf(PlaceOf(i)) = i
                               /\ PlaceOf(i) \in 1 .. Len(ledger) + Len(rows)
    BY <1>1 DEF PlaceOf
  <1>3. \A i \in DOMAIN ledger : i \in Nat /\ i <= Len(ledger) /\ i \in 1 .. Len(ledger) + Len(rows)
    BY <1>1
  <1>4. \A k \in Candidates : k \in DOMAIN ledger \/ \E i \in DOMAIN rows : k = PlaceOf(i)
    BY DEF Candidates, Lines, InMonth
  <1> QED
    BY <1>2, <1>3, <1>4

\* What is read at each place.
LEMMA CandidatesAre ==
    ASSUME BridgeTypes
    PROVE  /\ \A i \in DOMAIN ledger :
                 /\ i \in Candidates <=> ledger[i].day \in BridgeMonth /\ ledger[i].code = "DEP"
                 /\ Candidate(i) = [account |-> "flex", amount |-> ledger[i].amount,
                                    day |-> ledger[i].day, of |-> ledger[i].of, linked |-> FALSE]
           /\ \A i \in DOMAIN rows :
                 /\ PlaceOf(i) \in Candidates <=>
                       /\ rows[i].day \in BridgeMonth /\ rows[i].type = "TRANSFER"
                       /\ rows[i].account \in Brokers \ LedgerAccounts
                 /\ Candidate(PlaceOf(i)) = rows[i]
           /\ \A k \in Candidates : k \in DOMAIN ledger \/ \E i \in DOMAIN rows : k = PlaceOf(i)
  <1>1. /\ \A i \in DOMAIN rows : /\ PlaceOf(i) \in Nat /\ PlaceOf(i) > Len(ledger)
                                  /\ PlaceOf(PlaceOf(i)) = i
        /\ \A i \in DOMAIN ledger : i \in Nat /\ i <= Len(ledger)
        /\ Len(ledger) \in Nat
    BY PlacesAreNumbers DEF BridgeTypes
  <1>2. \A i \in DOMAIN rows, j \in DOMAIN ledger : PlaceOf(i) # j
    BY <1>1
  <1>3. \A i, j \in DOMAIN rows : PlaceOf(i) = PlaceOf(j) => i = j
    BY <1>1
  <1>4. \A i \in DOMAIN ledger :
           /\ i \in Candidates <=> ledger[i].day \in BridgeMonth /\ ledger[i].code = "DEP"
           /\ Candidate(i) = [account |-> "flex", amount |-> ledger[i].amount,
                              day |-> ledger[i].day, of |-> ledger[i].of, linked |-> FALSE]
    BY <1>1, <1>2 DEF Candidates, Candidate, Lines, InMonth, BridgeMonth
  <1>5. \A i \in DOMAIN rows :
           PlaceOf(i) \in Candidates <=> /\ rows[i].day \in BridgeMonth /\ rows[i].type = "TRANSFER"
                                         /\ rows[i].account \in Brokers \ LedgerAccounts
    BY <1>2, <1>3 DEF Candidates, Lines, InMonth, BridgeMonth
  <1>6. \A i \in DOMAIN rows : Candidate(PlaceOf(i)) = rows[i]
    <2>1. \A i \in DOMAIN rows : ~(PlaceOf(i) <= Len(ledger))
      BY <1>1
    <2> QED
      BY <1>1, <2>1 DEF Candidate
  <1>7. \A k \in Candidates : k \in DOMAIN ledger \/ \E i \in DOMAIN rows : k = PlaceOf(i)
    BY DEF Candidates, Lines, InMonth
  <1> QED
    BY <1>4, <1>5, <1>6, <1>7

LastPlace == Len(ledger) + Len(rows)

\* A row is used only by a candidate it may be the other side of.
LEMMA UsedByAnOpposite ==
    ASSUME BridgeTypes, NEW n \in 0 .. LastPlace, NEW i \in Used[n]
    PROVE  \E k \in Candidates : k <= n /\ i \in Opposites(Candidate(k))
  <1> DEFINE Owned(k, j) == \E c \in Candidates : c <= k /\ j \in Opposites(Candidate(c))
             Wrong == {k \in 0 .. LastPlace : \E j \in Used[k] : ~Owned(k, j)}
  <1>1. /\ LastPlace \in Nat /\ rows \in Seq(BridgeRow) /\ ledger \in Seq(BridgeLine)
        /\ Len(rows) \in Nat
    BY DEF BridgeTypes, LastPlace
  <1>2. \A k \in 0 .. LastPlace : Used[k] = IF k = 0 THEN {} ELSE UsedOn(Used[k - 1], k)
    BY UsedIs DEF UsesUpTo, LastPlace
  <1>3. CASE Wrong = {}
    BY <1>3
  <1>4. CASE Wrong # {}
    <2> DEFINE k == Min(Wrong)
    <2>1. k \in Wrong /\ \A d \in Wrong : k <= d
      <3>1. Wrong \in SUBSET Nat
        BY <1>1
      <3> HIDE DEF Wrong
      <3> QED
        BY <1>4, <3>1, NaturalsHaveMin
    <2> HIDE DEF k
    <2>2. k \in 0 .. LastPlace
      BY <2>1
    <2>3. PICK j \in Used[k] : ~Owned(k, j)
      BY <2>1
    <2>4. CASE k = 0
      BY <1>2, <2>2, <2>3, <2>4
    <2>5. CASE k # 0
      <3>1. k - 1 \in 0 .. LastPlace /\ ~(k <= k - 1) /\ k \in Nat
        BY <1>1, <2>2, <2>5
      <3>2. \A v \in Used[k - 1] : Owned(k - 1, v)
        <4>1. k - 1 \notin Wrong
          BY <2>1, <3>1
        <4> QED
          BY <3>1, <4>1
      <3>3. \A v : Owned(k - 1, v) => Owned(k, v)
        <4>1. \A c \in Candidates : c \in Nat
          BY <1>1, PlacesAreNumbers
        <4>2. \A c \in Nat : c <= k - 1 => c <= k
          BY <3>1
        <4> QED
          BY <4>1, <4>2
      <3>4. Used[k] = UsedOn(Used[k - 1], k)
        BY <1>2, <2>2, <2>5
      <3> DEFINE free == Opposites(Candidate(k)) \ Used[k - 1]
      <3>5. j \in Used[k - 1] \/ (k \in Candidates /\ free # {} /\ j = Max(free))
        BY <2>3, <3>4 DEF UsedOn
      <3>6. CASE j \in Used[k - 1]
        <4> HIDE DEF Owned
        <4> QED
          BY <2>3, <3>2, <3>3, <3>6
      <3>7. CASE k \in Candidates /\ free # {} /\ j = Max(free)
        <4>1. free \in SUBSET (0 .. Len(rows))
          BY <1>1 DEF Opposites
        <4>2. Max(free) \in free
          <5> HIDE DEF free
          <5> QED
            BY <1>1, <3>7, <4>1, BoundedHasMax
        <4>3. j \in Opposites(Candidate(k)) /\ k <= k
          BY <3>1, <3>7, <4>2
        <4> QED
          BY <2>3, <3>7, <4>3
      <3> QED
        BY <3>5, <3>6, <3>7
    <2> QED
      BY <2>4, <2>5
  <1> QED
    BY <1>3, <1>4

SideAt(k) == IF k \in DOMAIN ledger THEN <<"line", k>> ELSE <<"row", PlaceOf(k)>>

\* A candidate of a transfer is its entry at the broker.
LEMMA CandidateIsASide ==
    ASSUME BridgeTypes
    PROVE  /\ \A k \in Candidates : Candidate(k).of # 0 =>
                 LET c == Candidate(k)
                 IN  /\ SideAt(k) \in Sides(rows, ledger)
                     /\ EntryIs(Entry(rows, ledger, SideAt(k)), c.amount, c.of, c.day)
           /\ \A k, j \in Candidates : SideAt(k) = SideAt(j) => k = j
           /\ \A k \in Candidates : /\ Candidate(k).account # "bank" /\ Candidate(k).amount \in Int
                                    /\ Candidate(k).day \in Nat /\ Candidate(k).of \in Nat
                                    /\ Candidate(k).day \in BridgeMonth
  <1>1. /\ \A i \in DOMAIN rows : /\ PlaceOf(i) \in Nat /\ PlaceOf(i) > Len(ledger)
                                  /\ PlaceOf(PlaceOf(i)) = i
        /\ \A i \in DOMAIN ledger : i \in Nat /\ i <= Len(ledger)
        /\ Len(ledger) \in Nat
    BY PlacesAreNumbers DEF BridgeTypes
  <1>2. \A i \in DOMAIN rows : PlaceOf(i) \notin DOMAIN ledger
    BY <1>1
  <1>3. /\ \A i \in DOMAIN rows : rows[i] \in BridgeRow
        /\ \A i \in DOMAIN ledger : ledger[i] \in BridgeLine
    BY DEF BridgeTypes
  <1>4. /\ \A r \in BridgeRow : r.amount \in Int /\ r.day \in Nat /\ r.of \in Nat
        /\ \A l \in BridgeLine : l.amount \in Int /\ l.day \in Nat /\ l.of \in Nat
    BY DEF BridgeRow, BridgeLine
  <1>5. ASSUME NEW k \in Candidates
        PROVE  \/ /\ k \in DOMAIN ledger /\ SideAt(k) = <<"line", k>>
                  /\ Candidate(k).account = "flex" /\ Candidate(k).amount = ledger[k].amount
                  /\ Candidate(k).day = ledger[k].day /\ Candidate(k).of = ledger[k].of
                  /\ ledger[k].day \in BridgeMonth
               \/ \E i \in DOMAIN rows :
                     /\ k = PlaceOf(i) /\ SideAt(k) = <<"row", i>> /\ Candidate(k) = rows[i]
                     /\ rows[i].account \in Brokers /\ rows[i].day \in BridgeMonth
    BY <1>1, <1>2, CandidatesAre DEF SideAt
  <1>6. ASSUME NEW k \in Candidates, Candidate(k).of # 0
        PROVE  LET c == Candidate(k)
               IN  /\ SideAt(k) \in Sides(rows, ledger)
                   /\ EntryIs(Entry(rows, ledger, SideAt(k)), c.amount, c.of, c.day)
    BY <1>5, <1>6 DEF Sides, Entry, EntryIs, Brokers
  <1>7. ASSUME NEW k \in Candidates, NEW j \in Candidates, SideAt(k) = SideAt(j) PROVE k = j
    BY <1>5, <1>7
  <1>8. ASSUME NEW k \in Candidates
        PROVE  /\ Candidate(k).account # "bank" /\ Candidate(k).amount \in Int
               /\ Candidate(k).day \in Nat /\ Candidate(k).of \in Nat
               /\ Candidate(k).day \in BridgeMonth
    BY <1>3, <1>4, <1>5 DEF Brokers
  <1> QED
    BY <1>6, <1>7, <1>8

\* No two moves can be taken for each other.
Clear == \A k \in Candidates : \A i \in Opposites(Candidate(k)) :
            rows[i].of = Candidate(k).of /\ rows[i].of # 0

\* Then a candidate is new money when it is no transfer of the household's own.
LEMMA NewWhenFromOutside ==
    ASSUME BridgeTypes, TransfersKnown, moving = {}, Clear, NEW k \in Candidates
    PROVE  IsNew(k) <=> Candidate(k).of = 0
  <1> DEFINE c == Candidate(k)
  <1>1. /\ c.account # "bank" /\ c.amount \in Int /\ c.day \in Nat /\ c.of \in Nat
        /\ c.day \in BridgeMonth
    BY CandidateIsASide
  <1>2. c.linked => c.of # 0
    BY CandidatesAre DEF TransfersKnown, LinksKnown
  <1>3. k \in 1 .. LastPlace /\ LastPlace \in Nat
    BY PlacesAreNumbers DEF LastPlace, BridgeTypes
  <1>4. CASE c.of = 0
    <2>1. Opposites(c) = {}
      BY <1>4 DEF Clear
    <2> QED
      BY <1>2, <1>4, <2>1 DEF IsNew
  <1>5. CASE c.of # 0
    <2> DEFINE e == Entry(rows, ledger, SideAt(k))
    <2>1. SideAt(k) \in Sides(rows, ledger) /\ e.amount = c.amount /\ e.of = c.of /\ e.day = c.day
      BY <1>5, CandidateIsASide DEF EntryIs
    <2>2. BankHas(rows, moving, -e.amount, e.of, e.day)
      BY <2>1 DEF TransfersKnown, SidesKnown
    <2>3. PICK d \in Nat : BankRow(rows, -c.amount, c.of, d) /\ d - c.day \in -BridgeReach .. BridgeReach
      <3> HIDE DEF e, c
      <3> QED
        BY <2>1, <2>2 DEF BankHas
    <2>4. PICK i \in DOMAIN rows : /\ rows[i].account = "bank" /\ rows[i].type = "TRANSFER"
                                   /\ rows[i].amount = -c.amount /\ rows[i].of = c.of
                                   /\ rows[i].day = d
      BY <2>3 DEF BankRow, EntryIs
    <2>5. i \in Opposites(c)
      <3>1. d \in BridgeFirst - BridgeReach .. BridgeLast + BridgeReach
        BY <1>1, <2>3, BridgeAssumption DEF BridgeMonth
      <3>2. rows[i].amount + c.amount = 0
        BY <1>1, <2>4
      <3> HIDE DEF c
      <3> QED
        BY <1>1, <2>3, <2>4, <3>1, <3>2 DEF Opposites
    <2>6. i \notin Used[k - 1]
      <3>1. SUFFICES ASSUME i \in Used[k - 1] PROVE FALSE
        OBVIOUS
      <3>2. k - 1 \in 0 .. LastPlace
        BY <1>3
      <3>3. PICK j \in Candidates : j <= k - 1 /\ i \in Opposites(Candidate(j))
        BY <3>1, <3>2, UsedByAnOpposite
      <3>4. Candidate(j).of = c.of
        BY <2>4, <3>3 DEF Clear
      <3>5. /\ SideAt(j) \in Sides(rows, ledger)
            /\ Entry(rows, ledger, SideAt(j)).of = e.of
        BY <1>5, <2>1, <3>3, <3>4, CandidateIsASide DEF EntryIs
      <3>6. SideAt(j) = SideAt(k)
        BY <2>1, <3>5 DEF TransfersKnown, SidesKnown
      <3>7. j = k
        BY <3>3, <3>6, CandidateIsASide
      <3> QED
        BY <1>3, <3>3, <3>7
    <2> QED
      BY <1>5, <2>5, <2>6 DEF IsNew
  <1> QED
    BY <1>4, <1>5

LEMMA NewMoneyAddsUp ==
    ASSUME BridgeTypes, BridgeBooks, TransfersKnown, moving = {}, Clear
    PROVE  NewMoney = actual.outside - IF LedgerAccounts = {} THEN 0 ELSE actual.unseen
  <1>1. /\ rows \in Seq(BridgeRow) /\ ledger \in Seq(BridgeLine)
        /\ \A i \in DOMAIN rows : rows[i] \in BridgeRow
        /\ \A i \in DOMAIN ledger : ledger[i] \in BridgeLine
        /\ actual.outside \in Int
    BY DEF BridgeTypes, Truth
  <1> DEFINE All    == {i \in DOMAIN rows : rows[i] \in PaidInRows}
             Unseen == {i \in DOMAIN rows : rows[i] \in UnseenRows}
             New    == {i \in DOMAIN rows : IsNew(PlaceOf(i))}
             f      == AmountsOf(rows)
  <1>2. SumLines({i \in DOMAIN ledger : IsNew(i)}) = ComesTo(ledger, PaidInLines)
    <2>1. \A i \in DOMAIN ledger : IsNew(i) <=> ledger[i] \in PaidInLines
      <3>1. ASSUME NEW i \in DOMAIN ledger
            PROVE  IsNew(i) <=> ledger[i] \in PaidInLines
        <4>1. i \in Candidates <=> ledger[i].day \in BridgeMonth /\ ledger[i].code = "DEP"
          BY CandidatesAre
        <4>2. Candidate(i).of = ledger[i].of
          BY CandidatesAre
        <4>3. i \in Candidates => (IsNew(i) <=> Candidate(i).of = 0)
          BY NewWhenFromOutside
        <4>4. IsNew(i) => i \in Candidates
          BY DEF IsNew
        <4> QED
          BY <1>1, <4>1, <4>2, <4>3, <4>4 DEF PaidInLines
      <3> QED
        BY <3>1
    <2>2. {i \in DOMAIN ledger : IsNew(i)} = {i \in DOMAIN ledger : ledger[i] \in PaidInLines}
      BY <2>1
    <2> QED
      BY <2>2 DEF SumLines, ComesTo
  <1>3. \A i \in DOMAIN rows :
           IsNew(PlaceOf(i)) <=> rows[i] \in PaidInRows /\ rows[i].account \notin LedgerAccounts
    <2>1. ASSUME NEW i \in DOMAIN rows
          PROVE  IsNew(PlaceOf(i)) <=> rows[i] \in PaidInRows /\ rows[i].account \notin LedgerAccounts
      <3>1. PlaceOf(i) \in Candidates <=>
               /\ rows[i].day \in BridgeMonth /\ rows[i].type = "TRANSFER"
               /\ rows[i].account \in Brokers \ LedgerAccounts
        BY CandidatesAre
      <3>2. Candidate(PlaceOf(i)) = rows[i]
        BY CandidatesAre
      <3>3. PlaceOf(i) \in Candidates => (IsNew(PlaceOf(i)) <=> rows[i].of = 0)
        BY <3>2, NewWhenFromOutside
      <3>4. IsNew(PlaceOf(i)) => PlaceOf(i) \in Candidates
        BY DEF IsNew
      <3> QED
        BY <1>1, <3>1, <3>3, <3>4 DEF PaidInRows
    <2> QED
      BY <2>1
  <1>4. SumRows(New) = SumFunctionOnSet(f, New) /\ ComesTo(rows, PaidInRows) = SumFunctionOnSet(f, All)
        /\ ComesTo(rows, UnseenRows) = SumFunctionOnSet(f, Unseen)
    BY DEF SumRows, ComesTo
  <1>5. ComesTo(rows, PaidInRows) \in Int /\ ComesTo(ledger, PaidInLines) \in Int
        /\ ComesTo(rows, UnseenRows) \in Int
    BY <1>1, SumsAreNumbers
  <1>6. NewMoney = ComesTo(ledger, PaidInLines) + SumFunctionOnSet(f, New)
    BY <1>2, <1>4 DEF NewMoney
  <1>7. CASE LedgerAccounts = {}
    <2>1. New = All
      BY <1>3, <1>7
    <2>2. NewMoney = ComesTo(ledger, PaidInLines) + ComesTo(rows, PaidInRows)
      BY <1>4, <1>6, <2>1
    <2>3. NewMoney = actual.outside - 0
      BY <1>1, <1>5, <2>2 DEF BridgeBooks
    <2> QED
      BY <1>7, <2>3
  <1>8. CASE LedgerAccounts # {}
    <2>1. LedgerAccounts = {"flex"}
      BY <1>8 DEF LedgerAccounts
    <2>2. New \cup Unseen = All /\ New \cap Unseen = {}
      BY <1>1, <1>3, <2>1 DEF UnseenRows
    <2>3. IsFiniteSet(New) /\ IsFiniteSet(Unseen)
      <3>1. IsFiniteSet(DOMAIN rows)
        BY <1>1, FS_Interval
      <3> QED
        BY <3>1, FS_Subset
    <2>4. \A i \in New \cup Unseen : f[i] \in Int
      <3>1. \A r \in BridgeRow : r.amount \in Int
        BY DEF BridgeRow
      <3> QED
        BY <1>1, <3>1 DEF AmountsOf
    <2>5. SumFunctionOnSet(f, All) = SumFunctionOnSet(f, New) + SumFunctionOnSet(f, Unseen)
      <3> HIDE DEF New, Unseen, All, f
      <3> QED
        BY <2>2, <2>3, <2>4, SumUnion
    <2>6. SumFunctionOnSet(f, New) \in Int
      <3> HIDE DEF f
      <3> QED
        BY <2>3, <2>4, SumInt
    <2>7. ComesTo(rows, PaidInRows) + ComesTo(ledger, PaidInLines) = actual.outside
          /\ ComesTo(rows, UnseenRows) = actual.unseen
      BY DEF BridgeBooks
    <2> HIDE DEF New, Unseen, All, f
    <2>8. NewMoney = actual.outside - actual.unseen
      BY <1>4, <1>5, <1>6, <2>5, <2>6, <2>7
    <2> QED
      BY <1>8, <2>8
  <1> QED
    BY <1>7, <1>8

BridgeInv == BridgeTypes /\ BridgeBooks /\ BridgeBalance /\ DividendsKnown /\ TransfersKnown

LEMMA BridgeBegins == ASSUME BridgeInit PROVE BridgeInv
  <1> USE BridgeAssumption
  <1>1. Opening \in Holding
    BY DEF Opening, Holding
  <1>2. BridgeTypes
    BY <1>1 DEF BridgeInit, BridgeTypes, Truth
  <1>3. \A C : ComesTo(rows, C) = 0 /\ ComesTo(ledger, C) = 0
    <2>1. ASSUME NEW C PROVE ComesTo(<<>>, C) = 0
      <3>1. {i \in DOMAIN <<>> : <<>>[i] \in C} = {}
        OBVIOUS
      <3> QED
        BY <3>1, SumEmpty DEF ComesTo
    <2> QED
      BY <2>1 DEF BridgeInit
  <1>4. BridgeBooks
    BY <1>3 DEF BridgeInit, BridgeBooks
  <1>5. BridgeBalance
    <2>1. EndHolds = Opening /\ StartHolds = Opening
      BY DEF BridgeInit, EndHolds, StartHolds
    <2>2. Followed(Opening) \in Int /\ Opening.owed \in Int
      BY <1>1, FollowedInt
    <2>3. Caused(actual) = 0 /\ actual.unbilled = 0
      BY DEF BridgeInit, Caused
    <2> HIDE DEF Opening
    <2> QED
      BY <1>3, <2>1, <2>2, <2>3 DEF BridgeBalance
  <1>6. DividendsKnown
    BY DEF BridgeInit, DividendsKnown
  <1>7. TransfersKnown
    BY DEF BridgeInit, TransfersKnown, LinksKnown, SidesKnown, MovingKnown, Sides
  <1> QED
    BY <1>2, <1>4, <1>5, <1>6, <1>7 DEF BridgeInv

LEMMA BridgeInvAddsUp == ASSUME BridgeInv PROVE BridgeAddsUp
  <1>1. BridgeTypes /\ BridgeBooks /\ BridgeBalance /\ DividendsKnown /\ TransfersKnown
    BY DEF BridgeInv
  <1>2. LinesAreTheCauses
    BY <1>1, LinesAddUp DEF LinesAreTheCauses
  <1>3. OtherIsWhatItSays
    BY <1>1, OtherIs DEF OtherIsWhatItSays
  <1>4. NewMoneyIsFromOutside
    <2>1. Read /\ Clear =>
            NewMoney = actual.outside - IF LedgerAccounts = {} THEN 0 ELSE actual.unseen
      BY <1>1, NewMoneyAddsUp DEF Read
    <2> QED
      BY <2>1 DEF NewMoneyIsFromOutside, Clear
  <1> QED
    BY <1>2, <1>3, <1>4 DEF BridgeAddsUp

\* The "This month" bridge, read once the month is over and whatever the household has done in
\* it: cash kept, dividends and the cards' line are what happened (CashKept,
\* DividendsAndInterest and CardBalances of bridge.py), new money is what came from outside
\* where no two moves can be taken for each other, and `other' is what its label says.
THEOREM BridgeAlwaysAddsUp == BridgeSpec => []BridgeAddsUp
  <1>1. BridgeInit => BridgeInv
    BY BridgeBegins
  <1>2. BridgeInv /\ [BridgeNext]_bridgeVars => BridgeInv'
    <2> SUFFICES ASSUME BridgeInv, [BridgeNext]_bridgeVars PROVE BridgeInv'
      OBVIOUS
    <2>1. BridgeTypes /\ BridgeBooks /\ BridgeBalance /\ DividendsKnown /\ TransfersKnown
      BY DEF BridgeInv
    <2>2. BridgeTypes'
      BY <2>1, BridgeTypesKept
    <2>3. BridgeBooks' /\ BridgeBalance'
      BY <2>1, BooksKept
    <2>4. DividendsKnown'
      BY <2>1, <2>2, DividendsKept
    <2>5. TransfersKnown'
      BY <2>1, <2>2, TransfersKept
    <2> QED
      BY <2>2, <2>3, <2>4, <2>5 DEF BridgeInv
  <1>3. BridgeInv => BridgeAddsUp
    BY BridgeInvAddsUp
  <1> QED
    BY <1>1, <1>2, <1>3, PTL DEF BridgeSpec
================================================================================

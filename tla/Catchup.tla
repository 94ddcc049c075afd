-------------------------------- MODULE Catchup --------------------------------
(***************************************************************************)
(* The daily jobs, which catch up after a sleep or a restart.  Each is a   *)
(* check every few minutes: is a run due since the most recent scheduled   *)
(* time?  The four jobs differ in what they run (accounts, wallets, the    *)
(* exchanges of a window, the FX fill), in which runs count as done, and   *)
(* in how many flawed ones a slot takes before it counts as done too.      *)
(*                                                                         *)
(* Time is cyclic: phase is the ticks since the slot's due time, and the   *)
(* runs of an item are kept as far as the rules look at them, those since  *)
(* the due time.  A run is "good"; "bad" (an older statement, a partial    *)
(* refresh, a provider that answered without a quote); "failed" (the fetch *)
(* raised; for an exchange, every provider did); or "locked" (another      *)
(* import or refresh of the item is under way).                            *)
(***************************************************************************)
EXTENDS Integers

CONSTANTS
    Items,       \* accounts, wallets or exchanges
    SlotLength,  \* ticks between two scheduled times
    RetryAfter,  \* retry_after(), in ticks
    Attempts,    \* STALE_STATEMENT_, PARTIAL_RETRY_ and FAILED_WINDOW_ATTEMPTS
    MaxRestarts  \* bound on the restarts

ASSUME TimesAssumption == SlotLength \in Nat \ {0} /\ RetryAfter \in Nat \ {0}
ASSUME BoundsAssumption == Attempts \in Nat \ {0} /\ MaxRestarts \in Nat

Kinds == {"ibkr", "wallet", "window", "fx"}

VARIABLES
    kind,     \* the job
    phase,    \* ticks since the most recent due time
    rec,      \* per item, its runs since then
    gateAge,  \* RetryGate: ticks since the last failed attempt, RetryAfter if none counts
    pc,       \* the scheduler's thread
    todo,     \* the items the check still has to run
    since,    \* per item, its runs since the due time the check is for
    elapsed,  \* ticks since the check's now
    outcome,  \* the window's results, recorded when all are in
    failures, \* _run_daily_imports: an account failed
    up,       \* the providers answer
    restarts, \* restarts so far
    fresh,    \* ghost: a check ended, and no tick and no other run came since
    capped,   \* ghost: per account or wallet, the scheduler's flawed runs of the slot
    repeated  \* ghost: the scheduler ran what was done when its check read it

thread == <<pc, todo, since, elapsed, outcome, failures>>
ghosts == <<fresh, capped, repeated>>
vars == <<kind, phase, rec, gateAge, thread, up, restarts, ghosts>>

\* ran: a run that counts was finished; bad: the flawed ones, up to the cap;
\* flawed: the newest was flawed (a wallet's newest snapshot stays partial into
\* the next slot).
NoRuns == [ran |-> FALSE, bad |-> 0, flawed |-> FALSE]
Record == [ran : BOOLEAN, bad : 0..Attempts, flawed : BOOLEAN]

Results == {"good", "bad", "failed", "locked"}

\* What a run of an item can end with.
Possible ==
    IF up THEN {"good"}
    ELSE CASE kind = "fx" -> {"good", "failed"}
           [] kind = "window" -> {"good", "bad", "failed"}
           [] OTHER -> Results

AtMost(n, top) == IF n < top THEN n ELSE top
Older(n) == AtMost(n + 1, RetryAfter)

-----------------------------------------------------------------------------
(* The rules *)

\* account_import_due, _wallet_refresh_due, _window_due, and run_is_due of the
\* last FX fill, of the runs x since the due time.
ItemDue(x) ==
    CASE kind = "ibkr" -> ~x.ran /\ x.bad < Attempts
      [] kind = "fx"   -> ~x.ran
      [] OTHER         -> ~x.ran \/ (x.flawed /\ x.bad < Attempts)

AnyDue(runs) == \E i \in Items : ItemDue(runs[i])

\* broker_import_runs, the wallet's snapshots, market_data_runs, fx_rates: what
\* says that the data was fetched.
Fetched(x, result) ==
    [x EXCEPT !.ran = @ \/ result = "good" \/ (result = "bad" /\ kind \in {"wallet", "window"})]

\* The rest of the record: the statement date, the newest snapshot, job_runs.
Noted(x, result) ==
    LET counts == result = "bad" \/ (result = "failed" /\ kind = "window") IN
    [x EXCEPT !.bad = IF counts THEN AtMost(@ + 1, Attempts) ELSE @,
              !.flawed = IF counts THEN TRUE ELSE IF result = "good" THEN FALSE ELSE @]

\* Mutant: one failed attempt is never followed by another.
MayAttempt_Once == gateAge = RetryAfter /\ \A i \in Items : ~rec[i].flawed /\ rec[i].bad = 0

MayAttempt == gateAge = RetryAfter

-----------------------------------------------------------------------------
(* The check *)

\* _run_if_due, _run_due_windows, _run_fx_fill_if_due up to the run.  Accounts
\* are listed once; a window runs all its exchanges; wallets are looked at again.
Check ==
    /\ pc = "idle"
    /\ IF AnyDue(rec) /\ MayAttempt
       THEN /\ pc' = "run"
            /\ todo' = IF kind = "ibkr" THEN {i \in Items : ItemDue(rec[i])} ELSE Items
            /\ since' = rec
            /\ elapsed' = 0
            /\ UNCHANGED fresh
       ELSE /\ fresh' = TRUE
            /\ UNCHANGED <<pc, todo, since, elapsed>>
    /\ UNCHANGED <<kind, phase, rec, gateAge, outcome, failures, up, restarts, capped, repeated>>

\* A wallet somebody refreshed since is left alone.
LeaveAlone(i) ==
    /\ pc = "run" /\ i \in todo
    /\ kind = "wallet" /\ ~ItemDue(since[i])
    /\ todo' = todo \ {i}
    /\ UNCHANGED <<kind, phase, rec, gateAge, pc, since, elapsed, outcome, failures, up, restarts, ghosts>>

\* Mutant: the list of the check is worked off without another look.
Wanted_All(i) == i \in todo

Wanted(i) == i \in todo /\ (kind = "wallet" => ItemDue(since[i]))

\* One account, one wallet, one exchange, or the fill.  An exchange's job run is
\* recorded when the window is through.
RunItem(i, result) ==
    LET after(x) == IF kind = "window" THEN Fetched(x, result) ELSE Noted(Fetched(x, result), result) IN
    /\ pc = "run" /\ Wanted(i) /\ result \in Possible
    /\ todo' = todo \ {i}
    /\ rec' = [rec EXCEPT ![i] = after(@)]
    /\ since' = [since EXCEPT ![i] = after(@)]
    /\ outcome' = IF kind = "window" THEN [outcome EXCEPT ![i] = result] ELSE outcome
    /\ failures' = (failures \/ (kind = "ibkr" /\ result \in {"failed", "locked"}))
    /\ capped' = IF result = "bad" /\ kind # "window"
                  THEN [capped EXCEPT ![i] = AtMost(@ + 1, Attempts + 1)] ELSE capped
    /\ repeated' = (repeated \/ (kind = "wallet" /\ ~ItemDue(since[i])))
    /\ UNCHANGED <<kind, phase, gateAge, pc, elapsed, up, restarts, fresh>>

\* record_exchange_runs: one job run per exchange.
RecordWindow(results) ==
    /\ rec' = [i \in Items |-> Noted(rec[i], results[i])]
    /\ since' = [i \in Items |-> Noted(since[i], results[i])]

AllIn ==
    /\ pc = "run" /\ todo = {}
    /\ pc' = "close"
    /\ IF kind = "window" THEN RecordWindow(outcome) ELSE UNCHANGED <<rec, since>>
    /\ outcome' = [i \in Items |-> "none"]
    /\ UNCHANGED <<kind, phase, gateAge, todo, elapsed, failures, up, restarts, ghosts>>

\* The refresh of an exchange raised: the ones before it are committed, and the
\* run is recorded as failed for every exchange of the window.
Raise ==
    /\ pc = "run" /\ kind = "window" /\ todo # {} /\ ~up
    /\ pc' = "close"
    /\ todo' = {}
    /\ RecordWindow([i \in Items |-> "failed"])
    /\ outcome' = [i \in Items |-> "none"]
    /\ UNCHANGED <<kind, phase, gateAge, elapsed, failures, up, restarts, fresh, capped, repeated>>

\* Whether the job is settled, asked again after the run.
Succeeded == ~failures /\ ~AnyDue(since)

\* RetryGate.record, with the time the check began.
Close ==
    /\ pc = "close"
    /\ pc' = "idle"
    /\ gateAge' = IF Succeeded THEN RetryAfter ELSE elapsed
    /\ fresh' = (elapsed = 0)
    /\ since' = [i \in Items |-> NoRuns]
    /\ elapsed' = 0
    /\ failures' = FALSE
    /\ UNCHANGED <<kind, phase, rec, todo, outcome, up, restarts, capped, repeated>>

-----------------------------------------------------------------------------
(* The world *)

\* A person imports the account, refreshes the wallet or the exchange.
Manual(i, result) ==
    /\ kind # "fx" /\ result \in Possible \ {"locked"}
    /\ rec' = [rec EXCEPT ![i] = Noted(Fetched(@, result), result)]
    /\ since' = IF pc = "idle" THEN since
                ELSE [since EXCEPT ![i] = Noted(Fetched(@, result), result)]
    /\ fresh' = FALSE
    /\ UNCHANGED <<kind, phase, gateAge, pc, todo, elapsed, outcome, failures, up, restarts, capped, repeated>>

\* Time passes, the next slot's due time with it.
Tick ==
    /\ phase' = (phase + 1) % SlotLength
    /\ gateAge' = Older(gateAge)
    /\ elapsed' = IF pc = "idle" THEN 0 ELSE Older(elapsed)
    /\ IF phase' = 0
       THEN /\ rec' = [i \in Items |-> [NoRuns EXCEPT !.flawed = kind = "wallet" /\ rec[i].flawed]]
            /\ capped' = [i \in Items |-> 0]
       ELSE UNCHANGED <<rec, capped>>
    /\ fresh' = FALSE
    /\ UNCHANGED <<kind, pc, todo, since, outcome, failures, up, restarts, repeated>>

\* The providers come and go.
Change ==
    /\ up' = ~up
    /\ UNCHANGED <<kind, phase, rec, gateAge, thread, restarts, ghosts>>

\* The gate and the run under way are in memory; what was committed is not.
Restart ==
    /\ restarts < MaxRestarts
    /\ restarts' = restarts + 1
    /\ gateAge' = RetryAfter
    /\ pc' = "idle" /\ todo' = {} /\ elapsed' = 0 /\ failures' = FALSE
    /\ since' = [i \in Items |-> NoRuns]
    /\ outcome' = [i \in Items |-> "none"]
    /\ fresh' = FALSE
    /\ UNCHANGED <<kind, phase, rec, up, capped, repeated>>

Init ==
    /\ kind \in Kinds
    /\ phase = 0 /\ gateAge = RetryAfter /\ up = FALSE /\ restarts = 0
    /\ rec = [i \in Items |-> NoRuns]
    /\ pc = "idle" /\ todo = {} /\ elapsed = 0 /\ failures = FALSE
    /\ since = [i \in Items |-> NoRuns]
    /\ outcome = [i \in Items |-> "none"]
    /\ fresh = FALSE /\ repeated = FALSE
    /\ capped = [i \in Items |-> 0]

Work ==
    \/ Check \/ AllIn \/ Raise \/ Close
    \/ \E i \in Items : LeaveAlone(i) \/ \E result \in Results : RunItem(i, result)

Next ==
    \/ Work \/ Tick \/ Change \/ Restart
    \/ \E i \in Items, result \in Results : Manual(i, result)

Spec == Init /\ [][Next]_vars

\* The interval job is called again and again, its thread is not stopped for
\* ever, and time passes.
FairSpec == Spec /\ WF_vars(Work) /\ WF_vars(Tick)

-----------------------------------------------------------------------------
(* Properties *)

\* Types; nothing is left of a check that ended.
TypeOK ==
    /\ kind \in Kinds /\ phase \in 0..SlotLength - 1
    /\ rec \in [Items -> Record] /\ since \in [Items -> Record]
    /\ gateAge \in 0..RetryAfter /\ elapsed \in 0..RetryAfter
    /\ pc \in {"idle", "run", "close"} /\ todo \subseteq Items
    /\ pc = "idle" => todo = {} /\ elapsed = 0 /\ ~failures /\ since = [i \in Items |-> NoRuns]

\* After a check nothing is due, or an attempt within the retry gap left it so:
\* a run missed while the machine slept is made up for by the first check after
\* it woke, and one that failed is not lost (catchup.py, _run_if_due).
ChecksSettleTheSlot ==
    fresh /\ pc = "idle" /\ AnyDue(rec) => gateAge < RetryAfter

\* No run is spent that its item's rule does not allow.  In one slot the scheduler makes no
\* more flawed runs of an account or a wallet than the cap, whatever people run by hand in
\* between and however often it is restarted: the runs are counted where they are committed.
\* And "a run that already happened is never repeated" (catchup.py), for a wallet that was
\* refreshed between the check and its turn.
NoRunIsWasted ==
    /\ \A i \in Items : capped[i] <= Attempts
    /\ ~repeated

\* Once the providers answer for good, no item stays due: the gate reopens, a
\* restart loses nothing that matters, and every new slot is served.
SlotsAreServed == \A i \in Items : <>[]up => []<>~ItemDue(rec[i])

\* "after that the slot counts as done [...] so a provider outage doesn't spend
\* quota every retry interval all day" (market_data/scheduler.py): a window whose
\* exchanges have all failed as often as the cap is not run again in the slot.
OutagesAreCapped ==
    [][(kind = "window" /\ pc = "idle" /\ pc' = "run") => \E i \in Items : rec[i].bad < Attempts]_vars
================================================================================

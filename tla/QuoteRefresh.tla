----------------------------- MODULE QuoteRefresh -----------------------------
(***************************************************************************)
(* The quote refresh of one exchange.  It maps the assets that belong to   *)
(* the exchange, orders the active symbols by the age of their price, asks *)
(* the providers of the chain in turn for what the one before did not      *)
(* have, and says how it went in three places: a row per provider, which   *)
(* the scheduler reads; a status for the job; a line per symbol for the    *)
(* Data Hub.  All of it is one transaction.                                *)
(*                                                                         *)
(* The assets are the stocks and funds of the database, numbered by id.  A *)
(* trade date of Never is no price.                                        *)
(***************************************************************************)
EXTENDS Integers, Sequences, FiniteSets, FiniteSetsExt

CONSTANTS
    Assets,
    Symbols, NoSymbol,
    Chain,          \* _provider_chain
    DailyLimit,     \* STOCK_DAILY_SYMBOL_LIMIT
    BatchSize,      \* STOCK_REFRESH_BATCH_SIZE
    MaxDay

ASSUME AssetsAssumption == Assets \subseteq Nat /\ IsFiniteSet(Assets)
ASSUME ChainAssumption == Len(Chain) \in Nat
ASSUME MaxDayAssumption == MaxDay \in Nat

Never == 0
PriceDays  == 1 .. MaxDay

\* What a provider has for a symbol: a quote of a day, none, a price that is
\* none, or an error.
NoQuote  == 0
BadPrice == -1
Error    == -2
Quotations == PriceDays \cup {NoQuote, BadPrice, Error}

VARIABLES
    ticker,     \* asset -> the symbol it is quoted by
    belongs,    \* assets whose country or currency is the exchange's
    held,       \* assets with a position today
    unlinked,   \* positions held on the exchange that have no asset
    map,        \* market_symbol_map: asset -> "none", "active", "inactive"
    priced,     \* asset -> its newest trade date
    items,      \* market_data_run_items: asset -> the newest one's status
    runs,       \* market_data_runs of the last refresh: provider, status
    stage,
    step,       \* place in the chain
    all,        \* the symbols of the exchange: asset -> its place in the order they are asked for
    full,       \* full_coverage
    unresolved, invalid, upserted

inputs == <<ticker, belongs, held, unlinked>>
quoteVars == <<inputs, map, priced, items, runs, stage, step, all, full,
               unresolved, invalid, upserted>>

QuoteTypeOK ==
    /\ ticker \in [Assets -> Symbols \cup {NoSymbol}]
    /\ belongs \in SUBSET Assets /\ held \in SUBSET Assets /\ unlinked \in Nat
    /\ map \in [Assets -> {"none", "active", "inactive"}]
    /\ priced \in [Assets -> PriceDays \cup {Never}]
    /\ items \in [Assets -> {"none", "upserted", "fallback_upserted", "missing", "invalid"}]
    /\ runs \in Seq([provider : {Chain[i] : i \in 1 .. Len(Chain)} \cup {"none"},
                     status : {"success", "partial", "failed"}])
    /\ stage \in {"idle", "ask", "done"} /\ step \in Nat \ {0} /\ full \in BOOLEAN
    /\ all \in UNION {[S -> Nat] : S \in SUBSET Assets}
    /\ unresolved \in SUBSET Assets /\ invalid \in SUBSET Assets /\ upserted \in SUBSET Assets

-----------------------------------------------------------------------------
(* Symbols *)

\* _backfill_symbol_map_for_exchange: a symbol is mapped once per exchange.
Backfilled ==
    LET free(a) == \A b \in Assets : map[b] # "none" => ticker[b] # ticker[a]
        first(a) == \A b \in Assets : b < a /\ b \in belongs /\ map[b] = "none" =>
                        ticker[b] # ticker[a]
    IN  [a \in Assets |->
            IF /\ map[a] = "none" /\ a \in belongs /\ ticker[a] # NoSymbol
               /\ free(a) /\ first(a)
            THEN "active" ELSE map[a]]

\* _load_symbols: never priced first, then the oldest price, then the id.
Before(a, b) == priced[a] < priced[b] \/ (priced[a] = priced[b] /\ a < b)
Active(m)    == {a \in Assets : m[a] = "active" /\ ticker[a] # NoSymbol}
Loaded(m)    == [a \in Active(m) |-> Cardinality({b \in Active(m) : b = a \/ Before(b, a)})]

\* The symbols left for another day.
Deferred == IF full THEN {} ELSE {a \in DOMAIN all : all[a] > DailyLimit}
Chosen   == DOMAIN all \ Deferred

\* _symbols_for_provider and _batched: the symbols asked for together.
Asked(rows)   == {ticker[a] : a \in rows}
Position(s)   == Min({all[a] : a \in {b \in DOMAIN all : ticker[b] = s}})
Rank(s, rows) == Cardinality({r \in Asked(rows) : Position(r) < Position(s)})
Together(s, r, rows) == Rank(s, rows) \div BatchSize = Rank(r, rows) \div BatchSize

-----------------------------------------------------------------------------
(* What a refresh finds *)

\* unpriced_held_positions: no asset, no ticker or no quote.
Unpriced == unlinked + Cardinality({a \in held : IF a \in Active(map) THEN priced[a] = Never
                                                                      ELSE a \in belongs})

\* _exchange_diagnostics of a finished refresh, for a symbol.
Told(a) ==
    IF a \in Deferred THEN "deferred"
    ELSE IF items[a] \in {"upserted", "fallback_upserted"} THEN "refreshed"
    ELSE IF items[a] \in {"missing", "invalid"} THEN "failed" ELSE "none"

\* Mutant: quotes that are no price are not counted.
Status_Invalid ==
    IF unresolved = {} /\ Deferred = {} /\ Unpriced = 0 THEN "success" ELSE "partial"

\* The status of the refresh.
Status ==
    IF unresolved = {} /\ invalid = {} /\ Deferred = {} /\ Unpriced = 0
    THEN "success" ELSE "partial"

\* exchange_run_status
JobStatus ==
    IF Chosen # {} /\ upserted = {} THEN "failed"
    ELSE IF Chosen = {} /\ Unpriced > 0 THEN "no_new_data"
    ELSE Status

Run(provider, status) == [provider |-> provider, status |-> status]

-----------------------------------------------------------------------------
(* The refresh *)

Start(coverage) ==
    /\ stage = "idle"
    /\ map' = Backfilled
    /\ all' = Loaded(Backfilled)
    /\ full' = coverage
    /\ unresolved' = Chosen'
    /\ invalid' = {} /\ upserted' = {}
    /\ runs' = <<>> /\ step' = 1
    /\ stage' = "ask"
    /\ UNCHANGED <<inputs, priced, items>>

\* Nothing to ask for: a row all the same if there is no symbol at all.
Empty ==
    /\ stage = "ask" /\ Chosen = {}
    /\ runs' = IF DOMAIN all = {}
               THEN <<Run("none", IF Unpriced > 0 THEN "partial" ELSE "success")>> ELSE runs
    /\ stage' = "done"
    /\ UNCHANGED <<inputs, map, priced, items, step, all, full, unresolved,
                   invalid, upserted>>

\* A batch fails as a whole.
Replies(rows) ==
    {o \in [Asked(rows) -> Quotations] :
        \A s, r \in Asked(rows) : Together(s, r, rows) => (o[s] = Error <=> o[r] = Error)}

Newer(old, new) == IF new > old THEN new ELSE old

\* One provider is asked for what is unresolved.  A price that is none is
\* recorded and not asked for again.
Ask(outcome) ==
    LET got  == {a \in unresolved : outcome[ticker[a]] \in PriceDays}
        bad  == {a \in unresolved : outcome[ticker[a]] = BadPrice}
        rest == unresolved \ (got \cup bad)
        failed == \E s \in Asked(unresolved) : outcome[s] = Error
    IN  /\ stage = "ask" /\ Chosen # {} /\ unresolved # {} /\ step <= Len(Chain)
        /\ priced' = [a \in Assets |-> IF a \in got THEN Newer(priced[a], outcome[ticker[a]])
                                                    ELSE priced[a]]
        /\ items' = [a \in Assets |->
                        IF a \in got THEN (IF step = 1 THEN "upserted" ELSE "fallback_upserted")
                        ELSE IF a \in bad THEN "invalid"
                        ELSE IF a \in rest THEN "missing" ELSE items[a]]
        /\ runs' = Append(runs, Run(Chain[step], IF failed /\ got = {} THEN "failed"
                                                 ELSE IF rest \cup bad # {} THEN "partial"
                                                                            ELSE "success"))
        /\ unresolved' = rest
        /\ invalid' = invalid \cup bad
        /\ upserted' = upserted \cup got
        /\ step' = step + 1
        /\ UNCHANGED <<inputs, map, stage, all, full>>

Finish ==
    /\ stage = "ask" /\ Chosen # {} /\ (unresolved = {} \/ step > Len(Chain))
    /\ stage' = "done"
    /\ UNCHANGED <<inputs, map, priced, items, runs, step, all, full, unresolved,
                   invalid, upserted>>

\* The job is recorded; positions may change before the next refresh.
Record ==
    /\ stage = "done"
    /\ stage' = "idle"
    /\ held' \in SUBSET Assets
    /\ all' = <<>> /\ full' = TRUE /\ step' = 1 /\ runs' = <<>>
    /\ unresolved' = {} /\ invalid' = {} /\ upserted' = {}
    /\ UNCHANGED <<ticker, belongs, unlinked, map, priced, items>>

QuotesInit ==
    /\ ticker \in [Assets -> Symbols \cup {NoSymbol}]
    /\ belongs \in SUBSET Assets /\ held \in SUBSET Assets /\ unlinked \in 0 .. 1
    /\ map \in [Assets -> {"none", "active", "inactive"}]
    /\ priced = [a \in Assets |-> Never]
    /\ items = [a \in Assets |-> "none"]
    /\ runs = <<>> /\ stage = "idle" /\ step = 1
    /\ all = <<>> /\ full = TRUE
    /\ unresolved = {} /\ invalid = {} /\ upserted = {}

QuotesNext ==
    \/ \E coverage \in BOOLEAN : Start(coverage)
    \/ Empty
    \/ \E outcome \in Replies(unresolved) : Ask(outcome)
    \/ Finish
    \/ Record

QuotesSpec == QuotesInit /\ [][QuotesNext]_quoteVars

-----------------------------------------------------------------------------

\* A refresh that says it succeeded wrote a price for every symbol of the
\* exchange, and leaves no position held there without one (D-54).
SuccessMeansPriced ==
    stage = "done" /\ JobStatus = "success" => upserted = Active(map) /\ Unpriced = 0

\* A full refresh whose job has not failed leaves a row that ends the
\* scheduler's window, or it would run again all day (#137, #222).
RefreshesEndWindows ==
    stage = "done" /\ full /\ JobStatus # "failed" =>
        \E i \in 1 .. Len(runs) : runs[i].status \in {"success", "partial"}

\* The Data Hub's line of a symbol is what the refresh did for it, whichever
\* provider had it, and whatever earlier refreshes did.
LinesTellTheRefresh ==
    stage = "done" => \A a \in Active(map) :
        Told(a) = IF a \in upserted THEN "refreshed"
                  ELSE IF a \in Deferred THEN "deferred" ELSE "failed"
===============================================================================

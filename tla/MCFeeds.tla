-------------------------------- MODULE MCFeeds --------------------------------
(***************************************************************************)
(* Small instances of three feeds that share nothing: exchange rates, the  *)
(* dated lines of IBKR statements, and the quotes of an exchange.  They    *)
(* are checked in one run: a behaviour is one of one of them, and the two  *)
(* others rest.                                                            *)
(***************************************************************************)
EXTENDS FxRates, QuoteRefresh, FlexLines, TLC

VARIABLE part

TwoProviders == <<"p1", "p2">>
Symmetry == Permutations(Threads) \cup Permutations(Rates)

RatesRest  == FxInit /\ stored = [d \in Days |-> None]
LinesRest  == LinesInit /\ kind = "ledger"
QuotesRest == QuotesInit /\ ticker = [a \in Assets |-> NoSymbol] /\ belongs = {} /\ held = {}
              /\ unlinked = 0 /\ map = [a \in Assets |-> "none"]

MCInit ==
    \/ part = "rates"  /\ FxInit     /\ LinesRest /\ QuotesRest
    \/ part = "lines"  /\ RatesRest  /\ LinesInit /\ QuotesRest
    \/ part = "quotes" /\ RatesRest  /\ LinesRest /\ QuotesInit

OfRates  == part = "rates" /\ UNCHANGED <<part, linesVars, quoteVars>>
OfLines  == part = "lines" /\ UNCHANGED <<part, fxVars, quoteVars>>
OfQuotes == part = "quotes" /\ UNCHANGED <<part, fxVars, linesVars>>

\* The actions of the three, one by one: TLC counts what each one does.
MCNext ==
    \/ \E t \in Threads, d \in Days : OfRates /\ Read(t, d)
    \/ \E t \in Threads : OfRates /\ FillDaily(t)
    \/ \E t \in Threads : OfRates /\ Look(t)
    \/ \E t \in Threads : OfRates /\ Enter(t)
    \/ \E t \in Threads : OfRates /\ CallFails(t)
    \/ \E t \in Threads, new \in Table : OfRates /\ CallReturns(t, new)
    \/ \E t \in Threads : OfRates /\ StoreFails(t)
    \/ \E t \in Threads : OfRates /\ Reread(t)
    \/ \E t \in Threads : OfRates /\ Keep(t)
    \/ \E t \in Threads, new \in Table : OfRates /\ Bring(t, new)
    \/ \E t \in Threads : OfRates /\ Upsert(t)
    \/ \E t \in Threads : OfRates /\ StoreNothing(t)
    \/ \E t \in Threads : OfRates /\ Commit(t)
    \/ \E t \in Threads : OfRates /\ DropAgain(t)
    \/ \E d \in Days : OfRates /\ Expire(d)
    \/ OfLines /\ \E i \in Ids, d \in Dates : \E body \in Bodies(i, d) : Issue(i, body)
    \/ OfLines /\ \E l \in Of(NoId) : Charge(l)
    \/ OfLines /\ \E W \in (SUBSET Dates) \ {{}} : \E twice \in Repeated(W) :
                     \E report \in Listings(W, twice) : Import(W, report)
    \/ OfQuotes /\ \E coverage \in BOOLEAN : Start(coverage)
    \/ OfQuotes /\ Empty
    \/ OfQuotes /\ \E outcome \in Replies(unresolved) : Ask(outcome)
    \/ OfQuotes /\ Finish
    \/ OfQuotes /\ Record

MCSpec == MCInit /\ [][MCNext]_<<part, fxVars, linesVars, quoteVars>>
================================================================================

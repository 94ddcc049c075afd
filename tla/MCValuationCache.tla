--------------------------- MODULE MCValuationCache ---------------------------
(* Small instances of ValuationCache.  Everything at once is more than TLC   *)
(* can take, so an instance meets one of three mixes: a commit of another    *)
(* thread, a request that writes, with helpers of two keys that call each    *)
(* other, or a request that writes and a commit of another process.          *)
EXTENDS ValuationCache, TLC

CONSTANTS r1, r2, w1, x1, k1, k2

TwoRequests == {r1, r2}
OneUpdater  == {r1}
OneWriter   == {w1}
OneOutsider == {x1}
TwoKeys     == {k1, k2}

VARIABLE mix

MCInit ==
    /\ Init
    /\ mix \in {"writer", "updater", "outsider"}
    /\ key = [r \in Requests |-> k1]

MCNext ==
    /\ UNCHANGED mix
    /\ \/ \E w \in Writers : mix = "writer" /\ WriterStep(w)
       \/ \E w \in Outsiders : mix = "outsider" /\ OutsiderStep(w)
       \/ \E r \in Requests : Start(r)
       \/ \E r \in Requests, k \in Keys : (k = k1 \/ mix = "updater") /\ Call(r, k)
       \/ \E r \in Requests : mix # "writer" /\ BeginWrite(r)
       \/ \E r \in Requests : Finish(r)
       \/ \E r \in Requests : RequestStep(r)
       \/ \E k \in Keys : Evict(k)

MCFairSpec == MCInit /\ [][MCNext]_<<vars, mix>> /\ \A r \in Requests : WF_vars(RequestStep(r))
===============================================================================

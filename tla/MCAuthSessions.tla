---------------------------- MODULE MCAuthSessions -----------------------------
(* Small instances of AuthSessions.                                        *)
EXTENDS AuthSessions, TLC

CONSTANTS r1, r2, b1, b2

TwoRequests == {r1, r2}
TwoBrowsers == {b1, b2}
OneBrowser  == {b1}

AuthSymmetry == Permutations(Requests) \cup Permutations(Browsers)
================================================================================

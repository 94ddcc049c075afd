----------------------------- MODULE AuthSessions ------------------------------
(***************************************************************************)
(* The login sessions of one user: rows of auth_sessions, the browsers     *)
(* that keep a refresh token in a cookie, and the requests between them.   *)
(* A request carries the cookie its browser had when it was sent, and the  *)
(* answers of one browser's requests arrive in any order.                  *)
(*                                                                         *)
(* The database is PostgreSQL at READ COMMITTED: a SELECT sees what is     *)
(* committed, and an UPDATE waits for a row another transaction holds and  *)
(* then looks at it again.  A token stands for its row; tokens are         *)
(* numbered in the order they are made.                                    *)
(***************************************************************************)
EXTENDS Integers, FiniteSets

CONSTANTS
    Browsers,
    Requests,
    Grace,      \* AUTH_REFRESH_GRACE_SECONDS, in ticks: 0 is less than a tick, and
                \* -1 no grace at all
    Lifetime,   \* refresh_token_ttl_seconds(), in ticks
    MaxTokens,  \* bound on the sessions ever made
    MaxClock,   \* bound on the clock
    MaxChanges, \* bound on the password changes
    MaxSends,   \* bound on the requests sent
    Nobody      \* no request, and no browser

ASSUME TimesAssumption == Grace \in Nat \cup {-1} /\ Lifetime \in Nat /\ MaxClock \in Nat
ASSUME BoundsAssumption == MaxTokens \in Nat /\ MaxChanges \in Nat /\ MaxSends \in Nat
ASSUME NobodyAssumption == Nobody \notin Requests \cup Browsers

NoToken == 0
Tokens  == 1..MaxTokens
Times   == 0..MaxClock
Reasons == {"rotation", "logout", "security", "password_change"}

VARIABLES
    clock,
    password,  \* how often the password was changed
    state,     \* per token: "unused", "active" or its revoke_reason
    at,        \* created_at of an open session, revoked_at of a closed one
    holder,    \* the request whose open transaction updated the row
    cookie,    \* per browser
    sends,     \* the requests sent so far
    req,       \* per request: what it does, how far it is, what it read
    spent,     \* ghost: per token, the token that was rotated for it
    chain,     \* ghost: per token, the password its chain of sessions began
               \* with, or Overran when a password change overlapped the chain
    lone       \* ghost: browsers that always had one request under way at most,
               \* lost no answer and had no session ended by another browser

rows   == <<state, at, holder>>
ghosts == <<spent, chain, lone>>
vars   == <<clock, password, rows, cookie, sends, req, ghosts>>

Overran == -1

Idle == [kind |-> "none", at |-> "idle", browser |-> Nobody, token |-> NoToken, now |-> 0,
         pick |-> NoToken, others |-> {}, knows |-> 0, overran |-> FALSE]

\* The request is over but for its answer, which carries token t.
Answering(r, t) ==
    [Idle EXCEPT !.kind = req[r].kind, !.at = "answer", !.browser = req[r].browser, !.pick = t]

Busy(b)   == {r \in Requests : req[r].browser = b}
Active    == {t \in Tokens : state[t] = "active"}
Used      == {t \in Tokens : state[t] # "unused"}
Live(t, now)  == state[t] = "active" /\ now < at[t] + Lifetime
FreeFor(r, t) == holder[t] \in {Nobody, r}

\* A password change whose UPDATE has begun and is not committed.
Changing == {r \in Requests : req[r].at = "change"}

-----------------------------------------------------------------------------
(* Requests *)

\* The browser sends a request with the cookie it has.
Send(r, b, kind) ==
    /\ req[r].at = "idle"
    /\ kind = "password" => password < MaxChanges
    /\ sends < MaxSends
    /\ sends' = sends + 1
    /\ req' = [req EXCEPT ![r] = [Idle EXCEPT !.kind = kind, !.at = "start", !.browser = b,
                                              !.token = cookie[b],
                                              !.now = IF kind = "refresh" THEN clock ELSE 0]]
    /\ lone' = IF Busy(b) = {} THEN lone ELSE lone \ {b}
    /\ UNCHANGED <<clock, password, rows, cookie, spent, chain>>

\* login, the check: the password given is the one in force and the user is
\* active; the throttle only refuses.
CheckPassword(r) ==
    /\ req[r].kind = "login" /\ req[r].at = "start"
    /\ req' = [req EXCEPT ![r].at = "insert", ![r].knows = password]
    /\ UNCHANGED <<clock, password, rows, cookie, sends, ghosts>>

\* A login that fails leaves the cookie alone.
RefuseLogin(r) ==
    /\ req[r].kind = "login" /\ req[r].at = "start"
    /\ req' = [req EXCEPT ![r] = Idle]
    /\ UNCHANGED <<clock, password, rows, cookie, sends, ghosts>>

\* Mutant: a SELECT finds the session and an unconditional UPDATE revokes it.
Claim_Selected(r, enabled) ==
    LET t == req[r].token IN
    /\ req[r].kind = "refresh" /\ req[r].at = "start" /\ t # NoToken
    /\ Live(t, req[r].now)
    /\ req' = [req EXCEPT ![r].at = "insert", ![r].pick = t]
    /\ UNCHANGED <<clock, password, rows, cookie, sends, ghosts>>

\* refresh: one UPDATE claims the session the cookie names.  When the user is
\* inactive (set by hand in the database) the claim stays in the transaction and
\* is committed with the refusal.
Claim(r, enabled) ==
    LET t == req[r].token IN
    /\ req[r].kind = "refresh" /\ req[r].at = "start" /\ t # NoToken
    /\ FreeFor(r, t) /\ Live(t, req[r].now)
    /\ holder' = [holder EXCEPT ![t] = r]
    /\ req' = [req EXCEPT ![r].at = IF enabled THEN "insert" ELSE "refuse", ![r].pick = t]
    /\ UNCHANGED <<clock, password, state, at, cookie, sends, ghosts>>

\* The UPDATE found no row: the token may have been rotated moments ago.
Unclaimed(r) ==
    LET t == req[r].token IN
    /\ req[r].kind = "refresh" /\ req[r].at = "start"
    /\ t # NoToken => FreeFor(r, t) /\ ~Live(t, req[r].now)
    /\ req' = [req EXCEPT ![r].at = IF t # NoToken /\ Grace >= 0 THEN "grace" ELSE "refuse"]
    /\ UNCHANGED <<clock, password, rows, cookie, sends, ghosts>>

\* The grace path: the token was revoked by rotation within the grace period of
\* the request's start, and the user has an active session, the newest of which
\* is picked, whichever browser it belongs to.
Recent(r) ==
    LET t == req[r].token IN
    state[t] = "rotation" /\ at[t] >= req[r].now - Grace

Candidates(r) == {t \in Tokens : Live(t, req[r].now)}

Pick(r, enabled) ==
    /\ req[r].at = "grace"
    /\ IF enabled /\ Recent(r) /\ Candidates(r) # {}
       THEN req' = [req EXCEPT ![r].at = "rotate",
                               ![r].pick = CHOOSE t \in Candidates(r) : \A u \in Candidates(r) : u <= t]
       ELSE req' = [req EXCEPT ![r].at = "refuse"]
    /\ UNCHANGED <<clock, password, rows, cookie, sends, ghosts>>

\* The browsers that hold a token or are about to be given it.
HoldersOf(t) ==
    {b \in Browsers : cookie[b] = t \/ \E r \in Busy(b) : req[r].at = "answer" /\ req[r].pick = t}

\* The picked session is rotated unless somebody else was first.
Rotate(r) ==
    LET t == req[r].pick IN
    /\ req[r].at = "rotate" /\ FreeFor(r, t)
    /\ IF state[t] = "active"
       THEN /\ holder' = [holder EXCEPT ![t] = r]
            /\ req' = [req EXCEPT ![r].at = "insert"]
            /\ lone' = lone \ (HoldersOf(t) \ {req[r].browser})
       ELSE /\ req' = [req EXCEPT ![r].at = "refuse", ![r].pick = NoToken]
            /\ UNCHANGED <<holder, lone>>
    /\ UNCHANGED <<clock, password, state, at, cookie, sends, spent, chain>>

\* _create_refresh_session and the commit: the claimed session is revoked and
\* the new one is there, in one transaction.
Insert(r) ==
    LET old == req[r].pick
        n   == Cardinality(Used) + 1 IN
    /\ req[r].at = "insert" /\ n \in Tokens
    /\ state'   = [t \in Tokens |-> IF t = n THEN "active" ELSE IF t = old THEN "rotation" ELSE state[t]]
    /\ at' = [t \in Tokens |-> IF t = n THEN clock ELSE IF t = old THEN req[r].now ELSE at[t]]
    /\ holder'  = [t \in Tokens |-> IF holder[t] = r THEN Nobody ELSE holder[t]]
    /\ req' = [req EXCEPT ![r] = Answering(r, n)]
    /\ spent' = [spent EXCEPT ![n] = old]
    /\ chain' = [chain EXCEPT ![n] = IF req[r].overran \/ Changing # {} THEN Overran
                                      ELSE IF old = NoToken THEN req[r].knows ELSE chain[old]]
    /\ UNCHANGED <<clock, password, cookie, sends, lone>>

\* The refusal: a session that is still open (an expired one) is revoked, a
\* claim made for an inactive user stays revoked by rotation.
Refuse(r) ==
    LET t == req[r].token
        reason == IF holder[t] = r THEN "rotation" ELSE "security" IN
    /\ req[r].at = "refuse"
    /\ t # NoToken => FreeFor(r, t)
    /\ IF t # NoToken /\ state[t] = "active"
       THEN /\ state' = [state EXCEPT ![t] = reason]
            /\ at' = [at EXCEPT ![t] = req[r].now]
            /\ holder' = [holder EXCEPT ![t] = Nobody]
       ELSE UNCHANGED <<state, at, holder>>
    /\ req' = [req EXCEPT ![r] = Answering(r, NoToken)]
    /\ UNCHANGED <<clock, password, cookie, sends, ghosts>>

\* logout: the session of the cookie it was sent with, if it is still open.
Logout(r) ==
    LET t == req[r].token IN
    /\ req[r].kind = "logout" /\ req[r].at = "start"
    /\ t # NoToken => FreeFor(r, t)
    /\ IF t # NoToken /\ state[t] = "active"
       THEN /\ state' = [state EXCEPT ![t] = "logout"]
            /\ at' = [at EXCEPT ![t] = clock]
       ELSE UNCHANGED <<state, at>>
    /\ req' = [req EXCEPT ![r] = Answering(r, NoToken)]
    /\ UNCHANGED <<clock, password, holder, cookie, sends, ghosts>>

\* The answer of a login, a refresh or a logout sets or deletes the cookie.
Answer(r) ==
    /\ req[r].at = "answer"
    /\ cookie' = [cookie EXCEPT ![req[r].browser] = req[r].pick]
    /\ req' = [req EXCEPT ![r] = Idle]
    /\ UNCHANGED <<clock, password, rows, sends, ghosts>>

-----------------------------------------------------------------------------
(* Changing the password *)

\* Mutant: the caller's own session is signed out with the others.
Others_Everybody(r) == Active

\* Mutant: the comparison with the caller's token is the wrong way round.
Others_Inverted(r) == Active \cap {req[r].token}

\* The rows of set_user_password's UPDATE: the open sessions but the caller's.
\* The command line's change has no cookie, as has a browser without one.
Others(r) == Active \ {req[r].token}

\* change_password: the current password was right, the new one is written (two
\* changes wait for each other at that row), and the UPDATE of the sessions begins.
BeginChange(r) ==
    /\ req[r].kind = "password" /\ req[r].at = "start"
    /\ Changing = {}
    /\ req' = [req EXCEPT ![r].at = "change", ![r].others = Others(r), ![r].now = clock]
    /\ UNCHANGED <<clock, password, rows, cookie, sends, ghosts>>

\* The UPDATE has waited for every row another request holds, and commits with
\* the new password.  The kept session goes on under the new password.
Change(r) ==
    LET ended == req[r].others \cap Active IN
    /\ req[r].at = "change"
    /\ \A t \in req[r].others : FreeFor(r, t)
    /\ password' = password + 1
    /\ state' = [t \in Tokens |-> IF t \in ended THEN "password_change" ELSE state[t]]
    /\ at' = [t \in Tokens |-> IF t \in ended THEN req[r].now ELSE at[t]]
    /\ chain' = [t \in Tokens |-> IF t = req[r].token THEN password + 1 ELSE chain[t]]
    /\ lone' = lone \ UNION {HoldersOf(t) : t \in ended \ {req[r].token}}
    /\ req' = [s \in Requests |->
                 IF s = r THEN Idle
                 ELSE IF req[s].at \in {"insert", "change"} THEN [req[s] EXCEPT !.overran = TRUE]
                 ELSE req[s]]
    /\ UNCHANGED <<clock, holder, cookie, sends, spent>>

-----------------------------------------------------------------------------
(* Outside the requests *)

\* A server or a network failure before the answer: the transaction is rolled
\* back, or its answer is lost.
Lose(r) ==
    /\ req[r].at # "idle"
    /\ holder' = [t \in Tokens |-> IF holder[t] = r THEN Nobody ELSE holder[t]]
    /\ req' = [req EXCEPT ![r] = Idle]
    /\ lone' = lone \ {req[r].browser}
    /\ UNCHANGED <<clock, password, state, at, cookie, sends, spent, chain>>

Tick ==
    /\ clock < MaxClock
    /\ clock' = clock + 1
    /\ UNCHANGED <<password, rows, cookie, sends, req, ghosts>>

Init ==
    /\ clock = 0 /\ password = 0 /\ sends = 0
    /\ state = [t \in Tokens |-> "unused"]
    /\ at = [t \in Tokens |-> 0]
    /\ holder = [t \in Tokens |-> Nobody]
    /\ cookie = [b \in Browsers |-> NoToken]
    /\ req = [r \in Requests |-> Idle]
    /\ spent = [t \in Tokens |-> NoToken] /\ chain = [t \in Tokens |-> 0]
    /\ lone = Browsers

Kinds == {"login", "refresh", "logout", "password"}

Serve(r) ==
    \/ CheckPassword(r) \/ RefuseLogin(r)
    \/ \E enabled \in BOOLEAN : Claim(r, enabled) \/ Pick(r, enabled)
    \/ Unclaimed(r) \/ Rotate(r) \/ Insert(r) \/ Refuse(r)
    \/ Logout(r) \/ BeginChange(r) \/ Change(r)
    \/ Answer(r) \/ Lose(r)

Next ==
    \/ \E r \in Requests : Serve(r) \/ \E b \in Browsers, kind \in Kinds : Send(r, b, kind)
    \/ Tick

Spec == Init /\ [][Next]_vars

-----------------------------------------------------------------------------
(* Properties *)

Stages  == {"idle", "start", "grace", "rotate", "insert", "refuse", "change", "answer"}
Request == [kind : Kinds \cup {"none"}, at : Stages, browser : Browsers \cup {Nobody},
            token : Tokens \cup {NoToken}, now : Times, pick : Tokens \cup {NoToken},
            others : SUBSET Tokens, knows : Nat, overran : BOOLEAN]

TypeOK ==
    /\ clock \in Times /\ sends \in Nat /\ password \in Nat
    /\ state \in [Tokens -> {"unused", "active"} \cup Reasons]
    /\ at \in [Tokens -> Times]
    /\ holder \in [Tokens -> Requests \cup {Nobody}]
    /\ cookie \in [Browsers -> Tokens \cup {NoToken}]
    /\ req \in [Requests -> Request]
    /\ spent \in [Tokens -> Tokens \cup {NoToken}]
    /\ chain \in [Tokens -> Nat \cup {Overran}]
    /\ lone \subseteq Browsers

\* However many tabs refresh with one token, and whoever takes the grace path, a
\* session is exchanged for at most one other, and an exchanged session is closed
\* for that reason: the claim is one UPDATE (auth.py refresh).
EachSessionIsExchangedOnce ==
    \A t, u \in Used :
        spent[t] # NoToken =>
            /\ state[spent[t]] = "rotation"
            /\ spent[t] = spent[u] => t = u

\* A revoked session keeps the reason and the time it was revoked with: the grace
\* path reads both, so a later refusal or sign-out must not rewrite them.
RevocationsStand ==
    [][\A t \in Tokens : state[t] \in Reasons => state'[t] = state[t] /\ at'[t] = at[t]]_vars

\* After a password change no session opened with an older password is left,
\* except the caller's and the ones a request that the change overlapped made
\* (set_user_password: "sign out the user's other sessions").
OldPasswordsOpenNothing ==
    \A t \in Active : chain[t] \in {password, Overran}

\* A browser that sends one request at a time, and loses no answer, always holds
\* the token of an open session, unless another browser ended that session or it
\* expired: rotation by itself signs nobody out.
LoneBrowsersStaySignedIn ==
    \A b \in Browsers :
        b \in lone /\ Busy(b) = {} /\ cookie[b] # NoToken => state[cookie[b]] = "active"

\* When the requests of a browser that refreshes from several tabs are answered,
\* its cookie is the token of an open session ("so this caller converges on the
\* same session every other racer landed on", routers/auth.py).
TabsConverge ==
    [][\A b \in Browsers :
        Busy(b) # {} /\ Busy(b)' = {} /\ cookie'[b] \notin {cookie[b], NoToken}
            => state'[cookie'[b]] # "rotation"]_vars
================================================================================

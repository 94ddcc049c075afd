--------------------------- MODULE AuthSessionsProofs ---------------------------
(***************************************************************************)
(* The login sessions, for any number of browsers, requests and sessions:  *)
(* a session is exchanged for one other at most, a revoked session keeps   *)
(* its reason and time, no session opened with an older password is left   *)
(* open, and rotation alone signs no browser out.                          *)
(*                                                                         *)
(* The inductive invariant is built in four parts, each kept by the steps  *)
(* given the parts before it: who holds the rows that are open (RowsInv),  *)
(* what was exchanged for what (ExchangeInv), which password an open       *)
(* session goes back to (PasswordInv), and whose token is whose (LoneInv). *)
(***************************************************************************)
EXTENDS AuthSessions, FiniteSetTheorems, WellFoundedInduction, TLAPS

\* Sessions are numbered as they are made.
Numbered == \E k \in Nat : Used = 1 .. k

\* A row a transaction holds is open, and that transaction is going to replace or revoke it.
HeldAreOpen ==
    \A t \in Tokens : holder[t] # Nobody =>
        /\ state[t] = "active"
        /\ \/ req[holder[t]].at = "insert" /\ req[holder[t]].pick = t
           \/ req[holder[t]].at = "refuse" /\ req[holder[t]].token = t

\* A request about to insert holds the row it replaces.
InsertersHold ==
    \A r \in Requests :
        req[r].at = "insert" /\ req[r].pick # NoToken => holder[req[r].pick] = r

\* A request has picked no row before it has read one, and one before it rotates it.
ReadersPick == \A r \in Requests : /\ req[r].at = "start" => req[r].pick = NoToken
                                   /\ req[r].at = "rotate" => req[r].pick # NoToken

RowsInv == TypeOK /\ Numbered /\ HeldAreOpen /\ InsertersHold /\ ReadersPick

\* What a session was exchanged for is a later one, exchanged at most once and closed for it.
ExchangeInv ==
    \A t \in Used :
        spent[t] # NoToken =>
            /\ spent[t] \in Used /\ spent[t] < t /\ state[spent[t]] = "rotation"
            /\ \A u \in Used : spent[t] = spent[u] => t = u

\* A login checked the password in force, unless a change overtook it; and what a change under
\* way does not close was opened during it or is the caller's.
PasswordInv ==
    /\ \A t \in Active : chain[t] \in {password, Overran}
    /\ \A r \in Requests : req[r].at = "insert" /\ req[r].pick = NoToken /\ ~ req[r].overran
          => req[r].knows = password
    /\ \A r, s \in Changing : r = s
    /\ \A r \in Changing : \A t \in Active :
          t \in req[r].others \/ t = req[r].token \/ chain[t] = Overran

\* A browser has a token: in its cookie, in a request it sent, or in an answer on its way.
Has(b, t) == \/ cookie[b] = t
             \/ \E r \in Busy(b) : req[r].token = t \/ (req[r].at = "answer" /\ req[r].pick = t)

\* A request that is not idle is of a browser; one on the grace path has a token; a password
\* change does not close the session it was asked in.
RequestsFit ==
    \A r \in Requests :
        /\ req[r].at = "idle" <=> req[r].browser = Nobody
        /\ req[r].at = "grace" => req[r].token # NoToken
        /\ req[r].at = "change" => req[r].token \notin req[r].others

\* Tokens that browsers have were made, and no two browsers have the same.
TokensAreOnes ==
    \A b \in Browsers, t \in Tokens : Has(b, t) =>
        t \in Used /\ \A c \in Browsers : Has(c, t) => c = b

\* A lone browser has one request at most, made with the cookie it has; until the answer that
\* cookie's session is open, and the answer brings an open one or none.
GoesOn(b) ==
    /\ \A r, s \in Busy(b) : r = s
    /\ Busy(b) = {} /\ cookie[b] # NoToken => state[cookie[b]] = "active"
    /\ \A r \in Busy(b) :
          /\ req[r].at = "answer" /\ req[r].pick # NoToken => state[req[r].pick] = "active"
          /\ req[r].at # "answer" =>
                /\ req[r].token = cookie[b] /\ req[r].at # "rotate"
                /\ cookie[b] # NoToken => state[cookie[b]] = "active"

LoneGoOn == \A b \in lone : GoesOn(b)

\* The row a request replaces is its own, or is not what a lone browser goes on with.
OthersAreLeft ==
    \A r \in Requests, t \in Tokens : \A b \in lone :
        req[r].at = "insert" /\ req[r].pick = t /\ b # req[r].browser => b \notin HoldersOf(t)

LoneInv == RequestsFit /\ TokensAreOnes /\ LoneGoOn /\ OthersAreLeft


(***************************************************************************)
(* Types.                                                                  *)
(***************************************************************************)

LEMMA TokensAreNumbers ==
    /\ MaxTokens \in Nat /\ Tokens \subseteq Nat /\ NoToken \notin Tokens /\ NoToken \in Nat
    /\ Nobody \notin Requests /\ Nobody \notin Browsers
  BY BoundsAssumption, NobodyAssumption DEF Tokens, NoToken

LEMMA Fields ==
    ASSUME TypeOK, NEW r \in Requests
    PROVE  /\ req[r] \in Request
           /\ req[r].kind \in Kinds \cup {"none"} /\ req[r].at \in Stages
           /\ req[r].browser \in Browsers \cup {Nobody}
           /\ req[r].token \in Tokens \cup {NoToken} /\ req[r].now \in Times
           /\ req[r].pick \in Tokens \cup {NoToken} /\ req[r].others \in SUBSET Tokens
           /\ req[r].knows \in Nat /\ req[r].overran \in BOOLEAN
  <1>1. req[r] \in Request
    BY DEF TypeOK
  <1> QED
    BY <1>1 DEF Request

LEMMA IdleType ==
    /\ Idle \in Request
    /\ Idle.kind = "none" /\ Idle.at = "idle" /\ Idle.browser = Nobody /\ Idle.token = NoToken
    /\ Idle.pick = NoToken /\ Idle.overran = FALSE
  BY TimesAssumption DEF Idle, Request, Stages, Times

LEMMA AnsweringType ==
    ASSUME TypeOK, NEW r \in Requests, NEW t \in Tokens \cup {NoToken}
    PROVE  /\ Answering(r, t) \in Request
           /\ Answering(r, t).at = "answer" /\ Answering(r, t).kind = req[r].kind
           /\ Answering(r, t).browser = req[r].browser /\ Answering(r, t).pick = t
           /\ Answering(r, t).token = NoToken /\ Answering(r, t).overran = FALSE
  BY Fields, IdleType DEF Answering, Idle, Request, Stages

\* A bounded set of numbers that is not empty has a greatest one.
LEMMA HasGreatest ==
    ASSUME NEW n \in Nat, NEW S \in SUBSET (0 .. n), S # {}
    PROVE  \E t \in S : \A u \in S : u <= t
  <1> DEFINE Far == {n - d : d \in S}
  <1>1. PICK s \in S : TRUE
    OBVIOUS
  <1>2. n - s \in Far
    OBVIOUS
  <1>3. Far \subseteq Nat /\ Far # {}
    BY <1>2
  <1>4. \E x \in Far : \A y \in Far : ~ (<<y, x>> \in OpToRel(<, Nat))
    <2> HIDE DEF Far
    <2> QED
      BY <1>3, WFMin, NatLessThanWellFounded
  <1>5. PICK x \in Far : \A y \in Far : ~ (y < x)
    BY <1>3, <1>4 DEF OpToRel
  <1>6. PICK m \in S : x = n - m
    OBVIOUS
  <1>7. \A d \in S : d <= m
    <2> SUFFICES ASSUME NEW d \in S PROVE d <= m
      OBVIOUS
    <2>1. n - d \in Far
      OBVIOUS
    <2>2. ~ (n - d < n - m)
      BY <1>5, <1>6, <2>1
    <2> QED
      BY <2>2
  <1> QED
    BY <1>7

\* The session the grace path picks is an open one.
LEMMA PickedIsOpen ==
    ASSUME NEW r \in Requests, Candidates(r) # {}
    PROVE  (CHOOSE t \in Candidates(r) : \A u \in Candidates(r) : u <= t) \in Candidates(r)
  <1>1. Candidates(r) \in SUBSET (0 .. MaxTokens)
    BY TokensAreNumbers DEF Candidates, Tokens
  <1>2. \E t \in Candidates(r) : \A u \in Candidates(r) : u <= t
    BY <1>1, HasGreatest, TokensAreNumbers
  <1> QED
    BY <1>2

\* The number of the next session.
LEMMA NextIsNew ==
    ASSUME Numbered
    PROVE  /\ Cardinality(Used) \in Nat /\ Used = 1 .. Cardinality(Used)
           /\ Cardinality(Used) + 1 \notin Used
           /\ \A t \in Used : t < Cardinality(Used) + 1
           /\ Used \cup {Cardinality(Used) + 1} = 1 .. Cardinality(Used) + 1
  <1>1. PICK k \in Nat : Used = 1 .. k
    BY DEF Numbered
  <1>2. Cardinality(1 .. k) = k
    BY FS_Interval
  <1>3. Cardinality(Used) = k
    BY <1>1, <1>2
  <1> QED
    BY <1>1, <1>3

LEMMA Moved ==
    ASSUME TypeOK, NEW r \in Requests, NEW stage \in Stages
    PROVE  /\ [req[r] EXCEPT !.at = stage] \in Request
           /\ \A t \in Tokens \cup {NoToken} :
                 [req[r] EXCEPT !.at = stage, !.pick = t] \in Request
           /\ \A k \in Nat : [req[r] EXCEPT !.at = stage, !.knows = k] \in Request
           /\ \A others \in SUBSET Tokens, now \in Times :
                 [req[r] EXCEPT !.at = stage, !.others = others, !.now = now] \in Request
  <1>1. PICK q \in Request : q = req[r]
    BY Fields
  <1>2. /\ [q EXCEPT !.at = stage] \in Request
        /\ \A t \in Tokens \cup {NoToken} : [q EXCEPT !.at = stage, !.pick = t] \in Request
        /\ \A k \in Nat : [q EXCEPT !.at = stage, !.knows = k] \in Request
        /\ \A others \in SUBSET Tokens, now \in Times :
              [q EXCEPT !.at = stage, !.others = others, !.now = now] \in Request
    BY DEF Request
  <1> QED
    BY <1>1, <1>2

LEMMA StagesAre ==
    /\ "idle" \in Stages /\ "start" \in Stages /\ "grace" \in Stages /\ "rotate" \in Stages
    /\ "insert" \in Stages /\ "refuse" \in Stages /\ "change" \in Stages /\ "answer" \in Stages
  BY DEF Stages

\* A step of request r writes its own record only, but for a password change that commits.
LEMMA WriteOne ==
    ASSUME TypeOK, NEW r \in Requests, NEW next \in Request, req' = [req EXCEPT ![r] = next]
    PROVE  req' \in [Requests -> Request]
  BY DEF TypeOK

LEMMA SendType ==
    ASSUME TypeOK, NEW r \in Requests, NEW b \in Browsers, NEW kind \in Kinds, Send(r, b, kind)
    PROVE  TypeOK'
  <1> DEFINE next == [Idle EXCEPT !.kind = kind, !.at = "start", !.browser = b,
                                  !.token = cookie[b],
                                  !.now = IF kind = "refresh" THEN clock ELSE 0]
  <1>1. next \in Request
    <2>1. (IF kind = "refresh" THEN clock ELSE 0) \in Times
      BY TimesAssumption DEF TypeOK, Times
    <2>2. cookie[b] \in Tokens \cup {NoToken}
      BY DEF TypeOK
    <2> QED
      BY <2>1, <2>2, IdleType DEF Request, Stages
  <1>2. req' \in [Requests -> Request]
    BY <1>1, WriteOne DEF Send
  <1> QED
    BY <1>2 DEF Send, TypeOK, rows

\* The steps that only move a request on.
LEMMA MoveType ==
    ASSUME TypeOK, NEW r \in Requests,
           \/ CheckPassword(r) \/ RefuseLogin(r) \/ Unclaimed(r) \/ BeginChange(r)
           \/ \E enabled \in BOOLEAN : Pick(r, enabled)
    PROVE  TypeOK' /\ UNCHANGED <<clock, password, rows, cookie, sends, ghosts>>
  <1>1. UNCHANGED <<clock, password, rows, cookie, sends, ghosts>>
    BY DEF CheckPassword, RefuseLogin, Unclaimed, BeginChange, Pick
  <1>2. req' \in [Requests -> Request]
    <2>1. CASE CheckPassword(r)
      <3>1. req' = [req EXCEPT ![r] = [req[r] EXCEPT !.at = "insert", !.knows = password]]
        BY <2>1 DEF CheckPassword, TypeOK
      <3> QED
        BY <3>1, Moved, StagesAre, WriteOne DEF TypeOK
    <2>2. CASE RefuseLogin(r)
      BY <2>2, IdleType, WriteOne DEF RefuseLogin
    <2>3. CASE Unclaimed(r)
      BY <2>3, Fields DEF Unclaimed, TypeOK, Request, Stages
    <2>4. CASE BeginChange(r)
      <3>1. Others(r) \in SUBSET Tokens
        BY DEF Others, Active
      <3>2. req' = [req EXCEPT ![r] = [req[r] EXCEPT !.at = "change", !.others = Others(r),
                                                     !.now = clock]]
        BY <2>4 DEF BeginChange, TypeOK
      <3> QED
        BY <3>1, <3>2, Moved, StagesAre, WriteOne DEF TypeOK
    <2>5. CASE \E enabled \in BOOLEAN : Pick(r, enabled)
      <3> DEFINE t == CHOOSE x \in Candidates(r) : \A u \in Candidates(r) : u <= x
      <3>1. Candidates(r) # {} => t \in Tokens
        BY PickedIsOpen DEF Candidates
      <3>2. \/ req' = [req EXCEPT ![r] = [req[r] EXCEPT !.at = "refuse"]]
            \/ /\ Candidates(r) # {}
               /\ req' = [req EXCEPT ![r] = [req[r] EXCEPT !.at = "rotate", !.pick = t]]
        BY <2>5 DEF Pick, TypeOK
      <3> HIDE DEF t
      <3>3. CASE req' = [req EXCEPT ![r] = [req[r] EXCEPT !.at = "refuse"]]
        BY <3>3, Moved, StagesAre, WriteOne
      <3>4. CASE /\ Candidates(r) # {}
                 /\ req' = [req EXCEPT ![r] = [req[r] EXCEPT !.at = "rotate", !.pick = t]]
        BY <3>1, <3>4, Moved, StagesAre, WriteOne
      <3> QED
        BY <3>2, <3>3, <3>4
    <2> QED
      BY <2>1, <2>2, <2>3, <2>4, <2>5
  <1> QED
    BY <1>1, <1>2 DEF TypeOK, rows, ghosts

LEMMA TakeType ==
    ASSUME TypeOK, NEW r \in Requests, Rotate(r) \/ \E enabled \in BOOLEAN : Claim(r, enabled)
    PROVE  TypeOK' /\ UNCHANGED <<clock, password, state, at, cookie, sends, spent, chain>>
  <1>1. UNCHANGED <<clock, password, state, at, cookie, sends, spent, chain>>
    BY DEF Claim, Rotate, ghosts
  <1>2. CASE Rotate(r)
    <2>1. req' \in [Requests -> Request]
      <3>1. \/ req' = [req EXCEPT ![r] = [req[r] EXCEPT !.at = "insert"]]
            \/ req' = [req EXCEPT ![r] = [req[r] EXCEPT !.at = "refuse", !.pick = NoToken]]
        BY <1>2 DEF Rotate, TypeOK
      <3> QED
        BY <3>1, Moved, StagesAre, WriteOne
    <2>2. holder' \in [Tokens -> Requests \cup {Nobody}] /\ lone' \subseteq Browsers
      BY <1>2 DEF Rotate, TypeOK
    <2> QED
      BY <1>1, <2>1, <2>2 DEF TypeOK
  <1>3. CASE \E enabled \in BOOLEAN : Claim(r, enabled)
    <2>0. PICK enabled \in BOOLEAN : Claim(r, enabled)
      BY <1>3
    <2>1. req' \in [Requests -> Request]
      <3>2. PICK stage \in {"insert", "refuse"} :
              req' = [req EXCEPT ![r] = [req[r] EXCEPT !.at = stage, !.pick = req[r].token]]
        BY <2>0 DEF Claim, TypeOK
      <3> QED
        BY <3>2, Fields, Moved, StagesAre, WriteOne
    <2>2. holder' \in [Tokens -> Requests \cup {Nobody}] /\ lone' = lone
      BY <2>0 DEF Claim, TypeOK, ghosts
    <2> QED
      BY <1>1, <2>1, <2>2 DEF TypeOK
  <1> QED
    BY <1>1, <1>2, <1>3

LEMMA InsertType ==
    ASSUME RowsInv, NEW r \in Requests, Insert(r)
    PROVE  TypeOK'
  <1> DEFINE n == Cardinality(Used) + 1
  <1>1. n \in Tokens /\ req[r].pick \in Tokens \cup {NoToken} /\ req[r].now \in Times
    BY Fields DEF Insert, RowsInv
  <1>2. req' \in [Requests -> Request]
    BY <1>1, AnsweringType, WriteOne DEF Insert, RowsInv
  <1>3. /\ state' \in [Tokens -> {"unused", "active"} \cup Reasons]
        /\ at' \in [Tokens -> Times] /\ holder' \in [Tokens -> Requests \cup {Nobody}]
    BY <1>1 DEF Insert, RowsInv, TypeOK, Reasons
  <1>4. spent' \in [Tokens -> Tokens \cup {NoToken}]
    BY <1>1 DEF Insert, RowsInv, TypeOK
  <1>5. chain' \in [Tokens -> Nat \cup {Overran}]
    <2>1. req[r].knows \in Nat
      BY Fields DEF RowsInv
    <2>2. (IF req[r].overran \/ Changing # {} THEN Overran
           ELSE IF req[r].pick = NoToken THEN req[r].knows ELSE chain[req[r].pick])
            \in Nat \cup {Overran}
      BY <1>1, <2>1 DEF RowsInv, TypeOK
    <2> QED
      BY <2>2 DEF Insert, RowsInv, TypeOK
  <1> QED
    BY <1>2, <1>3, <1>4, <1>5 DEF Insert, RowsInv, TypeOK

LEMMA EndType ==
    ASSUME TypeOK, NEW r \in Requests, Refuse(r) \/ Logout(r) \/ Answer(r) \/ Lose(r)
    PROVE  TypeOK' /\ UNCHANGED <<clock, password, sends, spent, chain>>
  <1>1. UNCHANGED <<clock, password, sends, spent, chain>>
    BY DEF Refuse, Logout, Answer, Lose, ghosts
  <1>2. req' \in [Requests -> Request]
    BY AnsweringType, IdleType, WriteOne DEF Refuse, Logout, Answer, Lose
  <1>3. /\ state' \in [Tokens -> {"unused", "active"} \cup Reasons]
        /\ at' \in [Tokens -> Times] /\ holder' \in [Tokens -> Requests \cup {Nobody}]
    BY Fields DEF Refuse, Logout, Answer, Lose, rows, TypeOK, Reasons
  <1>4. cookie' \in [Browsers -> Tokens \cup {NoToken}] /\ lone' \subseteq Browsers
    BY Fields DEF Refuse, Logout, Answer, Lose, ghosts, TypeOK
  <1> QED
    BY <1>1, <1>2, <1>3, <1>4 DEF TypeOK

LEMMA ChangeType ==
    ASSUME TypeOK, NEW r \in Requests, Change(r)
    PROVE  TypeOK'
  <1>1. req' \in [Requests -> Request]
    <2>1. \A s \in Requests : [req[s] EXCEPT !.overran = TRUE] \in Request
      BY Fields DEF Request
    <2> QED
      BY <2>1, IdleType DEF Change, TypeOK
  <1>2. /\ state' \in [Tokens -> {"unused", "active"} \cup Reasons]
        /\ at' \in [Tokens -> Times]
    BY Fields DEF Change, TypeOK, Reasons
  <1>3. chain' \in [Tokens -> Nat \cup {Overran}] /\ password' \in Nat
    BY DEF Change, TypeOK
  <1> QED
    BY <1>1, <1>2, <1>3 DEF Change, TypeOK

(***************************************************************************)
(* The rows.                                                               *)
(***************************************************************************)

\* Only a request that inserts or refuses holds a row.
LEMMA HoldersInsertOrRefuse ==
    ASSUME HeldAreOpen, NobodyAssumption, NEW r \in Requests, NEW t \in Tokens, holder[t] = r
    PROVE  /\ state[t] = "active" /\ req[r].at \in {"insert", "refuse"}
           /\ req[r].at = "insert" => req[r].pick = t
           /\ req[r].at = "refuse" => req[r].token = t
  <1>1. holder[t] # Nobody
    BY DEF NobodyAssumption
  <1> QED
    BY <1>1 DEF HeldAreOpen

LEMMA InitRows == Init => RowsInv
  <1> SUFFICES ASSUME Init PROVE RowsInv
    OBVIOUS
  <1>1. TypeOK
    BY TokensAreNumbers, IdleType, TimesAssumption DEF Init, TypeOK, Times
  <1>2. Used = 1 .. 0
    BY DEF Init, Used
  <1> QED
    BY <1>1, <1>2, IdleType
    DEF Init, RowsInv, Numbered, HeldAreOpen, InsertersHold, ReadersPick

\* What a step does to the request that takes it.
LEMMA SendMoves ==
    ASSUME TypeOK, NEW r \in Requests, NEW b \in Browsers, NEW kind \in Kinds, Send(r, b, kind)
    PROVE  /\ req[r].at = "idle"
           /\ req'[r].at = "start" /\ req'[r].pick = NoToken /\ req'[r].token = cookie[b]
           /\ req'[r].browser = b /\ req'[r].kind = kind
           /\ \A s \in Requests \ {r} : req'[s] = req[s]
           /\ UNCHANGED <<clock, password, rows, cookie, spent, chain>>
  BY IdleType DEF Send, TypeOK, Idle

LEMMA MoveMoves ==
    ASSUME TypeOK, NEW r \in Requests,
           \/ CheckPassword(r) \/ RefuseLogin(r) \/ Unclaimed(r) \/ BeginChange(r)
           \/ \E enabled \in BOOLEAN : Pick(r, enabled)
    PROVE  /\ \A s \in Requests \ {r} : req'[s] = req[s]
           /\ req[r].at \in {"start", "grace"} /\ req'[r].at # "start"
           /\ req'[r].at = "insert" => /\ req[r].at = "start" /\ req'[r].pick = req[r].pick
                                       /\ req'[r].knows = password
           /\ \/ req'[r].token = req[r].token /\ req'[r].browser = req[r].browser
              \/ req'[r].at = "idle" /\ req'[r] = Idle
           /\ req'[r].at \in {"idle", "insert", "refuse", "grace", "rotate", "change"}
           /\ req'[r].at = "idle" => req'[r] = Idle
           /\ req'[r].at = "rotate" => req'[r].pick \in Candidates(r)
  <1>1. req \in [Requests -> Request]
    BY DEF TypeOK
  <1>2. \A s \in Requests \ {r} : req'[s] = req[s]
    BY <1>1 DEF CheckPassword, RefuseLogin, Unclaimed, BeginChange, Pick
  <1>3. CASE CheckPassword(r)
    BY <1>1, <1>2, <1>3, Fields DEF CheckPassword, Request
  <1>4. CASE RefuseLogin(r)
    BY <1>1, <1>2, <1>4, IdleType DEF RefuseLogin
  <1>5. CASE Unclaimed(r)
    BY <1>1, <1>2, <1>5, Fields DEF Unclaimed, Request
  <1>6. CASE BeginChange(r)
    BY <1>1, <1>2, <1>6, Fields DEF BeginChange, Request
  <1>7. CASE \E enabled \in BOOLEAN : Pick(r, enabled)
    <2>1. PICK enabled \in BOOLEAN : Pick(r, enabled)
      BY <1>7
    <2> DEFINE t == CHOOSE x \in Candidates(r) : \A u \in Candidates(r) : u <= x
    <2>2. Candidates(r) # {} => t \in Candidates(r)
      BY PickedIsOpen
    <2>3. \/ req'[r] = [req[r] EXCEPT !.at = "refuse"]
          \/ Candidates(r) # {} /\ req'[r] = [req[r] EXCEPT !.at = "rotate", !.pick = t]
      BY <1>1, <2>1 DEF Pick
    <2>4. req[r].at = "grace"
      BY <2>1 DEF Pick
    <2> HIDE DEF t
    <2>5. CASE req'[r] = [req[r] EXCEPT !.at = "refuse"]
      BY <1>2, <2>4, <2>5, Fields DEF Request
    <2>6. CASE Candidates(r) # {} /\ req'[r] = [req[r] EXCEPT !.at = "rotate", !.pick = t]
      BY <1>2, <2>2, <2>4, <2>6, Fields DEF Request
    <2> QED
      BY <2>3, <2>5, <2>6
  <1> QED
    BY <1>3, <1>4, <1>5, <1>6, <1>7

\* Claim takes the token it was sent with, and Rotate the row it picked.
LEMMA TakeMoves ==
    ASSUME TypeOK, ReadersPick, NEW r \in Requests,
           Rotate(r) \/ \E enabled \in BOOLEAN : Claim(r, enabled)
    PROVE  /\ \A s \in Requests \ {r} : req'[s] = req[s]
           /\ req[r].at \in {"start", "rotate"} /\ req'[r].at \in {"insert", "refuse"}
           /\ req'[r].token = req[r].token /\ req'[r].browser = req[r].browser
           /\ \/ /\ req'[r].at = "refuse" /\ holder' = holder /\ req[r].at = "rotate"
                 /\ lone' = lone
              \/ /\ req'[r].pick \in Tokens /\ state[req'[r].pick] = "active"
                 /\ holder[req'[r].pick] \in {Nobody, r}
                 /\ holder' = [holder EXCEPT ![req'[r].pick] = r]
                 /\ \/ /\ req[r].at = "start" /\ lone' = lone
                       /\ req'[r].pick = req[r].token
                    \/ /\ req'[r].at = "insert" /\ req[r].at = "rotate"
                       /\ req'[r].pick = req[r].pick
                       /\ lone' = lone \ (HoldersOf(req[r].pick) \ {req[r].browser})
  <1>1. req \in [Requests -> Request]
    BY DEF TypeOK
  <1>2. \A s \in Requests \ {r} : req'[s] = req[s]
    BY <1>1 DEF Rotate, Claim
  <1>3. CASE Rotate(r)
    <2>1. CASE state[req[r].pick] = "active"
      <3>1. req'[r] = [req[r] EXCEPT !.at = "insert"]
        BY <1>1, <1>3, <2>1 DEF Rotate
      <3>2. /\ req'[r].at = "insert" /\ req'[r].token = req[r].token
            /\ req'[r].browser = req[r].browser /\ req'[r].pick = req[r].pick
        BY <3>1, Fields DEF Request
      <3>3. /\ req[r].at = "rotate" /\ FreeFor(r, req[r].pick)
            /\ holder' = [holder EXCEPT ![req[r].pick] = r]
            /\ lone' = lone \ (HoldersOf(req[r].pick) \ {req[r].browser})
        BY <1>3, <2>1 DEF Rotate
      <3> QED
        BY <1>2, <2>1, <3>2, <3>3, Fields DEF FreeFor, ReadersPick
    <2>2. CASE state[req[r].pick] # "active"
      <3>1. req'[r] = [req[r] EXCEPT !.at = "refuse", !.pick = NoToken]
        BY <1>1, <1>3, <2>2 DEF Rotate
      <3>2. /\ req'[r].at = "refuse" /\ req'[r].token = req[r].token
            /\ req'[r].browser = req[r].browser
        BY <3>1, Fields DEF Request
      <3> QED
        BY <1>2, <1>3, <2>2, <3>2 DEF Rotate
    <2> QED
      BY <2>1, <2>2
  <1>4. CASE \E enabled \in BOOLEAN : Claim(r, enabled)
    <2>1. PICK enabled \in BOOLEAN : Claim(r, enabled)
      BY <1>4
    <2>2. PICK stage \in {"insert", "refuse"} :
            req'[r] = [req[r] EXCEPT !.at = stage, !.pick = req[r].token]
      BY <1>1, <2>1 DEF Claim
    <2>3. /\ req'[r].at = stage /\ req'[r].token = req[r].token
          /\ req'[r].browser = req[r].browser /\ req'[r].pick = req[r].token
      BY <2>2, Fields DEF Request
    <2>4. /\ req[r].at = "start" /\ req[r].token # NoToken /\ FreeFor(r, req[r].token)
          /\ state[req[r].token] = "active" /\ holder' = [holder EXCEPT ![req[r].token] = r]
          /\ lone' = lone
      BY <2>1 DEF Claim, Live, ghosts
    <2>5. req[r].token \in Tokens
      BY <2>4, Fields
    <2> QED
      BY <1>2, <2>3, <2>4, <2>5 DEF FreeFor
  <1> QED
    BY <1>3, <1>4

\* A session ends in the place of the next one, or for good.
LEMMA InsertMoves ==
    ASSUME RowsInv, NEW r \in Requests, Insert(r), NEW n, n = Cardinality(Used) + 1
    PROVE  /\ n \in Tokens \ Used
           /\ \A s \in Requests \ {r} : req'[s] = req[s]
           /\ req[r].at = "insert" /\ req'[r] = Answering(r, n)
           /\ state'[n] = "active"
           /\ req[r].pick \in Tokens =>
                 /\ state[req[r].pick] = "active" /\ holder[req[r].pick] = r
                 /\ state'[req[r].pick] = "rotation" /\ req[r].pick # n
           /\ \A t \in Tokens : t # n /\ t # req[r].pick => state'[t] = state[t] /\ at'[t] = at[t]
           /\ \A t \in Tokens : holder'[t] = IF holder[t] = r THEN Nobody ELSE holder[t]
           /\ spent' = [spent EXCEPT ![n] = req[r].pick]
           /\ Used' = Used \cup {n}
  <1>1. n \in Tokens \ Used /\ req[r].at = "insert"
    BY NextIsNew DEF Insert, RowsInv
  <1>2. \A s \in Requests \ {r} : req'[s] = req[s]
    BY DEF Insert, RowsInv, TypeOK
  <1>3. req'[r] = Answering(r, n)
    BY DEF Insert, RowsInv, TypeOK
  <1>4. \A t \in Tokens :
            /\ state'[t] = IF t = n THEN "active" ELSE IF t = req[r].pick THEN "rotation" ELSE state[t]
            /\ at'[t] = IF t = n THEN clock ELSE IF t = req[r].pick THEN req[r].now ELSE at[t]
            /\ holder'[t] = IF holder[t] = r THEN Nobody ELSE holder[t]
    BY DEF Insert
  <1>5. ASSUME req[r].pick \in Tokens
        PROVE  state[req[r].pick] = "active" /\ holder[req[r].pick] = r /\ req[r].pick # n
    <2>1. holder[req[r].pick] = r
      BY <1>1, <1>5, TokensAreNumbers DEF RowsInv, InsertersHold
    <2>2. state[req[r].pick] = "active"
      BY <1>5, <2>1, HoldersInsertOrRefuse, NobodyAssumption DEF RowsInv
    <2> QED
      BY <1>1, <1>5, <2>1, <2>2 DEF Used
  <1>6. Used' = Used \cup {n}
    BY <1>1, <1>4, <1>5 DEF Used
  <1>7. spent' = [spent EXCEPT ![n] = req[r].pick]
    BY DEF Insert
  <1> QED
    BY <1>1, <1>2, <1>3, <1>4, <1>5, <1>6, <1>7

LEMMA EndMoves ==
    ASSUME RowsInv, NEW r \in Requests, Refuse(r) \/ Logout(r) \/ Answer(r) \/ Lose(r)
    PROVE  /\ \A s \in Requests \ {r} : req'[s] = req[s]
           /\ \/ req'[r] = Answering(r, NoToken) /\ req[r].at \in {"start", "refuse"}
                 /\ cookie' = cookie /\ lone' = lone
              \/ req'[r] = Idle /\ req[r].at # "idle"
           /\ \A t \in Tokens :
                 \/ /\ state'[t] = state[t] /\ at'[t] = at[t]
                    /\ holder'[t] \in {holder[t], Nobody}
                    /\ holder[t] # r => holder'[t] = holder[t]
                 \/ /\ state[t] = "active" /\ state'[t] \in Reasons /\ t = req[r].token
                    /\ holder[t] \in {Nobody, r} /\ holder'[t] = Nobody
                    /\ req'[r] = Answering(r, NoToken)
           /\ \A t \in Tokens : holder'[t] # r
           /\ Used' = Used
  <1>1. req \in [Requests -> Request] /\ state \in [Tokens -> {"unused", "active"} \cup Reasons]
        /\ at \in [Tokens -> Times] /\ holder \in [Tokens -> Requests \cup {Nobody}]
    BY DEF RowsInv, TypeOK
  <1>2. \A s \in Requests \ {r} : req'[s] = req[s]
    BY <1>1 DEF Refuse, Logout, Answer, Lose
  <1>3. \A t \in Tokens : holder[t] = r => req[r].at \in {"insert", "refuse"}
    BY HoldersInsertOrRefuse, NobodyAssumption DEF RowsInv
  <1>0. r # Nobody
    BY NobodyAssumption
  <1>4. CASE Refuse(r)
    <2> DEFINE tok == req[r].token
    <2>1. /\ req[r].at = "refuse" /\ req'[r] = Answering(r, NoToken)
          /\ cookie' = cookie /\ lone' = lone
      BY <1>1, <1>4 DEF Refuse, ghosts
    <2>2. \A t \in Tokens : holder[t] = r => t = tok /\ state[t] = "active"
      BY <2>1, HoldersInsertOrRefuse, NobodyAssumption DEF RowsInv
    <2>3. CASE tok # NoToken /\ state[tok] = "active"
      <3>1. tok \in Tokens /\ holder[tok] \in {Nobody, r}
        BY <1>4, <2>3, Fields DEF Refuse, FreeFor, RowsInv
      <3>2. PICK reason \in {"rotation", "security"} : state' = [state EXCEPT ![tok] = reason]
        BY <1>4, <2>3 DEF Refuse
      <3>3. at' = [at EXCEPT ![tok] = req[r].now] /\ holder' = [holder EXCEPT ![tok] = Nobody]
        BY <1>4, <2>3 DEF Refuse
      <3>4. \A t \in Tokens \ {tok} : /\ state'[t] = state[t] /\ at'[t] = at[t]
                                      /\ holder'[t] = holder[t] /\ holder[t] # r
        BY <1>1, <2>2, <3>1, <3>2, <3>3
      <3>5. state'[tok] = reason /\ holder'[tok] = Nobody
        BY <1>1, <3>1, <3>2, <3>3
      <3>6. Used' = Used
        BY <2>3, <3>1, <3>4, <3>5 DEF Used
      <3> HIDE DEF tok
      <3> QED
        BY <1>0, <1>2, <2>1, <2>3, <3>1, <3>4, <3>5, <3>6 DEF Reasons, tok
    <2>4. CASE ~ (tok # NoToken /\ state[tok] = "active")
      <3>1. UNCHANGED <<state, at, holder>>
        BY <1>4, <2>4 DEF Refuse
      <3>2. \A t \in Tokens : holder[t] # r
        BY <2>2, <2>4, TokensAreNumbers
      <3> QED
        BY <1>2, <2>1, <3>1, <3>2 DEF Used
    <2> QED
      BY <2>3, <2>4
  <1>5. CASE Logout(r)
    <2> DEFINE tok == req[r].token
    <2>1. /\ req[r].at = "start" /\ req'[r] = Answering(r, NoToken) /\ holder' = holder
          /\ cookie' = cookie /\ lone' = lone
      BY <1>1, <1>5 DEF Logout, ghosts
    <2>2. \A t \in Tokens : holder[t] # r
      BY <1>3, <2>1
    <2>3. CASE tok # NoToken /\ state[tok] = "active"
      <3>1. tok \in Tokens /\ holder[tok] = Nobody
        BY <1>5, <2>2, <2>3, Fields DEF Logout, FreeFor, RowsInv
      <3>2. state' = [state EXCEPT ![tok] = "logout"] /\ at' = [at EXCEPT ![tok] = clock]
        BY <1>5, <2>3 DEF Logout
      <3>3. \A t \in Tokens \ {tok} : state'[t] = state[t] /\ at'[t] = at[t]
        BY <1>1, <3>1, <3>2
      <3>4. state'[tok] = "logout"
        BY <1>1, <3>1, <3>2
      <3>5. Used' = Used
        BY <2>3, <3>1, <3>3, <3>4 DEF Used
      <3> QED
        BY <1>2, <2>1, <2>2, <2>3, <3>1, <3>3, <3>4, <3>5 DEF Reasons
    <2>4. CASE ~ (tok # NoToken /\ state[tok] = "active")
      <3>1. UNCHANGED <<state, at>>
        BY <1>5, <2>4 DEF Logout
      <3> QED
        BY <1>2, <2>1, <2>2, <3>1 DEF Used
    <2> QED
      BY <2>3, <2>4
  <1>6. CASE Answer(r)
    <2>1. UNCHANGED <<state, at, holder>> /\ req'[r] = Idle /\ req[r].at = "answer"
      BY <1>1, <1>6 DEF Answer, rows
    <2> QED
      BY <1>2, <1>3, <2>1 DEF Used
  <1>7. CASE Lose(r)
    <2>1. UNCHANGED <<state, at>> /\ req'[r] = Idle /\ req[r].at # "idle"
      BY <1>1, <1>7 DEF Lose
    <2>2. \A t \in Tokens : holder'[t] = IF holder[t] = r THEN Nobody ELSE holder[t]
      BY <1>7 DEF Lose
    <2> QED
      BY <1>0, <1>2, <2>1, <2>2 DEF Used
  <1> QED
    BY <1>4, <1>5, <1>6, <1>7

LEMMA ChangeMoves ==
    ASSUME RowsInv, NEW r \in Requests, Change(r)
    PROVE  /\ req[r].at = "change" /\ req'[r] = Idle
           /\ \A s \in Requests \ {r} :
                 \/ req'[s] = req[s]
                    /\ req[s].at \notin {"insert", "change"}
                 \/ req'[s] = [req[s] EXCEPT !.overran = TRUE]
                    /\ req[s].at \in {"insert", "change"}
           /\ \A t \in Tokens :
                 \/ state'[t] = state[t] /\ at'[t] = at[t] /\ t \notin req[r].others \cap Active
                 \/ /\ t \in req[r].others \cap Active /\ state'[t] = "password_change"
                    /\ holder[t] = Nobody
           /\ UNCHANGED <<clock, holder, cookie, spent>>
           /\ Used' = Used
  <1>1. req[r].at = "change" /\ req'[r] = Idle /\ UNCHANGED <<clock, holder, cookie, spent>>
    BY DEF Change, RowsInv, TypeOK
  <1>2. \A s \in Requests \ {r} :
                 \/ req'[s] = req[s]
                    /\ req[s].at \notin {"insert", "change"}
                 \/ req'[s] = [req[s] EXCEPT !.overran = TRUE]
                    /\ req[s].at \in {"insert", "change"}
    BY DEF Change
  <1>3. \A t \in Tokens : holder[t] # r
    BY <1>1, HoldersInsertOrRefuse, NobodyAssumption DEF RowsInv
  <1>4. \A t \in Tokens :
            \/ state'[t] = state[t] /\ at'[t] = at[t] /\ t \notin req[r].others \cap Active
            \/ /\ t \in req[r].others \cap Active /\ state'[t] = "password_change"
               /\ holder[t] = Nobody
    BY <1>3 DEF Change, FreeFor
  <1>5. Used' = Used
    BY <1>4 DEF Used, Active
  <1> QED
    BY <1>1, <1>2, <1>4, <1>5

\* Every step keeps the rows as they should be ...
LEMMA SendRows ==
    ASSUME RowsInv, NEW r \in Requests, NEW b \in Browsers, NEW kind \in Kinds, Send(r, b, kind)
    PROVE  RowsInv'
  <1>1. TypeOK'
    BY SendType DEF RowsInv
  <1>2. /\ req[r].at = "idle" /\ req'[r].at = "start" /\ req'[r].pick = NoToken
        /\ \A s \in Requests \ {r} : req'[s] = req[s]
        /\ UNCHANGED <<state, at, holder>>
    BY SendMoves DEF RowsInv, rows
  <1>3. \A t \in Tokens : holder[t] # r
    BY <1>2, HoldersInsertOrRefuse, NobodyAssumption DEF RowsInv
  <1>4. HeldAreOpen'
    BY <1>2, <1>3 DEF RowsInv, HeldAreOpen, TypeOK
  <1>5. InsertersHold' /\ ReadersPick' /\ Numbered'
    BY <1>2 DEF RowsInv, InsertersHold, ReadersPick, Numbered, Used
  <1> QED
    BY <1>1, <1>4, <1>5 DEF RowsInv

LEMMA MoveRows ==
    ASSUME RowsInv, NEW r \in Requests,
           \/ CheckPassword(r) \/ RefuseLogin(r) \/ Unclaimed(r) \/ BeginChange(r)
           \/ \E enabled \in BOOLEAN : Pick(r, enabled)
    PROVE  RowsInv'
  <1>1. TypeOK' /\ UNCHANGED <<state, at, holder>>
    BY MoveType DEF RowsInv, rows
  <1>2. /\ \A s \in Requests \ {r} : req'[s] = req[s]
        /\ req[r].at \in {"start", "grace"} /\ req'[r].at # "start"
        /\ req'[r].at = "insert" => req[r].at = "start" /\ req'[r].pick = req[r].pick
        /\ req'[r].at = "rotate" => req'[r].pick \in Tokens
    BY MoveMoves DEF RowsInv, Candidates
  <1>3. \A t \in Tokens : holder[t] # r
    BY <1>2, HoldersInsertOrRefuse, NobodyAssumption DEF RowsInv
  <1>4. HeldAreOpen'
    BY <1>1, <1>2, <1>3 DEF RowsInv, HeldAreOpen, TypeOK
  <1>5. InsertersHold' /\ ReadersPick' /\ Numbered'
    BY <1>1, <1>2, TokensAreNumbers DEF RowsInv, InsertersHold, ReadersPick, Numbered, Used
  <1> QED
    BY <1>1, <1>4, <1>5 DEF RowsInv

LEMMA TakeRows ==
    ASSUME RowsInv, NEW r \in Requests, Rotate(r) \/ \E enabled \in BOOLEAN : Claim(r, enabled)
    PROVE  RowsInv'
  <1>1. TypeOK' /\ UNCHANGED <<state, at>>
    BY TakeType DEF RowsInv
  <1>2. /\ \A s \in Requests \ {r} : req'[s] = req[s]
        /\ req[r].at \in {"start", "rotate"} /\ req'[r].at \in {"insert", "refuse"}
        /\ req'[r].token = req[r].token
    BY TakeMoves DEF RowsInv
  <1>3. \A t \in Tokens : holder[t] # r
    BY <1>2, HoldersInsertOrRefuse, NobodyAssumption DEF RowsInv
  <1>4. HeldAreOpen' /\ InsertersHold'
    <2>1. CASE holder' = holder /\ req'[r].at = "refuse"
      BY <1>1, <1>2, <1>3, <2>1 DEF RowsInv, HeldAreOpen, InsertersHold, TypeOK
    <2>2. CASE /\ req'[r].pick \in Tokens /\ state[req'[r].pick] = "active"
               /\ holder[req'[r].pick] \in {Nobody, r}
               /\ holder' = [holder EXCEPT ![req'[r].pick] = r]
               /\ req'[r].at = "insert" \/ req'[r].pick = req[r].token
      <3> DEFINE p == req'[r].pick
      <3>1. holder[p] = Nobody
        BY <1>3, <2>2
      <3>2. holder'[p] = r /\ \A t \in Tokens \ {p} : holder'[t] = holder[t]
        BY <2>2 DEF RowsInv, TypeOK
      <3>3. HeldAreOpen'
        <4> SUFFICES ASSUME NEW t \in Tokens, holder'[t] # Nobody
                     PROVE  /\ state[t] = "active"
                            /\ \/ req'[holder'[t]].at = "insert" /\ req'[holder'[t]].pick = t
                               \/ req'[holder'[t]].at = "refuse" /\ req'[holder'[t]].token = t
          BY <1>1 DEF HeldAreOpen
        <4>1. CASE t = p
          BY <1>2, <2>2, <3>2, <4>1
        <4>2. CASE t # p
          <5>1. holder'[t] = holder[t] /\ holder[t] \in Requests \ {r}
            BY <1>3, <3>2, <4>2 DEF RowsInv, TypeOK
          <5> QED
            BY <1>2, <5>1 DEF RowsInv, HeldAreOpen
        <4> QED
          BY <4>1, <4>2
      <3>4. InsertersHold'
        <4> SUFFICES ASSUME NEW s \in Requests, req'[s].at = "insert", req'[s].pick # NoToken
                     PROVE  holder'[req'[s].pick] = s
          BY DEF InsertersHold
        <4>1. CASE s = r
          BY <3>2, <4>1
        <4>2. CASE s # r
          <5>1. req'[s] = req[s] /\ req[s].pick \in Tokens
            BY <1>2, <4>2, Fields DEF RowsInv
          <5>2. holder[req[s].pick] = s
            BY <5>1 DEF RowsInv, InsertersHold
          <5>3. req[s].pick # p
            BY <3>1, <5>2, NobodyAssumption
          <5> QED
            BY <3>2, <5>1, <5>2, <5>3
        <4> QED
          BY <4>1, <4>2
      <3> QED
        BY <3>3, <3>4
    <2> QED
      BY <2>1, <2>2, TakeMoves DEF RowsInv
  <1>5. ReadersPick' /\ Numbered'
    BY <1>1, <1>2 DEF RowsInv, ReadersPick, Numbered, Used
  <1> QED
    BY <1>1, <1>4, <1>5 DEF RowsInv

LEMMA InsertRows ==
    ASSUME RowsInv, NEW r \in Requests, Insert(r)
    PROVE  RowsInv'
  <1> DEFINE n == Cardinality(Used) + 1
             p == req[r].pick
  <1>1. TypeOK'
    BY InsertType
  <1> HIDE DEF n
  <1>2. /\ n \in Tokens \ Used /\ \A s \in Requests \ {r} : req'[s] = req[s]
        /\ req[r].at = "insert" /\ req'[r] = Answering(r, n)
        /\ p \in Tokens => holder[p] = r
        /\ \A t \in Tokens : t # n /\ t # p => state'[t] = state[t] /\ at'[t] = at[t]
        /\ \A t \in Tokens : holder'[t] = IF holder[t] = r THEN Nobody ELSE holder[t]
        /\ Used' = Used \cup {n}
    BY InsertMoves DEF n
  <1>3. req'[r].at = "answer"
    <2>1. n \in Tokens \cup {NoToken}
      BY <1>2
    <2>2. Answering(r, n).at = "answer"
      BY <2>1, AnsweringType DEF RowsInv
    <2> QED
      BY <1>2, <2>2
  <1>4. holder[n] = Nobody
    BY <1>2 DEF RowsInv, HeldAreOpen, Used
  <1>5. HeldAreOpen'
    <2> SUFFICES ASSUME NEW t \in Tokens, holder'[t] # Nobody
                 PROVE  /\ state'[t] = "active"
                        /\ \/ req'[holder'[t]].at = "insert" /\ req'[holder'[t]].pick = t
                           \/ req'[holder'[t]].at = "refuse" /\ req'[holder'[t]].token = t
      BY DEF HeldAreOpen
    <2>1. holder'[t] = holder[t] /\ holder[t] \in Requests \ {r} /\ t # n /\ t # p
      BY <1>2, <1>4 DEF RowsInv, TypeOK
    <2> QED
      BY <1>2, <2>1 DEF RowsInv, HeldAreOpen
  <1>6. InsertersHold'
    <2> SUFFICES ASSUME NEW s \in Requests, req'[s].at = "insert", req'[s].pick # NoToken
                 PROVE  holder'[req'[s].pick] = s
      BY DEF InsertersHold
    <2>1. s # r /\ req'[s] = req[s]
      BY <1>2, <1>3
    <2>2. req[s].pick \in Tokens /\ holder[req[s].pick] = s
      BY <2>1, Fields DEF RowsInv, InsertersHold
    <2> QED
      BY <1>2, <2>1, <2>2
  <1>7. ReadersPick'
    BY <1>2, <1>3 DEF RowsInv, ReadersPick
  <1>8. Numbered'
    <2>1. Used' = 1 .. n /\ n \in Nat
      BY <1>2, NextIsNew DEF RowsInv, n
    <2> QED
      BY <2>1 DEF Numbered
  <1> QED
    BY <1>1, <1>5, <1>6, <1>7, <1>8 DEF RowsInv

LEMMA EndRows ==
    ASSUME RowsInv, NEW r \in Requests, Refuse(r) \/ Logout(r) \/ Answer(r) \/ Lose(r)
    PROVE  RowsInv'
  <1>1. TypeOK'
    BY EndType DEF RowsInv
  <1>2. /\ \A s \in Requests \ {r} : req'[s] = req[s]
        /\ req'[r].at \in {"answer", "idle"}
        /\ \A t \in Tokens : holder'[t] # r
        /\ Used' = Used
    <2>1. req'[r] \in {Answering(r, NoToken), Idle}
      BY EndMoves
    <2>2. Answering(r, NoToken).at = "answer" /\ Idle.at = "idle"
      BY AnsweringType, IdleType DEF RowsInv
    <2>3. req'[r].at \in {"answer", "idle"}
      BY <2>1, <2>2
    <2> QED
      BY <2>3, EndMoves
  <1>0. \A t \in Tokens :
            \/ state'[t] = state[t] /\ holder'[t] \in {holder[t], Nobody}
               /\ (holder[t] # r => holder'[t] = holder[t])
            \/ holder[t] \in {Nobody, r} /\ holder'[t] = Nobody
    BY EndMoves
  <1>3. \A t \in Tokens : holder'[t] # Nobody => state'[t] = state[t] /\ holder'[t] = holder[t]
    BY <1>0
  <1>4. \A t \in Tokens : holder[t] \notin {Nobody, r} => holder'[t] = holder[t]
    BY <1>0
  <1>5. HeldAreOpen'
    <2> SUFFICES ASSUME NEW t \in Tokens, holder'[t] # Nobody
                 PROVE  /\ state'[t] = "active"
                        /\ \/ req'[holder'[t]].at = "insert" /\ req'[holder'[t]].pick = t
                           \/ req'[holder'[t]].at = "refuse" /\ req'[holder'[t]].token = t
      BY DEF HeldAreOpen
    <2>1. /\ state'[t] = state[t] /\ holder'[t] = holder[t] /\ holder[t] # Nobody
          /\ holder[t] \in Requests \ {r}
      BY <1>2, <1>3 DEF RowsInv, TypeOK
    <2> QED
      BY <1>2, <2>1 DEF RowsInv, HeldAreOpen
  <1>6. InsertersHold'
    <2> SUFFICES ASSUME NEW s \in Requests, req'[s].at = "insert", req'[s].pick # NoToken
                 PROVE  holder'[req'[s].pick] = s
      BY DEF InsertersHold
    <2>1. s # r /\ req'[s] = req[s]
      BY <1>2
    <2>2. req[s].pick \in Tokens /\ holder[req[s].pick] = s
      BY <2>1, Fields DEF RowsInv, InsertersHold
    <2> QED
      BY <1>4, <2>1, <2>2, NobodyAssumption
  <1>7. ReadersPick' /\ Numbered'
    BY <1>2 DEF RowsInv, ReadersPick, Numbered
  <1> QED
    BY <1>1, <1>5, <1>6, <1>7 DEF RowsInv

LEMMA ChangeRows ==
    ASSUME RowsInv, NEW r \in Requests, Change(r)
    PROVE  RowsInv'
  <1>1. TypeOK'
    BY ChangeType DEF RowsInv
  <1>2. /\ req[r].at = "change" /\ req'[r] = Idle /\ holder' = holder /\ Used' = Used
        /\ \A s \in Requests \ {r} : req'[s] \in {req[s], [req[s] EXCEPT !.overran = TRUE]}
        /\ \A t \in Tokens : holder[t] # Nobody => state'[t] = state[t]
    BY ChangeMoves
  <1>3. \A s \in Requests \ {r} :
            req'[s].at = req[s].at /\ req'[s].pick = req[s].pick /\ req'[s].token = req[s].token
    BY <1>2, Fields DEF RowsInv, Request
  <1>4. \A t \in Tokens : holder[t] # r
    BY <1>2, HoldersInsertOrRefuse, NobodyAssumption DEF RowsInv
  <1>5. HeldAreOpen'
    <2> SUFFICES ASSUME NEW t \in Tokens, holder[t] # Nobody
                 PROVE  /\ state'[t] = "active"
                        /\ \/ req'[holder[t]].at = "insert" /\ req'[holder[t]].pick = t
                           \/ req'[holder[t]].at = "refuse" /\ req'[holder[t]].token = t
      BY <1>2 DEF HeldAreOpen
    <2>1. holder[t] \in Requests \ {r}
      BY <1>4 DEF RowsInv, TypeOK
    <2> QED
      BY <1>2, <1>3, <2>1 DEF RowsInv, HeldAreOpen
  <1>6. InsertersHold' /\ ReadersPick'
    BY <1>2, <1>3, IdleType DEF RowsInv, InsertersHold, ReadersPick
  <1>7. Numbered'
    BY <1>2 DEF RowsInv, Numbered
  <1> QED
    BY <1>1, <1>5, <1>6, <1>7 DEF RowsInv

\* The steps, by what they do to the rows.
LEMMA StepsAre ==
    ASSUME Next
    PROVE  \/ Tick
           \/ \E r \in Requests :
                 \/ \E b \in Browsers, kind \in Kinds : Send(r, b, kind)
                 \/ CheckPassword(r) \/ RefuseLogin(r) \/ Unclaimed(r) \/ BeginChange(r)
                    \/ \E enabled \in BOOLEAN : Pick(r, enabled)
                 \/ Rotate(r) \/ \E enabled \in BOOLEAN : Claim(r, enabled)
                 \/ Insert(r)
                 \/ Refuse(r) \/ Logout(r) \/ Answer(r) \/ Lose(r)
                 \/ Change(r)
  BY DEF Next, Serve

LEMMA IdleRows ==
    ASSUME RowsInv, Tick \/ UNCHANGED vars
    PROVE  RowsInv' /\ UNCHANGED <<password, rows, cookie, req, ghosts>>
  <1>1. UNCHANGED <<password, rows, cookie, sends, req, ghosts>> /\ clock' \in Times
    BY TimesAssumption DEF Tick, vars, RowsInv, TypeOK, Times
  <1> QED
    BY <1>1
    DEF RowsInv, TypeOK, Numbered, HeldAreOpen, InsertersHold, ReadersPick, rows, ghosts, Used

LEMMA RowsNext == RowsInv /\ [Next]_vars => RowsInv'
  BY StepsAre, IdleRows, SendRows, MoveRows, TakeRows, InsertRows, EndRows, ChangeRows

LEMMA RowsAlways == Spec => []RowsInv
  BY InitRows, RowsNext, PTL DEF Spec

\* Every reachable state has its types.
THEOREM TypeCorrect == Spec => []TypeOK
  <1>1. RowsInv => TypeOK
    BY DEF RowsInv
  <1> QED
    BY <1>1, RowsAlways, PTL

(***************************************************************************)
(* What is closed stays closed, and what was exchanged.                    *)
(***************************************************************************)
LEMMA ClosedStay ==
    ASSUME RowsInv, [Next]_vars, NEW t \in Tokens, state[t] \in Reasons
    PROVE  state'[t] = state[t] /\ at'[t] = at[t]
  <1>1. state[t] # "active" /\ state[t] # "unused"
    BY DEF Reasons
  <1>2. t \in Used
    BY <1>1 DEF Used
  <1>3. CASE Tick \/ UNCHANGED vars
    BY <1>3, IdleRows DEF rows
  <1>4. ASSUME NEW r \in Requests, NEW b \in Browsers, NEW kind \in Kinds, Send(r, b, kind)
        PROVE  state'[t] = state[t] /\ at'[t] = at[t]
    BY <1>4, SendMoves DEF RowsInv, rows
  <1>5. ASSUME NEW r \in Requests,
               CheckPassword(r) \/ RefuseLogin(r) \/ Unclaimed(r) \/ BeginChange(r)
               \/ \E enabled \in BOOLEAN : Pick(r, enabled)
        PROVE  state'[t] = state[t] /\ at'[t] = at[t]
    BY <1>5, MoveType DEF RowsInv, rows
  <1>6. ASSUME NEW r \in Requests, Rotate(r) \/ \E enabled \in BOOLEAN : Claim(r, enabled)
        PROVE  state'[t] = state[t] /\ at'[t] = at[t]
    BY <1>6, TakeType DEF RowsInv
  <1>7. ASSUME NEW r \in Requests, Insert(r)
        PROVE  state'[t] = state[t] /\ at'[t] = at[t]
    BY <1>1, <1>2, <1>7, InsertMoves
  <1>8. ASSUME NEW r \in Requests, Refuse(r) \/ Logout(r) \/ Answer(r) \/ Lose(r)
        PROVE  state'[t] = state[t] /\ at'[t] = at[t]
    BY <1>1, <1>8, EndMoves
  <1>9. ASSUME NEW r \in Requests, Change(r)
        PROVE  state'[t] = state[t] /\ at'[t] = at[t]
    BY <1>1, <1>9, ChangeMoves DEF Active
  <1> QED
    BY <1>3, <1>4, <1>5, <1>6, <1>7, <1>8, <1>9, StepsAre

\* A revoked session keeps the reason and the time it was revoked with, whoever refuses, signs
\* out, claims or changes the password after it.
THEOREM RevocationsAlwaysStand == Spec => RevocationsStand
  <1>1. ASSUME RowsInv, [Next]_vars
        PROVE  [\A t \in Tokens : state[t] \in Reasons
                  => state'[t] = state[t] /\ at'[t] = at[t]]_vars
    BY <1>1, ClosedStay
  <1> QED
    BY <1>1, RowsAlways, PTL DEF Spec, RevocationsStand

\* All steps but an insertion leave the sessions made and what they were exchanged for.
LEMMA OnlyInsertMakes ==
    ASSUME RowsInv, [Next]_vars, ~ \E r \in Requests : Insert(r)
    PROVE  spent' = spent /\ Used' = Used
  <1>1. CASE Tick \/ UNCHANGED vars
    BY <1>1, IdleRows DEF rows, ghosts, Used
  <1>2. ASSUME NEW r \in Requests, NEW b \in Browsers, NEW kind \in Kinds, Send(r, b, kind)
        PROVE  spent' = spent /\ Used' = Used
    BY <1>2, SendMoves DEF RowsInv, rows, Used
  <1>3. ASSUME NEW r \in Requests,
               CheckPassword(r) \/ RefuseLogin(r) \/ Unclaimed(r) \/ BeginChange(r)
               \/ \E enabled \in BOOLEAN : Pick(r, enabled)
        PROVE  spent' = spent /\ Used' = Used
    BY <1>3, MoveType DEF RowsInv, rows, ghosts, Used
  <1>4. ASSUME NEW r \in Requests, Rotate(r) \/ \E enabled \in BOOLEAN : Claim(r, enabled)
        PROVE  spent' = spent /\ Used' = Used
    BY <1>4, TakeType DEF RowsInv, Used
  <1>5. ASSUME NEW r \in Requests, Refuse(r) \/ Logout(r) \/ Answer(r) \/ Lose(r)
        PROVE  spent' = spent /\ Used' = Used
    BY <1>5, EndMoves, EndType DEF RowsInv
  <1>6. ASSUME NEW r \in Requests, Change(r)
        PROVE  spent' = spent /\ Used' = Used
    BY <1>6, ChangeMoves
  <1> QED
    BY <1>1, <1>2, <1>3, <1>4, <1>5, <1>6, StepsAre

LEMMA InitExchange == Init => ExchangeInv
  BY DEF Init, ExchangeInv, Used

LEMMA ExchangeNext == RowsInv /\ ExchangeInv /\ [Next]_vars => ExchangeInv'
  <1> SUFFICES ASSUME RowsInv, ExchangeInv, [Next]_vars PROVE ExchangeInv'
    OBVIOUS
  <1>0. Used \subseteq Tokens
    BY DEF Used
  <1>1. \A t \in Tokens : state[t] = "rotation" => state'[t] = "rotation"
    BY ClosedStay DEF Reasons
  <1>2. CASE ~ \E r \in Requests : Insert(r)
    BY <1>0, <1>1, <1>2, OnlyInsertMakes DEF ExchangeInv
  <1>3. ASSUME NEW r \in Requests, Insert(r) PROVE ExchangeInv'
    <2> DEFINE n == Cardinality(Used) + 1
               p == req[r].pick
    <2>1. \A t \in Used : t < n
      BY NextIsNew DEF RowsInv
    <2> HIDE DEF n
    <2>2. /\ n \in Tokens \ Used /\ Used' = Used \cup {n}
          /\ p \in Tokens => state[p] = "active" /\ state'[p] = "rotation"
          /\ spent' = [spent EXCEPT ![n] = p]
      BY <1>3, InsertMoves DEF n
    <2>3. p \in Tokens \cup {NoToken}
      BY Fields DEF RowsInv
    <2>4. p # NoToken => p \in Used
      BY <2>2, <2>3 DEF Used
    <2>5. spent'[n] = p /\ \A t \in Used : spent'[t] = spent[t]
      BY <1>0, <2>2 DEF RowsInv, TypeOK
    <2>6. \A t \in Used : spent[t] # NoToken => spent[t] # p
      BY <2>2, <2>3 DEF ExchangeInv, Used
    <2> SUFFICES ASSUME NEW t \in Used \cup {n}, spent'[t] # NoToken
                 PROVE  /\ spent'[t] \in Used \cup {n} /\ spent'[t] < t
                        /\ state'[spent'[t]] = "rotation"
                        /\ \A u \in Used \cup {n} : spent'[t] = spent'[u] => t = u
      BY <2>2 DEF ExchangeInv
    <2>7. CASE t = n
      BY <2>1, <2>2, <2>3, <2>4, <2>5, <2>6, <2>7
    <2>8. CASE t \in Used
      <3>1. /\ spent[t] \in Used /\ spent[t] < t /\ state[spent[t]] = "rotation"
            /\ \A u \in Used : spent[t] = spent[u] => t = u
        BY <2>5, <2>8 DEF ExchangeInv
      <3> QED
        BY <1>0, <1>1, <2>5, <2>6, <2>8, <3>1
    <2> QED
      BY <2>7, <2>8
  <1> QED
    BY <1>2, <1>3

\* A session is exchanged for one other at most, and closed by rotation, however many tabs send
\* its token at once and whichever way they are answered.
THEOREM EachSessionIsExchangedOnceAlways == Spec => []EachSessionIsExchangedOnce
  <1>1. ExchangeInv => EachSessionIsExchangedOnce
    BY DEF ExchangeInv, EachSessionIsExchangedOnce
  <1> QED
    BY <1>1, InitExchange, ExchangeNext, RowsAlways, PTL DEF Spec

(***************************************************************************)
(* Passwords.                                                              *)
(***************************************************************************)
LEMMA InitPassword == Init => PasswordInv
  BY IdleType DEF Init, PasswordInv, Active, Changing

\* A request that does not hold the new password's row only moves on.
LEMMA QuietPassword ==
    ASSUME RowsInv, PasswordInv, NEW r \in Requests,
           \A s \in Requests \ {r} : req'[s] = req[s],
           req'[r].at # "change",
           req'[r].at = "insert" /\ req'[r].pick = NoToken /\ ~ req'[r].overran
              => req'[r].knows = password,
           password' = password, chain' = chain, Active' \subseteq Active
    PROVE  PasswordInv'
  <1>1. Changing' \subseteq Changing \ {r}
    BY DEF Changing
  <1>2. \A t \in Active' : chain'[t] \in {password', Overran}
    BY DEF PasswordInv
  <1>3. \A s \in Requests : req'[s].at = "insert" /\ req'[s].pick = NoToken /\ ~ req'[s].overran
            => req'[s].knows = password'
    BY DEF PasswordInv
  <1>4. \A s, q \in Changing' : s = q
    BY <1>1 DEF PasswordInv
  <1>5. \A s \in Changing' : \A t \in Active' :
            t \in req'[s].others \/ t = req'[s].token \/ chain'[t] = Overran
    BY <1>1 DEF PasswordInv, Changing
  <1> QED
    BY <1>2, <1>3, <1>4, <1>5 DEF PasswordInv

LEMMA BeginChangePassword ==
    ASSUME RowsInv, PasswordInv, NEW r \in Requests, BeginChange(r)
    PROVE  PasswordInv'
  <1>1. /\ Changing = {} /\ UNCHANGED <<password, state, chain>>
        /\ \A s \in Requests \ {r} : req'[s] = req[s]
        /\ req'[r] = [req[r] EXCEPT !.at = "change", !.others = Others(r), !.now = clock]
    BY DEF BeginChange, RowsInv, TypeOK, rows, ghosts
  <1>2. /\ req'[r].at = "change" /\ req'[r].others = Active \ {req[r].token}
        /\ req'[r].token = req[r].token
    BY <1>1, Fields DEF RowsInv, Request, Others
  <1>3. Changing' = {r}
    <2>1. \A s \in Requests : req[s].at # "change"
      BY <1>1 DEF Changing
    <2>2. \A s \in Requests : req'[s].at = "change" <=> s = r
      BY <1>1, <1>2, <2>1
    <2>3. Changing' = {s \in Requests : req'[s].at = "change"}
      BY DEF Changing
    <2> QED
      BY <2>2, <2>3
  <1>4. Active' = Active
    BY <1>1 DEF Active
  <1>5. \A t \in Active' : chain'[t] \in {password', Overran}
    BY <1>1, <1>4 DEF PasswordInv
  <1>6. \A s \in Requests : req'[s].at = "insert" /\ req'[s].pick = NoToken /\ ~ req'[s].overran
            => req'[s].knows = password'
    BY <1>1, <1>2 DEF PasswordInv
  <1>7. \A s \in Changing' : \A t \in Active' :
            t \in req'[s].others \/ t = req'[s].token \/ chain'[t] = Overran
    BY <1>2, <1>3, <1>4
  <1> QED
    BY <1>3, <1>5, <1>6, <1>7 DEF PasswordInv

\* A session made while a password changes is not of that password; one that goes on for another
\* is of the same.
LEMMA InsertPassword ==
    ASSUME RowsInv, PasswordInv, NEW r \in Requests, Insert(r)
    PROVE  PasswordInv'
  <1> DEFINE n == Cardinality(Used) + 1
             p == req[r].pick
             made == IF req[r].overran \/ Changing # {} THEN Overran
                     ELSE IF p = NoToken THEN req[r].knows ELSE chain[p]
  <1>1. password' = password /\ chain' = [chain EXCEPT ![n] = made]
    BY DEF Insert
  <1> HIDE DEF n
  <1>2. /\ n \in Tokens \ Used /\ \A s \in Requests \ {r} : req'[s] = req[s]
        /\ req[r].at = "insert" /\ req'[r] = Answering(r, n)
        /\ p \in Tokens => state[p] = "active" /\ state'[p] = "rotation"
        /\ \A t \in Tokens : t # n /\ t # p => state'[t] = state[t]
    BY InsertMoves DEF n
  <1>3. req'[r].at = "answer"
    <2>1. n \in Tokens \cup {NoToken}
      BY <1>2
    <2>2. Answering(r, n).at = "answer"
      BY <2>1, AnsweringType DEF RowsInv
    <2> QED
      BY <1>2, <2>2
  <1>4. Active' \subseteq Active \cup {n} /\ n \notin Active
    <2>1. n \notin Active
      BY <1>2 DEF Active, Used
    <2>2. \A t \in Tokens \ {n} : state'[t] = "active" => state[t] = "active"
      BY <1>2
    <2> QED
      BY <2>1, <2>2 DEF Active
  <1>5. chain'[n] = made /\ \A t \in Active : chain'[t] = chain[t]
    BY <1>1, <1>2, <1>4 DEF RowsInv, TypeOK, Active
  <1>6. Changing' = Changing
    BY <1>2, <1>3 DEF Changing
  <1>7. made \in {password, Overran}
    <2>1. CASE req[r].overran \/ Changing # {}
      BY <2>1
    <2>2. CASE ~ req[r].overran /\ Changing = {} /\ p = NoToken
      BY <1>2, <2>2 DEF PasswordInv
    <2>3. CASE ~ req[r].overran /\ Changing = {} /\ p # NoToken
      <3>1. p \in Tokens
        BY <2>3, Fields DEF RowsInv
      <3>2. p \in Active
        BY <1>2, <3>1 DEF Active
      <3> QED
        BY <2>3, <3>2 DEF PasswordInv
    <2> QED
      BY <2>1, <2>2, <2>3
  <1>8. Changing # {} => made = Overran
    OBVIOUS
  <1> HIDE DEF made
  <1>9. \A t \in Active' : chain'[t] \in {password', Overran}
    BY <1>1, <1>4, <1>5, <1>7 DEF PasswordInv
  <1>10. \A s \in Requests : req'[s].at = "insert" /\ req'[s].pick = NoToken /\ ~ req'[s].overran
            => req'[s].knows = password'
    BY <1>1, <1>2, <1>3 DEF PasswordInv
  <1>11. \A s \in Changing' : \A t \in Active' :
            t \in req'[s].others \/ t = req'[s].token \/ chain'[t] = Overran
    <2> TAKE s \in Changing'
    <2>1. s \in Changing /\ req'[s] = req[s] /\ Changing # {}
      BY <1>2, <1>3, <1>6 DEF Changing
    <2> TAKE t \in Active'
    <2>2. CASE t = n
      BY <1>5, <1>8, <2>1, <2>2
    <2>3. CASE t \in Active
      BY <1>5, <2>1, <2>3 DEF PasswordInv
    <2> QED
      BY <1>4, <2>2, <2>3
  <1>12. \A s, q \in Changing' : s = q
    BY <1>6 DEF PasswordInv
  <1> QED
    BY <1>9, <1>10, <1>11, <1>12 DEF PasswordInv

\* The change that commits closes what it found, and what it did not find was made during it.
LEMMA ChangePassword ==
    ASSUME RowsInv, PasswordInv, NEW r \in Requests, Change(r)
    PROVE  PasswordInv'
  <1>1. /\ req[r].at = "change" /\ req'[r] = Idle
        /\ \A s \in Requests \ {r} :
              \/ req'[s] = req[s] /\ req[s].at \notin {"insert", "change"}
              \/ req'[s] = [req[s] EXCEPT !.overran = TRUE] /\ req[s].at \in {"insert", "change"}
        /\ \A t \in Tokens :
              \/ state'[t] = state[t] /\ t \notin req[r].others \cap Active
              \/ t \in req[r].others \cap Active /\ state'[t] = "password_change"
    BY ChangeMoves
  <1>2. /\ password' = password + 1
        /\ \A t \in Tokens : chain'[t] = IF t = req[r].token THEN password + 1 ELSE chain[t]
    BY DEF Change
  <1>3. r \in Changing
    BY <1>1 DEF Changing
  <1>4. \A s \in Requests \ {r} : req[s].at # "change"
    BY <1>3 DEF PasswordInv, Changing
  <1>5. \A s \in Requests \ {r} :
            req'[s].at # "change" /\ (req'[s].at = "insert" => req'[s].overran = TRUE)
    BY <1>1, <1>4, Fields DEF RowsInv, Request
  <1>6. Changing' = {}
    BY <1>1, <1>5, IdleType DEF Changing
  <1>7. \A s \in Requests : req'[s].at = "insert" /\ req'[s].pick = NoToken /\ ~ req'[s].overran
            => req'[s].knows = password'
    BY <1>1, <1>5, IdleType
  <1>8. \A t \in Active' : chain'[t] \in {password', Overran}
    <2> TAKE t \in Active'
    <2>1. t \in Active /\ t \in Tokens /\ t \notin req[r].others
      BY <1>1 DEF Active
    <2>2. t = req[r].token \/ chain[t] = Overran
      BY <1>3, <2>1 DEF PasswordInv
    <2> QED
      BY <1>2, <2>1, <2>2
  <1> QED
    BY <1>6, <1>7, <1>8 DEF PasswordInv

LEMMA PasswordNext == RowsInv /\ PasswordInv /\ [Next]_vars => PasswordInv'
  <1> SUFFICES ASSUME RowsInv, PasswordInv, [Next]_vars PROVE PasswordInv'
    OBVIOUS
  <1>1. CASE Tick \/ UNCHANGED vars
    BY <1>1, IdleRows DEF rows, ghosts, PasswordInv, Active, Changing
  <1>2. ASSUME NEW r \in Requests, NEW b \in Browsers, NEW kind \in Kinds, Send(r, b, kind)
        PROVE  PasswordInv'
    <2>1. /\ req'[r].at = "start" /\ \A s \in Requests \ {r} : req'[s] = req[s]
          /\ UNCHANGED <<password, state, chain>>
      BY <1>2, SendMoves DEF RowsInv, rows
    <2> QED
      BY <2>1, QuietPassword DEF Active
  <1>3. ASSUME NEW r \in Requests,
               CheckPassword(r) \/ RefuseLogin(r) \/ Unclaimed(r)
               \/ \E enabled \in BOOLEAN : Pick(r, enabled)
        PROVE  PasswordInv'
    <2>1. /\ \A s \in Requests \ {r} : req'[s] = req[s]
          /\ req'[r].at = "insert" => req'[r].knows = password
      BY <1>3, MoveMoves DEF RowsInv
    <2>2. req'[r].at # "change"
      <3>1. CASE CheckPassword(r)
        BY <3>1, Fields DEF CheckPassword, RowsInv, TypeOK, Request
      <3>2. CASE RefuseLogin(r)
        BY <3>2, IdleType DEF RefuseLogin, RowsInv, TypeOK
      <3>3. CASE Unclaimed(r)
        BY <3>3, Fields DEF Unclaimed, RowsInv, TypeOK, Request
      <3>4. CASE \E enabled \in BOOLEAN : Pick(r, enabled)
        <4> DEFINE t == CHOOSE x \in Candidates(r) : \A u \in Candidates(r) : u <= x
        <4>1. \/ req'[r] = [req[r] EXCEPT !.at = "refuse"]
              \/ req'[r] = [req[r] EXCEPT !.at = "rotate", !.pick = t]
          BY <3>4 DEF Pick, RowsInv, TypeOK
        <4> HIDE DEF t
        <4> QED
          BY <4>1, Fields DEF RowsInv, Request
      <3> QED
        BY <1>3, <3>1, <3>2, <3>3, <3>4
    <2>3. UNCHANGED <<password, state, chain>>
      BY <1>3, MoveType DEF RowsInv, rows, ghosts
    <2> QED
      BY <2>1, <2>2, <2>3, QuietPassword DEF Active
  <1>4. ASSUME NEW r \in Requests, BeginChange(r) PROVE PasswordInv'
    BY <1>4, BeginChangePassword
  <1>5. ASSUME NEW r \in Requests, Rotate(r) \/ \E enabled \in BOOLEAN : Claim(r, enabled)
        PROVE  PasswordInv'
    <2>1. /\ \A s \in Requests \ {r} : req'[s] = req[s]
          /\ req'[r].at \in {"insert", "refuse"}
          /\ req'[r].at = "insert" => req'[r].pick \in Tokens
      BY <1>5, TakeMoves DEF RowsInv
    <2>2. UNCHANGED <<password, state, chain>>
      BY <1>5, TakeType DEF RowsInv
    <2> QED
      BY <2>1, <2>2, QuietPassword, TokensAreNumbers DEF Active
  <1>6. ASSUME NEW r \in Requests, Insert(r) PROVE PasswordInv'
    BY <1>6, InsertPassword
  <1>7. ASSUME NEW r \in Requests, Refuse(r) \/ Logout(r) \/ Answer(r) \/ Lose(r)
        PROVE  PasswordInv'
    <2>1. /\ \A s \in Requests \ {r} : req'[s] = req[s]
          /\ req'[r] \in {Answering(r, NoToken), Idle}
      BY <1>7, EndMoves
    <2>2. Answering(r, NoToken).at = "answer" /\ Idle.at = "idle"
      BY AnsweringType, IdleType DEF RowsInv
    <2>3. req'[r].at \notin {"change", "insert"}
      BY <2>1, <2>2
    <2>4. Active' \subseteq Active
      <3>1. \A t \in Tokens : state'[t] = state[t] \/ state'[t] \in Reasons
        BY <1>7, EndMoves
      <3> QED
        BY <3>1 DEF Active, Reasons
    <2>5. UNCHANGED <<password, chain>>
      BY <1>7, EndType DEF RowsInv
    <2> QED
      BY <2>1, <2>3, <2>4, <2>5, QuietPassword
  <1>8. ASSUME NEW r \in Requests, Change(r) PROVE PasswordInv'
    BY <1>8, ChangePassword
  <1> QED
    BY <1>1, <1>2, <1>3, <1>4, <1>5, <1>6, <1>7, <1>8, StepsAre

\* After a password change no session that goes back to an older password is open, but the
\* caller's and those of requests the change overlapped.
THEOREM OldPasswordsAlwaysOpenNothing == Spec => []OldPasswordsOpenNothing
  <1>1. PasswordInv => OldPasswordsOpenNothing
    BY DEF PasswordInv, OldPasswordsOpenNothing
  <1> QED
    BY <1>1, InitPassword, PasswordNext, RowsAlways, PTL DEF Spec

(***************************************************************************)
(* Whose token is whose.                                                   *)
(***************************************************************************)

\* A step leaves request s as it was, but for the mark that a password change overran it.
SameView(s) ==
    /\ req'[s].at = req[s].at /\ req'[s].browser = req[s].browser
    /\ req'[s].token = req[s].token /\ req'[s].pick = req[s].pick
    /\ req'[s].others = req[s].others

\* A step that gives nobody a token it had not leaves the tokens with one browser each.
LEMMA OnesKept ==
    ASSUME TokensAreOnes, NEW r \in Requests,
           \A s \in Requests \ {r} : SameView(s),
           \A b \in Browsers, t \in Tokens : cookie'[b] = t => Has(b, t),
           \A b \in Browsers, t \in Tokens :
              /\ (req'[r].browser = b /\ req'[r].token = t => Has(b, t))
              /\ (req'[r].browser = b /\ req'[r].at = "answer" /\ req'[r].pick = t => Has(b, t)),
           Used \subseteq Used'
    PROVE  TokensAreOnes'
  <1>1. ASSUME NEW b \in Browsers, NEW t \in Tokens, Has(b, t)' PROVE Has(b, t)
    <2>1. CASE cookie'[b] = t
      BY <2>1
    <2>2. CASE \E s \in Busy(b)' : req'[s].token = t \/ (req'[s].at = "answer" /\ req'[s].pick = t)
      <3>1. PICK s \in Requests :
              /\ req'[s].browser = b
              /\ req'[s].token = t \/ (req'[s].at = "answer" /\ req'[s].pick = t)
        BY <2>2 DEF Busy
      <3>2. CASE s = r
        BY <3>1, <3>2
      <3>3. CASE s # r
        BY <3>1, <3>3 DEF SameView, Has, Busy
      <3> QED
        BY <3>2, <3>3
    <2> QED
      BY <1>1, <2>1, <2>2 DEF Has
  <1>2. ASSUME NEW b \in Browsers, NEW t \in Tokens, Has(b, t)'
        PROVE  t \in Used' /\ \A c \in Browsers : Has(c, t)' => c = b
    <2>1. Has(b, t)
      BY <1>1, <1>2
    <2>2. t \in Used /\ \A c \in Browsers : Has(c, t) => c = b
      BY <2>1 DEF TokensAreOnes
    <2>3. ASSUME NEW c \in Browsers, Has(c, t)' PROVE c = b
      BY <1>1, <2>2, <2>3
    <2> QED
      BY <2>2, <2>3
  <1> QED
    BY <1>2 DEF TokensAreOnes

\* Who holds a token has it.
LEMMA HoldersHave ==
    ASSUME NEW t, NEW b \in HoldersOf(t)
    PROVE  b \in Browsers /\ Has(b, t)
  BY DEF HoldersOf, Has

\* A lone browser whose requests do not take the step goes on, unless what it holds is closed.
LEMMA OtherGoesOn ==
    ASSUME NEW r \in Requests, NEW b \in Browsers, GoesOn(b), TypeOK,
           \A s \in Requests \ {r} : SameView(s),
           req[r].browser # b, req'[r].browser # b, cookie'[b] = cookie[b],
           \A t \in Tokens : b \in HoldersOf(t) /\ state[t] = "active" => state'[t] = "active"
    PROVE  GoesOn(b)'
  <1>1. Busy(b)' = Busy(b)
    BY DEF Busy, SameView
  <1>2. r \notin Busy(b) /\ Busy(b) \subseteq Requests
    BY DEF Busy
  <1>3. cookie[b] # NoToken /\ state[cookie[b]] = "active" => state'[cookie[b]] = "active"
    <2>1. cookie[b] \in Tokens \cup {NoToken}
      BY DEF TypeOK
    <2> QED
      BY <2>1 DEF HoldersOf
  <1>4. ASSUME NEW s \in Busy(b), req[s].at = "answer", req[s].pick # NoToken
        PROVE  state'[req[s].pick] = "active"
    <2>1. req[s].pick \in Tokens
      BY <1>2, <1>4, Fields
    <2>2. b \in HoldersOf(req[s].pick)
      BY <1>4 DEF HoldersOf
    <2>3. state[req[s].pick] = "active"
      BY <1>4 DEF GoesOn
    <2> QED
      BY <2>1, <2>2, <2>3
  <1>5. \A s \in Busy(b) : SameView(s)
    BY <1>2
  <1>6. \A s, q \in Busy(b)' : s = q
    BY <1>1 DEF GoesOn
  <1>7. Busy(b)' = {} /\ cookie'[b] # NoToken => state'[cookie'[b]] = "active"
    BY <1>1, <1>3 DEF GoesOn
  <1>8. ASSUME NEW s \in Busy(b)'
        PROVE  /\ req'[s].at = "answer" /\ req'[s].pick # NoToken => state'[req'[s].pick] = "active"
               /\ req'[s].at # "answer" =>
                     /\ req'[s].token = cookie'[b] /\ req'[s].at # "rotate"
                     /\ cookie'[b] # NoToken => state'[cookie'[b]] = "active"
    <2>1. s \in Busy(b) /\ SameView(s)
      BY <1>1, <1>5, <1>8
    <2>2. req'[s].at = "answer" /\ req'[s].pick # NoToken => state'[req'[s].pick] = "active"
      BY <1>4, <2>1 DEF SameView
    <2>3. req'[s].at # "answer" =>
             /\ req'[s].token = cookie'[b] /\ req'[s].at # "rotate"
             /\ cookie'[b] # NoToken => state'[cookie'[b]] = "active"
      BY <1>3, <2>1 DEF SameView, GoesOn
    <2> QED
      BY <2>2, <2>3
  <1> QED
    BY <1>6, <1>7, <1>8 DEF GoesOn

\* No row that is being replaced comes to be held by another lone browser.
LEMMA LeftKept ==
    ASSUME OthersAreLeft, NEW r \in Requests, lone' \subseteq lone,
           \A s \in Requests \ {r} : SameView(s),
           \A t \in Tokens : \/ HoldersOf(t)' \subseteq HoldersOf(t)
                             \/ \A s \in Requests \ {r} : req[s].at = "insert" => req[s].pick # t,
           \A t \in Tokens : \A b \in lone' :
              req'[r].at = "insert" /\ req'[r].pick = t /\ b # req'[r].browser
                 => b \notin HoldersOf(t)'
    PROVE  OthersAreLeft'
  <1> SUFFICES ASSUME NEW s \in Requests, NEW t \in Tokens, NEW b \in lone',
                      req'[s].at = "insert", req'[s].pick = t, b # req'[s].browser
               PROVE  b \notin HoldersOf(t)'
    BY DEF OthersAreLeft
  <1>1. CASE s = r
    BY <1>1
  <1>2. CASE s # r
    <2>1. SameView(s)
      BY <1>2
    <2>2. req[s].at = "insert" /\ req[s].pick = t /\ b # req[s].browser /\ b \in lone
      BY <2>1 DEF SameView
    <2>3. b \notin HoldersOf(t)
      BY <2>2 DEF OthersAreLeft
    <2> QED
      BY <1>2, <2>2, <2>3
  <1> QED
    BY <1>1, <1>2

\* Who holds a token after a step held it before, or the step gave it to him.
LEMMA HoldersKept ==
    ASSUME NEW r \in Requests, NEW t \in Tokens,
           \A s \in Requests \ {r} : SameView(s),
           \A b \in Browsers : cookie'[b] = t => b \in HoldersOf(t),
           req'[r].at = "answer" => req'[r].pick # t
    PROVE  HoldersOf(t)' \subseteq HoldersOf(t)
  <1> SUFFICES ASSUME NEW b \in Browsers,
                      cookie'[b] = t \/ \E s \in Busy(b)' : req'[s].at = "answer" /\ req'[s].pick = t
               PROVE  b \in HoldersOf(t)
    BY DEF HoldersOf
  <1>1. CASE cookie'[b] = t
    BY <1>1
  <1>2. CASE \E s \in Busy(b)' : req'[s].at = "answer" /\ req'[s].pick = t
    <2>1. PICK s \in Requests : req'[s].browser = b /\ req'[s].at = "answer" /\ req'[s].pick = t
      BY <1>2 DEF Busy
    <2>2. SameView(s)
      BY <2>1
    <2> QED
      BY <2>1, <2>2 DEF SameView, HoldersOf, Busy
  <1> QED
    BY <1>1, <1>2

LEMMA FitKept ==
    ASSUME RequestsFit, NEW r \in Requests,
           \A s \in Requests \ {r} : SameView(s),
           req'[r].at = "idle" <=> req'[r].browser = Nobody,
           req'[r].at = "grace" => req'[r].token # NoToken,
           req'[r].at = "change" => req'[r].token \notin req'[r].others
    PROVE  RequestsFit'
  BY DEF RequestsFit, SameView

LEMMA SendLone ==
    ASSUME RowsInv, LoneInv, NEW r \in Requests, NEW b \in Browsers, NEW kind \in Kinds,
           Send(r, b, kind)
    PROVE  LoneInv'
  <1>1. /\ req[r].at = "idle" /\ req'[r].at = "start" /\ req'[r].token = cookie[b]
        /\ req'[r].browser = b
        /\ \A s \in Requests \ {r} : req'[s] = req[s]
        /\ UNCHANGED <<cookie, state>>
    BY SendMoves DEF RowsInv, rows
  <1>2. lone' = IF Busy(b) = {} THEN lone ELSE lone \ {b}
    BY DEF Send
  <1>3. \A s \in Requests \ {r} : SameView(s)
    BY <1>1 DEF SameView
  <1>4. b # Nobody /\ req[r].browser = Nobody
    BY <1>1, TokensAreNumbers DEF LoneInv, RequestsFit
  <1>5. RequestsFit'
    BY <1>1, <1>3, <1>4, FitKept DEF LoneInv
  <1>6. TokensAreOnes'
    BY <1>1, <1>3, OnesKept DEF LoneInv, Has, Used
  <1>7. ASSUME NEW c \in lone' PROVE GoesOn(c)'
    <2>1. c \in lone /\ c \in Browsers /\ GoesOn(c)
      BY <1>2 DEF RowsInv, TypeOK, LoneInv, LoneGoOn
    <2>2. CASE c = b
      <3>1. Busy(b) = {} /\ (cookie[b] # NoToken => state[cookie[b]] = "active")
        BY <1>2, <2>1, <2>2 DEF GoesOn
      <3>2. Busy(b)' = {r}
        BY <1>1, <3>1 DEF Busy
      <3> QED
        BY <1>1, <2>2, <3>1, <3>2 DEF GoesOn
    <2>3. CASE c # b
      <3>1. c # Nobody
        BY <2>1, TokensAreNumbers
      <3> QED
        BY <1>1, <1>3, <1>4, <2>1, <2>3, <3>1, OtherGoesOn DEF RowsInv
    <2> QED
      BY <2>2, <2>3
  <1>8. OthersAreLeft'
    <2>1. \A t \in Tokens : HoldersOf(t)' \subseteq HoldersOf(t)
      BY <1>1, <1>3, HoldersKept DEF HoldersOf
    <2> QED
      BY <1>1, <1>2, <1>3, <2>1, LeftKept DEF LoneInv
  <1> QED
    BY <1>5, <1>6, <1>7, <1>8 DEF LoneInv, LoneGoOn

\* A refresh on the grace path rotates a session in place of a token that rotation closed.
LEMMA RotatorsWereRotated ==
    ASSUME RowsInv, NEW r \in Requests,
           \/ CheckPassword(r) \/ RefuseLogin(r) \/ Unclaimed(r) \/ BeginChange(r)
           \/ \E enabled \in BOOLEAN : Pick(r, enabled)
    PROVE  /\ req'[r].at = "rotate" => req[r].at = "grace" /\ state[req[r].token] = "rotation"
           /\ req'[r].at = "grace" => req'[r].token # NoToken
           /\ req'[r].at = "change" => req'[r].token \notin req'[r].others
  <1>1. req \in [Requests -> Request]
    BY DEF RowsInv, TypeOK
  <1>2. CASE CheckPassword(r)
    BY <1>1, <1>2, Fields DEF CheckPassword, Request
  <1>3. CASE RefuseLogin(r)
    BY <1>1, <1>3, IdleType DEF RefuseLogin
  <1>4. CASE Unclaimed(r)
    BY <1>1, <1>4, Fields DEF Unclaimed, Request
  <1>5. CASE BeginChange(r)
    BY <1>1, <1>5, Fields DEF BeginChange, Request, Others
  <1>6. CASE \E enabled \in BOOLEAN : Pick(r, enabled)
    <2>1. PICK enabled \in BOOLEAN : Pick(r, enabled)
      BY <1>6
    <2>2. CASE enabled /\ Recent(r) /\ Candidates(r) # {}
      <3> DEFINE t == CHOOSE x \in Candidates(r) : \A u \in Candidates(r) : u <= x
      <3>1. req'[r] = [req[r] EXCEPT !.at = "rotate", !.pick = t]
        BY <1>1, <2>1, <2>2 DEF Pick
      <3> HIDE DEF t
      <3>2. req'[r].at = "rotate"
        BY <3>1, Fields DEF RowsInv, Request
      <3>3. req[r].at = "grace" /\ state[req[r].token] = "rotation"
        BY <2>1, <2>2 DEF Pick, Recent
      <3> QED
        BY <3>2, <3>3
    <2>3. CASE ~ (enabled /\ Recent(r) /\ Candidates(r) # {})
      <3>1. req'[r] = [req[r] EXCEPT !.at = "refuse"]
        BY <1>1, <2>1, <2>3 DEF Pick
      <3>2. req'[r].at = "refuse"
        BY <3>1, Fields DEF RowsInv, Request
      <3> QED
        BY <3>2
    <2> QED
      BY <2>2, <2>3
  <1> QED
    BY <1>2, <1>3, <1>4, <1>5, <1>6

LEMMA MoveLone ==
    ASSUME RowsInv, LoneInv, NEW r \in Requests,
           \/ CheckPassword(r) \/ RefuseLogin(r) \/ Unclaimed(r) \/ BeginChange(r)
           \/ \E enabled \in BOOLEAN : Pick(r, enabled)
    PROVE  LoneInv'
  <1>1. /\ \A s \in Requests \ {r} : req'[s] = req[s]
        /\ req[r].at \in {"start", "grace"}
        /\ req'[r].at \in {"idle", "insert", "refuse", "grace", "rotate", "change"}
        /\ req'[r].at = "insert" => req[r].at = "start" /\ req'[r].pick = req[r].pick
        /\ \/ req'[r].token = req[r].token /\ req'[r].browser = req[r].browser
           \/ req'[r].at = "idle" /\ req'[r] = Idle
        /\ req'[r].at = "idle" => req'[r] = Idle
    BY MoveMoves DEF RowsInv
  <1>2. UNCHANGED <<cookie, state, lone>>
    BY MoveType DEF RowsInv, rows, ghosts
  <1>3. \A s \in Requests \ {r} : SameView(s)
    BY <1>1 DEF SameView
  <1>4. \/ req'[r].at = "idle" /\ req'[r].browser = Nobody /\ req'[r].token = NoToken
        \/ /\ req'[r].at # "idle" /\ req'[r].token = req[r].token
           /\ req'[r].browser = req[r].browser
    BY <1>1, IdleType
  <1>5. req[r].browser # Nobody /\ req'[r].at # "answer"
    BY <1>1 DEF LoneInv, RequestsFit
  <1>6. RequestsFit'
    BY <1>3, <1>4, <1>5, RotatorsWereRotated, FitKept DEF LoneInv
  <1>7. TokensAreOnes'
    <2>1. \A b \in Browsers, t \in Tokens :
              /\ (req'[r].browser = b /\ req'[r].token = t => Has(b, t))
              /\ (req'[r].browser = b /\ req'[r].at = "answer" /\ req'[r].pick = t => Has(b, t))
      BY <1>4, <1>5, TokensAreNumbers DEF Has, Busy
    <2> QED
      BY <1>2, <1>3, <2>1, OnesKept DEF LoneInv, Has, Used
  <1>8. ASSUME NEW c \in lone' PROVE GoesOn(c)'
    <2>1. c \in lone /\ c \in Browsers /\ c # Nobody /\ GoesOn(c)
      BY <1>2, TokensAreNumbers DEF RowsInv, TypeOK, LoneInv, LoneGoOn
    <2>2. CASE c = req[r].browser
      <3>1. Busy(c) = {r}
        BY <2>1, <2>2 DEF GoesOn, Busy
      <3>2. req[r].token = cookie[c] /\ (cookie[c] # NoToken => state[cookie[c]] = "active")
        BY <1>1, <2>1, <3>1 DEF GoesOn
      <3>3. req'[r].at # "rotate"
        BY <1>1, <3>2, RotatorsWereRotated DEF LoneInv, RequestsFit
      <3>4. CASE req'[r].at = "idle"
        <4>1. Busy(c)' = {}
          BY <1>1, <1>4, <2>1, <3>1, <3>4 DEF Busy
        <4> QED
          BY <1>2, <3>2, <4>1 DEF GoesOn
      <3>5. CASE req'[r].at # "idle"
        <4>1. Busy(c)' = {r}
          BY <1>1, <1>4, <2>2, <3>1, <3>5 DEF Busy
        <4> QED
          BY <1>2, <1>4, <1>5, <3>2, <3>3, <3>5, <4>1 DEF GoesOn
      <3> QED
        BY <3>4, <3>5
    <2>3. CASE c # req[r].browser
      BY <1>2, <1>3, <1>4, <2>1, <2>3, OtherGoesOn DEF RowsInv
    <2> QED
      BY <2>2, <2>3
  <1>9. OthersAreLeft'
    <2>1. \A t \in Tokens : HoldersOf(t)' \subseteq HoldersOf(t)
      BY <1>2, <1>3, <1>5, HoldersKept DEF HoldersOf
    <2>2. req'[r].at = "insert" => req'[r].pick \notin Tokens
      BY <1>1, TokensAreNumbers DEF RowsInv, ReadersPick
    <2> QED
      BY <1>2, <1>3, <2>1, <2>2, LeftKept DEF LoneInv
  <1> QED
    BY <1>6, <1>7, <1>8, <1>9 DEF LoneInv, LoneGoOn

\* Who is given the row a lone browser goes on with is that browser, or it is lone no more.
LEMMA TakeLone ==
    ASSUME RowsInv, LoneInv, NEW r \in Requests,
           Rotate(r) \/ \E enabled \in BOOLEAN : Claim(r, enabled)
    PROVE  LoneInv'
  <1>1. /\ \A s \in Requests \ {r} : req'[s] = req[s]
        /\ req[r].at \in {"start", "rotate"} /\ req'[r].at \in {"insert", "refuse"}
        /\ req'[r].token = req[r].token /\ req'[r].browser = req[r].browser
        /\ \/ req'[r].at = "refuse" /\ req[r].at = "rotate" /\ lone' = lone
           \/ /\ req'[r].pick \in Tokens
              /\ \/ /\ req[r].at = "start" /\ lone' = lone
                    /\ req'[r].pick = req[r].token
                 \/ /\ req'[r].at = "insert" /\ req[r].at = "rotate"
                    /\ req'[r].pick = req[r].pick
                    /\ lone' = lone \ (HoldersOf(req[r].pick) \ {req[r].browser})
    BY TakeMoves DEF RowsInv
  <1>2. UNCHANGED <<cookie, state>>
    BY TakeType DEF RowsInv
  <1>3. \A s \in Requests \ {r} : SameView(s)
    BY <1>1 DEF SameView
  <1>4. req[r].browser \in Browsers /\ req[r].browser # Nobody
    BY <1>1, Fields DEF LoneInv, RequestsFit, RowsInv
  <1>5. RequestsFit'
    BY <1>1, <1>3, <1>4, FitKept DEF LoneInv
  <1>6. TokensAreOnes'
    <2>1. \A b \in Browsers, t \in Tokens :
              /\ (req'[r].browser = b /\ req'[r].token = t => Has(b, t))
              /\ (req'[r].browser = b /\ req'[r].at = "answer" /\ req'[r].pick = t => Has(b, t))
      BY <1>1 DEF Has, Busy
    <2> QED
      BY <1>2, <1>3, <2>1, OnesKept DEF LoneInv, Has, Used
  <1>7. lone' \subseteq lone
    BY <1>1
  <1>8. ASSUME NEW c \in lone' PROVE GoesOn(c)'
    <2>1. c \in lone /\ c \in Browsers /\ GoesOn(c)
      BY <1>7 DEF RowsInv, TypeOK, LoneInv, LoneGoOn
    <2>2. CASE c = req[r].browser
      <3>1. Busy(c) = {r}
        BY <2>1, <2>2 DEF GoesOn, Busy
      <3>2. Busy(c)' = {r}
        BY <1>1, <2>2, <3>1 DEF Busy
      <3>3. req[r].token = cookie[c] /\ (cookie[c] # NoToken => state[cookie[c]] = "active")
        BY <1>1, <2>1, <3>1 DEF GoesOn
      <3> QED
        BY <1>1, <1>2, <3>2, <3>3 DEF GoesOn
    <2>3. CASE c # req[r].browser
      BY <1>1, <1>2, <1>3, <2>1, <2>3, OtherGoesOn DEF RowsInv
    <2> QED
      BY <2>2, <2>3
  <1>9. OthersAreLeft'
    <2>1. \A t \in Tokens : HoldersOf(t)' \subseteq HoldersOf(t)
      BY <1>1, <1>2, <1>3, HoldersKept DEF HoldersOf
    <2>2. ASSUME NEW t \in Tokens, NEW b \in lone', req'[r].at = "insert", req'[r].pick = t,
                 b # req'[r].browser, b \in HoldersOf(t)
          PROVE  FALSE
      <3>1. CASE req[r].at = "rotate"
        BY <1>1, <2>2, <3>1
      <3>2. CASE req[r].at = "start"
        <4>1. t = req[r].token
          BY <1>1, <2>2, <3>2
        <4>2. Has(req[r].browser, t)
          BY <4>1 DEF Has, Busy
        <4>3. b \in Browsers /\ Has(b, t)
          BY <2>2, HoldersHave
        <4> QED
          BY <1>1, <1>4, <2>2, <4>2, <4>3 DEF LoneInv, TokensAreOnes
      <3> QED
        BY <1>1, <3>1, <3>2
    <2> QED
      BY <1>3, <1>7, <2>1, <2>2, LeftKept DEF LoneInv
  <1> QED
    BY <1>5, <1>6, <1>8, <1>9 DEF LoneInv, LoneGoOn

\* The new session is nobody's but the browser's that asked for it, which it goes on with.
LEMMA InsertLone ==
    ASSUME RowsInv, LoneInv, NEW r \in Requests, Insert(r)
    PROVE  LoneInv'
  <1> DEFINE n == Cardinality(Used) + 1
             a == req[r].browser
  <1>1. /\ n \in Tokens \ Used /\ \A s \in Requests \ {r} : req'[s] = req[s]
        /\ req[r].at = "insert" /\ req'[r] = Answering(r, n) /\ state'[n] = "active"
        /\ \A t \in Tokens : t # n /\ t # req[r].pick => state'[t] = state[t]
        /\ Used' = Used \cup {n}
    BY InsertMoves
  <1> HIDE DEF n
  <1>2. /\ req'[r].at = "answer" /\ req'[r].browser = a /\ req'[r].token = NoToken
        /\ req'[r].pick = n
    <2>1. n \in Tokens \cup {NoToken}
      BY <1>1
    <2>2. /\ Answering(r, n).at = "answer" /\ Answering(r, n).browser = a
          /\ Answering(r, n).token = NoToken /\ Answering(r, n).pick = n
      BY <2>1, AnsweringType DEF RowsInv
    <2> QED
      BY <1>1, <2>2
  <1>3. cookie' = cookie /\ lone' = lone
    BY DEF Insert
  <1>4. \A s \in Requests \ {r} : SameView(s)
    BY <1>1 DEF SameView
  <1>5. a \in Browsers /\ a # Nobody
    BY <1>1, Fields DEF LoneInv, RequestsFit, RowsInv
  <1>6. RequestsFit'
    BY <1>2, <1>4, <1>5, FitKept DEF LoneInv
  <1>7. \A b \in Browsers : ~ Has(b, n)
    BY <1>1 DEF LoneInv, TokensAreOnes
  <1>8. ASSUME NEW b \in Browsers, NEW t \in Tokens, Has(b, t)' PROVE Has(b, t) \/ (b = a /\ t = n)
    <2>1. CASE cookie[b] = t
      BY <2>1 DEF Has
    <2>2. CASE \E s \in Busy(b)' : req'[s].token = t \/ (req'[s].at = "answer" /\ req'[s].pick = t)
      <3>1. PICK s \in Requests :
              /\ req'[s].browser = b
              /\ req'[s].token = t \/ (req'[s].at = "answer" /\ req'[s].pick = t)
        BY <2>2 DEF Busy
      <3>2. CASE s = r
        BY <1>2, <3>1, <3>2, TokensAreNumbers
      <3>3. CASE s # r
        BY <1>4, <3>1, <3>3 DEF SameView, Has, Busy
      <3> QED
        BY <3>2, <3>3
    <2> QED
      BY <1>3, <1>8, <2>1, <2>2 DEF Has
  <1>9. ASSUME NEW b \in Browsers, NEW t \in Tokens, Has(b, t)'
        PROVE  t \in Used' /\ \A c \in Browsers : Has(c, t)' => c = b
    <2>1. CASE t = n
      BY <1>1, <1>7, <1>8, <1>9, <2>1
    <2>2. CASE t # n
      <3>1. Has(b, t)
        BY <1>8, <1>9, <2>2
      <3>2. t \in Used /\ \A c \in Browsers : Has(c, t) => c = b
        BY <3>1 DEF LoneInv, TokensAreOnes
      <3>3. ASSUME NEW c \in Browsers, Has(c, t)' PROVE c = b
        BY <1>8, <2>2, <3>2, <3>3
      <3> QED
        BY <1>1, <3>2, <3>3
    <2> QED
      BY <2>1, <2>2
  <1>10. TokensAreOnes'
    BY <1>9 DEF TokensAreOnes
  <1>11. ASSUME NEW c \in lone' PROVE GoesOn(c)'
    <2>1. c \in lone /\ c \in Browsers /\ GoesOn(c)
      BY <1>3 DEF RowsInv, TypeOK, LoneInv, LoneGoOn
    <2>2. CASE c = a
      <3>1. Busy(c) = {r}
        BY <2>1, <2>2 DEF GoesOn, Busy
      <3>2. Busy(c)' = {r}
        BY <1>1, <1>2, <2>2, <3>1 DEF Busy
      <3> QED
        BY <1>1, <1>2, <3>2 DEF GoesOn
    <2>3. CASE c # a
      <3>1. \A t \in Tokens : c \in HoldersOf(t) /\ state[t] = "active" => state'[t] = "active"
        BY <1>1, <2>1, <2>3 DEF LoneInv, OthersAreLeft
      <3> QED
        BY <1>2, <1>3, <1>4, <2>1, <2>3, <3>1, OtherGoesOn DEF RowsInv
    <2> QED
      BY <2>2, <2>3
  <1>12. OthersAreLeft'
    <2>1. ASSUME NEW t \in Tokens, t # n PROVE HoldersOf(t)' \subseteq HoldersOf(t)
      BY <1>2, <1>3, <1>4, <2>1, HoldersKept DEF HoldersOf
    <2>2. \A s \in Requests : req[s].at = "insert" => req[s].pick # n
      <3> SUFFICES ASSUME NEW s \in Requests, req[s].at = "insert", req[s].pick = n PROVE FALSE
        OBVIOUS
      <3>1. n \in Tokens /\ n # NoToken
        BY <1>1, TokensAreNumbers
      <3>2. holder[n] = s
        BY <3>1 DEF RowsInv, InsertersHold
      <3>3. state[n] = "active"
        BY <3>1, <3>2, HoldersInsertOrRefuse, NobodyAssumption DEF RowsInv
      <3> QED
        BY <1>1, <3>3 DEF Used
    <2> QED
      BY <1>2, <1>3, <1>4, <2>1, <2>2, LeftKept DEF LoneInv
  <1> QED
    BY <1>6, <1>10, <1>11, <1>12 DEF LoneInv, LoneGoOn

\* A refusal or a sign-out closes the session of the browser it is of.
LEMMA RefuseLone ==
    ASSUME RowsInv, LoneInv, NEW r \in Requests, Refuse(r) \/ Logout(r)
    PROVE  LoneInv'
  <1> DEFINE a == req[r].browser
  <1>1. req'[r] = Answering(r, NoToken) /\ cookie' = cookie /\ lone' = lone
    BY DEF Refuse, Logout, ghosts, RowsInv, TypeOK
  <1>2. /\ \A s \in Requests \ {r} : req'[s] = req[s]
        /\ req[r].at # "idle" /\ Used' = Used
        /\ \A t \in Tokens : state'[t] = state[t] \/ t = req[r].token
    <2>1. req[r].at # "idle"
      BY DEF Refuse, Logout
    <2> QED
      BY <2>1, EndMoves
  <1>3. /\ req'[r].at = "answer" /\ req'[r].browser = a /\ req'[r].token = NoToken
        /\ req'[r].pick = NoToken
    <2>1. NoToken \in Tokens \cup {NoToken}
      OBVIOUS
    <2>2. /\ Answering(r, NoToken).at = "answer" /\ Answering(r, NoToken).browser = a
          /\ Answering(r, NoToken).token = NoToken /\ Answering(r, NoToken).pick = NoToken
      BY <2>1, AnsweringType DEF RowsInv
    <2> QED
      BY <1>1, <2>2
  <1>4. \A s \in Requests \ {r} : SameView(s)
    BY <1>2 DEF SameView
  <1>5. a \in Browsers /\ a # Nobody
    BY <1>2, Fields DEF LoneInv, RequestsFit, RowsInv
  <1>6. RequestsFit'
    BY <1>3, <1>4, <1>5, FitKept DEF LoneInv
  <1>7. TokensAreOnes'
    <2>1. \A b \in Browsers, t \in Tokens :
              /\ (req'[r].browser = b /\ req'[r].token = t => Has(b, t))
              /\ (req'[r].browser = b /\ req'[r].at = "answer" /\ req'[r].pick = t => Has(b, t))
      BY <1>3, TokensAreNumbers
    <2> QED
      BY <1>1, <1>2, <1>4, <2>1, OnesKept DEF LoneInv, Has
  <1>8. ASSUME NEW c \in lone' PROVE GoesOn(c)'
    <2>1. c \in lone /\ c \in Browsers /\ GoesOn(c)
      BY <1>1 DEF RowsInv, TypeOK, LoneInv, LoneGoOn
    <2>2. CASE c = a
      <3>1. Busy(c) = {r}
        BY <2>1, <2>2 DEF GoesOn, Busy
      <3>2. Busy(c)' = {r}
        BY <1>2, <1>3, <2>2, <3>1 DEF Busy
      <3> QED
        BY <1>3, <3>2 DEF GoesOn
    <2>3. CASE c # a
      <3>1. ASSUME NEW t \in Tokens, c \in HoldersOf(t) PROVE t # req[r].token
        <4> SUFFICES ASSUME t = req[r].token PROVE FALSE
          OBVIOUS
        <4>1. Has(a, t)
          BY DEF Has, Busy
        <4>2. Has(c, t)
          BY <3>1, HoldersHave
        <4> QED
          BY <1>5, <2>1, <2>3, <4>1, <4>2 DEF LoneInv, TokensAreOnes
      <3> QED
        BY <1>1, <1>2, <1>3, <1>4, <2>1, <2>3, <3>1, OtherGoesOn DEF RowsInv
    <2> QED
      BY <2>2, <2>3
  <1>9. OthersAreLeft'
    <2>1. \A t \in Tokens : HoldersOf(t)' \subseteq HoldersOf(t)
      BY <1>1, <1>3, <1>4, TokensAreNumbers, HoldersKept DEF HoldersOf
    <2> QED
      BY <1>1, <1>3, <1>4, <2>1, LeftKept DEF LoneInv
  <1> QED
    BY <1>6, <1>7, <1>8, <1>9 DEF LoneInv, LoneGoOn

\* The answer that sets a browser's cookie brings what the browser was about to be given.
LEMMA AnswerLone ==
    ASSUME RowsInv, LoneInv, NEW r \in Requests, Answer(r)
    PROVE  LoneInv'
  <1> DEFINE a == req[r].browser
             p == req[r].pick
  <1>1. /\ req[r].at = "answer" /\ cookie' = [cookie EXCEPT ![a] = p] /\ req'[r] = Idle
        /\ \A s \in Requests \ {r} : req'[s] = req[s]
        /\ UNCHANGED <<state, lone>>
    BY DEF Answer, rows, ghosts, RowsInv, TypeOK
  <1>2. req'[r].at = "idle" /\ req'[r].browser = Nobody /\ req'[r].token = NoToken
    BY <1>1, IdleType
  <1>3. \A s \in Requests \ {r} : SameView(s)
    BY <1>1 DEF SameView
  <1>4. a \in Browsers /\ a # Nobody
    BY <1>1, Fields DEF LoneInv, RequestsFit, RowsInv
  <1>5. /\ cookie'[a] = p /\ p \in Tokens \cup {NoToken}
        /\ \A b \in Browsers \ {a} : cookie'[b] = cookie[b]
    BY <1>1, <1>4, Fields DEF RowsInv, TypeOK
  <1>6. RequestsFit'
    BY <1>2, <1>3, FitKept DEF LoneInv
  <1>7. \A b \in Browsers, t \in Tokens : cookie'[b] = t => b \in HoldersOf(t)
    BY <1>1, <1>5 DEF HoldersOf, Busy
  <1>8. TokensAreOnes'
    <2>1. \A b \in Browsers, t \in Tokens :
              /\ (req'[r].browser = b /\ req'[r].token = t => Has(b, t))
              /\ (req'[r].browser = b /\ req'[r].at = "answer" /\ req'[r].pick = t => Has(b, t))
      BY <1>2, TokensAreNumbers
    <2> QED
      BY <1>1, <1>3, <1>7, <2>1, HoldersHave, OnesKept DEF LoneInv, Used
  <1>9. ASSUME NEW c \in lone' PROVE GoesOn(c)'
    <2>1. c \in lone /\ c \in Browsers /\ c # Nobody /\ GoesOn(c)
      BY <1>1, TokensAreNumbers DEF RowsInv, TypeOK, LoneInv, LoneGoOn
    <2>2. CASE c = a
      <3>1. Busy(c) = {r}
        BY <2>1, <2>2 DEF GoesOn, Busy
      <3>2. Busy(c)' = {}
        BY <1>1, <1>2, <2>1, <3>1 DEF Busy
      <3>3. p # NoToken => state[p] = "active"
        BY <1>1, <2>1, <3>1 DEF GoesOn
      <3> QED
        BY <1>1, <1>5, <2>2, <3>2, <3>3 DEF GoesOn
    <2>3. CASE c # a
      BY <1>1, <1>2, <1>3, <1>5, <2>1, <2>3, OtherGoesOn DEF RowsInv
    <2> QED
      BY <2>2, <2>3
  <1>10. OthersAreLeft'
    <2>1. \A t \in Tokens : HoldersOf(t)' \subseteq HoldersOf(t)
      BY <1>2, <1>3, <1>7, HoldersKept
    <2> QED
      BY <1>1, <1>2, <1>3, <2>1, LeftKept DEF LoneInv
  <1> QED
    BY <1>6, <1>8, <1>9, <1>10 DEF LoneInv, LoneGoOn

\* A browser that loses an answer is lone no more.
LEMMA LoseLone ==
    ASSUME RowsInv, LoneInv, NEW r \in Requests, Lose(r)
    PROVE  LoneInv'
  <1> DEFINE a == req[r].browser
  <1>1. /\ req'[r] = Idle /\ lone' = lone \ {a}
        /\ \A s \in Requests \ {r} : req'[s] = req[s]
        /\ UNCHANGED <<state, cookie>>
    BY DEF Lose, RowsInv, TypeOK
  <1>2. req'[r].at = "idle" /\ req'[r].browser = Nobody /\ req'[r].token = NoToken
    BY <1>1, IdleType
  <1>3. \A s \in Requests \ {r} : SameView(s)
    BY <1>1 DEF SameView
  <1>4. RequestsFit'
    BY <1>2, <1>3, FitKept DEF LoneInv
  <1>5. TokensAreOnes'
    <2>1. \A b \in Browsers, t \in Tokens :
              /\ (req'[r].browser = b /\ req'[r].token = t => Has(b, t))
              /\ (req'[r].browser = b /\ req'[r].at = "answer" /\ req'[r].pick = t => Has(b, t))
      BY <1>2, TokensAreNumbers
    <2> QED
      BY <1>1, <1>3, <2>1, OnesKept DEF LoneInv, Used, Has
  <1>6. ASSUME NEW c \in lone' PROVE GoesOn(c)'
    <2>1. c \in lone /\ c \in Browsers /\ c # Nobody /\ c # a /\ GoesOn(c)
      BY <1>1, TokensAreNumbers DEF RowsInv, TypeOK, LoneInv, LoneGoOn
    <2> QED
      BY <1>1, <1>2, <1>3, <2>1, OtherGoesOn DEF RowsInv
  <1>7. OthersAreLeft'
    <2>1. \A t \in Tokens : HoldersOf(t)' \subseteq HoldersOf(t)
      BY <1>1, <1>2, <1>3, HoldersKept DEF HoldersOf
    <2> QED
      BY <1>1, <1>2, <1>3, <2>1, LeftKept DEF LoneInv
  <1> QED
    BY <1>4, <1>5, <1>6, <1>7 DEF LoneInv, LoneGoOn

\* A password change closes the sessions of other browsers, which are lone no more, and leaves
\* the one of the browser it was asked in.
LEMMA ChangeLone ==
    ASSUME RowsInv, LoneInv, NEW r \in Requests, Change(r)
    PROVE  LoneInv'
  <1> DEFINE a == req[r].browser
             ended == req[r].others \cap Active
  <1>1. /\ req[r].at = "change" /\ req'[r] = Idle /\ cookie' = cookie /\ Used' = Used
        /\ \A s \in Requests \ {r} : req'[s] = req[s] \/ req'[s] = [req[s] EXCEPT !.overran = TRUE]
        /\ \A t \in Tokens : state'[t] = state[t] \/ t \in ended
    BY ChangeMoves
  <1>2. lone' = lone \ UNION {HoldersOf(t) : t \in ended \ {req[r].token}}
    BY DEF Change
  <1>3. \A s \in Requests \ {r} : SameView(s)
    BY <1>1, Fields DEF RowsInv, Request, SameView
  <1>4. req'[r].at = "idle" /\ req'[r].browser = Nobody /\ req'[r].token = NoToken
    BY <1>1, IdleType
  <1>5. req[r].token \notin ended
    BY <1>1 DEF LoneInv, RequestsFit
  <1>6. \A t \in ended : \A c \in lone' : c \notin HoldersOf(t)
    BY <1>2, <1>5
  <1>7. lone' \subseteq lone
    BY <1>2
  <1> HIDE DEF ended
  <1>8. RequestsFit'
    BY <1>3, <1>4, FitKept DEF LoneInv
  <1>9. TokensAreOnes'
    <2>1. \A b \in Browsers, t \in Tokens :
              /\ (req'[r].browser = b /\ req'[r].token = t => Has(b, t))
              /\ (req'[r].browser = b /\ req'[r].at = "answer" /\ req'[r].pick = t => Has(b, t))
      BY <1>4, TokensAreNumbers
    <2> QED
      BY <1>1, <1>3, <2>1, OnesKept DEF LoneInv, Has
  <1>10. ASSUME NEW c \in lone' PROVE GoesOn(c)'
    <2>1. c \in lone /\ c \in Browsers /\ c # Nobody /\ GoesOn(c)
      BY <1>7, TokensAreNumbers DEF RowsInv, TypeOK, LoneInv, LoneGoOn
    <2>2. CASE c = a
      <3>1. Busy(c) = {r}
        BY <2>1, <2>2 DEF GoesOn, Busy
      <3>2. Busy(c)' = {}
        BY <1>3, <1>4, <2>1, <3>1 DEF Busy, SameView
      <3>3. cookie[c] = req[r].token /\ (cookie[c] # NoToken => state[cookie[c]] = "active")
        BY <1>1, <2>1, <3>1 DEF GoesOn
      <3>4. req[r].token \in Tokens \cup {NoToken}
        BY Fields DEF RowsInv
      <3> QED
        BY <1>1, <1>5, <3>2, <3>3, <3>4 DEF GoesOn
    <2>3. CASE c # a
      BY <1>1, <1>3, <1>4, <1>6, <2>1, <2>3, OtherGoesOn DEF RowsInv
    <2> QED
      BY <2>2, <2>3
  <1>11. OthersAreLeft'
    <2>1. \A t \in Tokens : HoldersOf(t)' \subseteq HoldersOf(t)
      BY <1>1, <1>3, <1>4, HoldersKept DEF HoldersOf
    <2> QED
      BY <1>3, <1>4, <1>7, <2>1, LeftKept DEF LoneInv
  <1> QED
    BY <1>8, <1>9, <1>10, <1>11 DEF LoneInv, LoneGoOn

LEMMA InitLone == Init => LoneInv
  <1> SUFFICES ASSUME Init PROVE LoneInv
    OBVIOUS
  <1>1. RequestsFit
    BY IdleType DEF Init, RequestsFit
  <1>2. \A b \in Browsers : Busy(b) = {}
    BY IdleType, TokensAreNumbers DEF Init, Busy
  <1>3. TokensAreOnes
    BY <1>2, TokensAreNumbers DEF Init, TokensAreOnes, Has
  <1>4. LoneGoOn
    BY <1>2 DEF Init, LoneGoOn, GoesOn
  <1>5. OthersAreLeft
    BY IdleType DEF Init, OthersAreLeft
  <1> QED
    BY <1>1, <1>3, <1>4, <1>5 DEF LoneInv

LEMMA LoneNext == RowsInv /\ LoneInv /\ [Next]_vars => LoneInv'
  <1>1. ASSUME RowsInv, LoneInv, Tick \/ UNCHANGED vars PROVE LoneInv'
    BY <1>1, IdleRows
    DEF rows, ghosts, LoneInv, RequestsFit, TokensAreOnes, LoneGoOn, OthersAreLeft, GoesOn, Has,
        HoldersOf, Busy, Used
  <1> QED
    BY <1>1, StepsAre, SendLone, MoveLone, TakeLone, InsertLone, RefuseLone, AnswerLone, LoseLone,
       ChangeLone

\* A browser that sends one request at a time and loses no answer holds the token of an open
\* session until another browser ends that session or it expires: in whatever order the other
\* browsers' claims, grace-path rotations, insertions and answers fall, none of them takes it.
THEOREM LoneBrowsersAlwaysStaySignedIn == Spec => []LoneBrowsersStaySignedIn
  <1>1. RowsInv /\ LoneInv => LoneBrowsersStaySignedIn
    BY DEF LoneInv, LoneGoOn, GoesOn, LoneBrowsersStaySignedIn
  <1> QED
    BY <1>1, InitLone, LoneNext, RowsAlways, PTL DEF Spec
================================================================================

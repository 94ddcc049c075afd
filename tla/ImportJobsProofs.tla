--------------------------- MODULE ImportJobsProofs ---------------------------
(***************************************************************************)
(* What ImportJobs guarantees for any number of concurrent requests, jobs, *)
(* files, natural keys, registrations and failures; and what it guarantees *)
(* besides when requests come one at a time.                               *)
(***************************************************************************)
EXTENDS ImportJobs, FiniteSetTheorems, WellFoundedInduction, TLAPS

-----------------------------------------------------------------------------
(* Types *)

LEMMA BlankType == Blank \in Request /\ EmptyLog \in UndoLog
  <1>1. EmptyLog \in UndoLog
    BY DEF EmptyLog, UndoLog, Owner
  <1>2. 0 \in Nat \cup {Unset} /\ Unset \in Nat \cup {Unset}
    BY DEF Unset
  <1> QED
    BY <1>1, <1>2 DEF Blank, Request, Steps, Owner

LEMMA FieldTypes ==
    ASSUME TypeOK, NEW c \in Clients
    PROVE  /\ request[c] \in Request
           /\ request[c].job \in Owner /\ request[c].pc \in Steps
           /\ request[c].allow \in BOOLEAN /\ request[c].putBack \in BOOLEAN
           /\ request[c].counted \in [Keys -> Nat \cup {Unset}]
           /\ request[c].seen \in [Keys -> Nat]
           /\ request[c].added \in SUBSET Row /\ request[c].gone \in SUBSET Row
           /\ request[c].log \in UndoLog /\ request[c].slot \in Slots \cup {None}
           /\ request[c].wrote \in [Slots -> Owner \cup {Unset}]
  <1>1. request[c] \in Request
    BY DEF TypeOK
  <1> QED
    BY <1>1 DEF Request

LEMMA LogTypes ==
    ASSUME NEW log \in UndoLog
    PROVE  /\ log.replaced \in [Slots -> Owner] /\ log.linked \in BOOLEAN
           /\ log.before \in Owner \cup {Unset}
  BY DEF UndoLog

LEMMA BecomeType ==
    ASSUME TypeOK, NEW c \in Clients, NEW r \in Request, Become(c, r)
    PROVE  request' \in [Clients -> Request]
  BY DEF TypeOK, Become

LEMMA GotoType ==
    ASSUME TypeOK, NEW c \in Clients, NEW pc \in Steps, Goto(c, pc)
    PROVE  request' \in [Clients -> Request]
  <1>1. [request[c] EXCEPT !.pc = pc] \in Request
    BY FieldTypes DEF Request
  <1> QED
    BY <1>1, BecomeType DEF Goto

LEMMA FinishType ==
    ASSUME TypeOK, NEW c \in Clients, Finish(c)
    PROVE  request' \in [Clients -> Request]
  BY BlankType, BecomeType DEF Finish

LEMMA ReleaseType ==
    ASSUME TypeOK, NEW c \in Clients, Release(c)
    PROVE  /\ uploadLock' \in Clients \cup {None}
           /\ factLock' \in [Slots -> Clients \cup {None}]
  BY DEF TypeOK, Release

LEMMA ViewType ==
    ASSUME TypeOK, NEW c \in Clients, NEW s \in Slots
    PROVE  View(c, s) \in Owner
  BY FieldTypes DEF TypeOK, View

LEMMA PublishType ==
    ASSUME TypeOK, NEW c \in Clients, Publish(c)
    PROVE  txs' \in SUBSET Row /\ facts' \in [Slots -> Owner]
  BY FieldTypes, ViewType DEF TypeOK, Publish

LEMMA StartingType ==
    ASSUME NEW j \in Jobs, NEW allow \in BOOLEAN
    PROVE  Starting(j, allow) \in Request
  <1>1. [Blank EXCEPT !.pc = "identify", !.job = j, !.allow = allow] \in Request
    BY BlankType DEF Request, Steps, Owner
  <1> QED
    BY <1>1 DEF Starting

-----------------------------------------------------------------------------
(* Shapes: what a request's program counter says of its other fields *)

Preparing == {"identify", "lookup", "check", "validate", "lock"}
Inserting == {"rows", "facts", "commit"}
Removing  == {"delete", "restore", "decide", "remove"}

\* Only an inserting request has rows or counts to commit, and it has the lock
\* of the account; only a removing one has rows to delete.
WellFormed(c, r) ==
    /\ r.pc = "idle" => r = Blank
    /\ r.pc # "idle" => r.job \in Created
    /\ r.pc \in Preparing \cup Removing => r.added = {}
    /\ r.pc \in Preparing => /\ r.counted = [k \in Keys |-> Unset]
                             /\ r.seen = [k \in Keys |-> 0]
    /\ r.pc \in Inserting => uploadLock = c
    /\ r.pc \notin Removing => r.gone = {}
    /\ \A row \in r.added : row.job = r.job
    /\ r.putBack => r.pc = "remove" /\ r.log.before # Unset

Shaped == \A c \in Clients : WellFormed(c, request[c])

TypeInv == TypeOK /\ Shaped

LEMMA BlankShape == ASSUME NEW c \in Clients PROVE WellFormed(c, Blank) /\ WellFormed(c, Blank)'
  BY DEF WellFormed, Blank, Preparing, Inserting, Removing

\* A step of c gives c a well-formed request and takes no other's lock or job.
LEMMA BecomeShape ==
    ASSUME TypeInv, NEW c \in Clients, NEW r \in Request, Become(c, r),
           WellFormed(c, r)', Created \subseteq Created',
           \A d \in Clients \ {c} : uploadLock = d => uploadLock' = d
    PROVE  /\ request' \in [Clients -> Request]
           /\ Shaped'
  <1>1. request' \in [Clients -> Request]
    BY BecomeType DEF TypeInv
  <1>2. ASSUME NEW d \in Clients PROVE WellFormed(d, request[d])'
    <2>1. CASE d = c
      <3>1. request'[c] = r
        BY DEF Become, TypeInv, TypeOK
      <3> QED
        BY <2>1, <3>1 DEF WellFormed
    <2>2. CASE d # c
      <3>1. request'[d] = request[d]
        BY <2>2 DEF Become, TypeInv, TypeOK
      <3>2. WellFormed(d, request[d])
        BY DEF TypeInv, Shaped
      <3> QED
        BY <2>2, <3>1, <3>2 DEF WellFormed
    <2> QED
      BY <2>1, <2>2
  <1> QED
    BY <1>1, <1>2 DEF Shaped

LEMMA FinishShape ==
    ASSUME TypeInv, NEW c \in Clients, Finish(c), Created \subseteq Created',
           \A d \in Clients \ {c} : uploadLock = d => uploadLock' = d
    PROVE  request' \in [Clients -> Request] /\ Shaped'
  BY BlankType, BlankShape, BecomeShape DEF Finish

\* A job that is marked stays a created job.
LEMMA MarkType ==
    ASSUME TypeOK, NEW j \in Jobs, NEW mark \in Statuses \ {"none"},
           status' = [status EXCEPT ![j] = mark]
    PROVE  /\ status' \in [Jobs -> Statuses]
           /\ Created \subseteq Created' /\ j \in Created'
  BY DEF TypeOK, Created

LEMMA ReleaseKeeps ==
    ASSUME NEW c \in Clients, Release(c)
    PROVE  \A d \in Clients \ {c} : uploadLock = d => uploadLock' = d
  BY DEF Release

LEMMA JobType ==
    ASSUME TypeInv, NEW c \in Clients, ~At(c, "idle")
    PROVE  JobOf(c) \in Jobs /\ JobOf(c) \in Created /\ FileOf(c) \in File
  BY DEF TypeInv, TypeOK, Shaped, WellFormed, At, JobOf, FileOf, Created

LEMMA InitType == Init => TypeInv
  <1> SUFFICES ASSUME Init PROVE TypeInv
    OBVIOUS
  <1>1. NoFile \in File
    BY DEF NoFile, File
  <1>2. NoJob \in Owner
    BY DEF Owner
  <1>3. TypeOK
    BY <1>1, <1>2, BlankType DEF Init, TypeOK, Statuses
  <1>4. Shaped
    BY BlankShape DEF Init, Shaped
  <1> QED
    BY <1>3, <1>4 DEF TypeInv

LEMMA StartingShape ==
    ASSUME NEW c \in Clients, NEW j \in Jobs, NEW allow \in BOOLEAN, j \in Created'
    PROVE  Starting(j, allow) \in Request /\ WellFormed(c, Starting(j, allow))'
  <1>1. Starting(j, allow) \in Request
    BY StartingType
  <1>2. WellFormed(c, Starting(j, allow))'
    BY BlankType DEF Starting, WellFormed, Blank, Preparing, Inserting, Removing
  <1> QED
    BY <1>1, <1>2

\* Each action, the requests first.
LEMMA UploadType == ASSUME TypeInv, NEW c \in Clients, Upload(c) PROVE TypeInv'
  <1>1. PICK j \in Jobs \ Created, f \in Files, allow \in Overrides :
            /\ status' = [status EXCEPT ![j] = "UPLOADED"]
            /\ file' = [file EXCEPT ![j] = f]
            /\ Become(c, Starting(j, allow))
    BY DEF Upload
  <1>2. f \in File /\ allow \in BOOLEAN
    BY FilesAssumption, OverridesAssumption
  <1>3. status' \in [Jobs -> Statuses] /\ Created \subseteq Created' /\ j \in Created'
    BY <1>1, MarkType DEF TypeInv, Statuses
  <1>4. request' \in [Clients -> Request] /\ Shaped'
    BY <1>1, <1>2, <1>3, StartingShape, BecomeShape DEF Upload, lockVars
  <1>5. file' \in [Jobs -> File]
    BY <1>1, <1>2 DEF TypeInv, TypeOK
  <1> QED
    BY <1>3, <1>4, <1>5 DEF Upload, TypeInv, TypeOK, dataVars, lockVars, countVars, ghostVars

LEMMA RegisterType ==
    ASSUME TypeInv, NEW c \in Clients, NEW j \in Jobs, Register(c, j) PROVE TypeInv'
  <1>1. PICK allow \in Overrides : Become(c, Starting(j, allow))
    BY DEF Register
  <1>2. Created' = Created /\ j \in Created'
    BY DEF Register, Created
  <1>3. request' \in [Clients -> Request] /\ Shaped'
    BY <1>1, <1>2, OverridesAssumption, StartingShape, BecomeShape DEF Register, lockVars
  <1> QED
    BY <1>3 DEF Register, TypeInv, TypeOK, dataVars, lockVars, ghostVars

LEMMA EndEarlyType ==
    ASSUME TypeInv, NEW c \in Clients, ~At(c, "idle"),
           NEW outcome \in Statuses \ {"none"}, EndEarly(c, outcome)
    PROVE TypeInv'
  <1>1. status' \in [Jobs -> Statuses] /\ Created \subseteq Created'
    BY JobType, MarkType DEF EndEarly, TypeInv
  <1>2. request' \in [Clients -> Request] /\ Shaped'
    BY <1>1, FinishShape DEF EndEarly, lockVars
  <1> QED
    BY <1>1, <1>2 DEF EndEarly, TypeInv, TypeOK, dataVars, lockVars, countVars, ghostVars

\* A step from one counter to another that changes no field a shape speaks of.
LEMMA GotoShape ==
    ASSUME TypeInv, NEW c \in Clients, ~At(c, "idle"), NEW pc \in Steps \ {"idle"}, Goto(c, pc),
           Created \subseteq Created', \A d \in Clients \ {c} : uploadLock = d => uploadLock' = d,
           pc \in Preparing => request[c].pc \in Preparing,
           pc \in Removing <=> request[c].pc \in Removing,
           pc \in Inserting => uploadLock' = c, request[c].pc # "remove"
    PROVE  request' \in [Clients -> Request] /\ Shaped'
  <1>1. PICK next \in Request : next = [request[c] EXCEPT !.pc = pc]
    BY FieldTypes DEF Request, TypeInv
  <1>2. WellFormed(c, request[c])
    BY DEF TypeInv, Shaped
  <1>3. /\ next.pc = pc /\ next.job = request[c].job /\ next.added = request[c].added
        /\ next.counted = request[c].counted /\ next.seen = request[c].seen
        /\ next.gone = request[c].gone /\ next.log = request[c].log
        /\ next.putBack = request[c].putBack
    BY <1>1, FieldTypes DEF Request, TypeInv
  <1>4. WellFormed(c, next)'
    BY <1>2, <1>3 DEF WellFormed, At
  <1> QED
    BY <1>1, <1>4, BecomeShape DEF Goto

LEMMA IdentifyType == ASSUME TypeInv, NEW c \in Clients, Identify(c) PROVE TypeInv'
  <1>1. status' \in [Jobs -> Statuses] /\ Created \subseteq Created' /\ JobOf(c) \in Jobs
    BY JobType, MarkType DEF Identify, At, TypeInv, Statuses
  <1>2. request' \in [Clients -> Request] /\ Shaped'
    BY <1>1, GotoShape DEF Identify, At, Steps, Preparing, Inserting, Removing, lockVars
  <1> QED
    BY <1>1, <1>2 DEF Identify, TypeInv, TypeOK, dataVars, lockVars, countVars, ghostVars

LEMMA LookupParserType == ASSUME TypeInv, NEW c \in Clients, LookupParser(c) PROVE TypeInv'
  <1>1. At(c, "lookup") /\ ~At(c, "idle")
    BY DEF LookupParser, At
  <1>2. CASE EndEarly(c, "REJECTED") \/ EndEarly(c, "NEEDS_MAPPING")
    BY <1>1, <1>2, EndEarlyType DEF Statuses
  <1>3. CASE /\ status' = [status EXCEPT ![JobOf(c)] = "PARSED"]
             /\ Goto(c, "check")
             /\ UNCHANGED <<file, undo, signed, registered, dataVars, lockVars, countVars,
                            ghostVars>>
    <2>1. status' \in [Jobs -> Statuses] /\ Created \subseteq Created'
      BY <1>1, <1>3, JobType, MarkType DEF TypeInv, Statuses
    <2>2. request' \in [Clients -> Request] /\ Shaped'
      BY <1>1, <1>3, <2>1, GotoShape DEF At, Steps, Preparing, Inserting, Removing, lockVars
    <2> QED
      BY <1>3, <2>1, <2>2 DEF TypeInv, TypeOK, dataVars, lockVars, countVars, ghostVars
  <1> QED
    BY <1>2, <1>3 DEF LookupParser

LEMMA CheckIdentityType == ASSUME TypeInv, NEW c \in Clients, CheckIdentity(c) PROVE TypeInv'
  <1>1. At(c, "check") /\ ~At(c, "idle")
    BY DEF CheckIdentity, At
  <1>2. CASE EndEarly(c, "REJECTED")
    BY <1>1, <1>2, EndEarlyType DEF Statuses
  <1>3. CASE /\ Become(c, [request[c] EXCEPT !.pc = "validate",
                   !.log = [EmptyLog EXCEPT !.before = IF FileOf(c).limits THEN limits ELSE Unset]])
             /\ UNCHANGED <<jobVars, dataVars, lockVars, countVars, ghostVars>>
    <2>1. PICK log \in UndoLog :
              log = [EmptyLog EXCEPT !.before = IF FileOf(c).limits THEN limits ELSE Unset]
      BY BlankType DEF UndoLog, TypeInv, TypeOK
    <2>2. PICK next \in Request : next = [request[c] EXCEPT !.pc = "validate", !.log = log]
      BY FieldTypes DEF Request, Steps, TypeInv
    <2>3. /\ next.pc = "validate" /\ next.job = request[c].job /\ next.added = request[c].added
          /\ next.counted = request[c].counted /\ next.seen = request[c].seen
          /\ next.gone = request[c].gone /\ next.putBack = request[c].putBack
      BY <2>2, FieldTypes DEF Request, TypeInv
    <2>4. WellFormed(c, request[c]) /\ Created' = Created
      BY <1>3 DEF TypeInv, Shaped, jobVars, Created
    <2>5. ~request[c].putBack
      BY <1>1, <2>4 DEF WellFormed, At
    <2>6. WellFormed(c, next)'
      BY <1>1, <2>3, <2>4, <2>5 DEF WellFormed, At, Preparing, Inserting, Removing
    <2>7. request' \in [Clients -> Request] /\ Shaped'
      BY <1>3, <2>1, <2>2, <2>4, <2>6, BecomeShape DEF lockVars
    <2> QED
      BY <1>3, <2>7 DEF TypeInv, TypeOK, jobVars, dataVars, lockVars, countVars, ghostVars
  <1> QED
    BY <1>2, <1>3 DEF CheckIdentity

LEMMA ValidateType == ASSUME TypeInv, NEW c \in Clients, Validate(c) PROVE TypeInv'
  <1>1. /\ status' \in [Jobs -> Statuses] /\ Created \subseteq Created'
        /\ JobOf(c) \in Jobs
    BY JobType, MarkType DEF Validate, At, TypeInv, Statuses
  <1>2. request' \in [Clients -> Request] /\ Shaped'
    BY <1>1, GotoShape DEF Validate, At, Steps, Preparing, Inserting, Removing, lockVars
  <1>3. limits' \in Owner
    BY <1>1 DEF Validate, TypeInv, TypeOK, Owner
  <1> QED
    BY <1>1, <1>2, <1>3 DEF Validate, TypeInv, TypeOK, lockVars, countVars, ghostVars

LEMMA LockAccountType == ASSUME TypeInv, NEW c \in Clients, LockAccount(c) PROVE TypeInv'
  <1>1. Created' = Created
    BY DEF LockAccount, jobVars, Created
  <1>2. WellFormed(c, request[c]) /\ uploadLock' = c
    BY DEF LockAccount, TypeInv, Shaped
  <1>3. PICK next \in Request : next = [request[c] EXCEPT !.pc = "rows"]
    BY FieldTypes DEF Request, Steps, TypeInv
  <1>4. /\ next.pc = "rows" /\ next.job = request[c].job /\ next.added = request[c].added
        /\ next.gone = request[c].gone /\ next.putBack = request[c].putBack
    BY <1>3, FieldTypes DEF Request, TypeInv
  <1>5. WellFormed(c, next)'
    BY <1>1, <1>2, <1>4 DEF LockAccount, WellFormed, At, Preparing, Inserting, Removing
  <1>6. \A d \in Clients \ {c} : uploadLock # d
    BY NoneAssumption DEF LockAccount
  <1>7. request' \in [Clients -> Request] /\ Shaped'
    BY <1>1, <1>3, <1>5, <1>6, BecomeShape DEF LockAccount, Goto
  <1> QED
    BY <1>2, <1>7
    DEF LockAccount, TypeInv, TypeOK, jobVars, dataVars, countVars, ghostVars

\* The request after one more transaction of the file.
Counted(c, k) == IF request[c].counted[k] = Unset THEN Cardinality(Stored(c, k))
                 ELSE request[c].counted[k]
Taken(c, k, new) == [request[c] EXCEPT !.counted[k] = Counted(c, k),
                                       !.seen[k] = request[c].seen[k] + 1,
                                       !.added = @ \cup new]

\* Counting and the choice of an index, one case each.
LEMMA DedupCases ==
    ASSUME NEW c \in Clients, NEW k \in Keys, DedupRow(c, k)
    PROVE  /\ At(c, "rows")
           /\ request[c].seen[k] + 1 <= FileOf(c).tx[k]
           /\ UNCHANGED <<jobVars, dataVars, lockVars, countVars, ghostVars>>
           /\ \/ /\ request[c].seen[k] + 1 <= Counted(c, k)
                 /\ Become(c, Taken(c, k, {}))
              \/ /\ request[c].seen[k] + 1 > Counted(c, k)
                 /\ \E i \in FreeIndex(c, k, request[c].seen[k] + 1) :
                       Become(c, Taken(c, k, {[key |-> k, index |-> i, job |-> JobOf(c)]}))
  BY Zenon DEF DedupRow, Counted, Taken

LEMMA TakenType ==
    ASSUME TypeInv, NEW c \in Clients, NEW k \in Keys, NEW new \in SUBSET Row,
           At(c, "rows"), IsFiniteSet(Stored(c, k)),
           \A row \in new : row.job = JobOf(c)
    PROVE  /\ Taken(c, k, new) \in Request
           /\ WellFormed(c, Taken(c, k, new))
  <1>1. Counted(c, k) \in Nat
    BY FS_CardinalityType, FieldTypes DEF Counted, TypeInv
  <1>2. /\ [request[c].counted EXCEPT ![k] = Counted(c, k)] \in [Keys -> Nat \cup {Unset}]
        /\ [request[c].seen EXCEPT ![k] = request[c].seen[k] + 1] \in [Keys -> Nat]
        /\ request[c].added \cup new \in SUBSET Row
    BY <1>1, FieldTypes DEF TypeInv
  <1>3. Taken(c, k, new) \in Request
    BY <1>2, FieldTypes DEF Taken, Request, TypeInv
  <1>4. WellFormed(c, request[c])
    BY DEF TypeInv, Shaped
  <1>5. WellFormed(c, Taken(c, k, new))
    <2>1. PICK next \in Request : next = Taken(c, k, new)
      BY <1>3
    <2>2. /\ next.pc = "rows" /\ next.job = request[c].job /\ next.gone = request[c].gone
          /\ next.added = request[c].added \cup new /\ next.putBack = request[c].putBack
      BY <2>1, FieldTypes DEF Taken, Request, TypeInv, At
    <2>3. WellFormed(c, next)
      BY <1>4, <2>2 DEF WellFormed, At, Preparing, Inserting, Removing, JobOf
    <2> QED
      BY <2>1, <2>3
  <1> QED
    BY <1>3, <1>5

\* The rows of the account stay finitely many, and so do those of a request.
Finite == IsFiniteSet(txs) /\ \A c \in Clients : IsFiniteSet(request[c].added)

LEMMA StoredFinite ==
    ASSUME Finite, NEW c \in Clients, NEW k \in Keys
    PROVE  IsFiniteSet(Stored(c, k))
  <1>1. IsFiniteSet(txs \cup request[c].added)
    BY FS_Union DEF Finite
  <1>2. Stored(c, k) \subseteq txs \cup request[c].added
    BY DEF Stored
  <1> QED
    BY <1>1, <1>2, FS_Subset

LEMMA DedupRowType ==
    ASSUME TypeInv, Finite, NEW c \in Clients, NEW k \in Keys, DedupRow(c, k)
    PROVE  TypeInv'
  <1>1. PICK new \in SUBSET Row : /\ Become(c, Taken(c, k, new))
                                  /\ \A row \in new : row.job = JobOf(c)
    <2>1. CASE Become(c, Taken(c, k, {}))
      BY <2>1
    <2>2. CASE \E i \in FreeIndex(c, k, request[c].seen[k] + 1) :
                   Become(c, Taken(c, k, {[key |-> k, index |-> i, job |-> JobOf(c)]}))
      <3>1. PICK i \in FreeIndex(c, k, request[c].seen[k] + 1) :
                Become(c, Taken(c, k, {[key |-> k, index |-> i, job |-> JobOf(c)]}))
        BY <2>2
      <3>2. i \in Nat /\ JobOf(c) \in Jobs
        BY BoundsAssumption, DedupCases, JobType DEF FreeIndex, At
      <3>3. [key |-> k, index |-> i, job |-> JobOf(c)] \in Row
        BY <3>2 DEF Row
      <3> QED
        BY <3>1, <3>3
    <2> QED
      BY <2>1, <2>2, DedupCases
  <1>2. PICK next \in Request : next = Taken(c, k, new) /\ WellFormed(c, next)
    BY <1>1, TakenType, StoredFinite, DedupCases
  <1>3. UNCHANGED <<jobVars, dataVars, lockVars, countVars, ghostVars>>
    BY DedupCases
  <1>4. WellFormed(c, next)' /\ Created' = Created
    BY <1>2, <1>3 DEF WellFormed, Created, jobVars, lockVars
  <1>5. request' \in [Clients -> Request] /\ Shaped'
    BY <1>1, <1>2, <1>3, <1>4, BecomeShape DEF lockVars
  <1> QED
    BY <1>3, <1>5 DEF TypeInv, TypeOK, jobVars, dataVars, lockVars, countVars, ghostVars

LEMMA RowsDoneType == ASSUME TypeInv, NEW c \in Clients, RowsDone(c) PROVE TypeInv'
  <1>1. WellFormed(c, request[c]) /\ Created' = Created
    BY DEF RowsDone, TypeInv, Shaped, jobVars, Created
  <1>2. uploadLock' = c
    BY <1>1 DEF RowsDone, WellFormed, At, Inserting, lockVars
  <1>3. request' \in [Clients -> Request] /\ Shaped'
    BY <1>1, <1>2, GotoShape DEF RowsDone, At, Steps, Preparing, Inserting, Removing, lockVars
  <1> QED
    BY <1>3 DEF RowsDone, TypeInv, TypeOK, jobVars, dataVars, lockVars, countVars, ghostVars

\* A step that reads or writes one balance or the link.
LEMMA SlotShape ==
    ASSUME TypeInv, NEW c \in Clients, At(c, "facts"),
           NEW slot \in Slots \cup {None}, NEW log \in UndoLog,
           NEW wrote \in [Slots -> Owner \cup {Unset}], NEW pc \in {"facts", "commit"},
           NEW next, next = [request[c] EXCEPT !.slot = slot, !.log = log, !.wrote = wrote,
                                              !.pc = pc],
           Become(c, next),
           UNCHANGED <<status, uploadLock>>
    PROVE  request' \in [Clients -> Request] /\ Shaped'
  <1>1. next \in Request
    BY FieldTypes DEF Request, Steps, TypeInv
  <1>2. /\ next.pc = pc /\ next.job = request[c].job /\ next.added = request[c].added
        /\ next.gone = request[c].gone /\ next.putBack = request[c].putBack
    BY FieldTypes DEF Request, TypeInv
  <1>3. WellFormed(c, request[c]) /\ Created' = Created
    BY DEF TypeInv, Shaped, Created
  <1>4. WellFormed(c, next)'
    BY <1>2, <1>3 DEF WellFormed, At, Preparing, Inserting, Removing
  <1> QED
    BY <1>1, <1>3, <1>4, BecomeShape

LEMMA ReadFactType ==
    ASSUME TypeInv, NEW c \in Clients, NEW d \in Dates, ReadFact(c, d) PROVE TypeInv'
  <1>1. d \in Slots /\ View(c, d) \in Owner
    BY ViewType DEF Slots, TypeInv
  <1>2. PICK log \in UndoLog : log = [request[c].log EXCEPT !.replaced[d] = View(c, d)]
    BY <1>1, FieldTypes DEF UndoLog, TypeInv
  <1>3. PICK next : /\ Become(c, next)
                    /\ next = [request[c] EXCEPT !.slot = d, !.log = log,
                                   !.wrote = request[c].wrote, !.pc = "facts"]
    <2>1. [request[c] EXCEPT !.slot = d, !.log.replaced[d] = View(c, d)] =
          [request[c] EXCEPT !.slot = d, !.log = log, !.wrote = request[c].wrote, !.pc = "facts"]
      BY <1>2, FieldTypes DEF Request, TypeInv, ReadFact, At
    <2> QED
      BY <2>1 DEF ReadFact
  <1>4. request' \in [Clients -> Request] /\ Shaped'
    BY <1>1, <1>3, FieldTypes, SlotShape DEF ReadFact, TypeInv, jobVars, lockVars
  <1> QED
    BY <1>4 DEF ReadFact, TypeInv, TypeOK, jobVars, dataVars, lockVars, countVars, ghostVars

LEMMA UpsertFactType == ASSUME TypeInv, NEW c \in Clients, UpsertFact(c) PROVE TypeInv'
  <1> DEFINE s == request[c].slot
             j == JobOf(c)
  <1>1. s \in Slots /\ j \in Jobs /\ At(c, "facts")
    BY FieldTypes, JobType DEF UpsertFact, At, TypeInv
  <1>2. [request[c].wrote EXCEPT ![s] = j] \in [Slots -> Owner \cup {Unset}]
    BY <1>1, FieldTypes DEF Owner, TypeInv
  <1>3. PICK pc \in {"facts", "commit"} : pc = IF s = Link THEN "commit" ELSE "facts"
    OBVIOUS
  <1>4. PICK next :
            /\ Become(c, next)
            /\ next = [request[c] EXCEPT !.slot = None, !.log = request[c].log,
                           !.wrote = [request[c].wrote EXCEPT ![s] = j], !.pc = pc]
    <2>1. [request[c] EXCEPT !.slot = None, !.wrote[s] = j, !.pc = pc] =
          [request[c] EXCEPT !.slot = None, !.log = request[c].log,
                             !.wrote = [request[c].wrote EXCEPT ![s] = j], !.pc = pc]
      BY FieldTypes DEF Request, TypeInv
    <2> QED
      BY <1>3, <2>1 DEF UpsertFact
  <1>5. None \in Slots \cup {None} /\ UNCHANGED <<status, uploadLock>>
    BY DEF UpsertFact, jobVars
  <1>6. request' \in [Clients -> Request] /\ Shaped'
    BY <1>1, <1>2, <1>4, <1>5, FieldTypes, SlotShape DEF TypeInv
  <1>7. factLock' \in [Slots -> Clients \cup {None}]
    BY <1>1 DEF UpsertFact, TypeInv, TypeOK
  <1> QED
    BY <1>6, <1>7 DEF UpsertFact, TypeInv, TypeOK, jobVars, dataVars, countVars, ghostVars

LEMMA LinkIdentityType == ASSUME TypeInv, NEW c \in Clients, LinkIdentity(c) PROVE TypeInv'
  <1>1. At(c, "facts") /\ UNCHANGED <<jobVars, dataVars, lockVars, countVars, ghostVars>>
    BY DEF LinkIdentity
  <1>2. request' \in [Clients -> Request] /\ Shaped'
    <2>1. CASE Goto(c, "commit")
      <3>1. WellFormed(c, request[c]) /\ Created' = Created
        BY <1>1 DEF TypeInv, Shaped, jobVars, Created
      <3>2. uploadLock' = c
        BY <1>1, <3>1 DEF WellFormed, At, Inserting, lockVars
      <3> QED
        BY <1>1, <2>1, <3>1, <3>2, GotoShape
        DEF At, Steps, Preparing, Inserting, Removing, lockVars
    <2>2. CASE Become(c, [request[c] EXCEPT !.slot = Link,
                   !.log = [request[c].log EXCEPT !.linked = TRUE, !.replaced[Link] = facts[Link]]])
      <3>1. Link \in Slots /\ facts[Link] \in Owner
        BY DEF Slots, TypeInv, TypeOK
      <3>2. PICK log \in UndoLog :
                log = [request[c].log EXCEPT !.linked = TRUE, !.replaced[Link] = facts[Link]]
        BY <3>1, FieldTypes DEF UndoLog, TypeInv
      <3>3. [request[c] EXCEPT !.slot = Link, !.log = log] =
            [request[c] EXCEPT !.slot = Link, !.log = log, !.wrote = request[c].wrote,
                               !.pc = "facts"]
        BY <1>1, FieldTypes DEF Request, TypeInv, At
      <3>4. PICK next : /\ Become(c, next)
                        /\ next = [request[c] EXCEPT !.slot = Link, !.log = log,
                                       !.wrote = request[c].wrote, !.pc = "facts"]
        BY <2>2, <3>2, <3>3
      <3> QED
        BY <1>1, <3>1, <3>4, FieldTypes, SlotShape DEF TypeInv, jobVars, lockVars
    <2> QED
      BY <2>1, <2>2 DEF LinkIdentity
  <1> QED
    BY <1>1, <1>2 DEF TypeInv, TypeOK, jobVars, dataVars, lockVars, countVars, ghostVars

LEMMA CommitImportType == ASSUME TypeInv, NEW c \in Clients, CommitImport(c) PROVE TypeInv'
  <1> DEFINE j == JobOf(c)
  <1>1. At(c, "commit") /\ ~At(c, "idle") /\ j \in Jobs
    BY JobType DEF CommitImport, At
  <1>2. status' \in [Jobs -> Statuses] /\ Created \subseteq Created'
    BY <1>1, MarkType DEF CommitImport, TypeInv, Statuses
  <1>3. /\ uploadLock' \in Clients \cup {None} /\ factLock' \in [Slots -> Clients \cup {None}]
        /\ txs' \in SUBSET Row /\ facts' \in [Slots -> Owner]
    BY ReleaseType, PublishType DEF CommitImport, TypeInv
  <1>4. request' \in [Clients -> Request] /\ Shaped'
    BY <1>1, <1>2, ReleaseKeeps, GotoShape
    DEF CommitImport, At, Steps, Preparing, Inserting, Removing
  <1>5. undo' \in [Jobs -> UndoLog]
    BY <1>1, FieldTypes DEF CommitImport, TypeInv, TypeOK
  <1>6. live' \in SUBSET Jobs /\ earlier' \in [Jobs -> SUBSET Jobs]
    <2>1. \A i \in Jobs : (IF i = j THEN live \ {j} ELSE earlier[i] \ {j}) \in SUBSET Jobs
      BY DEF TypeInv, TypeOK
    <2> QED
      BY <1>1, <2>1 DEF CommitImport, TypeInv, TypeOK
  <1> QED
    BY <1>2, <1>3, <1>4, <1>5, <1>6 DEF CommitImport, TypeInv, TypeOK, countVars

LEMMA WriteReportType == ASSUME TypeInv, NEW c \in Clients, WriteReport(c) PROVE TypeInv'
  <1>1. Created' = Created
    BY DEF WriteReport, jobVars, Created
  <1>2. request' \in [Clients -> Request] /\ Shaped'
    BY <1>1, FinishShape DEF WriteReport, lockVars
  <1> QED
    BY <1>2 DEF WriteReport, TypeInv, TypeOK, jobVars, dataVars, lockVars, countVars, ghostVars

\* Failures.
LEMMA FaultType == ASSUME TypeInv, NEW c \in Clients, Fault(c) PROVE TypeInv'
  <1>1. CASE FailRun(c) \/ FailReport(c)
    <2>1. status' \in [Jobs -> Statuses] /\ Created \subseteq Created'
      BY <1>1, JobType, MarkType DEF FailRun, FailReport, At, TypeInv, Statuses
    <2>2. CASE FailRun(c)
      <3>1. request' \in [Clients -> Request] /\ Shaped'
        BY <2>1, <2>2, ReleaseKeeps, FinishShape DEF FailRun
      <3>2. faults' \in Nat
        BY <2>2 DEF FailRun, TypeInv, TypeOK
      <3> QED
        BY <2>1, <2>2, <3>1, <3>2, ReleaseType DEF FailRun, TypeInv, TypeOK, dataVars, ghostVars
    <2>3. CASE FailReport(c)
      <3>1. request' \in [Clients -> Request] /\ Shaped'
        BY <2>1, <2>3, FinishShape DEF FailReport, lockVars
      <3>2. lateFaults' \in Nat
        BY <2>3 DEF FailReport, TypeInv, TypeOK
      <3> QED
        BY <2>1, <2>3, <3>1, <3>2 DEF FailReport, TypeInv, TypeOK, dataVars, lockVars, ghostVars
    <2> QED
      BY <1>1, <2>2, <2>3
  <1>2. CASE Crash(c)
    <2>1. Created' = Created
      BY <1>2 DEF Crash, jobVars, Created
    <2>2. request' \in [Clients -> Request] /\ Shaped'
      BY <1>2, <2>1, ReleaseKeeps, FinishShape DEF Crash
    <2>3. faults' \in Nat
      BY <1>2 DEF Crash, TypeInv, TypeOK
    <2> QED
      BY <1>2, <2>2, <2>3, ReleaseType DEF Crash, TypeInv, TypeOK, jobVars, dataVars, ghostVars
  <1> QED
    BY <1>1, <1>2 DEF Fault

\* Removal.
LEMMA CheckRemovalType ==
    ASSUME TypeInv, NEW c \in Clients, NEW j \in Jobs, CheckRemoval(c, j) PROVE TypeInv'
  <1>1. PICK log \in UndoLog : log = undo[j]
    BY DEF TypeInv, TypeOK
  <1>2. PICK next \in Request : next = [Blank EXCEPT !.pc = "delete", !.job = j, !.log = log]
    BY BlankType DEF Request, Steps, Owner
  <1>3. Created' = Created /\ j \in Created
    BY DEF CheckRemoval, jobVars, Created
  <1>4. /\ next.pc = "delete" /\ next.job = j /\ next.added = {} /\ next.gone = {}
        /\ next.putBack = FALSE
    BY <1>2 DEF Blank
  <1>5. WellFormed(c, next)'
    BY <1>3, <1>4 DEF WellFormed, Preparing, Inserting, Removing
  <1>6. request' \in [Clients -> Request] /\ Shaped'
    BY <1>1, <1>2, <1>3, <1>5, BecomeShape DEF CheckRemoval, lockVars
  <1> QED
    BY <1>6 DEF CheckRemoval, TypeInv, TypeOK, jobVars, dataVars, lockVars, countVars, ghostVars

\* A step of a removal that only takes locks and changes what it is to commit.
LEMMA RemovalShape ==
    ASSUME TypeInv, NEW c \in Clients, request[c].pc \in Removing \ {"remove"},
           NEW gone \in SUBSET Row, NEW wrote \in [Slots -> Owner \cup {Unset}],
           NEW putBack \in BOOLEAN, NEW pc \in Removing,
           putBack => pc = "remove" /\ request[c].log.before # Unset,
           NEW next, next = [request[c] EXCEPT !.gone = gone, !.wrote = wrote,
                                              !.putBack = putBack, !.pc = pc],
           Become(c, next),
           UNCHANGED <<status, uploadLock>>
    PROVE  request' \in [Clients -> Request] /\ Shaped'
  <1>0. PICK old \in Request : old = request[c]
    BY FieldTypes DEF TypeInv
  <1>1. next \in Request
    <2>1. pc \in Steps
      BY DEF Steps, Removing
    <2>2. next = [old EXCEPT !.gone = gone, !.wrote = wrote, !.putBack = putBack, !.pc = pc]
      BY <1>0
    <2> QED
      BY <2>1, <2>2 DEF Request
  <1>2. /\ next.pc = pc /\ next.job = request[c].job /\ next.added = request[c].added
        /\ next.putBack = putBack /\ next.log = request[c].log
    BY FieldTypes DEF Request, TypeInv
  <1>3. WellFormed(c, request[c]) /\ Created' = Created
    BY DEF TypeInv, Shaped, Created
  <1>4. WellFormed(c, next)'
    BY <1>2, <1>3 DEF WellFormed, Preparing, Inserting, Removing
  <1> QED
    BY <1>1, <1>3, <1>4, BecomeShape

LEMMA DeleteRowsType == ASSUME TypeInv, NEW c \in Clients, DeleteRows(c) PROVE TypeInv'
  <1>1. At(c, "delete") /\ ~request[c].putBack
    BY DEF DeleteRows, TypeInv, Shaped, WellFormed, At
  <1>2. PICK gone \in SUBSET Row : gone = {r \in txs : r.job = JobOf(c)}
    BY DEF TypeInv, TypeOK
  <1>3. PICK wrote \in [Slots -> Owner \cup {Unset}] :
            wrote = [s \in Slots |-> IF s \in OwnFacts(c) THEN NoJob ELSE Unset]
    BY DEF Owner
  <1>4. PICK next : /\ Become(c, next)
                    /\ next = [request[c] EXCEPT !.gone = gone, !.wrote = wrote,
                                                 !.putBack = FALSE, !.pc = "restore"]
    <2>1. [request[c] EXCEPT !.pc = "restore", !.gone = gone, !.wrote = wrote] =
          [request[c] EXCEPT !.gone = gone, !.wrote = wrote, !.putBack = FALSE, !.pc = "restore"]
      BY <1>1, FieldTypes DEF Request, TypeInv
    <2> QED
      BY <1>2, <1>3, <2>1 DEF DeleteRows
  <1>5. request' \in [Clients -> Request] /\ Shaped'
    BY <1>1, <1>4, RemovalShape DEF DeleteRows, At, Removing, jobVars
  <1>6. factLock' \in [Slots -> Clients \cup {None}]
    BY DEF DeleteRows, TypeInv, TypeOK
  <1> QED
    BY <1>5, <1>6 DEF DeleteRows, TypeInv, TypeOK, jobVars, dataVars, countVars, ghostVars

LEMMA RestoreRowsType == ASSUME TypeInv, NEW c \in Clients, RestoreRows(c) PROVE TypeInv'
  <1>1. At(c, "restore") /\ ~request[c].putBack
    BY DEF RestoreRows, TypeInv, Shaped, WellFormed, At
  <1>2. UNCHANGED <<jobVars, dataVars, countVars, ghostVars>>
    BY DEF RestoreRows
  <1>3. CASE Release(c) /\ Finish(c)
    <2>1. Created' = Created
      BY <1>2 DEF jobVars, Created
    <2>2. request' \in [Clients -> Request] /\ Shaped'
      BY <1>3, <2>1, ReleaseKeeps, FinishShape
    <2> QED
      BY <1>2, <1>3, <2>2, ReleaseType DEF TypeInv, TypeOK, jobVars, dataVars, countVars, ghostVars
  <1>4. CASE /\ factLock' = [s \in Slots |-> IF s \in Replaced(c) THEN c ELSE factLock[s]]
             /\ Become(c, [request[c] EXCEPT !.pc = "decide",
                   !.wrote = [s \in Slots |-> IF s \in Replaced(c) THEN request[c].log.replaced[s]
                                              ELSE request[c].wrote[s]]])
             /\ UNCHANGED uploadLock
    <2>1. PICK wrote \in [Slots -> Owner \cup {Unset}] :
              wrote = [s \in Slots |-> IF s \in Replaced(c) THEN request[c].log.replaced[s]
                                       ELSE request[c].wrote[s]]
      BY FieldTypes, LogTypes DEF TypeInv
    <2>2. PICK gone \in SUBSET Row : gone = request[c].gone
      BY FieldTypes DEF TypeInv
    <2>3. PICK next : /\ Become(c, next)
                      /\ next = [request[c] EXCEPT !.gone = gone, !.wrote = wrote,
                                                   !.putBack = FALSE, !.pc = "decide"]
      <3>1. [request[c] EXCEPT !.pc = "decide", !.wrote = wrote] =
            [request[c] EXCEPT !.gone = gone, !.wrote = wrote, !.putBack = FALSE, !.pc = "decide"]
        BY <1>1, <2>2, FieldTypes DEF Request, TypeInv
      <3> QED
        BY <1>4, <2>1, <3>1
    <2>4. request' \in [Clients -> Request] /\ Shaped'
      BY <1>1, <1>2, <1>4, <2>3, RemovalShape DEF At, Removing, jobVars
    <2>5. factLock' \in [Slots -> Clients \cup {None}]
      BY <1>4 DEF TypeInv, TypeOK
    <2> QED
      BY <1>2, <1>4, <2>4, <2>5 DEF TypeInv, TypeOK, jobVars, dataVars, countVars, ghostVars
  <1> QED
    BY <1>3, <1>4 DEF RestoreRows

LEMMA DecideLimitsType == ASSUME TypeInv, NEW c \in Clients, DecideLimits(c) PROVE TypeInv'
  <1>1. At(c, "decide")
    BY DEF DecideLimits
  <1>2. PICK putBack \in BOOLEAN : putBack = (request[c].log.before # Unset /\ limits = JobOf(c))
    OBVIOUS
  <1>3. PICK gone \in SUBSET Row, wrote \in [Slots -> Owner \cup {Unset}] :
            gone = request[c].gone /\ wrote = request[c].wrote
    BY FieldTypes DEF TypeInv
  <1>4. PICK next : /\ Become(c, next)
                    /\ next = [request[c] EXCEPT !.gone = gone, !.wrote = wrote,
                                                 !.putBack = putBack, !.pc = "remove"]
    <2>1. [request[c] EXCEPT !.pc = "remove", !.putBack = putBack] =
          [request[c] EXCEPT !.gone = gone, !.wrote = wrote, !.putBack = putBack, !.pc = "remove"]
      BY <1>3, FieldTypes DEF Request, TypeInv
    <2> QED
      BY <1>2, <2>1 DEF DecideLimits
  <1>5. request' \in [Clients -> Request] /\ Shaped'
    BY <1>1, <1>2, <1>4, RemovalShape DEF DecideLimits, At, Removing, jobVars, lockVars
  <1> QED
    BY <1>5 DEF DecideLimits, TypeInv, TypeOK, jobVars, dataVars, lockVars, countVars, ghostVars

LEMMA CommitRemovalType == ASSUME TypeInv, NEW c \in Clients, CommitRemoval(c) PROVE TypeInv'
  <1> DEFINE j == JobOf(c)
  <1>1. j \in Jobs /\ WellFormed(c, request[c])
    BY JobType DEF CommitRemoval, At, TypeInv, Shaped
  <1>2. status' \in [Jobs -> Statuses] /\ Created \subseteq Created'
    BY <1>1, MarkType DEF CommitRemoval, TypeInv, Statuses
  <1>3. /\ uploadLock' \in Clients \cup {None} /\ factLock' \in [Slots -> Clients \cup {None}]
        /\ txs' \in SUBSET Row /\ facts' \in [Slots -> Owner]
    BY ReleaseType, PublishType DEF CommitRemoval, TypeInv
  <1>4. request' \in [Clients -> Request] /\ Shaped'
    BY <1>2, ReleaseKeeps, FinishShape DEF CommitRemoval
  <1>5. limits' \in Owner
    BY <1>1, FieldTypes, LogTypes DEF CommitRemoval, WellFormed, TypeInv, TypeOK
  <1>6. live' \in SUBSET Jobs /\ earlier' \in [Jobs -> SUBSET Jobs]
    BY DEF CommitRemoval, TypeInv, TypeOK
  <1> QED
    BY <1>2, <1>3, <1>4, <1>5, <1>6 DEF CommitRemoval, TypeInv, TypeOK, countVars

LEMMA NextType == ASSUME TypeInv, Finite, Next PROVE TypeInv'
  <1>1. PICK c \in Clients :
            \/ Upload(c)
            \/ \E j \in Jobs : Register(c, j) \/ CheckRemoval(c, j)
            \/ RunStep(c) \/ RemoveStep(c) \/ Fault(c)
    BY DEF Next
  <1>2. CASE Upload(c)
    BY <1>2, UploadType
  <1>3. CASE \E j \in Jobs : Register(c, j) \/ CheckRemoval(c, j)
    BY <1>3, RegisterType, CheckRemovalType
  <1>4. CASE RunStep(c)
    BY <1>4, IdentifyType, LookupParserType, CheckIdentityType, ValidateType, LockAccountType,
       DedupRowType, RowsDoneType, ReadFactType, UpsertFactType, LinkIdentityType,
       CommitImportType, WriteReportType
    DEF RunStep
  <1>5. CASE RemoveStep(c)
    BY <1>5, DeleteRowsType, RestoreRowsType, DecideLimitsType, CommitRemovalType DEF RemoveStep
  <1>6. CASE Fault(c)
    BY <1>6, FaultType
  <1> QED
    BY <1>1, <1>2, <1>3, <1>4, <1>5, <1>6

-----------------------------------------------------------------------------
(* Rows: what is stored, and what an inserting request has yet to commit *)

Mine(r, k) == {row \in r.added : row.key = k}

\* What an inserting request knows of a natural key: it counted the stored
\* rows before it added any, adds only to make up the difference, and never
\* goes beyond what its file states.
Counting(r) ==
    /\ \A r1, r2 \in txs \cup r.added : r1.key = r2.key /\ r1.index = r2.index => r1 = r2
    /\ \A k \in Keys :
          /\ r.counted[k] # Unset => Cardinality(Rows(k)) <= r.counted[k]
          /\ r.counted[k] = Unset => Mine(r, k) = {}
          /\ Mine(r, k) # {} => Cardinality(Mine(r, k)) + r.counted[k] <= r.seen[k]
          /\ r.seen[k] <= file[r.job].tx[k]

\* NoDoubleCount of every part of the rows of a key.  Removals take rows away,
\* so the bound is kept for whatever they leave.
NeverExceeded ==
    \A k \in Keys : \A T \in SUBSET Rows(k) :
        T # {} => \E row \in T : Cardinality(T) <= file[row.job].tx[k]

RowInv ==
    /\ Finite
    /\ FingerprintsAreUnique
    /\ \A row \in txs : row.job \in Created
    /\ NeverExceeded
    /\ \A c \in Clients : request[c].pc \in Inserting => Counting(request[c])

LEMMA RowsSubset ==
    ASSUME Finite, NEW k \in Keys
    PROVE  IsFiniteSet(Rows(k)) /\ Cardinality(Rows(k)) \in Nat
  <1>1. Rows(k) \subseteq txs
    BY DEF Rows
  <1> QED
    BY <1>1, FS_Subset, FS_CardinalityType DEF Finite

\* A step of c that stores nothing keeps the invariant if it does for c.
LEMMA KeepRows ==
    ASSUME TypeInv, TypeInv', RowInv, NEW c \in Clients,
           \A d \in Clients \ {c} : request'[d] = request[d],
           txs' \subseteq txs,
           Created \subseteq Created', \A j \in Created : file'[j] = file[j],
           IsFiniteSet(request'[c].added),
           request'[c].pc \in Inserting => Counting(request[c])'
    PROVE  RowInv'
  <1>1. Finite'
    BY FS_Subset DEF RowInv, Finite
  <1>2. FingerprintsAreUnique'
    BY DEF RowInv, FingerprintsAreUnique
  <1>3. \A row \in txs' : row.job \in Created'
    BY DEF RowInv
  <1>4. NeverExceeded'
    <2>1. ASSUME NEW k \in Keys, NEW T \in SUBSET Rows(k)', T # {}
          PROVE  \E row \in T : Cardinality(T) <= file'[row.job].tx[k]
      <3>1. T \in SUBSET Rows(k)
        BY DEF Rows
      <3>2. PICK row \in T : Cardinality(T) <= file[row.job].tx[k]
        BY <2>1, <3>1 DEF RowInv, NeverExceeded
      <3>3. row.job \in Created
        BY <3>1 DEF RowInv, Rows
      <3> QED
        BY <3>2, <3>3
    <2> QED
      BY <2>1 DEF NeverExceeded
  <1>5. ASSUME NEW d \in Clients, request'[d].pc \in Inserting
        PROVE  Counting(request[d])'
    <2>1. CASE d = c
      BY <1>5, <2>1
    <2>2. CASE d # c
      <3> DEFINE r == request[d]
      <3>1. request'[d] = r /\ Counting(r)
        BY <1>5, <2>2 DEF RowInv
      <3>2. file'[r.job] = file[r.job]
        BY <1>5, <3>1 DEF TypeInv, Shaped, WellFormed, Inserting
      <3>3. ASSUME NEW k \in Keys, r.counted[k] # Unset
            PROVE  Cardinality(Rows(k)') <= r.counted[k]
        <4>1. Rows(k)' \subseteq Rows(k)
          BY DEF Rows
        <4>2. /\ Cardinality(Rows(k)') <= Cardinality(Rows(k))
              /\ Cardinality(Rows(k)') \in Nat
          BY <4>1, RowsSubset, FS_Subset, FS_CardinalityType DEF RowInv
        <4>3. Cardinality(Rows(k)) <= r.counted[k] /\ r.counted[k] \in Nat
          BY <3>1, <3>3, FieldTypes DEF Counting, TypeInv
        <4> QED
          BY <4>2, <4>3, RowsSubset DEF RowInv
      <3> QED
        BY <3>1, <3>2, <3>3 DEF Counting, Mine
    <2> QED
      BY <2>1, <2>2
  <1> QED
    BY <1>1, <1>2, <1>3, <1>4, <1>5 DEF RowInv

\* The steps that leave c outside the inserting part, or do not count.
LEMMA OutsideRows ==
    ASSUME TypeInv, TypeInv', RowInv, NEW c \in Clients, NEW r, Become(c, r),
           txs' \subseteq txs,
           Created \subseteq Created', \A j \in Created : file'[j] = file[j],
           r.pc \notin Inserting, r.added \in {{}, request[c].added}
    PROVE  RowInv'
  <1>1. request'[c] = r /\ \A d \in Clients \ {c} : request'[d] = request[d]
    BY DEF Become, TypeInv, TypeOK
  <1>2. IsFiniteSet(request'[c].added)
    BY <1>1, FS_EmptySet DEF RowInv, Finite
  <1> QED
    BY <1>1, <1>2, KeepRows

LEMMA SameRows ==
    ASSUME TypeInv, TypeInv', RowInv, NEW c \in Clients, request[c].pc \in Inserting,
           \A d \in Clients \ {c} : request'[d] = request[d],
           UNCHANGED <<txs, status, file>>,
           request'[c].job = request[c].job, request'[c].added = request[c].added,
           request'[c].counted = request[c].counted, request'[c].seen = request[c].seen
    PROVE  RowInv'
  <1>1. Counting(request[c])
    BY DEF RowInv
  <1>2. Counting(request[c])'
    BY <1>1 DEF Counting, Mine, Rows
  <1>3. IsFiniteSet(request'[c].added)
    BY DEF RowInv, Finite
  <1> QED
    BY <1>2, <1>3, KeepRows DEF Created

LEMMA FinishRows ==
    ASSUME TypeInv, TypeInv', RowInv, NEW c \in Clients, Finish(c),
           txs' \subseteq txs, Created \subseteq Created', UNCHANGED file
    PROVE  RowInv'
  <1>1. Blank.pc \notin Inserting /\ Blank.added = {}
    BY DEF Blank, Inserting
  <1> QED
    BY <1>1, OutsideRows DEF Finish

LEMMA GotoRows ==
    ASSUME TypeInv, TypeInv', RowInv, NEW c \in Clients, NEW pc \in Steps \ Inserting,
           Goto(c, pc), UNCHANGED <<txs, file>>, Created \subseteq Created'
    PROVE  RowInv'
  <1>1. PICK next : next = [request[c] EXCEPT !.pc = pc]
    OBVIOUS
  <1>2. next.pc \notin Inserting /\ next.added = request[c].added
    BY <1>1, FieldTypes DEF Request, TypeInv
  <1> QED
    BY <1>1, <1>2, OutsideRows DEF Goto

LEMMA StartRows ==
    ASSUME TypeInv, TypeInv', RowInv, NEW c \in Clients, NEW j \in Jobs,
           Upload(c) \/ Register(c, j) \/ CheckRemoval(c, j)
    PROVE  RowInv'
  <1>1. CASE Upload(c)
    <2>1. PICK i \in Jobs \ Created, f \in Files, allow \in Overrides :
              /\ status' = [status EXCEPT ![i] = "UPLOADED"]
              /\ file' = [file EXCEPT ![i] = f]
              /\ Become(c, Starting(i, allow))
      BY <1>1 DEF Upload
    <2>2. Starting(i, allow).pc \notin Inserting /\ Starting(i, allow).added = {}
      BY DEF Starting, Blank, Inserting
    <2>3. Created \subseteq Created' /\ \A k \in Created : file'[k] = file[k]
      BY <2>1 DEF Created, TypeInv, TypeOK
    <2>4. txs' = txs
      BY <1>1 DEF Upload, dataVars
    <2> QED
      BY <2>1, <2>2, <2>3, <2>4, OutsideRows
  <1>2. CASE Register(c, j)
    <2>1. PICK allow \in Overrides : Become(c, Starting(j, allow))
      BY <1>2 DEF Register
    <2>2. Starting(j, allow).pc \notin Inserting /\ Starting(j, allow).added = {}
      BY DEF Starting, Blank, Inserting
    <2>3. UNCHANGED <<status, file, txs>>
      BY <1>2 DEF Register, dataVars
    <2> QED
      BY <2>1, <2>2, <2>3, OutsideRows DEF Created
  <1>3. CASE CheckRemoval(c, j)
    <2>1. PICK next : next = [Blank EXCEPT !.pc = "delete", !.job = j, !.log = undo[j]]
      OBVIOUS
    <2>2. next.pc \notin Inserting /\ next.added = {}
      BY <2>1 DEF Blank, Inserting
    <2>3. Become(c, next) /\ UNCHANGED <<status, file, txs>>
      BY <1>3, <2>1 DEF CheckRemoval, jobVars, dataVars
    <2> QED
      BY <2>2, <2>3, OutsideRows DEF Created
  <1> QED
    BY <1>1, <1>2, <1>3

\* A status that is marked is the status of a job already created.
LEMMA MarkCreated ==
    ASSUME TypeInv, NEW c \in Clients, ~At(c, "idle"), NEW mark \in Statuses \ {"none"},
           status' = [status EXCEPT ![JobOf(c)] = mark]
    PROVE  Created \subseteq Created'
  BY JobType, MarkType DEF TypeInv

LEMMA PrepareRows ==
    ASSUME TypeInv, TypeInv', RowInv, NEW c \in Clients,
           Identify(c) \/ LookupParser(c) \/ CheckIdentity(c) \/ Validate(c)
    PROVE  RowInv'
  <1>1. ~At(c, "idle") /\ UNCHANGED <<txs, file>>
    BY DEF Identify, LookupParser, CheckIdentity, Validate, EndEarly, At, jobVars, dataVars
  <1>2. CASE \E mark \in Statuses \ {"none"} : EndEarly(c, mark)
    BY <1>1, <1>2, MarkCreated, FinishRows DEF EndEarly
  <1>3. CASE /\ \E mark \in Statuses \ {"none"} : status' = [status EXCEPT ![JobOf(c)] = mark]
             /\ \E pc \in Steps \ Inserting : Goto(c, pc)
    BY <1>1, <1>3, MarkCreated, GotoRows
  <1>4. CASE /\ Become(c, [request[c] EXCEPT !.pc = "validate",
                   !.log = [EmptyLog EXCEPT !.before = IF FileOf(c).limits THEN limits ELSE Unset]])
             /\ UNCHANGED jobVars
    <2>1. PICK next : next = [request[c] EXCEPT !.pc = "validate",
                   !.log = [EmptyLog EXCEPT !.before = IF FileOf(c).limits THEN limits ELSE Unset]]
      OBVIOUS
    <2>2. next.pc \notin Inserting /\ next.added = request[c].added
      BY <2>1, FieldTypes DEF Request, Inserting, TypeInv
    <2> QED
      BY <1>1, <1>4, <2>1, <2>2, OutsideRows DEF Created, jobVars
  <1>5. CASE Identify(c) \/ Validate(c)
    BY <1>3, <1>5 DEF Identify, Validate, Statuses, Steps, Inserting
  <1>6. CASE LookupParser(c)
    BY <1>2, <1>3, <1>6 DEF LookupParser, Statuses, Steps, Inserting
  <1>7. CASE CheckIdentity(c)
    BY <1>2, <1>4, <1>7 DEF CheckIdentity, Statuses
  <1> QED
    BY <1>5, <1>6, <1>7

LEMMA LockAccountRows ==
    ASSUME TypeInv, TypeInv', RowInv, NEW c \in Clients, LockAccount(c) PROVE RowInv'
  <1>1. UNCHANGED <<status, file, txs>> /\ At(c, "lock")
    BY DEF LockAccount, jobVars, dataVars
  <1>2. PICK next \in Request : next = [request[c] EXCEPT !.pc = "rows"]
    BY FieldTypes DEF Request, Steps, TypeInv
  <1>3. request'[c] = next /\ \A d \in Clients \ {c} : request'[d] = request[d]
    BY <1>2 DEF LockAccount, Goto, Become, TypeInv, TypeOK
  <1>4. /\ next.added = {} /\ next.counted = [k \in Keys |-> Unset]
        /\ next.seen = [k \in Keys |-> 0] /\ next.job = request[c].job
    <2>1. /\ next.added = request[c].added /\ next.counted = request[c].counted
          /\ next.seen = request[c].seen /\ next.job = request[c].job
      BY <1>2, FieldTypes DEF Request, TypeInv
    <2> QED
      BY <1>1, <2>1 DEF TypeInv, Shaped, WellFormed, At, Preparing
  <1>5. \A k \in Keys : file[next.job].tx[k] \in Nat
    BY <1>1, <1>4, JobType DEF At, FileOf, JobOf, File
  <1>6. Counting(next)
    BY <1>4, <1>5 DEF Counting, Mine, RowInv, FingerprintsAreUnique
  <1>7. Counting(request[c])'
    BY <1>1, <1>3, <1>6 DEF Counting, Mine, Rows
  <1>8. IsFiniteSet(request'[c].added)
    BY <1>3, <1>4, FS_EmptySet
  <1> QED
    BY <1>1, <1>3, <1>7, <1>8, KeepRows DEF Created

\* The choice of an index leaves the fingerprints unique, and the row makes
\* up one of those that the file states and that were not counted.
LEMMA DedupRowRows ==
    ASSUME TypeInv, TypeInv', RowInv, NEW c \in Clients, NEW k \in Keys, DedupRow(c, k)
    PROVE  RowInv'
  <1> DEFINE r == request[c]
             occurrence == r.seen[k] + 1
             n == Counted(c, k)
  <1>1. /\ At(c, "rows") /\ occurrence <= FileOf(c).tx[k]
        /\ UNCHANGED <<status, file, txs>>
    BY DedupCases DEF jobVars, dataVars
  <1>2. Counting(r) /\ r.seen[k] \in Nat /\ r.added \in SUBSET Row
    BY <1>1, FieldTypes DEF RowInv, At, Inserting, TypeInv
  <1>3. n \in Nat /\ Cardinality(Rows(k)) <= n
    <2>1. CASE r.counted[k] = Unset
      <3>1. Stored(c, k) = Rows(k)
        BY <1>2, <2>1 DEF Counting, Mine, Stored, Rows
      <3> QED
        BY <2>1, <3>1, RowsSubset DEF Counted, RowInv
    <2>2. CASE r.counted[k] # Unset
      BY <1>2, <2>2, FieldTypes DEF Counted, Counting, TypeInv
    <2> QED
      BY <2>1, <2>2
  <1>4. Mine(r, k) # {} => Cardinality(Mine(r, k)) + n <= r.seen[k]
    BY <1>2 DEF Counted, Counting
  <1>5. ASSUME NEW new \in SUBSET Row, Become(c, Taken(c, k, new)),
               IsFiniteSet(new),
               \A r1, r2 \in txs \cup (r.added \cup new) :
                   r1.key = r2.key /\ r1.index = r2.index => r1 = r2,
               new # {} => occurrence > n /\ \E row \in new : new = {row} /\ row.key = k
        PROVE  RowInv'
    <2> DEFINE s == request'[c]
    <2>1. request'[c] = Taken(c, k, new) /\ \A d \in Clients \ {c} : request'[d] = request[d]
      BY <1>5 DEF Become, TypeInv, TypeOK
    <2>2. /\ s.counted = [r.counted EXCEPT ![k] = n]
          /\ s.seen = [r.seen EXCEPT ![k] = occurrence]
          /\ s.added = r.added \cup new /\ s.job = r.job
      BY <2>1, FieldTypes DEF Taken, Request, TypeInv
    <2>3. IsFiniteSet(s.added)
      <3>1. IsFiniteSet(r.added)
        BY DEF RowInv, Finite
      <3>2. IsFiniteSet(r.added \cup new)
        BY <1>5, <3>1, FS_Union
      <3> QED
        BY <2>2, <3>2
    <2>4. ASSUME NEW h \in Keys, h # k
          PROVE  /\ s.counted[h] = r.counted[h] /\ s.seen[h] = r.seen[h]
                 /\ Mine(s, h) = Mine(r, h)
      BY <1>5, <2>2, <2>4, FieldTypes DEF Mine, TypeInv
    <2>5. s.counted[k] = n /\ s.seen[k] = occurrence /\ n # Unset
      BY <1>3, <2>2, FieldTypes DEF TypeInv, Unset
    <2>6. Mine(s, k) # {} => Cardinality(Mine(s, k)) + n <= occurrence
      <3>1. IsFiniteSet(Mine(r, k)) /\ Cardinality(Mine(r, k)) \in Nat
        <4>1. Mine(r, k) \subseteq r.added
          BY DEF Mine
        <4> QED
          BY <4>1, FS_Subset, FS_CardinalityType DEF RowInv, Finite
      <3>2. CASE new = {}
        <4>1. Mine(s, k) = Mine(r, k)
          BY <2>2, <3>2 DEF Mine
        <4> QED
          BY <1>2, <1>3, <1>4, <3>1, <4>1
      <3>3. CASE new # {}
        <4>1. PICK row \in new : new = {row} /\ row.key = k
          BY <1>5, <3>3
        <4>2. Mine(s, k) = Mine(r, k) \cup {row}
          BY <2>2, <4>1 DEF Mine
        <4>3. Cardinality(Mine(s, k)) \in Nat /\ Cardinality(Mine(s, k)) <= Cardinality(Mine(r, k)) + 1
          <5>1. /\ IsFiniteSet(Mine(r, k) \cup {row})
                /\ Cardinality(Mine(r, k) \cup {row}) =
                       IF row \in Mine(r, k) THEN Cardinality(Mine(r, k))
                       ELSE Cardinality(Mine(r, k)) + 1
            BY <3>1, FS_AddElement
          <5> QED
            BY <3>1, <4>2, <5>1
        <4>4. CASE Mine(r, k) = {}
          <5>1. Cardinality(Mine(r, k)) = 0
            BY <4>4, FS_EmptySet
          <5> QED
            BY <1>2, <1>3, <1>5, <3>3, <4>3, <5>1
        <4>5. CASE Mine(r, k) # {}
          BY <1>2, <1>3, <1>4, <3>1, <4>3, <4>5
        <4> QED
          BY <4>4, <4>5
      <3> QED
        BY <3>2, <3>3
    <2>7. s.seen[k] <= file[s.job].tx[k]
      BY <1>1, <2>2, <2>5 DEF FileOf, JobOf
    <2>8. ASSUME NEW h \in Keys
          PROVE  /\ s.counted[h] # Unset => Cardinality(Rows(h)) <= s.counted[h]
                 /\ s.counted[h] = Unset => Mine(s, h) = {}
                 /\ Mine(s, h) # {} => Cardinality(Mine(s, h)) + s.counted[h] <= s.seen[h]
                 /\ s.seen[h] <= file[s.job].tx[h]
      <3>1. CASE h = k
        BY <1>3, <2>5, <2>6, <2>7, <3>1
      <3>2. CASE h # k
        BY <1>2, <2>2, <2>4, <3>2 DEF Counting
      <3> QED
        BY <3>1, <3>2
    <2>9. Counting(request[c])'
      BY <1>1, <1>5, <2>2, <2>8 DEF Counting, Mine, Rows
    <2> QED
      BY <1>1, <2>1, <2>3, <2>9, KeepRows DEF Created
  <1>6. CASE Become(c, Taken(c, k, {}))
    BY <1>2, <1>5, <1>6, FS_EmptySet DEF Counting
  <1>7. CASE /\ occurrence > n
             /\ \E i \in FreeIndex(c, k, occurrence) :
                   Become(c, Taken(c, k, {[key |-> k, index |-> i, job |-> JobOf(c)]}))
    <2>1. PICK i \in FreeIndex(c, k, occurrence) :
              Become(c, Taken(c, k, {[key |-> k, index |-> i, job |-> JobOf(c)]}))
      BY <1>7
    <2> DEFINE row == [key |-> k, index |-> i, job |-> JobOf(c)]
    <2>2. row \in Row
      BY <1>1, <2>1, BoundsAssumption, JobType DEF FreeIndex, At, Row
    <2>3. \A old \in txs \cup r.added : old.key = k => old.index # i
      BY <2>1 DEF FreeIndex, Stored
    <2>4. \A r1, r2 \in txs \cup (r.added \cup {row}) :
              r1.key = r2.key /\ r1.index = r2.index => r1 = r2
      BY <1>2, <2>3 DEF Counting
    <2>5. IsFiniteSet({row})
      BY FS_Singleton
    <2>6. row.key = k
      OBVIOUS
    <2> HIDE DEF row
    <2> QED
      BY <1>5, <1>7, <2>1, <2>2, <2>4, <2>5, <2>6 DEF row
  <1> QED
    BY <1>6, <1>7, DedupCases

\* The rows are counted; what follows in the transaction leaves them alone.
LEMMA AfterRows ==
    ASSUME TypeInv, TypeInv', RowInv, NEW c \in Clients,
           RowsDone(c) \/ (\E d \in Dates : ReadFact(c, d)) \/ UpsertFact(c) \/ LinkIdentity(c)
    PROVE  RowInv'
  <1>1. /\ At(c, "rows") \/ At(c, "facts")
        /\ UNCHANGED <<txs, status, file>>
    BY DEF RowsDone, ReadFact, UpsertFact, LinkIdentity, jobVars, dataVars
  <1>2. ASSUME NEW next, Become(c, next), next.job = request[c].job,
               next.added = request[c].added, next.counted = request[c].counted,
               next.seen = request[c].seen
        PROVE  RowInv'
    <2>1. request'[c] = next /\ \A d \in Clients \ {c} : request'[d] = request[d]
      BY <1>2 DEF Become, TypeInv, TypeOK
    <2> QED
      BY <1>1, <1>2, <2>1, SameRows DEF At, Inserting
  <1>3. CASE \E pc \in Steps : Goto(c, pc)
    <2>1. PICK pc \in Steps : Goto(c, pc)
      BY <1>3
    <2>2. PICK next : next = [request[c] EXCEPT !.pc = pc]
      OBVIOUS
    <2>3. /\ next.job = request[c].job /\ next.added = request[c].added
          /\ next.counted = request[c].counted /\ next.seen = request[c].seen
      BY <2>2, FieldTypes DEF Request, TypeInv
    <2> QED
      BY <1>2, <2>1, <2>2, <2>3 DEF Goto
  <1>4. ASSUME NEW d \in Dates, ReadFact(c, d) PROVE RowInv'
    <2>1. PICK next : next = [request[c] EXCEPT !.slot = d, !.log.replaced[d] = View(c, d)]
      OBVIOUS
    <2>2. /\ next.job = request[c].job /\ next.added = request[c].added
          /\ next.counted = request[c].counted /\ next.seen = request[c].seen
      BY <2>1, FieldTypes DEF Request, TypeInv
    <2> QED
      BY <1>2, <1>4, <2>1, <2>2 DEF ReadFact
  <1>5. CASE UpsertFact(c)
    <2> DEFINE s == request[c].slot
    <2>1. PICK next : next = [request[c] EXCEPT !.slot = None, !.wrote[s] = JobOf(c),
                                                !.pc = IF s = Link THEN "commit" ELSE "facts"]
      OBVIOUS
    <2>2. /\ next.job = request[c].job /\ next.added = request[c].added
          /\ next.counted = request[c].counted /\ next.seen = request[c].seen
      BY <2>1, FieldTypes DEF Request, TypeInv
    <2> QED
      BY <1>2, <1>5, <2>1, <2>2 DEF UpsertFact
  <1>6. CASE LinkIdentity(c)
    <2>1. CASE Goto(c, "commit")
      BY <1>3, <2>1 DEF Steps
    <2>2. CASE Become(c, [request[c] EXCEPT !.slot = Link,
            !.log = [request[c].log EXCEPT !.linked = TRUE, !.replaced[Link] = facts[Link]]])
      <3>1. PICK next : next = [request[c] EXCEPT !.slot = Link,
                !.log = [request[c].log EXCEPT !.linked = TRUE, !.replaced[Link] = facts[Link]]]
        OBVIOUS
      <3>2. /\ next.job = request[c].job /\ next.added = request[c].added
            /\ next.counted = request[c].counted /\ next.seen = request[c].seen
        BY <3>1, FieldTypes DEF Request, TypeInv
      <3> QED
        BY <1>2, <2>2, <3>1, <3>2
    <2> QED
      BY <1>6, <2>1, <2>2 DEF LinkIdentity
  <1>7. CASE RowsDone(c)
    BY <1>3, <1>7 DEF RowsDone, Steps
  <1> QED
    BY <1>4, <1>5, <1>6, <1>7

\* The commit of an import: of any part of a key's rows that has new ones, the
\* new ones' file states at least as many.  Nobody else is inserting.
LEMMA CommitImportRows ==
    ASSUME TypeInv, TypeInv', RowInv, NEW c \in Clients, CommitImport(c) PROVE RowInv'
  <1> DEFINE r == request[c]
             j == JobOf(c)
  <1>1. /\ At(c, "commit") /\ Counting(r) /\ uploadLock = c /\ r.gone = {}
        /\ j \in Created /\ \A row \in r.added : row.job = j
    BY DEF CommitImport, At, RowInv, Inserting, Removing, TypeInv, Shaped, WellFormed, JobOf
  <1>2. txs' = txs \cup r.added /\ UNCHANGED file
    BY <1>1 DEF CommitImport, Publish
  <1>3. Created \subseteq Created'
    BY <1>1, MarkCreated DEF CommitImport, At, Statuses
  <1>4. /\ request'[c].pc = "report" /\ request'[c].added = r.added
        /\ \A d \in Clients \ {c} : request'[d] = request[d]
    BY FieldTypes DEF CommitImport, Goto, Become, Request, TypeInv, TypeOK
  <1>5. \A d \in Clients \ {c} : request[d].pc \notin Inserting
    BY <1>1 DEF TypeInv, Shaped, WellFormed
  <1>6. Finite'
    <2>1. IsFiniteSet(txs) /\ IsFiniteSet(r.added)
      BY DEF RowInv, Finite
    <2>2. IsFiniteSet(txs \cup r.added)
      BY <2>1, FS_Union
    <2> QED
      BY <1>2, <1>4, <2>1, <2>2 DEF RowInv, Finite
  <1>7. FingerprintsAreUnique'
    BY <1>1, <1>2 DEF Counting, FingerprintsAreUnique
  <1>8. \A row \in txs' : row.job \in Created'
    BY <1>1, <1>2, <1>3 DEF RowInv
  <1>9. NeverExceeded'
    <2>1. ASSUME NEW k \in Keys, NEW T \in SUBSET Rows(k)', T # {}
          PROVE  \E row \in T : Cardinality(T) <= file'[row.job].tx[k]
      <3>1. T \subseteq Rows(k) \cup Mine(r, k)
        BY <1>2 DEF Rows, Mine
      <3>2. CASE T \subseteq Rows(k)
        BY <1>2, <2>1, <3>2 DEF RowInv, NeverExceeded
      <3>3. CASE ~(T \subseteq Rows(k))
        <4>1. PICK row \in T : row \in Mine(r, k)
          BY <3>1, <3>3
        <4>2. row.job = j /\ Mine(r, k) # {}
          BY <1>1, <4>1 DEF Mine
        <4>3. IsFiniteSet(Rows(k)) /\ Cardinality(Rows(k)) \in Nat
          BY RowsSubset DEF RowInv
        <4>4. IsFiniteSet(Mine(r, k)) /\ Cardinality(Mine(r, k)) \in Nat
          <5>1. Mine(r, k) \subseteq r.added
            BY DEF Mine
          <5> QED
            BY <5>1, FS_Subset, FS_CardinalityType DEF RowInv, Finite
        <4>5. /\ IsFiniteSet(Rows(k) \cup Mine(r, k))
              /\ Cardinality(Rows(k) \cup Mine(r, k)) <= Cardinality(Rows(k)) + Cardinality(Mine(r, k))
          <5>1. Cardinality(Rows(k) \cap Mine(r, k)) \in Nat
            BY <4>3, FS_Subset, FS_CardinalityType
          <5>2. /\ IsFiniteSet(Rows(k) \cup Mine(r, k))
                /\ Cardinality(Rows(k) \cup Mine(r, k)) =
                       Cardinality(Rows(k)) + Cardinality(Mine(r, k))
                       - Cardinality(Rows(k) \cap Mine(r, k))
            BY <4>3, <4>4, FS_Union
          <5> QED
            BY <4>3, <4>4, <5>1, <5>2
        <4>6. /\ Cardinality(T) <= Cardinality(Rows(k) \cup Mine(r, k))
              /\ Cardinality(T) \in Nat /\ Cardinality(Rows(k) \cup Mine(r, k)) \in Nat
          BY <3>1, <4>5, FS_Subset, FS_CardinalityType
        <4>7. /\ r.counted[k] \in Nat /\ r.seen[k] \in Nat
              /\ Cardinality(Rows(k)) <= r.counted[k]
              /\ Cardinality(Mine(r, k)) + r.counted[k] <= r.seen[k]
              /\ r.seen[k] <= file[j].tx[k]
          BY <1>1, <4>2, FieldTypes DEF Counting, TypeInv, JobOf
        <4>8. file[j].tx[k] \in Nat
          BY <1>1, JobType DEF At, FileOf, File
        <4>9. Cardinality(T) <= file[j].tx[k]
          BY <4>3, <4>4, <4>5, <4>6, <4>7, <4>8
        <4> QED
          BY <1>2, <4>1, <4>2, <4>9
      <3> QED
        BY <3>2, <3>3
    <2> QED
      BY <2>1 DEF NeverExceeded
  <1>10. \A d \in Clients : request'[d].pc \notin Inserting
    BY <1>4, <1>5 DEF Inserting
  <1> QED
    BY <1>6, <1>7, <1>8, <1>9, <1>10 DEF RowInv

\* Removals and failures only take rows away.
LEMMA RemoveRows ==
    ASSUME TypeInv, TypeInv', RowInv, NEW c \in Clients, RemoveStep(c) PROVE RowInv'
  <1>1. ASSUME NEW pc \in Removing, NEW next, Become(c, next), next.pc = pc,
               next.added = request[c].added, UNCHANGED <<txs, status, file>>
        PROVE  RowInv'
    BY <1>1, OutsideRows DEF Inserting, Removing, Created
  <1>2. CASE DeleteRows(c)
    <2>1. PICK next : next = [request[c] EXCEPT !.pc = "restore",
              !.gone = {r \in txs : r.job = JobOf(c)},
              !.wrote = [s \in Slots |-> IF s \in OwnFacts(c) THEN NoJob ELSE Unset]]
      OBVIOUS
    <2>2. next.pc = "restore" /\ next.added = request[c].added
      BY <2>1, FieldTypes DEF Request, TypeInv
    <2> QED
      BY <1>1, <1>2, <2>1, <2>2 DEF DeleteRows, Removing, jobVars, dataVars
  <1>3. CASE RestoreRows(c)
    <2>1. UNCHANGED <<txs, status, file>>
      BY <1>3 DEF RestoreRows, jobVars, dataVars
    <2>2. CASE Finish(c)
      BY <2>1, <2>2, FinishRows DEF Created
    <2>3. CASE Become(c, [request[c] EXCEPT !.pc = "decide",
                   !.wrote = [s \in Slots |-> IF s \in Replaced(c) THEN request[c].log.replaced[s]
                                              ELSE request[c].wrote[s]]])
      <3>1. PICK next : next = [request[c] EXCEPT !.pc = "decide",
                   !.wrote = [s \in Slots |-> IF s \in Replaced(c) THEN request[c].log.replaced[s]
                                              ELSE request[c].wrote[s]]]
        OBVIOUS
      <3>2. next.pc = "decide" /\ next.added = request[c].added
        BY <3>1, FieldTypes DEF Request, TypeInv
      <3> QED
        BY <1>1, <2>1, <2>3, <3>1, <3>2 DEF Removing
    <2> QED
      BY <1>3, <2>2, <2>3 DEF RestoreRows
  <1>4. CASE DecideLimits(c)
    <2>1. PICK next : next = [request[c] EXCEPT !.pc = "remove",
              !.putBack = request[c].log.before # Unset /\ limits = JobOf(c)]
      OBVIOUS
    <2>2. next.pc = "remove" /\ next.added = request[c].added
      BY <2>1, FieldTypes DEF Request, TypeInv
    <2> QED
      BY <1>1, <1>4, <2>1, <2>2 DEF DecideLimits, Removing, jobVars, dataVars
  <1>5. CASE CommitRemoval(c)
    <2>1. request[c].added = {}
      BY <1>5 DEF CommitRemoval, At, TypeInv, Shaped, WellFormed, Removing
    <2>2. txs' \subseteq txs /\ UNCHANGED file
      BY <1>5, <2>1 DEF CommitRemoval, Publish
    <2>3. Created \subseteq Created'
      BY <1>5, MarkCreated DEF CommitRemoval, At, Statuses
    <2> QED
      BY <1>5, <2>2, <2>3, FinishRows DEF CommitRemoval
  <1> QED
    BY <1>2, <1>3, <1>4, <1>5 DEF RemoveStep

LEMMA EndRows ==
    ASSUME TypeInv, TypeInv', RowInv, NEW c \in Clients, WriteReport(c) \/ Fault(c) PROVE RowInv'
  <1>1. Finish(c) /\ UNCHANGED <<txs, file>>
    BY DEF WriteReport, Fault, FailRun, FailReport, Crash, jobVars, dataVars
  <1>2. Created \subseteq Created'
    <2>1. CASE FailRun(c) \/ FailReport(c)
      BY <2>1, MarkCreated DEF FailRun, FailReport, At, Statuses
    <2>2. CASE WriteReport(c) \/ Crash(c)
      BY <2>2 DEF WriteReport, Crash, jobVars, Created
    <2> QED
      BY <2>1, <2>2 DEF Fault
  <1> QED
    BY <1>1, <1>2, FinishRows

-----------------------------------------------------------------------------
(* The inductive invariant, and what it gives *)

IInv == TypeInv /\ RowInv

LEMMA InitInv == Init => IInv
  <1> SUFFICES ASSUME Init PROVE IInv
    OBVIOUS
  <1>1. txs = {} /\ \A c \in Clients : request[c] = Blank
    BY DEF Init
  <1>2. RowInv
    BY <1>1, FS_EmptySet
    DEF RowInv, Finite, FingerprintsAreUnique, NeverExceeded, Rows, Blank, Inserting
  <1> QED
    BY <1>2, InitType DEF IInv

LEMMA NextInv == IInv /\ [Next]_vars => IInv'
  <1> SUFFICES ASSUME IInv, [Next]_vars PROVE IInv'
    OBVIOUS
  <1>1. CASE Next
    <2>1. TypeInv /\ RowInv /\ TypeInv'
      BY <1>1, NextType DEF IInv, RowInv
    <2>2. PICK c \in Clients :
              \/ Upload(c)
              \/ \E j \in Jobs : Register(c, j) \/ CheckRemoval(c, j)
              \/ RunStep(c) \/ RemoveStep(c) \/ Fault(c)
      BY <1>1 DEF Next
    <2>3. CASE Upload(c) \/ \E j \in Jobs : Register(c, j) \/ CheckRemoval(c, j)
      <3>1. CASE Upload(c)
        <4>1. Jobs # {}
          BY <3>1 DEF Upload
        <4> QED
          BY <2>1, <3>1, <4>1, StartRows DEF IInv
      <3>2. CASE \E j \in Jobs : Register(c, j) \/ CheckRemoval(c, j)
        BY <2>1, <3>2, StartRows DEF IInv
      <3> QED
        BY <2>3, <3>1, <3>2
    <2>4. CASE RunStep(c)
      BY <2>1, <2>4, PrepareRows, LockAccountRows, DedupRowRows, AfterRows, CommitImportRows,
         EndRows
      DEF RunStep, IInv
    <2>5. CASE RemoveStep(c)
      BY <2>1, <2>5, RemoveRows DEF IInv
    <2>6. CASE Fault(c)
      BY <2>1, <2>6, EndRows DEF IInv
    <2> QED
      BY <2>2, <2>3, <2>4, <2>5, <2>6
  <1>2. CASE UNCHANGED vars
    <2>1. UNCHANGED <<status, file, undo, signed, registered, txs, facts, limits, uploadLock,
                      factLock, request, faults, lateFaults, registers, live, earlier>>
      BY <1>2 DEF vars, jobVars, dataVars, lockVars, countVars, ghostVars
    <2>2. TypeOK'
      BY <2>1 DEF IInv, TypeInv, TypeOK
    <2>3. Shaped' /\ Created' = Created
      BY <2>1 DEF IInv, TypeInv, Shaped, WellFormed, Created
    <2>4. Finite' /\ FingerprintsAreUnique' /\ \A row \in txs' : row.job \in Created'
      BY <2>1, <2>3 DEF IInv, RowInv, Finite, FingerprintsAreUnique
    <2>5. NeverExceeded'
      BY <2>1 DEF IInv, RowInv, NeverExceeded, Rows
    <2>6. ASSUME NEW c \in Clients, request'[c].pc \in Inserting PROVE Counting(request[c])'
      BY <2>1, <2>6 DEF IInv, RowInv, Counting, Mine, Rows
    <2> QED
      BY <2>2, <2>3, <2>4, <2>5, <2>6 DEF IInv, TypeInv, RowInv
  <1> QED
    BY <1>1, <1>2

LEMMA InvHolds == Spec => []IInv
  BY InitInv, NextInv, PTL DEF Spec

\* Every variable and every field of every request keeps its type.
THEOREM TypeCorrect == Spec => []TypeOK
  <1>1. IInv => TypeOK
    BY DEF IInv, TypeInv
  <1> QED
    BY <1>1, InvHolds, PTL

\* The unique index on fingerprints never rejects an upload, whatever was
\* removed before: the index an import chooses is free, and it keeps others
\* out of the account from then until it commits (adapters.py).
THEOREM NoFingerprintClash == Spec => []FingerprintsAreUnique
  <1>1. IInv => FingerprintsAreUnique
    BY DEF IInv, RowInv
  <1> QED
    BY <1>1, InvHolds, PTL

\* Overlapping statements never store a transaction twice, for any number of
\* concurrent uploads, registrations, removals and failures (issue 157).
THEOREM NothingCountsTwice == Spec => []NoDoubleCount
  <1>1. IInv => NoDoubleCount
    BY DEF IInv, RowInv, NeverExceeded, NoDoubleCount
  <1> QED
    BY <1>1, InvHolds, PTL

-----------------------------------------------------------------------------
(* What each step makes of its request *)

LEMMA Becomes ==
    ASSUME TypeInv, NEW c \in Clients, NEW r, Become(c, r)
    PROVE  request'[c] = r
  BY DEF Become, TypeInv, TypeOK

\* A step that only moves the program counter.
LEMMA GotoStep ==
    ASSUME TypeInv, NEW c \in Clients, NEW pc, Goto(c, pc)
    PROVE  /\ request'[c].pc = pc /\ request'[c].job = request[c].job
           /\ request'[c].slot = request[c].slot /\ request'[c].log = request[c].log
           /\ request'[c].wrote = request[c].wrote /\ request'[c].gone = request[c].gone
           /\ request'[c].added = request[c].added
  BY Becomes, FieldTypes DEF Goto, TypeInv, Request

LEMMA UploadStep ==
    ASSUME TypeInv, NEW c \in Clients, NEW j, NEW allow, Become(c, Starting(j, allow))
    PROVE  /\ request'[c].pc = "identify" /\ request'[c].job = j
           /\ request'[c].slot = None /\ request'[c].log = EmptyLog
           /\ request'[c].wrote = [s \in Slots |-> Unset]
  <1>1. request'[c] = Starting(j, allow)
    BY Becomes
  <1> QED
    BY <1>1 DEF Starting, Blank

LEMMA CheckIdentityStep ==
    ASSUME TypeInv, NEW c \in Clients, CheckIdentity(c), request'[c] # Blank
    PROVE  /\ request'[c].pc = "validate" /\ request'[c].job = request[c].job
           /\ request'[c].slot = request[c].slot /\ request'[c].wrote = request[c].wrote
           /\ request'[c].log.linked = FALSE
           /\ request'[c].log.replaced = [s \in Slots |-> NoJob]
  <1>1. ~Finish(c)
    BY Becomes DEF Finish
  <1>2. PICK before :
            Become(c, [request[c] EXCEPT !.pc = "validate",
                          !.log = [EmptyLog EXCEPT !.before = before]])
    BY <1>1 DEF CheckIdentity, EndEarly
  <1> DEFINE log == [EmptyLog EXCEPT !.before = before]
  <1>3. log.linked = FALSE /\ log.replaced = [s \in Slots |-> NoJob]
    BY DEF EmptyLog
  <1>4. request'[c] = [request[c] EXCEPT !.pc = "validate", !.log = log]
    BY <1>2, Becomes
  <1> HIDE DEF log
  <1> QED
    BY <1>3, <1>4, FieldTypes DEF TypeInv, Request

LEMMA DedupStep ==
    ASSUME TypeInv, NEW c \in Clients, NEW k \in Keys, DedupRow(c, k)
    PROVE  /\ request'[c].pc = "rows" /\ request'[c].job = request[c].job
           /\ request'[c].slot = request[c].slot /\ request'[c].log = request[c].log
           /\ request'[c].wrote = request[c].wrote
  <1>1. PICK new : Become(c, Taken(c, k, new))
    BY DedupCases
  <1>2. request'[c] = Taken(c, k, new) /\ At(c, "rows")
    BY <1>1, Becomes, DedupCases
  <1> QED
    BY <1>2, FieldTypes DEF Taken, TypeInv, Request, At

LEMMA ReadFactStep ==
    ASSUME TypeInv, NEW c \in Clients, NEW d \in Dates, ReadFact(c, d)
    PROVE  /\ request'[c].pc = "facts" /\ request'[c].job = request[c].job
           /\ request'[c].slot = d /\ request'[c].wrote = request[c].wrote
           /\ request'[c].log.linked = request[c].log.linked
           /\ request'[c].log.replaced = [request[c].log.replaced EXCEPT ![d] = facts[d]]
  <1>1. View(c, d) = facts[d]
    BY DEF ReadFact, View
  <1> DEFINE log == [request[c].log EXCEPT !.replaced[d] = facts[d]]
  <1>2. /\ log.linked = request[c].log.linked
        /\ log.replaced = [request[c].log.replaced EXCEPT ![d] = facts[d]]
    <2>1. PICK old \in UndoLog : old = request[c].log
      BY FieldTypes DEF TypeInv
    <2> QED
      BY <2>1 DEF UndoLog
  <1>3. request'[c] = [request[c] EXCEPT !.slot = d, !.log = log]
    <2>1. [request[c] EXCEPT !.slot = d, !.log.replaced[d] = facts[d]] =
          [request[c] EXCEPT !.slot = d, !.log = log]
      BY FieldTypes DEF Request, TypeInv
    <2> QED
      BY <1>1, <2>1, Becomes DEF ReadFact
  <1> HIDE DEF log
  <1> QED
    BY <1>2, <1>3, FieldTypes DEF TypeInv, Request, ReadFact, At

LEMMA UpsertFactStep ==
    ASSUME TypeInv, NEW c \in Clients, UpsertFact(c)
    PROVE  /\ request'[c].pc = IF request[c].slot = Link THEN "commit" ELSE "facts"
           /\ request'[c].job = request[c].job /\ request'[c].slot = None
           /\ request'[c].log = request[c].log
           /\ request'[c].wrote = [request[c].wrote EXCEPT ![request[c].slot] = JobOf(c)]
  <1>1. PICK pc : pc = IF request[c].slot = Link THEN "commit" ELSE "facts"
    OBVIOUS
  <1>2. PICK wrote : wrote = [request[c].wrote EXCEPT ![request[c].slot] = JobOf(c)]
    OBVIOUS
  <1>3. [request[c] EXCEPT !.slot = None, !.wrote[request[c].slot] = JobOf(c), !.pc = pc] =
        [request[c] EXCEPT !.slot = None, !.wrote = wrote, !.pc = pc]
    BY <1>2, FieldTypes DEF TypeInv, Request
  <1>4. request'[c] = [request[c] EXCEPT !.slot = None, !.wrote = wrote, !.pc = pc]
    BY <1>1, <1>3, Becomes DEF UpsertFact
  <1> QED
    BY <1>1, <1>2, <1>4, FieldTypes DEF TypeInv, Request

\* The link that is about to be written, or none.
LEMMA LinkIdentityStep ==
    ASSUME TypeInv, NEW c \in Clients, LinkIdentity(c)
    PROVE  \/ Goto(c, "commit")
           \/ /\ request'[c].pc = "facts" /\ request'[c].job = request[c].job
              /\ request'[c].slot = Link /\ request'[c].wrote = request[c].wrote
              /\ request'[c].log.linked = TRUE
              /\ request'[c].log.replaced = [request[c].log.replaced EXCEPT ![Link] = facts[Link]]
  <1> SUFFICES ASSUME ~Goto(c, "commit")
               PROVE  /\ request'[c].pc = "facts" /\ request'[c].job = request[c].job
                      /\ request'[c].slot = Link /\ request'[c].wrote = request[c].wrote
                      /\ request'[c].log.linked = TRUE
                      /\ request'[c].log.replaced = [request[c].log.replaced EXCEPT ![Link] = facts[Link]]
    OBVIOUS
  <1> DEFINE log == [request[c].log EXCEPT !.linked = TRUE, !.replaced[Link] = facts[Link]]
  <1>1. /\ log.linked = TRUE
        /\ log.replaced = [request[c].log.replaced EXCEPT ![Link] = facts[Link]]
    <2>1. PICK old \in UndoLog : old = request[c].log
      BY FieldTypes DEF TypeInv
    <2> QED
      BY <2>1 DEF UndoLog
  <1>2. Become(c, [request[c] EXCEPT !.slot = Link, !.log = log]) /\ At(c, "facts")
    BY DEF LinkIdentity
  <1>3. request'[c] = [request[c] EXCEPT !.slot = Link, !.log = log]
    BY <1>2, Becomes
  <1> HIDE DEF log
  <1> QED
    BY <1>1, <1>2, <1>3, FieldTypes DEF TypeInv, Request, At

LEMMA CheckRemovalStep ==
    ASSUME TypeInv, NEW c \in Clients, NEW j \in Jobs, CheckRemoval(c, j)
    PROVE  /\ request'[c].pc = "delete" /\ request'[c].job = j /\ request'[c].log = undo[j]
  <1>1. request'[c] = [Blank EXCEPT !.pc = "delete", !.job = j, !.log = undo[j]]
    BY Becomes DEF CheckRemoval
  <1> QED
    BY <1>1 DEF Blank

LEMMA DeleteRowsStep ==
    ASSUME TypeInv, NEW c \in Clients, DeleteRows(c)
    PROVE  /\ request'[c].pc = "restore" /\ request'[c].job = request[c].job
           /\ request'[c].log = request[c].log
           /\ request'[c].gone = {r \in txs : r.job = JobOf(c)}
           /\ request'[c].wrote = [s \in Slots |-> IF s \in OwnFacts(c) THEN NoJob ELSE Unset]
  <1>1. PICK gone, wrote : /\ gone = {r \in txs : r.job = JobOf(c)}
                           /\ wrote = [s \in Slots |-> IF s \in OwnFacts(c) THEN NoJob ELSE Unset]
    OBVIOUS
  <1>2. request'[c] = [request[c] EXCEPT !.pc = "restore", !.gone = gone, !.wrote = wrote]
    BY <1>1, Becomes DEF DeleteRows
  <1> QED
    BY <1>1, <1>2, FieldTypes DEF TypeInv, Request

LEMMA RestoreRowsStep ==
    ASSUME TypeInv, NEW c \in Clients, RestoreRows(c), request'[c] # Blank
    PROVE  /\ request'[c].pc = "decide" /\ request'[c].job = request[c].job
           /\ request'[c].log = request[c].log /\ request'[c].gone = request[c].gone
           /\ request'[c].wrote = [s \in Slots |-> IF s \in Replaced(c) THEN request[c].log.replaced[s]
                                                  ELSE request[c].wrote[s]]
  <1>1. PICK wrote : wrote = [s \in Slots |-> IF s \in Replaced(c) THEN request[c].log.replaced[s]
                                             ELSE request[c].wrote[s]]
    OBVIOUS
  <1>2. ~Finish(c)
    BY Becomes DEF Finish
  <1>3. request'[c] = [request[c] EXCEPT !.pc = "decide", !.wrote = wrote]
    BY <1>1, <1>2, Becomes DEF RestoreRows
  <1> QED
    BY <1>1, <1>3, FieldTypes DEF TypeInv, Request

LEMMA DecideLimitsStep ==
    ASSUME TypeInv, NEW c \in Clients, DecideLimits(c)
    PROVE  /\ request'[c].pc = "remove" /\ request'[c].job = request[c].job
           /\ request'[c].log = request[c].log /\ request'[c].gone = request[c].gone
           /\ request'[c].wrote = request[c].wrote
           /\ request'[c].putBack => limits = JobOf(c)
  <1>1. PICK back \in BOOLEAN : back = (request[c].log.before # Unset /\ limits = JobOf(c))
    OBVIOUS
  <1>2. request'[c] = [request[c] EXCEPT !.pc = "remove", !.putBack = back]
    BY <1>1, Becomes DEF DecideLimits
  <1> QED
    BY <1>1, <1>2, FieldTypes DEF TypeInv, Request

-----------------------------------------------------------------------------
(* One request at a time: a card's limits *)

OneAtATime == \A c, d \in Clients : c = d

\* A removal that will put limits back was told they are its own, and they still are.
PutsBackOwn == \A c \in Clients : request[c].putBack => limits = JobOf(c)

\* The limits a card gets back are compared in the step before they are written.
LEMMA OnlyDecides ==
    ASSUME TypeInv, NEW c \in Clients, RunStep(c) \/ RemoveStep(c) \/ Fault(c),
           request'[c].pc = "remove"
    PROVE  DecideLimits(c)
  <1>1. ASSUME NEW pc, pc # "remove", Goto(c, pc) PROVE FALSE
    BY <1>1, GotoStep
  <1>2. request'[c] # Blank /\ ~Finish(c)
    BY Becomes DEF Finish, Blank
  <1>3. ~Identify(c) /\ ~LookupParser(c) /\ ~Validate(c) /\ ~LockAccount(c)
    BY <1>1, <1>2 DEF Identify, LookupParser, EndEarly, Validate, LockAccount
  <1>4. ~CheckIdentity(c)
    BY <1>2, CheckIdentityStep
  <1>5. /\ \A k \in Keys : ~DedupRow(c, k)
        /\ \A d \in Dates : ~ReadFact(c, d)
    BY DedupStep, ReadFactStep
  <1>6. ~RowsDone(c) /\ ~CommitImport(c) /\ ~WriteReport(c)
    BY <1>1, <1>2 DEF RowsDone, CommitImport, WriteReport
  <1>7. ~UpsertFact(c) /\ ~LinkIdentity(c)
    BY <1>1, UpsertFactStep, LinkIdentityStep
  <1>8. ~DeleteRows(c) /\ ~RestoreRows(c)
    BY <1>2, DeleteRowsStep, RestoreRowsStep
  <1>9. ~CommitRemoval(c) /\ ~Fault(c)
    BY <1>2 DEF CommitRemoval, Fault, FailRun, FailReport, Crash
  <1> QED
    BY <1>3, <1>4, <1>5, <1>6, <1>7, <1>8, <1>9 DEF RunStep, RemoveStep

LEMMA NextPutsBackOwn ==
    ASSUME OneAtATime, IInv, PutsBackOwn, [Next]_vars
    PROVE  PutsBackOwn'
  <1>1. TypeInv /\ TypeInv'
    BY NextInv DEF IInv
  <1> SUFFICES ASSUME NEW c \in Clients, request'[c].putBack PROVE limits' = request'[c].job
    BY DEF PutsBackOwn, JobOf
  <1>2. request'[c].pc = "remove"
    BY <1>1 DEF TypeInv, Shaped, WellFormed
  <1>3. CASE UNCHANGED vars
    BY <1>3 DEF PutsBackOwn, vars, dataVars, JobOf
  <1>4. CASE Next
    <2>1. PICK d \in Clients :
              \/ Upload(d)
              \/ \E j \in Jobs : Register(d, j) \/ CheckRemoval(d, j)
              \/ RunStep(d) \/ RemoveStep(d) \/ Fault(d)
      BY <1>4 DEF Next
    <2>2. d = c
      BY DEF OneAtATime
    <2>3. ~Upload(c) /\ \A j \in Jobs : ~Register(c, j) /\ ~CheckRemoval(c, j)
      BY <1>1, <1>2, UploadStep, CheckRemovalStep DEF Upload, Register
    <2>4. DecideLimits(c)
      BY <1>1, <1>2, <2>1, <2>2, <2>3, OnlyDecides
    <2> QED
      BY <1>1, <2>4, DecideLimitsStep DEF DecideLimits, dataVars, JobOf
  <1> QED
    BY <1>3, <1>4

\* Nothing but the commit of a removal marks a job REMOVED.
LEMMA OnlyRemovalsRemove ==
    ASSUME TypeInv, NEW c \in Clients,
           \/ Upload(c)
           \/ \E i \in Jobs : Register(c, i) \/ CheckRemoval(c, i)
           \/ RunStep(c) \/ RemoveStep(c) \/ Fault(c),
           NEW j \in Jobs, status[j] # status'[j], status'[j] = "REMOVED"
    PROVE  CommitRemoval(c)
  <1>1. status \in [Jobs -> Statuses]
    BY DEF TypeInv, TypeOK
  <1>2. ASSUME NEW i \in Jobs, NEW mark, mark # "REMOVED", status' = [status EXCEPT ![i] = mark]
        PROVE  FALSE
    BY <1>1, <1>2
  <1>3. ~UNCHANGED jobVars /\ ~UNCHANGED status
    BY DEF jobVars
  <1>4. ~Upload(c) /\ \A i \in Jobs : ~Register(c, i) /\ ~CheckRemoval(c, i)
    BY <1>1, <1>3 DEF Upload, Register, CheckRemoval
  <1>5. ASSUME ~At(c, "idle"), NEW mark, mark # "REMOVED",
               status' = [status EXCEPT ![JobOf(c)] = mark]
        PROVE  FALSE
    BY <1>1, <1>5, JobType
  <1>6. ASSUME ~At(c, "idle"), NEW mark, mark # "REMOVED", EndEarly(c, mark) PROVE FALSE
    BY <1>5, <1>6 DEF EndEarly
  <1>7. ~Identify(c) /\ ~Validate(c) /\ ~CommitImport(c)
    BY <1>5 DEF Identify, Validate, CommitImport, At
  <1>8. ~LookupParser(c)
    BY <1>5, <1>6 DEF LookupParser, At
  <1>9. ~CheckIdentity(c)
    BY <1>3, <1>6 DEF CheckIdentity, At
  <1>10. ~LockAccount(c) /\ ~RowsDone(c) /\ ~UpsertFact(c) /\ ~LinkIdentity(c) /\ ~WriteReport(c)
    BY <1>3 DEF LockAccount, RowsDone, UpsertFact, LinkIdentity, WriteReport
  <1>11. /\ \A k \in Keys : ~DedupRow(c, k)
         /\ \A d \in Dates : ~ReadFact(c, d)
    BY <1>3, DedupCases DEF ReadFact
  <1>12. ~DeleteRows(c) /\ ~RestoreRows(c) /\ ~DecideLimits(c) /\ ~Crash(c)
    BY <1>3 DEF DeleteRows, RestoreRows, DecideLimits, Crash
  <1>13. ~FailRun(c) /\ ~FailReport(c)
    BY <1>5 DEF FailRun, FailReport, At
  <1> QED
    BY <1>4, <1>7, <1>8, <1>9, <1>10, <1>11, <1>12, <1>13 DEF RunStep, RemoveStep, Fault

\* While requests come one at a time, a removal puts a card's limits back only over its own
\* (undo.py: "only if the card still has this upload's").
THEOREM SerialRemovalsKeepOthersLimits ==
  ASSUME OneAtATime
  PROVE  Spec => RemovalKeepsOthersLimits
  <1>1. Init => PutsBackOwn
    BY DEF Init, PutsBackOwn, Blank
  <1>2. IInv /\ PutsBackOwn /\ [Next]_vars => PutsBackOwn'
    BY NextPutsBackOwn
  <1>3. IInv /\ PutsBackOwn /\ [Next]_vars
        => [limits' # limits /\ (\E j \in Jobs : status[j] # status'[j] /\ status'[j] = "REMOVED")
            => limits \in Jobs /\ status'[limits] = "REMOVED"]_vars
    <2> SUFFICES ASSUME IInv, PutsBackOwn, Next, limits' # limits,
                        NEW j \in Jobs, status[j] # status'[j], status'[j] = "REMOVED"
                 PROVE  limits \in Jobs /\ status'[limits] = "REMOVED"
      BY DEF vars
    <2>1. PICK c \in Clients :
              \/ Upload(c)
              \/ \E i \in Jobs : Register(c, i) \/ CheckRemoval(c, i)
              \/ RunStep(c) \/ RemoveStep(c) \/ Fault(c)
      BY DEF Next
    <2>2. CommitRemoval(c) /\ TypeInv
      BY <2>1, OnlyRemovalsRemove DEF IInv
    <2>3. request[c].putBack
      BY <2>2 DEF CommitRemoval
    <2>4. limits = JobOf(c) /\ JobOf(c) \in Jobs
      BY <2>2, <2>3, JobType DEF PutsBackOwn, CommitRemoval, At
    <2>5. status' = [status EXCEPT ![JobOf(c)] = "REMOVED"]
      BY <2>2 DEF CommitRemoval
    <2> QED
      BY <2>2, <2>4, <2>5 DEF TypeInv, TypeOK
  <1> QED
    BY <1>1, <1>2, <1>3, InvHolds, PTL DEF Spec, RemovalKeepsOthersLimits

-----------------------------------------------------------------------------
(* One request at a time: the ledger *)

\* x is the last of the imports S, or there is none.
Latest(x, S) == IF S = {} THEN x = NoJob ELSE x \in S /\ \A i \in S : i <= x

\* The standing imports that cover slot s.
Covering(s) == {j \in live : s \in Covers(j)}

\* Jobs are created, and imported, in the order of their ids; what a slot shows is the last
\* import that covers it, and what that one replaced is the one before.
CreatedInOrder   == \A i \in Created, h \in Jobs : h < i => h \in Created
LiveAreImported  == live = {j \in Jobs : status[j] = "IMPORTED"}
EarlierAreBefore == \A i \in Jobs : earlier[i] = {h \in live : i \in live /\ h < i}
RowsAreLive      == \A row \in txs : row.job \in live
LastIsShown      == \A s \in Slots : Latest(facts[s], Covering(s))
LogsHaveTheNext  ==
    \A j \in live, s \in Slots :
        IF s \in Covers(j) THEN Latest(undo[j].replaced[s], {i \in Covering(s) : i < j})
        ELSE undo[j].replaced[s] = NoJob

TablesInv ==
    LiveAreImported /\ EarlierAreBefore /\ RowsAreLive /\ LastIsShown /\ LogsHaveTheNext

\* The job of a run that has not committed.
IsNewest(j) == j \notin live /\ \A i \in Created : i <= j

\* Nothing is read or written yet.
Untouched(r) == /\ r.slot = None /\ ~r.log.linked
                /\ \A s \in Slots : r.wrote[s] = Unset /\ r.log.replaced[s] = NoJob

\* What the file of r states, as far as r has decided to store it.
Stated(r) == file[r.job].dates \cup (IF r.log.linked THEN {Link} ELSE {})

\* A run at its facts: what was written was logged before, and so was what comes next.
Storing(r) ==
    /\ r.slot \in Stated(r) \cup {None}
    /\ r.log.linked <=> r.slot = Link
    /\ r.log.linked => \A d \in file[r.job].dates : r.wrote[d] = r.job
    /\ \A s \in Slots :
          /\ r.wrote[s] \in {Unset, r.job}
          /\ IF r.wrote[s] = Unset /\ s # r.slot THEN r.log.replaced[s] = NoJob
             ELSE s \in Stated(r) /\ r.log.replaced[s] = facts[s]

Written(r) ==
    \A s \in Slots :
        IF s \in Stated(r) THEN r.wrote[s] = r.job /\ r.log.replaced[s] = facts[s]
        ELSE r.wrote[s] = Unset /\ r.log.replaced[s] = NoJob

\* A removal undoes an import that is the last of every slot it covers.
Undoing(r) == /\ r.job \in live /\ r.log = undo[r.job]
              /\ \A s \in Covers(r.job) : facts[s] = r.job
Deleted(r)  == r.gone = {row \in txs : row.job = r.job}
Emptied(r)  == \A s \in Slots : r.wrote[s] = IF s \in Covers(r.job) THEN NoJob ELSE Unset
Restored(r) ==
    \A s \in Slots : r.wrote[s] = IF s \in Covers(r.job) THEN undo[r.job].replaced[s] ELSE Unset

Story(r) ==
    /\ r.pc \in Preparing \cup Inserting => IsNewest(r.job)
    /\ r.pc \in Preparing \cup {"rows"} => Untouched(r)
    /\ r.pc = "facts" => Storing(r)
    /\ r.pc = "commit" => Written(r)
    /\ r.pc \in Removing => Undoing(r)
    /\ r.pc \in {"restore", "decide", "remove"} => Deleted(r)
    /\ r.pc = "restore" => Emptied(r)
    /\ r.pc \in {"decide", "remove"} => Restored(r)

LedgerInv == CreatedInOrder /\ TablesInv /\ \A c \in Clients : Story(request[c])

LEMMA BlankStory == Story(Blank)
  BY DEF Story, Blank, Preparing, Inserting, Removing

LEMMA SlotTypes ==
    ASSUME TypeInv, NEW j \in Jobs
    PROVE  /\ Covers(j) \subseteq Slots /\ file[j].dates \subseteq Dates
           /\ undo[j] \in UndoLog /\ undo[j].replaced \in [Slots -> Owner]
           /\ live \subseteq Jobs /\ Jobs \subseteq Nat \ {0} /\ NoJob \notin Jobs
           /\ Unset \notin Owner /\ None \notin Slots /\ Link \notin Dates
  <1>1. file[j] \in File /\ undo[j] \in UndoLog /\ live \subseteq Jobs
    BY DEF TypeInv, TypeOK
  <1>2. file[j].dates \subseteq Dates /\ undo[j].replaced \in [Slots -> Owner]
    BY <1>1 DEF File, UndoLog
  <1>3. Jobs \subseteq Nat \ {0} /\ NoJob \notin Jobs /\ Unset \notin Owner
    BY BoundsAssumption DEF Jobs, NoJob, Unset, Owner
  <1> QED
    BY <1>1, <1>2, <1>3, NoneAssumption DEF Covers, Slots

\* The tables as they are, for all that stands.
TablesStay ==
    /\ UNCHANGED <<txs, facts, undo, live, earlier>>
    /\ \A j \in live : file'[j] = file[j]
    /\ \A j \in Jobs : status'[j] = "IMPORTED" <=> status[j] = "IMPORTED"

LEMMA StayCovers ==
    ASSUME TypeInv, TablesStay
    PROVE  /\ \A j \in Jobs : Covers(j)' = Covers(j)
           /\ \A s \in Slots : Covering(s)' = Covering(s)
  <1>1. \A j \in Jobs : Covers(j)' = Covers(j)
    BY DEF TablesStay, Covers
  <1> QED
    BY <1>1 DEF TablesStay, Covering, TypeInv, TypeOK

LEMMA StayTables ==
    ASSUME TypeInv, TablesInv, TablesStay
    PROVE  TablesInv'
  <1>1. LiveAreImported' /\ EarlierAreBefore' /\ RowsAreLive'
    BY DEF TablesInv, TablesStay, LiveAreImported, EarlierAreBefore, RowsAreLive
  <1>2. LastIsShown'
    BY StayCovers DEF TablesInv, TablesStay, LastIsShown, Latest
  <1>3. LogsHaveTheNext'
    <2> SUFFICES ASSUME NEW j \in live, NEW s \in Slots
                 PROVE  IF s \in Covers(j)
                        THEN Latest(undo[j].replaced[s], {i \in Covering(s) : i < j})
                        ELSE undo[j].replaced[s] = NoJob
      BY StayCovers DEF TablesStay, LogsHaveTheNext, Latest, TypeInv, TypeOK
    <2> QED
      BY DEF TablesInv, LogsHaveTheNext
  <1> QED
    BY <1>1, <1>2, <1>3 DEF TablesInv

LEMMA StayStory ==
    ASSUME TypeInv, TablesStay, Created' = Created, file' = file, NEW r, Story(r),
           r.pc \in Removing => r.job \in Jobs
    PROVE  Story(r)'
  <1>1. IsNewest(r.job)' <=> IsNewest(r.job)
    BY DEF TablesStay, IsNewest
  <1>2. Untouched(r)' <=> Untouched(r)
    BY DEF Untouched
  <1>3. Stated(r)' = Stated(r)
    BY DEF Stated
  <1>4. (Storing(r)' <=> Storing(r)) /\ (Written(r)' <=> Written(r))
    BY <1>3 DEF TablesStay, Storing, Written
  <1>5. Deleted(r)' <=> Deleted(r)
    BY DEF TablesStay, Deleted
  <1>6. ASSUME r.job \in Jobs
        PROVE  (Undoing(r)' <=> Undoing(r)) /\ (Emptied(r)' <=> Emptied(r))
               /\ (Restored(r)' <=> Restored(r))
    BY <1>6, StayCovers DEF TablesStay, Undoing, Emptied, Restored
  <1>7. r.pc \in {"restore", "decide", "remove"} => r.pc \in Removing
    BY DEF Removing
  <1> QED
    BY <1>1, <1>2, <1>4, <1>5, <1>6, <1>7 DEF Story

\* A job that has not been imported is marked otherwise.
LEMMA MarkStays ==
    ASSUME TypeInv, LiveAreImported, NEW j \in Created, j \notin live, NEW mark,
           mark \notin {"none", "IMPORTED"}, status' = [status EXCEPT ![j] = mark]
    PROVE  /\ \A i \in Jobs : status'[i] = "IMPORTED" <=> status[i] = "IMPORTED"
           /\ Created' = Created
  BY DEF TypeInv, TypeOK, LiveAreImported, Created

LEMMA RequestFacts ==
    ASSUME TypeInv, NEW c \in Clients, ~At(c, "idle")
    PROVE  /\ request[c].job \in Jobs /\ request[c].job \in Created
           /\ request[c].wrote \in [Slots -> Owner \cup {Unset}]
           /\ request[c].log.replaced \in [Slots -> Owner]
           /\ request[c].job # NoJob /\ request[c].job # Unset
  <1>1. request[c].job \in Jobs /\ request[c].job \in Created
    BY JobType DEF JobOf
  <1> QED
    BY <1>1, FieldTypes, LogTypes, SlotTypes DEF TypeInv, Owner

\* The steps to the first row change nothing a story tells of.
LEMMA UntouchedStory ==
    ASSUME TypeInv, NEW c \in Clients, Story(request[c]),
           request[c].pc \in Preparing \cup {"rows"},
           request'[c].pc \in Preparing \cup {"rows"},
           request'[c].job = request[c].job, request'[c].slot = request[c].slot,
           request'[c].wrote = request[c].wrote,
           \/ request'[c].log = request[c].log
           \/ /\ request'[c].log.linked = FALSE
              /\ request'[c].log.replaced = [s \in Slots |-> NoJob]
    PROVE  Story(request'[c])
  <1>1. IsNewest(request[c].job) /\ Untouched(request[c])
    BY DEF Story, Inserting
  <1>2. IsNewest(request'[c].job)
    BY <1>1
  <1>3. Untouched(request'[c])
    BY <1>1 DEF Untouched
  <1> QED
    BY <1>2, <1>3 DEF Story, Preparing, Inserting, Removing

LEMMA PrepareStory ==
    ASSUME TypeInv, NEW c \in Clients, Story(request[c]),
           \/ Identify(c) \/ LookupParser(c) \/ CheckIdentity(c) \/ Validate(c) \/ LockAccount(c)
           \/ \E k \in Keys : DedupRow(c, k)
    PROVE  Story(request'[c])
  <1>1. CASE Finish(c)
    BY <1>1, BlankStory, Becomes DEF Finish
  <1>2. ASSUME NEW pc \in Preparing \cup {"rows"}, Goto(c, pc),
               request[c].pc \in Preparing \cup {"rows"}
        PROVE  Story(request'[c])
    BY <1>2, GotoStep, UntouchedStory
  <1>3. CASE Identify(c) \/ Validate(c) \/ LockAccount(c)
    BY <1>2, <1>3 DEF Identify, Validate, LockAccount, At, Preparing
  <1>4. CASE LookupParser(c)
    BY <1>1, <1>2, <1>4 DEF LookupParser, EndEarly, At, Preparing
  <1>5. CASE CheckIdentity(c)
    <2>1. CASE request'[c] = Blank
      BY <2>1, BlankStory
    <2>2. CASE request'[c] # Blank
      BY <1>5, <2>2, CheckIdentityStep, UntouchedStory DEF CheckIdentity, At, Preparing
    <2> QED
      BY <2>1, <2>2
  <1>6. ASSUME NEW k \in Keys, DedupRow(c, k) PROVE Story(request'[c])
    BY <1>6, DedupStep, DedupCases, UntouchedStory DEF At
  <1> QED
    BY <1>3, <1>4, <1>5, <1>6

LEMMA RowsDoneStory ==
    ASSUME TypeInv, NEW c \in Clients, Story(request[c]), RowsDone(c)
    PROVE  Story(request'[c])
  <1>1. At(c, "rows") /\ Goto(c, "facts")
    BY DEF RowsDone
  <1>2. IsNewest(request[c].job) /\ Untouched(request[c])
    BY <1>1 DEF Story, At, Inserting
  <1>3. None \notin Slots /\ Link \in Slots
    BY NoneAssumption DEF Slots
  <1>4. Storing(request'[c])
    BY <1>1, <1>2, <1>3, GotoStep DEF Storing, Untouched
  <1>5. request'[c].pc = "facts" /\ IsNewest(request'[c].job)
    BY <1>1, <1>2, GotoStep
  <1> QED
    BY <1>4, <1>5 DEF Story, Preparing, Inserting, Removing

LEMMA ReadFactStory ==
    ASSUME TypeInv, NEW c \in Clients, Story(request[c]), NEW d \in Dates, ReadFact(c, d)
    PROVE  Story(request'[c])
  <1>1. At(c, "facts") /\ request[c].slot = None /\ request[c].wrote[d] = Unset
        /\ d \in file[request[c].job].dates
    BY DEF ReadFact, FileOf, JobOf
  <1>2. Storing(request[c]) /\ IsNewest(request[c].job)
    BY <1>1 DEF Story, At, Inserting
  <1>3. None \notin Slots /\ Link \in Slots /\ d \in Slots /\ d # Link
    BY NoneAssumption DEF Slots
  <1>4. ~request[c].log.linked
    BY <1>1, <1>2, <1>3 DEF Storing
  <1>5. request[c].log.replaced \in [Slots -> Owner]
    BY <1>1, RequestFacts DEF At
  <1>6. Storing(request'[c])
    <2>1. Stated(request'[c]) = Stated(request[c]) /\ d \in Stated(request[c])
      BY <1>1, ReadFactStep DEF Stated
    <2>2. ASSUME NEW s \in Slots
          PROVE  /\ request'[c].wrote[s] \in {Unset, request'[c].job}
                 /\ IF request'[c].wrote[s] = Unset /\ s # d
                    THEN request'[c].log.replaced[s] = NoJob
                    ELSE s \in Stated(request[c]) /\ request'[c].log.replaced[s] = facts[s]
      <3>1. request'[c].log.replaced[s] = IF s = d THEN facts[d] ELSE request[c].log.replaced[s]
        <4>1. request'[c].log.replaced = [request[c].log.replaced EXCEPT ![d] = facts[d]]
          BY ReadFactStep
        <4> QED
          BY <1>5, <4>1
      <3> QED
        BY <1>1, <1>2, <1>3, <2>1, <3>1, ReadFactStep DEF Storing
    <2> QED
      <3>1. request'[c].slot = d /\ ~request'[c].log.linked
        BY <1>4, ReadFactStep
      <3> QED
        BY <1>3, <2>1, <2>2, <3>1 DEF Storing
  <1>7. request'[c].pc = "facts" /\ IsNewest(request'[c].job)
    BY <1>2, ReadFactStep
  <1> QED
    BY <1>6, <1>7 DEF Story, Preparing, Inserting, Removing

LEMMA UpsertFactStory ==
    ASSUME TypeInv, NEW c \in Clients, Story(request[c]), UpsertFact(c)
    PROVE  Story(request'[c])
  <1>1. At(c, "facts") /\ request[c].slot # None /\ JobOf(c) = request[c].job
    BY DEF UpsertFact, JobOf
  <1>2. Storing(request[c]) /\ IsNewest(request[c].job)
    BY <1>1 DEF Story, At, Inserting
  <1>3. None \notin Slots /\ Link \in Slots
    BY NoneAssumption DEF Slots
  <1>4. /\ request[c].wrote \in [Slots -> Owner \cup {Unset}] /\ request[c].job # Unset
        /\ request[c].slot \in Slots
    BY <1>1, RequestFacts, FieldTypes DEF At, TypeInv
  <1>5. CASE request[c].slot = Link
    <2>1. request'[c].pc = "commit" /\ IsNewest(request'[c].job)
      BY <1>2, <1>5, UpsertFactStep
    <2>2. Written(request'[c])
      <3> SUFFICES ASSUME NEW s \in Slots
                   PROVE  IF s \in Stated(request[c])
                          THEN /\ request'[c].wrote[s] = request[c].job
                               /\ request[c].log.replaced[s] = facts[s]
                          ELSE /\ request'[c].wrote[s] = Unset
                               /\ request[c].log.replaced[s] = NoJob
        BY UpsertFactStep DEF Written, Stated
      <3>1. request'[c].wrote[s] = IF s = Link THEN request[c].job ELSE request[c].wrote[s]
        BY <1>1, <1>4, <1>5, UpsertFactStep
      <3>2. request[c].log.linked /\ Link \in Stated(request[c])
        BY <1>2, <1>5 DEF Storing, Stated
      <3>3. CASE s = Link
        BY <1>2, <1>5, <3>1, <3>2, <3>3 DEF Storing
      <3>4. CASE s # Link
        BY <1>2, <1>4, <1>5, <3>1, <3>2, <3>4 DEF Storing, Stated
      <3> QED
        BY <3>3, <3>4
    <2> QED
      BY <2>1, <2>2 DEF Story, Preparing, Inserting, Removing
  <1>6. CASE request[c].slot # Link
    <2>1. request'[c].pc = "facts" /\ IsNewest(request'[c].job)
      BY <1>2, <1>6, UpsertFactStep
    <2>2. ~request[c].log.linked
      BY <1>2, <1>6 DEF Storing
    <2>3. request'[c].wrote = [request[c].wrote EXCEPT ![request[c].slot] = request[c].job]
      BY <1>1, UpsertFactStep
    <2>4. Storing(request'[c])
      BY <1>1, <1>2, <1>3, <1>4, <1>6, <2>2, <2>3, UpsertFactStep DEF Storing, Stated
    <2> QED
      BY <2>1, <2>4 DEF Story, Preparing, Inserting, Removing
  <1> QED
    BY <1>5, <1>6

LEMMA LinkIdentityStory ==
    ASSUME TypeInv, NEW c \in Clients, Story(request[c]), LinkIdentity(c)
    PROVE  Story(request'[c])
  <1>1. /\ At(c, "facts") /\ request[c].slot = None
        /\ \A d \in file[request[c].job].dates : request[c].wrote[d] # Unset
    BY DEF LinkIdentity, FileOf, JobOf
  <1>2. Storing(request[c]) /\ IsNewest(request[c].job)
    BY <1>1 DEF Story, At, Inserting
  <1>3. None \notin Slots /\ Link \in Slots /\ Dates \subseteq Slots /\ Link \notin Dates
    BY NoneAssumption DEF Slots
  <1>4. ~request[c].log.linked
    BY <1>1, <1>2, <1>3 DEF Storing
  <1>5. /\ request[c].log.replaced \in [Slots -> Owner] /\ request[c].job # Unset
        /\ file[request[c].job].dates \subseteq Dates
    BY <1>1, RequestFacts, SlotTypes DEF At
  <1>6. \A d \in file[request[c].job].dates : request[c].wrote[d] = request[c].job
    BY <1>1, <1>2, <1>3, <1>5 DEF Storing
  <1>7. CASE Goto(c, "commit")
    <2>1. request'[c].pc = "commit" /\ IsNewest(request'[c].job)
      BY <1>2, <1>7, GotoStep
    <2>2. Written(request[c])
      BY <1>1, <1>2, <1>3, <1>4, <1>5, <1>6 DEF Storing, Written, Stated
    <2>3. Written(request'[c])
      BY <1>7, <2>2, GotoStep DEF Written, Stated
    <2> QED
      BY <2>1, <2>3 DEF Story, Preparing, Inserting, Removing
  <1>8. CASE ~Goto(c, "commit")
    <2>1. request'[c].pc = "facts" /\ IsNewest(request'[c].job)
      BY <1>2, <1>8, LinkIdentityStep
    <2>2. Storing(request'[c])
      <3>1. /\ Stated(request'[c]) = Stated(request[c]) \cup {Link}
            /\ request'[c].job = request[c].job /\ request'[c].wrote = request[c].wrote
            /\ request'[c].slot = Link /\ request'[c].log.linked = TRUE
        BY <1>4, <1>8, LinkIdentityStep DEF Stated
      <3>2. ASSUME NEW s \in Slots
            PROVE  /\ request[c].wrote[s] \in {Unset, request[c].job}
                   /\ IF request[c].wrote[s] = Unset /\ s # Link
                      THEN request'[c].log.replaced[s] = NoJob
                      ELSE s \in Stated(request'[c]) /\ request'[c].log.replaced[s] = facts[s]
        <4>1. request'[c].log.replaced[s] = IF s = Link THEN facts[Link] ELSE request[c].log.replaced[s]
          BY <1>3, <1>5, <1>8, LinkIdentityStep
        <4> QED
          BY <1>1, <1>2, <1>3, <3>1, <4>1 DEF Storing
      <3> QED
        BY <1>6, <3>1, <3>2 DEF Storing
    <2> QED
      BY <2>1, <2>2 DEF Story, Preparing, Inserting, Removing
  <1> QED
    BY <1>7, <1>8

LEMMA DeleteRowsStory ==
    ASSUME TypeInv, TablesInv, NEW c \in Clients, Story(request[c]), DeleteRows(c)
    PROVE  Story(request'[c])
  <1>1. At(c, "delete") /\ request[c].job \in Jobs /\ request[c].job # NoJob
    BY RequestFacts DEF DeleteRows, At
  <1>2. Undoing(request[c])
    BY <1>1 DEF Story, At, Removing
  <1>3. OwnFacts(c) = Covers(request[c].job)
    <2>1. ASSUME NEW s \in Covers(request[c].job) PROVE s \in OwnFacts(c)
      <3>1. s \in Slots /\ facts[s] = request[c].job
        BY <1>1, <1>2, SlotTypes DEF Undoing
      <3>2. s = Link => undo[request[c].job].linked
        BY <1>1, SlotTypes DEF Covers
      <3> QED
        BY <1>2, <3>1, <3>2 DEF OwnFacts, Undoing, JobOf
    <2>2. ASSUME NEW s \in OwnFacts(c) PROVE s \in Covers(request[c].job)
      <3>1. s \in Slots /\ facts[s] = request[c].job
        BY DEF OwnFacts, JobOf
      <3>2. facts[s] \in Covering(s)
        BY <1>1, <3>1 DEF TablesInv, LastIsShown, Latest
      <3> QED
        BY <3>1, <3>2 DEF Covering
    <2> QED
      BY <2>1, <2>2
  <1>4. Undoing(request'[c]) /\ Deleted(request'[c]) /\ Emptied(request'[c])
    <2>1. Undoing(request'[c])
      BY <1>2, DeleteRowsStep DEF Undoing
    <2>2. Deleted(request'[c])
      BY DeleteRowsStep DEF Deleted, JobOf
    <2>3. Emptied(request'[c])
      <3>1. request'[c].wrote = [s \in Slots |-> IF s \in OwnFacts(c) THEN NoJob ELSE Unset]
        BY DeleteRowsStep
      <3>2. request'[c].job = request[c].job
        BY DeleteRowsStep
      <3> QED
        BY <1>3, <3>1, <3>2 DEF Emptied
    <2> QED
      BY <2>1, <2>2, <2>3
  <1>5. request'[c].pc = "restore"
    BY DeleteRowsStep
  <1> QED
    BY <1>4, <1>5 DEF Story, Preparing, Inserting, Removing

LEMMA RestoreRowsStory ==
    ASSUME TypeInv, TablesInv, NEW c \in Clients, Story(request[c]), RestoreRows(c)
    PROVE  Story(request'[c])
  <1>1. CASE request'[c] = Blank
    BY <1>1, BlankStory
  <1>2. CASE request'[c] # Blank
    <2>1. At(c, "restore") /\ request[c].job \in Jobs
      BY RequestFacts DEF RestoreRows, At
    <2>2. Undoing(request[c]) /\ Deleted(request[c]) /\ Emptied(request[c])
      BY <2>1 DEF Story, At, Removing
    <2>3. Restored(request'[c])
      <3> SUFFICES ASSUME NEW s \in Slots
                   PROVE  request'[c].wrote[s] = IF s \in Covers(request[c].job)
                                                 THEN undo[request[c].job].replaced[s] ELSE Unset
        BY <1>2, RestoreRowsStep DEF Restored
      <3>1. request'[c].wrote[s] = IF request[c].log.replaced[s] # NoJob
                                   THEN request[c].log.replaced[s] ELSE request[c].wrote[s]
        BY <1>2, RestoreRowsStep DEF Replaced
      <3>2. request[c].log.replaced[s] = undo[request[c].job].replaced[s]
        BY <2>2 DEF Undoing
      <3>3. s \notin Covers(request[c].job) => undo[request[c].job].replaced[s] = NoJob
        BY <2>2 DEF Undoing, TablesInv, LogsHaveTheNext
      <3> QED
        BY <2>2, <3>1, <3>2, <3>3 DEF Emptied
    <2>4. Undoing(request'[c]) /\ Deleted(request'[c]) /\ request'[c].pc = "decide"
      BY <1>2, <2>2, RestoreRowsStep DEF Undoing, Deleted
    <2> QED
      BY <2>3, <2>4 DEF Story, Preparing, Inserting, Removing
  <1> QED
    BY <1>1, <1>2

LEMMA DecideLimitsStory ==
    ASSUME TypeInv, NEW c \in Clients, Story(request[c]), DecideLimits(c)
    PROVE  Story(request'[c])
  <1>1. Undoing(request[c]) /\ Deleted(request[c]) /\ Restored(request[c])
    BY DEF DecideLimits, Story, At, Removing
  <1>2. Undoing(request'[c]) /\ Deleted(request'[c]) /\ Restored(request'[c])
    BY <1>1, DecideLimitsStep DEF Undoing, Deleted, Restored
  <1> QED
    BY <1>2, DecideLimitsStep DEF Story, Preparing, Inserting, Removing

LEMMA LeastOf ==
    ASSUME NEW S \in SUBSET Nat, S # {}
    PROVE  \E x \in S : \A y \in S : x <= y
  <1>1. \E x \in S : \A y \in S : ~ (<<y, x>> \in OpToRel(<, Nat))
    BY WFMin, NatLessThanWellFounded
  <1>2. PICK x \in S : \A y \in S : ~ (y < x)
    BY <1>1 DEF OpToRel
  <1> QED
    BY <1>2

\* What may be removed is the last of every slot it covers: the next import that covers a slot
\* has logged it, and while that one stands the removal is refused.
LEMMA RemovableIsLast ==
    ASSUME TypeInv, TablesInv, NEW j \in live, ~ReplacedLater(j), NEW s \in Covers(j)
    PROVE  facts[s] = j
  <1> DEFINE above == {i \in Covering(s) : i > j}
  <1>1. /\ j \in Jobs /\ s \in Slots /\ live \subseteq Jobs /\ Jobs \subseteq Nat \ {0}
        /\ Covering(s) \subseteq live /\ j \in Covering(s)
    BY SlotTypes DEF Covering, TypeInv, TypeOK
  <1>2. Latest(facts[s], Covering(s))
    BY <1>1 DEF TablesInv, LastIsShown
  <1>3. facts[s] \in Covering(s) /\ \A i \in Covering(s) : i <= facts[s]
    BY <1>1, <1>2 DEF Latest
  <1>4. above = {}
    <2> SUFFICES ASSUME above # {} PROVE FALSE
      OBVIOUS
    <2>1. above \in SUBSET Nat
      BY <1>1
    <2>2. PICK i \in above : \A h \in above : i <= h
      BY <2>1, LeastOf
    <2>3. Latest(undo[i].replaced[s], {h \in Covering(s) : h < i})
      BY <1>1 DEF TablesInv, LogsHaveTheNext, Covering
    <2>4. j \in {h \in Covering(s) : h < i} /\ \A h \in Covering(s) : h < i => h <= j
      BY <1>1, <2>2
    <2>5. undo[i].replaced[s] = j
      BY <1>1, <2>3, <2>4 DEF Latest
    <2>6. i \in Jobs /\ i > j /\ status[i] = "IMPORTED"
      BY <1>1 DEF TablesInv, LiveAreImported
    <2> QED
      BY <1>1, <2>5, <2>6 DEF ReplacedLater
  <1>5. facts[s] \in Nat /\ j \in Nat /\ j <= facts[s] /\ ~(facts[s] > j)
    BY <1>1, <1>3, <1>4
  <1> QED
    BY <1>5

LEMMA CheckRemovalStory ==
    ASSUME TypeInv, TablesInv, NEW c \in Clients, NEW j \in Jobs, CheckRemoval(c, j)
    PROVE  Story(request'[c])
  <1>1. j \in live
    BY DEF CheckRemoval, TablesInv, LiveAreImported
  <1>2. Undoing(request'[c])
    BY <1>1, CheckRemovalStep, RemovableIsLast DEF CheckRemoval, Undoing
  <1> QED
    BY <1>2, CheckRemovalStep DEF Story, Preparing, Inserting, Removing

LEMMA UploadStays ==
    ASSUME TypeInv, LedgerInv, NEW c \in Clients, Upload(c)
    PROVE  TablesStay
  <1>1. PICK j \in Jobs \ Created, f \in Files :
            /\ status' = [status EXCEPT ![j] = "UPLOADED"]
            /\ file' = [file EXCEPT ![j] = f]
    BY DEF Upload
  <1>2. status \in [Jobs -> Statuses] /\ file \in [Jobs -> File]
    BY DEF TypeInv, TypeOK
  <1>3. live \subseteq Created
    BY DEF LedgerInv, TablesInv, LiveAreImported, Created
  <1> QED
    BY <1>1, <1>2, <1>3 DEF Upload, dataVars, ghostVars, TablesStay, Created

\* A new job is the newest: the ids below it are taken, and so none above.
LEMMA UploadLedgers ==
    ASSUME TypeInv, LedgerInv, NEW c \in Clients, Upload(c)
    PROVE  TablesInv' /\ CreatedInOrder' /\ Story(request[c])'
  <1>1. PICK j \in Jobs \ Created, f \in Files, allow \in Overrides :
            /\ \A i \in Jobs : i < j => i \in Created
            /\ status' = [status EXCEPT ![j] = "UPLOADED"]
            /\ file' = [file EXCEPT ![j] = f]
            /\ Become(c, Starting(j, allow))
    BY DEF Upload
  <1>2. /\ status \in [Jobs -> Statuses] /\ file \in [Jobs -> File] /\ Created \subseteq Jobs
        /\ Jobs \subseteq Nat
    BY SlotTypes DEF TypeInv, TypeOK, Created
  <1>3. Created' = Created \cup {j}
    BY <1>1, <1>2 DEF Created
  <1>4. live \subseteq Created /\ LiveAreImported
    BY DEF LedgerInv, TablesInv, LiveAreImported, Created
  <1>5. TablesStay
    BY UploadStays
  <1>6. CreatedInOrder'
    BY <1>1, <1>2, <1>3 DEF LedgerInv, CreatedInOrder
  <1>7. \A i \in Created : i <= j
    BY <1>1, <1>2 DEF LedgerInv, CreatedInOrder
  <1>8. IsNewest(j)'
    BY <1>1, <1>2, <1>3, <1>4, <1>5, <1>7 DEF IsNewest, TablesStay
  <1>9. PICK r : r = request'[c]
    OBVIOUS
  <1>10. r.pc = "identify" /\ r.job = j /\ r.slot = None /\ r.log = EmptyLog
         /\ r.wrote = [s \in Slots |-> Unset]
    BY <1>1, <1>9, UploadStep
  <1>11. Untouched(r)'
    BY <1>10 DEF Untouched, EmptyLog
  <1>12. Story(r)'
    BY <1>8, <1>10, <1>11 DEF Story, Preparing, Inserting, Removing
  <1> QED
    BY <1>5, <1>6, <1>9, <1>12, StayTables DEF LedgerInv, Story

\* Steps that leave the tables as they are, and the files and the jobs that exist.
LEMMA QuietLedgers ==
    ASSUME TypeInv, TypeInv', LedgerInv, NEW c \in Clients, TablesStay, Created' = Created,
           file' = file, Story(request'[c])
    PROVE  TablesInv' /\ CreatedInOrder' /\ Story(request[c])'
  <1>1. CreatedInOrder'
    BY DEF LedgerInv, CreatedInOrder
  <1>2. PICK r : r = request'[c]
    OBVIOUS
  <1>3. r.pc \in Removing => r.job \in Jobs
    BY <1>2 DEF TypeInv, Shaped, WellFormed, Removing, Created
  <1>4. Story(r)'
    BY <1>2, <1>3, StayStory
  <1> QED
    BY <1>1, <1>2, <1>4, StayTables DEF LedgerInv, Story

\* A run that has not committed marks its job.
LEMMA MarkLedgers ==
    ASSUME TypeInv, LiveAreImported, NEW c \in Clients, Story(request[c]),
           request[c].pc \in Preparing \cup Inserting, NEW mark \in Statuses \ {"none", "IMPORTED"},
           status' = [status EXCEPT ![JobOf(c)] = mark],
           UNCHANGED <<file, undo, txs, facts, ghostVars>>
    PROVE  TablesStay /\ Created' = Created /\ file' = file
  <1>1. JobOf(c) \in Created /\ JobOf(c) \notin live
    BY JobType DEF At, Story, IsNewest, JobOf, Preparing, Inserting
  <1>2. /\ \A i \in Jobs : status'[i] = "IMPORTED" <=> status[i] = "IMPORTED"
        /\ Created' = Created
    BY <1>1, MarkStays
  <1> QED
    BY <1>2 DEF ghostVars, TablesStay

\* What the steps of a request other than its first and its commit leave alone.
LEMMA QuietSteps ==
    ASSUME TypeInv, LedgerInv, MaxLateFaults = 0, NEW c \in Clients,
           \/ \E j \in Jobs : CheckRemoval(c, j)
           \/ RunStep(c) /\ ~CommitImport(c)
           \/ RemoveStep(c) /\ ~CommitRemoval(c)
           \/ Fault(c)
    PROVE  TablesStay /\ Created' = Created /\ file' = file /\ Story(request'[c])
  <1>1. TablesInv /\ LiveAreImported /\ Story(request[c])
    BY DEF LedgerInv, TablesInv
  <1>2. ASSUME UNCHANGED <<jobVars, dataVars, ghostVars>>
        PROVE  TablesStay /\ Created' = Created /\ file' = file
    BY <1>2 DEF jobVars, dataVars, ghostVars, TablesStay, Created
  <1>4. ASSUME Finish(c) PROVE Story(request'[c])
    BY <1>4, BlankStory, Becomes DEF Finish
  <1>5. CASE \E j \in Jobs : CheckRemoval(c, j)
    BY <1>1, <1>2, <1>5, CheckRemovalStory DEF CheckRemoval
  <1>6. CASE Identify(c) \/ Validate(c)
    <2>1. request[c].pc \in Preparing \cup Inserting
      BY <1>6 DEF Identify, Validate, At, Preparing
    <2>2. /\ \E mark \in Statuses \ {"none", "IMPORTED"} : status' = [status EXCEPT ![JobOf(c)] = mark]
          /\ UNCHANGED <<file, undo, txs, facts, ghostVars>>
      BY <1>6 DEF Identify, Validate, Statuses, dataVars
    <2>3. TablesStay /\ Created' = Created /\ file' = file
      BY <1>1, <2>1, <2>2, MarkLedgers
    <2> QED
      BY <1>1, <1>6, <2>3, PrepareStory
  <1>7. CASE LookupParser(c)
    <2>1. request[c].pc \in Preparing \cup Inserting
      BY <1>7 DEF LookupParser, At, Preparing
    <2>2. /\ \E mark \in Statuses \ {"none", "IMPORTED"} : status' = [status EXCEPT ![JobOf(c)] = mark]
          /\ UNCHANGED <<file, undo, txs, facts, ghostVars>>
      BY <1>7 DEF LookupParser, EndEarly, Statuses, dataVars
    <2>3. TablesStay /\ Created' = Created /\ file' = file
      BY <1>1, <2>1, <2>2, MarkLedgers
    <2> QED
      BY <1>1, <1>7, <2>3, PrepareStory
  <1>8. CASE CheckIdentity(c)
    <2>1. CASE EndEarly(c, "REJECTED")
      <3>1. request[c].pc \in Preparing \cup Inserting
        BY <1>8 DEF CheckIdentity, At, Preparing
      <3>2. /\ status' = [status EXCEPT ![JobOf(c)] = "REJECTED"]
            /\ "REJECTED" \in Statuses \ {"none", "IMPORTED"}
            /\ UNCHANGED <<file, undo, txs, facts, ghostVars>>
        BY <2>1 DEF EndEarly, dataVars, Statuses
      <3>3. TablesStay /\ Created' = Created /\ file' = file
        BY <1>1, <3>1, <3>2, MarkLedgers
      <3> QED
        BY <1>1, <1>8, <3>3, PrepareStory
    <2>2. CASE UNCHANGED <<jobVars, dataVars, lockVars, countVars, ghostVars>>
      BY <1>1, <1>2, <1>8, <2>2, PrepareStory
    <2> QED
      BY <1>8, <2>1, <2>2 DEF CheckIdentity
  <1>9. CASE LockAccount(c) \/ \E k \in Keys : DedupRow(c, k)
    BY <1>1, <1>2, <1>9, PrepareStory, DedupCases DEF LockAccount
  <1>10. CASE RowsDone(c) \/ (\E d \in Dates : ReadFact(c, d)) \/ UpsertFact(c) \/ LinkIdentity(c)
    BY <1>1, <1>2, <1>10, RowsDoneStory, ReadFactStory, UpsertFactStory, LinkIdentityStory
    DEF RowsDone, ReadFact, UpsertFact, LinkIdentity
  <1>11. CASE WriteReport(c)
    BY <1>2, <1>4, <1>11 DEF WriteReport
  <1>12. CASE RunStep(c) /\ ~CommitImport(c)
    BY <1>6, <1>7, <1>8, <1>9, <1>10, <1>11, <1>12 DEF RunStep
  <1>13. CASE RemoveStep(c) /\ ~CommitRemoval(c)
    BY <1>1, <1>2, <1>13, DeleteRowsStory, RestoreRowsStory, DecideLimitsStory
    DEF RemoveStep, DeleteRows, RestoreRows, DecideLimits
  <1>14. CASE Fault(c)
    <2>1. CASE FailRun(c)
      <3>1. request[c].pc \in Preparing \cup Inserting
        BY <2>1 DEF FailRun, Preparing, Inserting
      <3>2. /\ status' = [status EXCEPT ![JobOf(c)] = "FAILED"] /\ Finish(c)
            /\ "FAILED" \in Statuses \ {"none", "IMPORTED"}
            /\ UNCHANGED <<file, undo, txs, facts, ghostVars>>
        BY <2>1 DEF FailRun, dataVars, Statuses
      <3> QED
        BY <1>1, <1>4, <3>1, <3>2, MarkLedgers
    <2>2. ~FailReport(c)
      BY DEF FailReport, TypeInv, TypeOK
    <2>3. CASE Crash(c)
      BY <1>2, <1>4, <2>3 DEF Crash
    <2> QED
      BY <1>14, <2>1, <2>2, <2>3 DEF Fault
  <1> QED
    BY <1>5, <1>12, <1>13, <1>14

\* A commit puts its job on top of every slot it states: the ledger's Import.
LEMMA CommitImportLedgers ==
    ASSUME TypeInv, TypeInv', LedgerInv, NEW c \in Clients, CommitImport(c)
    PROVE  /\ TablesInv' /\ CreatedInOrder' /\ Story(request[c])'
           /\ Ledger!Import(JobOf(c))
  <1>0. PICK j, S : j = JobOf(c) /\ S = Stated(request[c])
    OBVIOUS
  <1>1. At(c, "commit") /\ j \in Jobs /\ j \in Created /\ request[c].job = j
    BY <1>0, JobType DEF CommitImport, At, JobOf
  <1>2. IsNewest(j) /\ Written(request[c])
    BY <1>1 DEF LedgerInv, Story, At, Inserting
  <1>3. /\ TablesInv /\ live \subseteq Created /\ live \subseteq Jobs /\ Created \subseteq Jobs
        /\ Jobs \subseteq Nat \ {0}
    BY SlotTypes, <1>1 DEF LedgerInv, TablesInv, LiveAreImported, Created
  <1>4. \A i \in live : i < j
    BY <1>1, <1>2, <1>3 DEF IsNewest
  <1>5. /\ status' = [status EXCEPT ![j] = "IMPORTED"]
        /\ undo' = [undo EXCEPT ![j] = request[c].log]
        /\ txs' = (txs \ request[c].gone) \cup request[c].added
        /\ facts' = [s \in Slots |-> View(c, s)]
        /\ Goto(c, "report")
        /\ live' = live \cup {j}
        /\ earlier' = [i \in Jobs |-> IF i = j THEN live \ {j} ELSE earlier[i] \ {j}]
        /\ file' = file
    BY <1>0, Zenon DEF CommitImport, Publish
  <1>6. Created' = Created
    BY <1>1, <1>5 DEF Created, TypeInv, TypeOK
  <1>7. /\ S \subseteq Slots /\ Link \in Slots /\ request[c].log \in UndoLog
        /\ request[c].wrote \in [Slots -> Owner \cup {Unset}]
    BY <1>0, <1>1, SlotTypes, FieldTypes DEF Stated, Slots, TypeInv
  <1>8. \A s \in Slots : facts'[s] = IF s \in S THEN j ELSE facts[s]
    <2> SUFFICES ASSUME NEW s \in Slots PROVE View(c, s) = IF s \in S THEN j ELSE facts[s]
      BY <1>5
    <2>1. j # Unset
      BY <1>1, <1>3 DEF Unset
    <2> QED
      BY <1>0, <1>1, <1>2, <2>1 DEF Written, View
  <1>9. /\ undo'[j] = request[c].log
        /\ \A i \in Jobs \ {j} : undo'[i] = undo[i]
    BY <1>1, <1>5 DEF TypeInv, TypeOK
  <1>10. Covers(j)' = S /\ \A i \in Jobs \ {j} : Covers(i)' = Covers(i)
    <2>1. Covers(j)' = S
      BY <1>0, <1>1, <1>5, <1>9 DEF Covers, Stated
    <2>2. ASSUME NEW i \in Jobs \ {j} PROVE Covers(i)' = Covers(i)
      BY <1>5, <1>9, <2>2 DEF Covers
    <2> QED
      BY <2>1, <2>2
  <1>11. \A s \in Slots : Covering(s)' = IF s \in S THEN Covering(s) \cup {j} ELSE Covering(s)
    <2> SUFFICES ASSUME NEW s \in Slots
                 PROVE  Covering(s)' = IF s \in S THEN Covering(s) \cup {j} ELSE Covering(s)
      OBVIOUS
    <2>1. Covering(s)' = {i \in live \cup {j} : s \in Covers(i)'}
      BY <1>5 DEF Covering
    <2>2. j \notin live /\ \A i \in live : Covers(i)' = Covers(i)
      BY <1>2, <1>3, <1>10 DEF IsNewest
    <2> QED
      BY <1>10, <2>1, <2>2 DEF Covering
  <1>12. LiveAreImported'
    BY <1>1, <1>3, <1>5 DEF TablesInv, LiveAreImported, TypeInv, TypeOK
  <1>13. \A i \in Jobs : earlier'[i] = IF i = j THEN live ELSE earlier[i]
    BY <1>2, <1>5 DEF IsNewest, TablesInv, EarlierAreBefore, LedgerInv
  <1>14. EarlierAreBefore'
    <2> SUFFICES ASSUME NEW i \in Jobs PROVE earlier'[i] = {h \in live' : i \in live' /\ h < i}
      BY DEF EarlierAreBefore
    <2>1. i \in live => i < j
      BY <1>4
    <2>2. earlier[i] = {h \in live : i \in live /\ h < i}
      BY <1>3 DEF TablesInv, EarlierAreBefore
    <2>3. i \in Nat /\ j \in Nat /\ live \subseteq Nat
      BY <1>1, <1>3
    <2>4. CASE i = j
      <3>1. earlier'[i] = live /\ i \in live'
        BY <1>5, <1>13, <2>4
      <3>2. \A h \in live' : h < i <=> h \in live
        <4> SUFFICES ASSUME NEW h \in live' PROVE h < j <=> h \in live
          BY <2>4
        <4>1. h \in live => h < j
          BY <1>4
        <4>2. h = j \/ h \in live
          BY <1>5
        <4>3. ~(j < j)
          BY <2>3
        <4> QED
          BY <4>1, <4>2, <4>3
      <3>3. live \subseteq live'
        BY <1>5
      <3> QED
        BY <3>1, <3>2, <3>3
    <2>5. CASE i # j
      BY <1>5, <1>13, <2>1, <2>2, <2>3, <2>5
    <2> QED
      BY <2>4, <2>5
  <1>15. RowsAreLive'
    <2>1. \A row \in request[c].added : row.job = j
      BY <1>1 DEF TypeInv, Shaped, WellFormed
    <2> QED
      BY <1>3, <1>5, <2>1 DEF TablesInv, RowsAreLive
  <1>16. LastIsShown'
    <2> SUFFICES ASSUME NEW s \in Slots PROVE Latest(facts'[s], Covering(s)')
      BY DEF LastIsShown, Latest
    <2>1. Latest(facts[s], Covering(s)) /\ Covering(s) \subseteq live
      BY <1>3 DEF TablesInv, LastIsShown, Covering
    <2>2. \A i \in Covering(s) : i <= j
      <3> SUFFICES ASSUME NEW i \in Covering(s) PROVE i <= j
        OBVIOUS
      <3>1. i < j /\ i \in Nat /\ j \in Nat
        BY <1>1, <1>3, <1>4, <2>1
      <3> QED
        BY <3>1
    <2>3. j <= j
      BY <1>1, <1>3
    <2> QED
      BY <1>8, <1>11, <2>1, <2>2, <2>3 DEF Latest
  <1>17. LogsHaveTheNext'
    <2> SUFFICES ASSUME NEW i \in live', NEW s \in Slots
                 PROVE  IF s \in Covers(i)'
                        THEN Latest(undo'[i].replaced[s], {h \in Covering(s)' : h < i})
                        ELSE undo'[i].replaced[s] = NoJob
      BY DEF LogsHaveTheNext, Latest
    <2>1. Covering(s) \subseteq live /\ j \in Nat /\ live \subseteq Nat
      BY <1>1, <1>3 DEF Covering
    <2>2. CASE i = j
      <3>1. {h \in Covering(s)' : h < i} = Covering(s)
        <4>1. ASSUME NEW h \in Covering(s)' PROVE h < j <=> h \in Covering(s)
          <5>1. h \in Covering(s) => h < j
            BY <1>4, <2>1
          <5>2. h = j \/ h \in Covering(s)
            BY <1>11, <4>1
          <5>3. ~(j < j)
            BY <2>1
          <5> QED
            BY <5>1, <5>2, <5>3
        <4>2. Covering(s) \subseteq Covering(s)'
          BY <1>11
        <4> QED
          BY <2>2, <4>1, <4>2
      <3>2. Latest(facts[s], Covering(s))
        BY <1>3 DEF TablesInv, LastIsShown
      <3>3. IF s \in S THEN undo'[i].replaced[s] = facts[s] ELSE undo'[i].replaced[s] = NoJob
        BY <1>0, <1>2, <1>9, <2>2 DEF Written
      <3> QED
        BY <1>10, <2>2, <3>1, <3>2, <3>3
    <2>3. CASE i # j
      <3>1. i \in live /\ i \in Jobs \ {j} /\ i < j
        BY <1>3, <1>4, <1>5, <2>3
      <3>2. {h \in Covering(s)' : h < i} = {h \in Covering(s) : h < i}
        BY <1>11, <2>1, <3>1
      <3>3. undo'[i] = undo[i] /\ Covers(i)' = Covers(i)
        BY <1>9, <1>10, <3>1
      <3> QED
        BY <1>3, <3>1, <3>2, <3>3 DEF TablesInv, LogsHaveTheNext
    <2> QED
      BY <2>2, <2>3
  <1>18. CreatedInOrder'
    BY <1>6 DEF LedgerInv, CreatedInOrder
  <1>19. Story(request[c])'
    <2>1. request'[c].pc = "report"
      BY <1>5, GotoStep
    <2> QED
      BY <2>1 DEF Story, Preparing, Inserting, Removing
  <1>20. Ledger!Import(j)
    <2>1. j \in Jobs \ live
      BY <1>1, <1>2 DEF IsNewest
    <2>2. earlier' = [earlier EXCEPT ![j] = live]
      BY <1>1, <1>5, <1>13 DEF TypeInv, TypeOK
    <2>3. [i \in Jobs |-> Covers(i)]' = [[i \in Jobs |-> Covers(i)] EXCEPT ![j] = S]
      BY <1>1, <1>10
    <2>4. facts' = [s \in Slots |-> IF s \in S THEN j ELSE facts[s]]
      BY <1>5, <1>8
    <2> QED
      BY <1>5, <1>7, <2>1, <2>2, <2>3, <2>4 DEF Ledger!Import
  <1> QED
    BY <1>12, <1>14, <1>15, <1>16, <1>17, <1>18, <1>19, <1>20, <1>0 DEF TablesInv

\* What the last import of its slots leaves behind: the imports of each slot are those before.
LEMMA BelowTheLast ==
    ASSUME TypeInv, TablesInv, NEW j \in live, NEW s \in Covers(j), facts[s] = j
    PROVE  /\ s \in Slots /\ Covering(s) \ {j} = {i \in Covering(s) : i < j}
           /\ \A i \in Covering(s) : i <= j
           /\ Latest(undo[j].replaced[s], Covering(s) \ {j})
  <1>1. /\ j \in Jobs /\ s \in Slots /\ Jobs \subseteq Nat /\ Covering(s) \subseteq Jobs
        /\ j \in Covering(s)
    BY SlotTypes DEF Covering, TypeInv, TypeOK
  <1>2. \A i \in Covering(s) : i <= j
    BY <1>1 DEF TablesInv, LastIsShown, Latest
  <1>3. ASSUME NEW i \in Covering(s) PROVE i # j <=> i < j
    <2>1. i <= j /\ i \in Nat /\ j \in Nat
      BY <1>1, <1>2
    <2> QED
      BY <2>1
  <1>4. Covering(s) \ {j} = {i \in Covering(s) : i < j}
    BY <1>3
  <1> QED
    BY <1>1, <1>2, <1>4 DEF TablesInv, LogsHaveTheNext

\* The ledger's last import is the one with the highest id.
LEMMA LatestIsLatestOf ==
    ASSUME TypeInv, TablesInv, NEW j \in live, NEW s \in Slots, NEW x,
           Latest(x, Covering(s) \ {j})
    PROVE  x = Ledger!LatestOf(live \ {j}, s)
  <1> DEFINE covers == [i \in Jobs |-> Covers(i)]
  <1>1. live \subseteq Jobs /\ Jobs \subseteq Nat /\ j \in Jobs
    BY SlotTypes DEF TypeInv, TypeOK
  <1>2. \A i \in live \ {j} : s \in covers[i] <=> i \in Covering(s) \ {j}
    BY <1>1 DEF Covering
  <1>3. CASE Covering(s) \ {j} = {}
    <2>1. x = NoJob /\ \A i \in live \ {j} : s \notin covers[i]
      BY <1>2, <1>3 DEF Latest
    <2> QED
      BY <2>1 DEF Ledger!LatestOf
  <1>4. CASE Covering(s) \ {j} # {}
    <2> DEFINE Is(y) == /\ s \in covers[y]
                        /\ \A i \in (live \ {j}) \ {y} : s \in covers[i] => i \in earlier[y]
    <2>1. x \in Covering(s) \ {j} /\ \A i \in Covering(s) \ {j} : i <= x
      BY <1>4 DEF Latest
    <2>2. x \in live \ {j} /\ s \in covers[x]
      BY <1>2, <2>1 DEF Covering
    <2>3. \A y \in live : earlier[y] = {h \in live : h < y}
      BY <1>1 DEF TablesInv, EarlierAreBefore
    <2>4. Is(x)
      <3> SUFFICES ASSUME NEW i \in (live \ {j}) \ {x}, s \in covers[i] PROVE i \in earlier[x]
        BY <2>2
      <3>1. i <= x /\ i # x /\ i \in Nat /\ x \in Nat
        BY <1>1, <1>2, <2>1, <2>2
      <3>2. i < x
        BY <3>1
      <3> QED
        BY <2>2, <2>3, <3>2
    <2>5. ASSUME NEW y \in live \ {j}, Is(y) PROVE y = x
      <3> SUFFICES ASSUME y # x PROVE FALSE
        OBVIOUS
      <3>1. x \in earlier[y]
        BY <2>2, <2>5
      <3>2. x < y /\ y <= x
        BY <1>2, <2>1, <2>3, <2>5, <3>1
      <3> QED
        BY <1>1, <2>2, <3>2
    <2>6. x = CHOOSE y \in live \ {j} : Is(y)
      <3> HIDE DEF Is
      <3> QED
        BY <2>2, <2>4, <2>5
    <2>7. ~ \A i \in live \ {j} : s \notin covers[i]
      BY <2>2
    <2> QED
      BY <2>6, <2>7 DEF Ledger!LatestOf
  <1> QED
    BY <1>3, <1>4

\* A removal uncovers what each slot of its job showed before: the ledger's Undo.
LEMMA CommitRemovalLedgers ==
    ASSUME TypeInv, TypeInv', LedgerInv, NEW c \in Clients, CommitRemoval(c)
    PROVE  /\ TablesInv' /\ CreatedInOrder' /\ Story(request[c])'
           /\ Ledger!Undo(JobOf(c))
  <1>0. PICK j, S : j = JobOf(c) /\ S = Covers(JobOf(c))
    OBVIOUS
  <1>1. At(c, "remove") /\ j \in Jobs /\ j \in Created /\ request[c].job = j
    BY <1>0, JobType DEF CommitRemoval, At, JobOf
  <1>2. Undoing(request[c]) /\ Deleted(request[c]) /\ Restored(request[c])
    BY <1>1 DEF LedgerInv, Story, At, Removing
  <1>3. /\ TablesInv /\ j \in live /\ live \subseteq Jobs /\ Jobs \subseteq Nat
        /\ S \subseteq Slots /\ S = Covers(j) /\ \A s \in S : facts[s] = j
    BY <1>0, <1>1, <1>2, SlotTypes DEF LedgerInv, Undoing
  <1>4. /\ status' = [status EXCEPT ![j] = "REMOVED"]
        /\ txs' = (txs \ request[c].gone) \cup request[c].added
        /\ facts' = [s \in Slots |-> View(c, s)]
        /\ Finish(c)
        /\ live' = live \ {j}
        /\ earlier' = [i \in Jobs |-> IF i = j THEN {} ELSE earlier[i] \ {j}]
        /\ file' = file /\ undo' = undo
    BY <1>0, Zenon DEF CommitRemoval, Publish
  <1>5. Created' = Created
    BY <1>1, <1>4 DEF Created, TypeInv, TypeOK
  <1>6. \A s \in Slots : facts'[s] = IF s \in S THEN undo[j].replaced[s] ELSE facts[s]
    <2> SUFFICES ASSUME NEW s \in Slots
                 PROVE  View(c, s) = IF s \in S THEN undo[j].replaced[s] ELSE facts[s]
      BY <1>4
    <2>1. s \in S => undo[j].replaced[s] # Unset
      BY <1>1, SlotTypes
    <2> QED
      BY <1>1, <1>2, <1>3, <2>1 DEF Restored, View
  <1>7. Covers(j)' = {} /\ \A i \in Jobs \ {j} : Covers(i)' = Covers(i)
    BY <1>4 DEF Covers
  <1>8. \A s \in Slots : Covering(s)' = Covering(s) \ {j}
    <2> SUFFICES ASSUME NEW s \in Slots PROVE Covering(s)' = Covering(s) \ {j}
      OBVIOUS
    <2>1. Covering(s)' = {i \in live \ {j} : s \in Covers(i)'}
      BY <1>4 DEF Covering
    <2>2. \A i \in live \ {j} : Covers(i)' = Covers(i)
      BY <1>3, <1>7
    <2> QED
      BY <2>1, <2>2 DEF Covering
  <1>9. \A s \in Slots \ S : Covering(s)' = Covering(s)
    BY <1>3, <1>8 DEF Covering
  <1>10. LiveAreImported'
    BY <1>1, <1>3, <1>4 DEF TablesInv, LiveAreImported, TypeInv, TypeOK
  <1>11. EarlierAreBefore'
    BY <1>3, <1>4 DEF TablesInv, EarlierAreBefore
  <1>12. RowsAreLive'
    <2>1. request[c].added = {}
      BY <1>1 DEF TypeInv, Shaped, WellFormed, At, Removing
    <2> QED
      BY <1>1, <1>2, <1>3, <1>4, <2>1 DEF TablesInv, RowsAreLive, Deleted
  <1>13. LastIsShown'
    <2> SUFFICES ASSUME NEW s \in Slots PROVE Latest(facts'[s], Covering(s)')
      BY DEF LastIsShown, Latest
    <2>1. CASE s \in S
      <3>1. Latest(undo[j].replaced[s], Covering(s) \ {j})
        BY <1>3, <2>1, BelowTheLast
      <3> QED
        BY <1>6, <1>8, <2>1, <3>1
    <2>2. CASE s \notin S
      BY <1>3, <1>6, <1>9, <2>2 DEF TablesInv, LastIsShown
    <2> QED
      BY <2>1, <2>2
  <1>14. LogsHaveTheNext'
    <2> SUFFICES ASSUME NEW i \in live', NEW s \in Slots
                 PROVE  IF s \in Covers(i)'
                        THEN Latest(undo'[i].replaced[s], {h \in Covering(s)' : h < i})
                        ELSE undo'[i].replaced[s] = NoJob
      BY DEF LogsHaveTheNext, Latest
    <2>1. i \in live /\ i \in Jobs \ {j} /\ undo'[i] = undo[i] /\ Covers(i)' = Covers(i)
      BY <1>3, <1>4, <1>7
    <2>2. s \in Covers(i) => {h \in Covering(s)' : h < i} = {h \in Covering(s) : h < i}
      <3> SUFFICES ASSUME s \in Covers(i), j \in Covering(s) PROVE ~(j < i)
        BY <1>8
      <3>1. s \in S /\ i \in Covering(s)
        BY <1>3, <2>1 DEF Covering
      <3>2. i <= j
        BY <1>3, <3>1, BelowTheLast
      <3>3. i \in Nat /\ j \in Nat
        BY <1>3, <2>1
      <3> QED
        BY <3>2, <3>3
    <2>3. IF s \in Covers(i) THEN Latest(undo[i].replaced[s], {h \in Covering(s) : h < i})
          ELSE undo[i].replaced[s] = NoJob
      BY <1>3, <2>1 DEF TablesInv, LogsHaveTheNext
    <2> QED
      BY <2>1, <2>2, <2>3
  <1>15. CreatedInOrder'
    BY <1>5 DEF LedgerInv, CreatedInOrder
  <1>16. Story(request[c])'
    <2>1. request'[c] = Blank
      BY <1>4, Becomes DEF Finish
    <2> QED
      BY <2>1 DEF Story, Blank, Preparing, Inserting, Removing
  <1>17. Ledger!Undo(j)
    <2> DEFINE covers == [i \in Jobs |-> Covers(i)]
    <2>1. \A i \in live : j \in earlier[i] => covers[i] \cap covers[j] = {}
      <3> SUFFICES ASSUME NEW i \in live, j \in earlier[i], NEW s \in covers[i], s \in covers[j]
                   PROVE  FALSE
        OBVIOUS
      <3>1. j < i
        BY <1>3 DEF TablesInv, EarlierAreBefore
      <3>2. s \in S /\ s \in Covers(i)
        BY <1>3
      <3>3. i \in Covering(s) /\ i <= j
        BY <1>3, <3>2, BelowTheLast DEF Covering
      <3>4. i \in Nat /\ j \in Nat
        BY <1>3
      <3> QED
        BY <3>1, <3>3, <3>4
    <2>2. covers' = [covers EXCEPT ![j] = {}]
      BY <1>1, <1>7
    <2>3. facts' = [s \in Slots |-> IF s \in covers[j] THEN Ledger!LatestOf(live \ {j}, s) ELSE facts[s]]
      <3>1. ASSUME NEW s \in S PROVE undo[j].replaced[s] = Ledger!LatestOf(live \ {j}, s)
        BY <1>3, BelowTheLast, LatestIsLatestOf
      <3>2. covers[j] = S
        BY <1>1, <1>3
      <3> HIDE DEF covers
      <3> QED
        BY <1>4, <1>6, <3>1, <3>2
    <2> QED
      BY <1>3, <1>4, <2>1, <2>2, <2>3 DEF Ledger!Undo
  <1> QED
    BY <1>0, <1>10, <1>11, <1>12, <1>13, <1>14, <1>15, <1>16, <1>17 DEF TablesInv

LEMMA InitLedger == Init => LedgerInv /\ Ledger!Init
  <1> SUFFICES ASSUME Init PROVE LedgerInv /\ Ledger!Init
    OBVIOUS
  <1>1. /\ status = [j \in Jobs |-> "none"] /\ txs = {} /\ facts = [s \in Slots |-> NoJob]
        /\ request = [c \in Clients |-> Blank]
        /\ live = {} /\ earlier = [j \in Jobs |-> {}]
    BY DEF Init
  <1>2. Created = {} /\ \A j \in Jobs : Covers(j) = {}
    BY <1>1 DEF Created, Covers
  <1>3. \A s \in Slots : Covering(s) = {}
    BY <1>1 DEF Covering
  <1>4. TablesInv
    BY <1>1, <1>3 DEF TablesInv, LiveAreImported, EarlierAreBefore, RowsAreLive, LastIsShown,
                      LogsHaveTheNext, Latest
  <1>5. LedgerInv
    BY <1>1, <1>2, <1>4, BlankStory DEF LedgerInv, CreatedInOrder
  <1>6. Ledger!Init
    BY <1>1, <1>2 DEF Ledger!Init
  <1> QED
    BY <1>5, <1>6

LEMMA StayLedger ==
    ASSUME TypeInv, TablesStay
    PROVE  UNCHANGED Ledger!vars
  <1>1. [j \in Jobs |-> Covers(j)]' = [j \in Jobs |-> Covers(j)]
    BY StayCovers
  <1> QED
    BY <1>1 DEF TablesStay, Ledger!vars

\* One request at a time keeps the books: each of its steps imports, undoes or shows nothing.
LEMMA NextLedger ==
    ASSUME OneAtATime, MaxRegisters = 0, MaxLateFaults = 0, IInv, LedgerInv, [Next]_vars
    PROVE  LedgerInv' /\ [Ledger!Next]_(Ledger!vars)
  <1>1. TypeInv /\ TypeInv'
    BY NextInv DEF IInv
  <1>2. CASE UNCHANGED vars
    <2>1. TablesStay /\ Created' = Created /\ file' = file /\ request' = request
      BY <1>2 DEF vars, jobVars, dataVars, ghostVars, TablesStay, Created
    <2>2. ASSUME NEW c \in Clients
          PROVE  TablesInv' /\ CreatedInOrder' /\ Story(request[c])'
      BY <1>1, <2>1, QuietLedgers DEF LedgerInv
    <2>3. CreatedInOrder' /\ TablesInv'
      BY <1>1, <2>1, StayTables DEF LedgerInv, CreatedInOrder
    <2> QED
      BY <1>1, <2>1, <2>2, <2>3, StayLedger DEF LedgerInv
  <1>3. CASE Next
    <2>1. PICK c \in Clients :
              \/ Upload(c)
              \/ \E j \in Jobs : Register(c, j) \/ CheckRemoval(c, j)
              \/ RunStep(c) \/ RemoveStep(c) \/ Fault(c)
      BY <1>3 DEF Next
    <2>2. \A j \in Jobs : ~Register(c, j)
      BY <1>1 DEF Register, TypeInv, TypeOK
    <2>3. SUFFICES /\ TablesInv' /\ CreatedInOrder' /\ Story(request[c])'
                   /\ [Ledger!Next]_(Ledger!vars)
      <3>1. ASSUME Story(request[c])', NEW d \in Clients PROVE Story(request[d])'
        <4>1. d = c
          BY DEF OneAtATime
        <4> QED
          BY <3>1, <4>1
      <3> QED
        BY <3>1 DEF LedgerInv
    <2>4. CASE Upload(c)
      <3>1. TablesStay
        BY <1>1, <2>4, UploadStays
      <3> QED
        BY <1>1, <2>4, <3>1, UploadLedgers, StayLedger
    <2>5. CASE CommitImport(c)
      <3>1. JobOf(c) \in Jobs
        BY <1>1, <2>5, JobType DEF CommitImport, At
      <3> QED
        BY <1>1, <2>5, <3>1, CommitImportLedgers DEF Ledger!Next
    <2>6. CASE CommitRemoval(c)
      <3>1. JobOf(c) \in Jobs
        BY <1>1, <2>6, JobType DEF CommitRemoval, At
      <3> QED
        BY <1>1, <2>6, <3>1, CommitRemovalLedgers DEF Ledger!Next
    <2>7. CASE ~Upload(c) /\ ~CommitImport(c) /\ ~CommitRemoval(c)
      <3>1. TablesStay /\ Created' = Created /\ file' = file /\ Story(request'[c])
        BY <1>1, <2>1, <2>2, <2>7, QuietSteps
      <3> QED
        BY <1>1, <3>1, QuietLedgers, StayLedger
    <2> QED
      BY <2>4, <2>5, <2>6, <2>7
  <1> QED
    BY <1>2, <1>3

LEMMA LedgerHolds ==
    ASSUME OneAtATime, MaxRegisters = 0, MaxLateFaults = 0
    PROVE  Spec => []LedgerInv
  <1>1. Init => LedgerInv
    BY InitLedger
  <1>2. IInv /\ LedgerInv /\ [Next]_vars => LedgerInv'
    BY NextLedger
  <1> QED
    BY <1>1, <1>2, InvHolds, PTL DEF Spec

\* One request at a time, with no format registered and no report failing after its import, the
\* tables keep the ledger: a slot shows the last standing import that covers it, an import that
\* another covers waits, and a removal brings back what was there before, through any failures
\* and crashes on the way (undo.py, adapters.py).
THEOREM SerialImportsKeepTheLedger ==
    ASSUME OneAtATime, MaxRegisters = 0, MaxLateFaults = 0
    PROVE  Spec => ImplementsLedger
  <1>1. Init => Ledger!Init
    BY InitLedger
  <1>2. IInv /\ LedgerInv /\ [Next]_vars => [Ledger!Next]_(Ledger!vars)
    BY NextLedger
  <1> QED
    BY <1>1, <1>2, InvHolds, LedgerHolds, PTL DEF Spec, ImplementsLedger, Ledger!Spec

\* Under the same conditions no row, balance or link is left of an upload that failed, was
\* refused or was removed: all that is shown is of imports that stand.
THEOREM SerialRowsAreOfImports ==
    ASSUME OneAtATime, MaxRegisters = 0, MaxLateFaults = 0
    PROVE  Spec => []RowsAreOfImports
  <1>1. IInv /\ LedgerInv => RowsAreOfImports
    <2> SUFFICES ASSUME IInv, LedgerInv PROVE RowsAreOfImports
      OBVIOUS
    <2>1. TablesInv /\ \A s \in Slots : facts[s] # NoJob => facts[s] \in live
      BY DEF LedgerInv, TablesInv, LastIsShown, Latest, Covering
    <2> QED
      BY <2>1 DEF TablesInv, LiveAreImported, RowsAreLive, RowsAreOfImports
  <1> QED
    BY <1>1, InvHolds, LedgerHolds, PTL
===============================================================================

------------------------------ MODULE ImportJobs ------------------------------
(***************************************************************************)
(* Uploading a statement into one account, running it through the parser   *)
(* and the canonical adapters, registering its format, and removing it     *)
(* again, by any number of concurrent requests.                            *)
(*                                                                         *)
(* A file is known by what the import tells apart: how often it has each   *)
(* natural key, the dates it states balances for, the account number it    *)
(* names, whether it states card limits, whether its format is mapped to a *)
(* parser and whether that parser suits the account.  A balance, a link to *)
(* an account number and a card's limits are known by the job that wrote   *)
(* them.  Each request is one Session: READ COMMITTED transactions that    *)
(* see what is committed and their own writes, and wait for the row locks  *)
(* of others.                                                              *)
(***************************************************************************)
EXTENDS Integers, FiniteSets

CONSTANTS
    Clients,         \* concurrent requests
    NumJobs,         \* bound: uploads, whose ids grow in the order of creation
    Files,           \* the files a user may send
    Keys,            \* natural keys of transactions
    Dates,           \* dates of balance snapshots
    Numbers,         \* account numbers named in files
    Overrides,       \* values of allow_account_mismatch requests send
    Indexes,         \* bound: occurrence indexes of fingerprints
    MaxFaults,       \* bound: exceptions and crashes
    MaxLateFaults,   \* bound: exceptions after the rows are committed
    MaxRegisters,    \* bound: registrations of a format
    NoNumber, Link, None

Jobs      == 1 .. NumJobs
NoJob     == 0
Unset     == -1      \* not read, not logged, not written
Slots     == Dates \cup {Link}
File      == [tx : [Keys -> Nat], dates : SUBSET Dates, number : Numbers \cup {NoNumber},
              limits : BOOLEAN, mapped : BOOLEAN, suits : BOOLEAN]

ASSUME BoundsAssumption ==
    /\ NumJobs \in Nat /\ MaxFaults \in Nat /\ MaxLateFaults \in Nat /\ MaxRegisters \in Nat
    /\ Indexes \subseteq Nat
ASSUME FilesAssumption == Files \subseteq File
ASSUME OverridesAssumption == Overrides \subseteq BOOLEAN
ASSUME NoneAssumption == None \notin Clients \cup Slots /\ Link \notin Dates /\ NoNumber \notin Numbers

Statuses == {"none", "UPLOADED", "IDENTIFIED", "NEEDS_MAPPING", "REJECTED", "PARSED",
             "VALIDATED", "IMPORTED", "FAILED", "REMOVED"}
Row      == [key : Keys, index : Nat, job : Jobs]
Owner    == Jobs \cup {NoJob}
UndoLog  == [replaced : [Slots -> Owner], linked : BOOLEAN, before : Owner \cup {Unset}]
EmptyLog == [replaced |-> [s \in Slots |-> NoJob], linked |-> FALSE, before |-> Unset]

Steps == {"idle", "identify", "lookup", "check", "validate", "lock", "rows", "facts",
          "commit", "report", "delete", "restore", "decide", "remove"}
Request  == [pc : Steps, job : Owner, allow : BOOLEAN, counted : [Keys -> Nat \cup {Unset}],
             seen : [Keys -> Nat], added : SUBSET Row, gone : SUBSET Row, log : UndoLog,
             slot : Slots \cup {None}, wrote : [Slots -> Owner \cup {Unset}],
             putBack : BOOLEAN]
Blank    == [pc |-> "idle", job |-> NoJob, allow |-> FALSE,
             counted |-> [k \in Keys |-> Unset], seen |-> [k \in Keys |-> 0],
             added |-> {}, gone |-> {}, log |-> EmptyLog,
             slot |-> None, wrote |-> [s \in Slots |-> Unset], putBack |-> FALSE]

VARIABLES
    status,      \* import_jobs: status, the stored file, undo_json
    file,
    undo,
    signed,      \* jobs that have a format_signature
    registered,  \* parser_registry maps the formats that come unmapped
    txs,         \* transactions of the account
    facts,       \* the job whose row holds each balance date and the link
    limits,      \* the job whose limits the card has
    uploadLock,  \* advisory lock of the account
    factLock,    \* row locks, per date and for the link
    request,     \* what each request is doing: program counter and locals
    faults, lateFaults, registers,
    live,        \* ghost: imported jobs that were not removed since,
    earlier      \* and the live jobs each of them was imported after

jobVars   == <<status, file, undo, signed, registered>>
dataVars  == <<txs, facts, limits>>
lockVars  == <<uploadLock, factLock>>
countVars == <<faults, lateFaults, registers>>
ghostVars == <<live, earlier>>
vars      == <<jobVars, dataVars, lockVars, request, countVars, ghostVars>>

-----------------------------------------------------------------------------
(* Reading and writing inside a transaction *)

JobOf(c)  == request[c].job
FileOf(c) == file[JobOf(c)]
At(c, pc) == request[c].pc = pc
Become(c, next) == request' = [request EXCEPT ![c] = next]
Goto(c, pc) == Become(c, [request[c] EXCEPT !.pc = pc])

\* What the transaction of c sees in slot s.
View(c, s) == IF request[c].wrote[s] = Unset THEN facts[s] ELSE request[c].wrote[s]

CanLock(c, s) == factLock[s] \in {None, c}

\* Mutant: a lock of the session, which the end of the transaction keeps.
Release_RowsOnly(c) ==
    /\ UNCHANGED uploadLock
    /\ factLock' = [s \in Slots |-> IF factLock[s] = c THEN None ELSE factLock[s]]

\* The end of a transaction, for good or ill, releases what it locked.
Release(c) ==
    /\ uploadLock' = IF uploadLock = c THEN None ELSE uploadLock
    /\ factLock' = [s \in Slots |-> IF factLock[s] = c THEN None ELSE factLock[s]]

\* A commit makes the request's writes visible.
Publish(c) ==
    /\ txs' = (txs \ request[c].gone) \cup request[c].added
    /\ facts' = [s \in Slots |-> View(c, s)]

\* A request that is over holds nothing.
Finish(c) == Become(c, Blank)

-----------------------------------------------------------------------------
(* Upload and registration: create_import_job, run_ingestion *)

Created == {j \in Jobs : status[j] # "none"}

Starting(j, allow) == [Blank EXCEPT !.pc = "identify", !.job = j, !.allow = allow]

\* A new job gets the next id; the same request then runs it.
Upload(c) ==
    /\ At(c, "idle")
    /\ \E j \in Jobs \ Created, f \in Files, allow \in Overrides :
          /\ \A i \in Jobs : i < j => i \in Created
          /\ status' = [status EXCEPT ![j] = "UPLOADED"]
          /\ file' = [file EXCEPT ![j] = f]
          /\ Become(c, Starting(j, allow))
    /\ UNCHANGED <<undo, signed, registered, dataVars, lockVars, countVars, ghostVars>>

\* An admin maps the format of a job that was not imported, and runs it again.
Register(c, j) ==
    /\ At(c, "idle")
    /\ registers < MaxRegisters
    /\ j \in Created /\ status[j] \notin {"IMPORTED", "REMOVED"}
    /\ j \in signed
    /\ file[j].suits
    /\ registered' = TRUE
    /\ registers' = registers + 1
    /\ \E allow \in Overrides : Become(c, Starting(j, allow))
    /\ UNCHANGED <<status, file, undo, signed, dataVars, lockVars, faults, lateFaults, ghostVars>>

Identify(c) ==
    /\ At(c, "identify")
    /\ status' = [status EXCEPT ![JobOf(c)] = "IDENTIFIED"]
    /\ signed' = signed \cup {JobOf(c)}
    /\ Goto(c, "lookup")
    /\ UNCHANGED <<file, undo, registered, dataVars, lockVars, countVars, ghostVars>>

\* The run ends before it wrote anything but its job row.
EndEarly(c, outcome) ==
    /\ status' = [status EXCEPT ![JobOf(c)] = outcome]
    /\ Finish(c)
    /\ UNCHANGED <<file, undo, signed, registered, dataVars, lockVars, countVars, ghostVars>>

Known(f) == f.mapped \/ registered

LookupParser(c) ==
    /\ At(c, "lookup")
    /\ \/ /\ ~FileOf(c).suits
          /\ EndEarly(c, "REJECTED")
       \/ /\ ~Known(FileOf(c))
          /\ EndEarly(c, "NEEDS_MAPPING")
       \/ /\ FileOf(c).suits /\ Known(FileOf(c))
          /\ status' = [status EXCEPT ![JobOf(c)] = "PARSED"]
          /\ Goto(c, "check")
          /\ UNCHANGED <<file, undo, signed, registered, dataVars, lockVars, countVars, ghostVars>>

\* The file names another account than the one linked.
NamesOther(f, linked) ==
    f.number # NoNumber /\ linked # NoJob /\ file[linked].number # f.number

CheckIdentity(c) ==
    /\ At(c, "check")
    /\ \/ /\ ~request[c].allow /\ NamesOther(FileOf(c), facts[Link])
          /\ EndEarly(c, "REJECTED")
       \/ /\ request[c].allow \/ ~NamesOther(FileOf(c), facts[Link])
          /\ Become(c, [request[c] EXCEPT !.pc = "validate",
                !.log = [EmptyLog EXCEPT !.before = IF FileOf(c).limits THEN limits ELSE Unset]])
          /\ UNCHANGED <<jobVars, dataVars, lockVars, countVars, ghostVars>>

\* The card's limits are committed with the VALIDATED status.
Validate(c) ==
    /\ At(c, "validate")
    /\ status' = [status EXCEPT ![JobOf(c)] = "VALIDATED"]
    /\ limits' = IF FileOf(c).limits THEN JobOf(c) ELSE limits
    /\ Goto(c, "lock")
    /\ UNCHANGED <<file, undo, signed, registered, txs, facts, lockVars, countVars, ghostVars>>

\* Mutant: uploads of an account are not serialised.
LockAccount_Free(c) ==
    /\ At(c, "lock")
    /\ Goto(c, "rows")
    /\ UNCHANGED <<jobVars, dataVars, lockVars, countVars, ghostVars>>

LockAccount(c) ==
    /\ At(c, "lock")
    /\ uploadLock = None
    /\ uploadLock' = c
    /\ Goto(c, "rows")
    /\ UNCHANGED <<jobVars, dataVars, factLock, countVars, ghostVars>>

Stored(c, k) == {r \in txs \cup request[c].added : r.key = k}

\* Mutant: the index is the occurrence's own, taken or not.
FreeIndex_Own(c, k, occurrence) == {occurrence} \cap Indexes

\* The fingerprint's index: the occurrence's own, or the next unused one.
FreeIndex(c, k, occurrence) ==
    {i \in Indexes :
        /\ i >= occurrence
        /\ \A r \in Stored(c, k) : r.index # i
        /\ \A h \in occurrence .. (i - 1) : \E r \in Stored(c, k) : r.index = h}

\* One transaction of the file: stored already, or inserted.
DedupRow(c, k) ==
    LET counted    == IF request[c].counted[k] = Unset THEN Cardinality(Stored(c, k))
                      ELSE request[c].counted[k]
        occurrence == request[c].seen[k] + 1
        Take(new) == Become(c, [request[c] EXCEPT !.counted[k] = counted, !.seen[k] = occurrence,
                                                  !.added = @ \cup new])
    IN  /\ At(c, "rows")
        /\ occurrence <= FileOf(c).tx[k]
        /\ \/ /\ occurrence <= counted
              /\ Take({})
           \/ /\ occurrence > counted
              /\ \E i \in FreeIndex(c, k, occurrence) :
                    Take({[key |-> k, index |-> i, job |-> JobOf(c)]})
        /\ UNCHANGED <<jobVars, dataVars, lockVars, countVars, ghostVars>>

RowsDone(c) ==
    /\ At(c, "rows")
    /\ \A k \in Keys : request[c].seen[k] >= FileOf(c).tx[k]
    /\ Goto(c, "facts")
    /\ UNCHANGED <<jobVars, dataVars, lockVars, countVars, ghostVars>>

\* A balance date: the row to be replaced is read into the undo log, ...
ReadFact(c, d) ==
    /\ At(c, "facts") /\ request[c].slot = None
    /\ d \in FileOf(c).dates /\ request[c].wrote[d] = Unset
    /\ Become(c, [request[c] EXCEPT !.slot = d, !.log.replaced[d] = View(c, d)])
    /\ UNCHANGED <<jobVars, dataVars, lockVars, countVars, ghostVars>>

\* ... and then overwritten, once nobody else is writing it.
UpsertFact(c) ==
    LET s == request[c].slot
    IN  /\ At(c, "facts") /\ s # None
        /\ CanLock(c, s)
        /\ factLock' = [factLock EXCEPT ![s] = c]
        /\ Become(c, [request[c] EXCEPT !.slot = None, !.wrote[s] = JobOf(c),
                                        !.pc = IF s = Link THEN "commit" ELSE "facts"])
        /\ UNCHANGED <<jobVars, dataVars, uploadLock, countVars, ghostVars>>

\* The link is written like a balance, unless it names this number already.
Relinks(c) ==
    /\ FileOf(c).number # NoNumber
    /\ facts[Link] = NoJob \/ NamesOther(FileOf(c), facts[Link])

LinkIdentity(c) ==
    /\ At(c, "facts") /\ request[c].slot = None
    /\ \A d \in FileOf(c).dates : request[c].wrote[d] # Unset
    /\ IF Relinks(c)
       THEN Become(c, [request[c] EXCEPT !.slot = Link,
             !.log = [request[c].log EXCEPT !.linked = TRUE, !.replaced[Link] = facts[Link]]])
       ELSE Goto(c, "commit")
    /\ UNCHANGED <<jobVars, dataVars, lockVars, countVars, ghostVars>>

\* Rows, undo log and status commit together.
CommitImport(c) ==
    LET j == JobOf(c)
    IN  /\ At(c, "commit")
        /\ status' = [status EXCEPT ![j] = "IMPORTED"]
        /\ undo' = [undo EXCEPT ![j] = request[c].log]
        /\ Publish(c)
        /\ Release(c)
        /\ Goto(c, "report")
        /\ live' = live \cup {j}
        /\ earlier' = [i \in Jobs |-> IF i = j THEN live \ {j} ELSE earlier[i] \ {j}]
        /\ UNCHANGED <<file, signed, registered, limits, countVars>>

WriteReport(c) ==
    /\ At(c, "report")
    /\ Finish(c)
    /\ UNCHANGED <<jobVars, dataVars, lockVars, countVars, ghostVars>>

\* The report is built inside the same try block.
FailReport(c) ==
    /\ At(c, "report")
    /\ lateFaults < MaxLateFaults
    /\ lateFaults' = lateFaults + 1
    /\ status' = [status EXCEPT ![JobOf(c)] = "FAILED"]
    /\ Finish(c)
    /\ UNCHANGED <<file, undo, signed, registered, dataVars, lockVars, faults, registers, ghostVars>>

\* An exception: the transaction is rolled back, then the job marked.
FailRun(c) ==
    /\ request[c].pc \in {"identify", "lookup", "check", "validate", "lock", "rows", "facts", "commit"}
    /\ faults < MaxFaults
    /\ faults' = faults + 1
    /\ status' = [status EXCEPT ![JobOf(c)] = "FAILED"]
    /\ Release(c)
    /\ Finish(c)
    /\ UNCHANGED <<file, undo, signed, registered, dataVars, lateFaults, registers, ghostVars>>

\* The process dies, or a removal fails: only what was committed stays.
Crash(c) ==
    /\ ~At(c, "idle")
    /\ faults < MaxFaults
    /\ faults' = faults + 1
    /\ Release(c)
    /\ Finish(c)
    /\ UNCHANGED <<jobVars, dataVars, lateFaults, registers, ghostVars>>

-----------------------------------------------------------------------------
(* Removal: remove_import_job *)

\* An imported upload with a later id overwrote a row of j.
ReplacedLater(j) ==
    \E i \in Jobs : i > j /\ status[i] = "IMPORTED" /\ \E s \in Slots : undo[i].replaced[s] = j

CheckRemoval(c, j) ==
    /\ At(c, "idle")
    /\ status[j] = "IMPORTED"
    /\ ~ReplacedLater(j)
    /\ Become(c, [Blank EXCEPT !.pc = "delete", !.job = j, !.log = undo[j]])
    /\ UNCHANGED <<jobVars, dataVars, lockVars, countVars, ghostVars>>

\* The job's rows; the link only if this job made it.
OwnFacts(c) == {s \in Slots : facts[s] = JobOf(c) /\ (s = Link => request[c].log.linked)}

DeleteRows(c) ==
    /\ At(c, "delete")
    /\ \A s \in OwnFacts(c) : CanLock(c, s)
    /\ factLock' = [s \in Slots |-> IF s \in OwnFacts(c) THEN c ELSE factLock[s]]
    /\ Become(c, [request[c] EXCEPT !.pc = "restore", !.gone = {r \in txs : r.job = JobOf(c)},
          !.wrote = [s \in Slots |-> IF s \in OwnFacts(c) THEN NoJob ELSE Unset]])
    /\ UNCHANGED <<jobVars, dataVars, uploadLock, countVars, ghostVars>>

\* Mutant: the link is not restorable.
Replaced_Dates(c) == {s \in Dates : request[c].log.replaced[s] # NoJob}

\* What the upload replaced.
Replaced(c) == {s \in Slots : request[c].log.replaced[s] # NoJob}

\* It is inserted again; a slot that is taken fails the removal.
RestoreRows(c) ==
    /\ At(c, "restore")
    /\ \A s \in Replaced(c) : CanLock(c, s)
    /\ \/ /\ \A s \in Replaced(c) : View(c, s) = NoJob
          /\ factLock' = [s \in Slots |-> IF s \in Replaced(c) THEN c ELSE factLock[s]]
          /\ Become(c, [request[c] EXCEPT !.pc = "decide",
                !.wrote = [s \in Slots |-> IF s \in Replaced(c) THEN request[c].log.replaced[s]
                                           ELSE request[c].wrote[s]]])
          /\ UNCHANGED uploadLock
       \/ /\ \E s \in Replaced(c) : View(c, s) # NoJob
          /\ Release(c)
          /\ Finish(c)
    /\ UNCHANGED <<jobVars, dataVars, countVars, ghostVars>>

\* Mutant: the earlier limits come back whatever the card has now.
DecideLimits_Always(c) ==
    /\ At(c, "decide")
    /\ Become(c, [request[c] EXCEPT !.pc = "remove", !.putBack = TRUE])
    /\ UNCHANGED <<jobVars, dataVars, lockVars, countVars, ghostVars>>

\* The earlier limits come back only if the card still has this upload's.
DecideLimits(c) ==
    /\ At(c, "decide")
    /\ Become(c, [request[c] EXCEPT !.pc = "remove",
          !.putBack = request[c].log.before # Unset /\ limits = JobOf(c)])
    /\ UNCHANGED <<jobVars, dataVars, lockVars, countVars, ghostVars>>

CommitRemoval(c) ==
    LET j == JobOf(c)
    IN  /\ At(c, "remove")
        /\ status' = [status EXCEPT ![j] = "REMOVED"]
        /\ limits' = IF request[c].putBack THEN request[c].log.before ELSE limits
        /\ Publish(c)
        /\ Release(c)
        /\ Finish(c)
        /\ live' = live \ {j}
        /\ earlier' = [i \in Jobs |-> IF i = j THEN {} ELSE earlier[i] \ {j}]
        /\ UNCHANGED <<file, undo, signed, registered, countVars>>

-----------------------------------------------------------------------------

NoFile == [tx |-> [k \in Keys |-> 0], dates |-> {}, number |-> NoNumber,
           limits |-> FALSE, mapped |-> FALSE, suits |-> FALSE]

Init ==
    /\ status = [j \in Jobs |-> "none"]
    /\ file = [j \in Jobs |-> NoFile]
    /\ undo = [j \in Jobs |-> EmptyLog]
    /\ signed = {} /\ registered = FALSE
    /\ txs = {} /\ facts = [s \in Slots |-> NoJob] /\ limits = NoJob
    /\ uploadLock = None /\ factLock = [s \in Slots |-> None]
    /\ request = [c \in Clients |-> Blank]
    /\ faults = 0 /\ lateFaults = 0 /\ registers = 0
    /\ live = {} /\ earlier = [j \in Jobs |-> {}]

RunStep(c) ==
    \/ Identify(c) \/ LookupParser(c) \/ CheckIdentity(c) \/ Validate(c) \/ LockAccount(c)
    \/ \E k \in Keys : DedupRow(c, k)
    \/ RowsDone(c)
    \/ \E d \in Dates : ReadFact(c, d)
    \/ UpsertFact(c) \/ LinkIdentity(c) \/ CommitImport(c) \/ WriteReport(c)

RemoveStep(c) ==
    DeleteRows(c) \/ RestoreRows(c) \/ DecideLimits(c) \/ CommitRemoval(c)

Fault(c) == FailRun(c) \/ FailReport(c) \/ Crash(c)

Next == \E c \in Clients :
    \/ Upload(c)
    \/ \E j \in Jobs : Register(c, j) \/ CheckRemoval(c, j)
    \/ RunStep(c) \/ RemoveStep(c) \/ Fault(c)

Spec == Init /\ [][Next]_vars

\* A request that has begun is carried on by its thread; waiting for a lock
\* ends when the lock is free often enough.
FairSpec == Spec /\ \A c \in Clients : SF_vars(RunStep(c) \/ RemoveStep(c))

-----------------------------------------------------------------------------
(* Properties *)

TypeOK ==
    /\ status \in [Jobs -> Statuses]
    /\ file \in [Jobs -> File]
    /\ undo \in [Jobs -> UndoLog]
    /\ signed \in SUBSET Jobs /\ registered \in BOOLEAN
    /\ txs \in SUBSET Row
    /\ facts \in [Slots -> Owner]
    /\ limits \in Owner
    /\ uploadLock \in Clients \cup {None}
    /\ factLock \in [Slots -> Clients \cup {None}]
    /\ request \in [Clients -> Request]
    /\ faults \in Nat /\ lateFaults \in Nat /\ registers \in Nat
    /\ live \in SUBSET Jobs /\ earlier \in [Jobs -> SUBSET Jobs]

Rows(k) == {r \in txs : r.key = k}

\* No transaction is stored twice: of each natural key there are no more rows
\* than some file that still has rows of it states, however uploads of
\* overlapping files, registrations and removals interleave.
NoDoubleCount ==
    \A k \in Keys : Rows(k) # {} =>
        \E r \in Rows(k) : Cardinality(Rows(k)) <= file[r.job].tx[k]

\* No two rows have the same fingerprint, so the unique index never rejects an
\* upload.
FingerprintsAreUnique ==
    \A r1, r2 \in txs : r1.key = r2.key /\ r1.index = r2.index => r1 = r2

\* What is shown belongs to imports that stand: no row of an upload that was
\* removed, refused or failed.
RowsAreOfImports ==
    /\ \A r \in txs : status[r.job] = "IMPORTED"
    /\ \A s \in Slots : facts[s] # NoJob => status[facts[s]] = "IMPORTED"

\* "Undo is a stack per date": the ledger of UploadLedger is what the tables
\* hold, with the jobs' files and undo logs saying what each import covers.
Covers(j) == IF j \in live
             THEN file[j].dates \cup (IF undo[j].linked THEN {Link} ELSE {})
             ELSE {}
Ledger == INSTANCE UploadLedger WITH covers <- [j \in Jobs |-> Covers(j)], shown <- facts
ImplementsLedger == Ledger!Spec

\* A removal puts the card's limits back only over its own: limits of an
\* upload that stands are never overwritten by one.
RemovalKeepsOthersLimits ==
    [][limits' # limits /\ (\E j \in Jobs : status[j] # status'[j] /\ status'[j] = "REMOVED")
       => limits \in Jobs /\ status'[limits] = "REMOVED"]_vars

\* Every request ends, also those that wait for another's locks.
RequestsEnd == \A c \in Clients : ~At(c, "idle") ~> At(c, "idle")

\* runner.py: a run that failed or was refused wrote nothing.
FailedRunsWroteNothing ==
    \A j \in Jobs : status[j] \in {"FAILED", "REJECTED", "NEEDS_MAPPING"} =>
        limits # j /\ (\A r \in txs : r.job # j) /\ (\A s \in Slots : facts[s] # j)

\* issue-157: every genuine transaction of an imported file is stored.
ImportsAreComplete ==
    \A j \in Jobs, k \in Keys :
        status[j] = "IMPORTED" => Cardinality(Rows(k)) >= file[j].tx[k]
===============================================================================

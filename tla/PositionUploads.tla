---------------------------- MODULE PositionUploads ----------------------------
(***************************************************************************)
(* Uploads of what a broker's accounts hold: how each finds or makes the   *)
(* platform's connection, the account's place under it (the broker         *)
(* account), its assets and instruments, and replaces its day's positions, *)
(* while other uploads do the same.  One user, one platform; the requests' *)
(* files, their jobs and their removal are ImportJobs'.                    *)
(*                                                                         *)
(* A request is one READ COMMITTED transaction.  It holds what it inserted *)
(* and what it updated until it ends; who wants one of these waits.  What  *)
(* it inserted nobody else sees until then.                                *)
(***************************************************************************)
EXTENDS Integers, Sequences, FiniteSetsExt

CONSTANTS
    Uploaders,
    Uploads,     \* the files: [account, date, symbols]
    MaxUploads,  \* bound: uploads of a behaviour
    MaxFailures, \* bound: exceptions and crashes
    Nothing

VARIABLES
    jobs,      \* uploads sent: the file and its status
    stored,    \* committed connections, broker accounts, assets and instruments
    positions, \* portfolio_position_snapshots
    complete,  \* portfolio_data_completeness: does the broker account have the day's holdings?
    runs,      \* broker_import_runs that ended
    order,     \* ghost: jobs in the order of their commits
    doing,     \* per client, the statement it is about to execute
    tx,        \* per client, its transaction
    lastId,    \* of broker_connections: an id is given once, even if its transaction is undone
    failures

uploadVars == <<jobs, stored, positions, complete, runs, order, doing, tx, lastId, failures>>

\* Things with an identity in the database.
Lock(a)       == <<"lock", a>>          \* advisory, gone with the transaction
Connection(n) == <<"connection", n>>
Holder(n, a)  == <<"holder", n, a>>     \* unique (connection, account)
Asset(s)      == <<"asset", s>>         \* unique
Instrument(s) == <<"instrument", s>>    \* unique

NoUpload == [job |-> Nothing, mine |-> {}, conn |-> 0, next |-> Nothing, written |-> {}, evidence |-> FALSE]

UploadsInit ==
    /\ jobs = <<>> /\ stored = {} /\ positions = {} /\ complete = {} /\ runs = {} /\ order = <<>>
    /\ doing = [c \in Uploaders |-> "idle"]
    /\ tx = [c \in Uploaders |-> NoUpload]
    /\ lastId = 0 /\ failures = 0

UploadOf(c) == jobs[tx[c].job].file
Account(c)  == UploadOf(c).account
Visible(c)  == stored \cup tx[c].mine
Connections(c) == {n \in 1 .. lastId : Connection(n) \in Visible(c)}

\* What a client's next statement needs to itself: another transaction that has it is waited for.
Wanted(c) ==
    CASE doing[c] = "lock"                -> {Lock(Account(c))}
      [] doing[c] \in {"hold", "newHold"} -> {Holder(tx[c].conn, Account(c))}
      [] doing[c] = "link"                -> ({Asset(tx[c].next)} \ Visible(c))
                                             \cup ({Instrument(tx[c].next)} \cap Visible(c))
      [] doing[c] = "newLink"             -> {Instrument(tx[c].next)}
      [] OTHER                            -> {}
Waits(c, d)  == c # d /\ Wanted(c) \cap tx[d].mine # {}
CanRun(c)    == \A d \in Uploaders : ~Waits(c, d)
\* Postgres ends one of those who wait for each other.
Deadlocked(c) == \E S \in SUBSET Uploaders : c \in S /\ \A d \in S : \E e \in S : Waits(d, e)

Go(c, where) == doing' = [doing EXCEPT ![c] = where]
Take(c, things) == tx' = [tx EXCEPT ![c].mine = @ \cup things]
Keeps == UNCHANGED <<jobs, stored, positions, complete, runs, order, failures>>
Stays == Keeps /\ UNCHANGED lastId

----------------------------------------------------------------------------
Send(c, file) ==
    /\ doing[c] = "idle" /\ Len(jobs) < MaxUploads
    /\ jobs' = Append(jobs, [file |-> file, status |-> "PROCESSING"])
    /\ tx' = [tx EXCEPT ![c] = [NoUpload EXCEPT !.job = Len(jobs) + 1]]
    /\ Go(c, "lock")
    /\ UNCHANGED <<stored, positions, complete, runs, order, lastId, failures>>

\* One upload of an account at a time, until its transaction ends.
OwnAccount(c) ==
    /\ doing[c] = "lock" /\ CanRun(c)
    /\ Take(c, Wanted(c)) /\ Go(c, "connect") /\ Stays

\* The platform's oldest connection, or a new one: nothing forbids a second one.
Connect(c) ==
    /\ doing[c] = "connect"
    /\ IF Connections(c) # {}
       THEN /\ tx' = [tx EXCEPT ![c].conn = Min(Connections(c))]
            /\ Go(c, "hold") /\ UNCHANGED lastId
       ELSE /\ lastId' = lastId + 1
            /\ Take(c, {Connection(lastId')}) /\ Go(c, "reconnect")
    /\ Keeps

\* The newest connection it sees by now
Reconnect(c) ==
    /\ doing[c] = "reconnect"
    /\ tx' = [tx EXCEPT ![c].conn = Max(Connections(c))] /\ Go(c, "hold") /\ Stays

\* After the account the run and its document are added, and the day's positions and completeness
\* deleted: Cleared, which nobody else writes while the account is locked.
AfterHold(c) == Go(c, IF tx[c].evidence THEN "record" ELSE "next")

\* Find the account under the connection, and update it, ...
Hold(c) ==
    /\ doing[c] = "hold"
    /\ IF Wanted(c) \subseteq Visible(c)
       THEN CanRun(c) /\ Take(c, Wanted(c)) /\ AfterHold(c)
       ELSE UNCHANGED tx /\ Go(c, "newHold")
    /\ Stays

\* ... or add it, unless another transaction has meanwhile (then the insert fails).
NewHold(c) ==
    /\ doing[c] = "newHold" /\ CanRun(c) /\ Wanted(c) \cap stored = {}
    /\ Take(c, Wanted(c)) /\ AfterHold(c) /\ Stays

\* The file's next position
NextPosition(c, s) ==
    /\ doing[c] = "next" /\ s \in UploadOf(c).symbols \ tx[c].written
    /\ tx' = [tx EXCEPT ![c].next = s] /\ Go(c, "link") /\ Stays

Written(c) == tx' = [tx EXCEPT ![c].mine = @ \cup Wanted(c), ![c].written = @ \cup {tx[c].next}]

\* Its asset is found or added (ON CONFLICT DO NOTHING waits for another's insert, and does nothing
\* if that stays), its instrument found and updated, and the position written; ...
LinkInstrument(c) ==
    /\ doing[c] = "link" /\ CanRun(c)
    /\ IF Instrument(tx[c].next) \in Visible(c)
       THEN Written(c) /\ Go(c, "next")
       ELSE Take(c, Wanted(c)) /\ Go(c, "newLink")
    /\ Stays

\* ... or the instrument is added, with no ON CONFLICT.
NewInstrument(c) ==
    /\ doing[c] = "newLink" /\ CanRun(c) /\ Wanted(c) \cap stored = {}
    /\ Written(c) /\ Go(c, "next") /\ Stays

----------------------------------------------------------------------------
\* Mutant: only the positions of the file's own shares are deleted.
Cleared_SameShares(c, S) ==
    {x \in S : x.conn = tx[c].conn /\ x.account = Account(c) /\ x.date = UploadOf(c).date
               /\ x.symbol \in UploadOf(c).symbols}

\* What the upload deletes: its day's facts of this broker account.
Cleared(c, S) ==
    {x \in S : x.conn = tx[c].conn /\ x.account = Account(c) /\ x.date = UploadOf(c).date}

Position(c, s)  == [job |-> tx[c].job, conn |-> tx[c].conn, account |-> Account(c),
                    date |-> UploadOf(c).date, symbol |-> s]
Completeness(c) == [job |-> tx[c].job, conn |-> tx[c].conn, account |-> Account(c),
                    date |-> UploadOf(c).date, holdings |-> tx[c].written # {}]
Run(c, status)  == [job |-> tx[c].job, conn |-> tx[c].conn, status |-> status]

Leave(c) == tx' = [tx EXCEPT ![c] = NoUpload] /\ Go(c, "idle")
Kept(c)  == tx[c].mine \ {Lock(Account(c))}
Status(c, status) == jobs' = [jobs EXCEPT ![tx[c].job].status = status]

\* The completeness of the day, the run completed, and the job, in one commit.
Import(c) ==
    /\ doing[c] = "next" /\ tx[c].written = UploadOf(c).symbols
    /\ positions' = (positions \ Cleared(c, positions))
                    \cup {Position(c, s) : s \in tx[c].written}
    /\ complete' = {x \in complete : <<x.conn, x.account, x.date>> #
                                     <<tx[c].conn, Account(c), UploadOf(c).date>>}
                   \cup {Completeness(c)}
    /\ runs' = runs \cup {Run(c, "completed")}
    /\ stored' = stored \cup Kept(c)
    /\ order' = Append(order, tx[c].job)
    /\ Status(c, "IMPORTED") /\ Leave(c)
    /\ UNCHANGED <<lastId, failures>>

\* Failures: what the transaction did is undone.
EndFailed(c) ==
    /\ Status(c, "FAILED") /\ Leave(c)
    /\ UNCHANGED <<stored, positions, complete, runs, order, lastId>>

\* A statement fails, or an exception before the positions or in what follows it: the job is FAILED
\* and nothing tells why in the runs.  (The handler's own statements fail, for the database refuses
\* any until the rollback, and the exception loses what the runner records the run from.)
FailStatement(c) ==
    /\ doing[c] # "idle" /\ failures < MaxFailures
    /\ failures' = failures + 1
    /\ EndFailed(c)

\* So do the insert of what is there by now, and a wait that ends a deadlock.
Refuse(c) ==
    /\ \/ doing[c] \in {"newHold", "newLink"} /\ Wanted(c) \cap stored # {}
       \/ Deadlocked(c)
    /\ EndFailed(c) /\ UNCHANGED failures

\* Another exception among the positions: the run, its document and the reason are recorded again
\* after the rollback, in a transaction that locks no account.
Raise(c) ==
    /\ doing[c] \in {"next", "link", "newLink"} /\ failures < MaxFailures
    /\ failures' = failures + 1
    /\ tx' = [tx EXCEPT ![c] = [NoUpload EXCEPT !.job = tx[c].job, !.evidence = TRUE]]
    /\ Go(c, "connect")
    /\ UNCHANGED <<jobs, stored, positions, complete, runs, order, lastId>>

\* record_upload_canonical_failure
Record(c) ==
    /\ doing[c] = "record"
    /\ runs' = runs \cup {Run(c, "failed")}
    /\ stored' = stored \cup tx[c].mine
    /\ Status(c, "FAILED") /\ Leave(c)
    /\ UNCHANGED <<positions, complete, order, lastId, failures>>

Die(c) ==
    /\ doing[c] # "idle" /\ failures < MaxFailures
    /\ failures' = failures + 1
    /\ Leave(c)
    /\ UNCHANGED <<jobs, stored, positions, complete, runs, order, lastId>>

UploadsNext ==
    \E c \in Uploaders :
      \/ \E file \in Uploads : Send(c, file)
      \/ OwnAccount(c) \/ Connect(c) \/ Reconnect(c) \/ Hold(c) \/ NewHold(c)
      \/ \E file \in Uploads : \E s \in file.symbols : NextPosition(c, s)
      \/ LinkInstrument(c) \/ NewInstrument(c)
      \/ Import(c) \/ FailStatement(c) \/ Refuse(c) \/ Raise(c) \/ Record(c)
      \/ Die(c)

UploadsSpec == UploadsInit /\ [][UploadsNext]_uploadVars

----------------------------------------------------------------------------
\* What the pages show of an account at a date: of each of its broker accounts the positions of
\* the newest day (rule 3 of effective_facts).
Shown(a, date) ==
    LET past(n) == {x \in positions : x.account = a /\ x.conn = n /\ x.date <= date}
        newest(n) == {x \in past(n) : \A y \in past(n) : y.date <= x.date}
    IN  {<<x.job, x.symbol>> : x \in UNION {newest(x.conn) : x \in positions}}

\* What the account held by then, as the uploads say: each day's by its last upload, and of the
\* days with any the newest.
Uploaded(a, date) ==
    LET ofDay(d) == {i \in DOMAIN order : LET f == jobs[order[i]].file
                                          IN  f.account = a /\ f.date = d}
        last(d)  == order[Max(ofDay(d))]
        days     == {d \in {file.date : file \in Uploads} :
                        d <= date /\ ofDay(d) # {} /\ jobs[last(d)].file.symbols # {}}
    IN  IF days = {} THEN {}
        ELSE {<<last(Max(days)), s>> : s \in jobs[last(Max(days))].file.symbols}

HoldersOf(a) == {x \in stored : x[1] = "holder" /\ x[3] = a}
OneHolder(a) == \A x, y \in HoldersOf(a) : x = y

\* An account shows its newest upload and no other, as long as it has one broker account under the
\* platform.  (Two first uploads of two accounts make two connections, each its own.  The next
\* upload of the second account comes under the first one; what the account held before is under
\* the second, where no upload replaces it any more, and counts beside it for good.)
HoldingsAreTheNewest ==
    \A file \in Uploads :
        OneHolder(file.account)
        => Shown(file.account, file.date) = Uploaded(file.account, file.date)

\* "Clear existing canonical facts for this account + date before writing new ones"
\* (upload_canonical.py:975), whatever came before.
OldHoldingsAreCleared ==
    \A file \in Uploads : Shown(file.account, file.date) = Uploaded(file.account, file.date)

\* An upload is kept whole or not at all, whatever it met: the positions and the completeness
\* are of imported jobs, a day is complete where it has positions, runs tell how their jobs ended,
\* and every position has its instrument and every instrument its asset.
UploadsAreWhole ==
    /\ \A x \in positions \cup complete : jobs[x.job].status = "IMPORTED"
    /\ \A x \in complete : x.holdings <=> \E y \in positions :
           y.conn = x.conn /\ y.account = x.account /\ y.date = x.date
    /\ \A x \in positions : \E y \in complete : y.job = x.job /\ y.holdings
    /\ \A r \in runs : (r.status = "completed") <=> (jobs[r.job].status = "IMPORTED")
    /\ \A x \in positions : {Holder(x.conn, x.account), Instrument(x.symbol)} \subseteq stored
    /\ \A x \in stored : x[1] = "instrument" => Asset(x[2]) \in stored

\* What is shown of an account is what was uploaded of it, whole.
HoldingsAreUploads == HoldingsAreTheNewest /\ UploadsAreWhole
================================================================================

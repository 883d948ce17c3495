------------------------------ MODULE Datasets ------------------------------
(***************************************************************************)
(* The data sources and datasets of one user (app/data): uploads, whose    *)
(* file is written before the rows that name it, database sources, the     *)
(* import of their tables, and profile runs, which commit three times.     *)
(*                                                                         *)
(* A source is known by its name and a dataset by its source and name: the *)
(* unique constraints of 0002.  An INSERT waits for a rival's (module      *)
(* ReadCommitted), and no route deletes a source or a dataset.  Files,     *)
(* runs and row counts are named after the request that made them.         *)
(* Schemas, connection settings and statistics are left out.               *)
(***************************************************************************)
EXTENDS Naturals, FiniteSets, Sequences

CONSTANTS
  MaxRequests,  \* bound on the requests of a behaviour
  MaxOverlap,   \* bound on the requests in progress at a time
  SourceName,   \* the names of sources: a file's own name is one
  DatasetName,  \* the names of datasets
  TableList,    \* the lists of datasets an import may ask for
  NoRow

ASSUME BoundsArePositive ==
  MaxRequests \in Nat \ {0} /\ MaxOverlap \in Nat \ {0}

ASSUME NamesExist == SourceName # {} /\ DatasetName # {}

ASSUME ListsNameDatasets ==
  \A list \in TableList : list \in Seq(DatasetName) /\ list # <<>>

(* Requests are numbered as they arrive; number 0 is what came before.     *)
Request == 1..MaxRequests
Maker == 0..MaxRequests

VARIABLES
  table,   \* the committed rows
  writes,  \* the rows each transaction has written
  txn,     \* the progress of each request
  files,   \* the stored file of each upload
  alone    \* no two requests have overlapped so far

vars == <<table, writes, txn, files, alone>>

INSTANCE ReadCommitted

Source(s) == <<"data_sources", s>>
Dataset(s, d) == <<"datasets", s, d>>
Run(r) == <<"profile_runs", r>>

DatasetKey == {Dataset(s, d) : s \in SourceName, d \in DatasetName}

Key == {Source(s) : s \in SourceName} \cup DatasetKey
         \cup {Run(r) : r \in Request}

(* Where a request stands:                                                 *)
(*   received   nothing is read yet                                        *)
(*   saving     the upload's file is open                                  *)
(*   saved      the file is whole, its schema is next                      *)
(*   ready      the source's row is next                                   *)
(*   sourced    the dataset's row is next                                  *)
(*   importing  the next table of the list is next                         *)
(*   looked     the dataset to profile is read                             *)
(*   opening    the running row is written, its commit is next             *)
(*   profiling  the running row is committed                               *)
(*   closing    the outcome is written, its commit is next                 *)
(*   counting   the row count of the dataset is next                       *)
(*   commit     all that is left is to commit                              *)
(*   refused    an exception the route translates                          *)
(*   error      one it does not, or a crash                                *)
Place == {"waiting", "received", "saving", "saved", "ready", "sourced",
          "importing", "looked", "opening", "profiling", "closing", "counting",
          "commit", "done", "refused", "error"}

(* A request: the datasets it names, the next of them to import, and       *)
(* whether its transaction has bound the user that the policies ask for.   *)
Kind == {"upload", "connect", "import", "profile"}

Ended(r) == txn[r].pc \in {"done", "refused", "error"}

Busy(r) == txn[r].pc # "waiting" /\ ~ Ended(r)

Target(r) == Dataset(txn[r].source, txn[r].names[txn[r].next])

SourceRow == [by : Maker, kind : {"file", "database"}]
DatasetRow == [by : Maker, count : Maker]
RunRow == [of : DatasetKey, status : {"running", "completed", "failed"}]

ASSUME NoRowIsNoRow == NoRow \notin SourceRow \cup DatasetRow \cup RunRow

NoRows == [k \in Key |-> NoRow]

ASource == CHOOSE s \in SourceName : TRUE
ADataset == CHOOSE d \in DatasetName : TRUE

(* A database source, one of its tables imported.                          *)
Connected ==
  [NoRows EXCEPT
     ![Source(ASource)] = [by |-> 0, kind |-> "database"],
     ![Dataset(ASource, ADataset)] = [by |-> 0, count |-> 0]]

Waiting == [pc |-> "waiting", kind |-> "upload", source |-> ASource,
            names |-> <<ADataset>>, next |-> 1, bound |-> FALSE]

Init ==
  /\ table \in {NoRows, Connected}
  /\ writes = [r \in Request |-> NoWrites]
  /\ txn = [r \in Request |-> Waiting]
  /\ files = [r \in Request |-> "none"]
  /\ alone = TRUE

Goto(r, pc) == txn' = [txn EXCEPT ![r].pc = pc]

(* Flush the rows and go on.                                               *)
Flush(r, rows, pc) ==
  /\ Write(r, rows)
  /\ Goto(r, pc)
  /\ UNCHANGED <<table, files, alone>>

(* A read and nothing else.                                                *)
Read == UNCHANGED <<table, writes, files, alone>>

(* Work on the disk and nothing else.                                      *)
Store(r, state, pc) ==
  /\ files' = [files EXCEPT ![r] = state]
  /\ Goto(r, pc)
  /\ UNCHANGED <<table, writes, alone>>

Is(r, kind, pc) == txn[r].kind = kind /\ txn[r].pc = pc

(* An answer that leaves the transaction open.                             *)
DuplicateNameWithoutRollback(r) ==
  /\ Goto(r, "refused")
  /\ files' = [files EXCEPT ![r] = "none"]
  /\ UNCHANGED <<table, writes, alone>>

(* IntegrityError: roll back, and remove the file of an upload.            *)
DuplicateName(r) ==
  /\ DropWrites(r)
  /\ Goto(r, "refused")
  /\ files' = [files EXCEPT ![r] = "none"]
  /\ UNCHANGED <<table, alone>>

-----------------------------------------------------------------------------
(* Uploads and database sources.                                           *)

StartSaving(r) ==
  /\ Is(r, "upload", "received")
  /\ Store(r, "partial", "saving")

FinishSaving(r) ==
  /\ txn[r].pc = "saving"
  /\ Store(r, "whole", "saved")

(* Stopping where the limit is passed.                                     *)
FailSavingHalfway(r) ==
  /\ txn[r].pc = "saving"
  /\ Store(r, "partial", "refused")

(* Too large, or an OSError: the partial file is unlinked.                 *)
FailSaving(r) ==
  /\ txn[r].pc = "saving"
  /\ Store(r, "none", "refused")

InferSchema(r) ==
  /\ txn[r].pc = "saved"
  /\ Goto(r, "ready")
  /\ Read

(* InvalidFileError or UnsupportedSourceKindError.                         *)
RejectFile(r) ==
  /\ txn[r].pc = "saved"
  /\ Store(r, "none", "refused")

(* The probe comes first.                                                  *)
Probe(r) ==
  /\ Is(r, "connect", "received")
  /\ Goto(r, "ready")
  /\ Read

InsertSource(r) ==
  LET k == Source(txn[r].source)
      upload == txn[r].kind = "upload"
  IN  /\ txn[r].pc = "ready"
      /\ Free(r, {k})
      /\ IF Seen(r, k) # NoRow
           THEN DuplicateName(r)
           ELSE Flush(r,
                      Set(k, [by |-> r,
                              kind |-> IF upload THEN "file" ELSE "database"]),
                      IF upload THEN "sourced" ELSE "commit")

(* The source is new, so its first dataset cannot be a duplicate.          *)
InsertDataset(r) ==
  /\ txn[r].pc = "sourced"
  /\ Flush(r, Set(Target(r), [by |-> r, count |-> r]), "commit")

-----------------------------------------------------------------------------
(* The import of tables.                                                   *)

FindSource(r) ==
  LET source == Seen(r, Source(txn[r].source)) IN
    /\ Is(r, "import", "received")
    /\ source # NoRow
    /\ source.kind = "database"
    /\ Goto(r, "importing")
    /\ Read

(* One table more than there are.                                          *)
NextTablePastTheLast(r) ==
  txn' = IF txn[r].next > Len(txn[r].names)
           THEN [txn EXCEPT ![r].pc = "commit"]
           ELSE [txn EXCEPT ![r].next = @ + 1]

(* On to the next table, or to the commit.                                 *)
NextTable(r) ==
  txn' = IF txn[r].next = Len(txn[r].names)
           THEN [txn EXCEPT ![r].pc = "commit"]
           ELSE [txn EXCEPT ![r].next = @ + 1]

(* Passing over a table that has been imported.                            *)
ImportTableUnlessThere(r) ==
  /\ txn[r].pc = "importing"
  /\ Free(r, {Target(r)})
  /\ NextTable(r)
  /\ Write(r, IF Seen(r, Target(r)) # NoRow
                THEN NoWrites ELSE Set(Target(r), [by |-> r, count |-> r]))
  /\ UNCHANGED <<table, files, alone>>

(* The table is introspected and its dataset flushed.                      *)
ImportTable(r) ==
  /\ txn[r].pc = "importing"
  /\ Free(r, {Target(r)})
  /\ IF Seen(r, Target(r)) # NoRow
       THEN DuplicateName(r)
       ELSE /\ NextTable(r)
            /\ Write(r, Set(Target(r), [by |-> r, count |-> r]))
            /\ UNCHANGED <<table, files, alone>>

(* PostgreSQL ends one of two imports that wait for each other.            *)
WaitsFor(r, q) == txn[r].pc = "importing" /\ Target(r) \in DOMAIN writes[q]

EndDeadlock(r) ==
  /\ \E q \in Request \ {r} : WaitsFor(r, q) /\ WaitsFor(q, r)
  /\ DropWrites(r)
  /\ Goto(r, "error")
  /\ UNCHANGED <<table, files, alone>>

-----------------------------------------------------------------------------
(* Profile runs.                                                           *)

FindDataset(r) ==
  /\ Is(r, "profile", "received")
  /\ Seen(r, Target(r)) # NoRow
  /\ Goto(r, "looked")
  /\ Read

InsertRun(r) ==
  /\ txn[r].pc = "looked"
  /\ Flush(r, Set(Run(r), [of |-> Target(r), status |-> "running"]), "opening")

(* The row is committed up-front and the user bound again, for the next    *)
(* transaction.                                                            *)
OpenRun(r) ==
  /\ txn[r].pc = "opening"
  /\ CommitWrites(r)
  /\ Goto(r, "profiling")
  /\ UNCHANGED <<files, alone>>

(* Answering a failed measurement without writing it down.                 *)
MeasureUnlessFailed(r) ==
  /\ txn[r].pc = "profiling"
  /\ \/ Flush(r, Set(Run(r), [table[Run(r)] EXCEPT !.status = "completed"]),
              "closing")
     \/ Goto(r, "done") /\ Read

(* Any exception of the measurement is the outcome "failed".               *)
Measure(r) ==
  /\ txn[r].pc = "profiling"
  /\ \E outcome \in {"completed", "failed"} :
       Flush(r, Set(Run(r), [table[Run(r)] EXCEPT !.status = outcome]),
             "closing")

(* Committing and no more.                                                 *)
CloseRunUnbound(r) ==
  /\ txn[r].pc = "closing"
  /\ CommitWrites(r)
  /\ txn' = [txn EXCEPT
               ![r].pc = IF writes[r][Run(r)].status = "completed"
                           THEN "counting" ELSE "done",
               ![r].bound = FALSE]
  /\ UNCHANGED <<files, alone>>

(* The outcome is committed, and the user bound again.                     *)
CloseRun(r) ==
  /\ txn[r].pc = "closing"
  /\ CommitWrites(r)
  /\ Goto(r, IF writes[r][Run(r)].status = "completed" THEN "counting"
                                                        ELSE "done")
  /\ UNCHANGED <<files, alone>>

(* datasets_update: a row the user may not update is not matched, which is *)
(* no error.                                                               *)
StampRowCount(r) ==
  /\ txn[r].pc = "counting"
  /\ Free(r, {Target(r)})
  /\ Flush(r, IF txn[r].bound
                THEN Set(Target(r), [table[Target(r)] EXCEPT !.count = r])
                ELSE NoWrites, "commit")

-----------------------------------------------------------------------------
(* How requests begin and end.                                             *)

Commit(r) ==
  /\ txn[r].pc = "commit"
  /\ CommitWrites(r)
  /\ Goto(r, "done")
  /\ UNCHANGED <<files, alone>>

(* No such source or dataset, a probe that fails, a source of files.       *)
Refuse(r) ==
  /\ txn[r].pc = "received"
  /\ Goto(r, "refused")
  /\ Read

(* A crash, a cancelled request, an exception no handler names.            *)
Fail(r) ==
  /\ Busy(r)
  /\ DropWrites(r)
  /\ Goto(r, "error")
  /\ UNCHANGED <<table, files, alone>>

(* Removing the upload because its commit raised.                          *)
LoseCommitAndCompensate(r) ==
  /\ txn[r].pc \in {"opening", "closing", "commit"}
  /\ CommitWrites(r)
  /\ Goto(r, "error")
  /\ files' = [files EXCEPT ![r] = "none"]
  /\ UNCHANGED alone

(* The commit takes effect and its answer is lost: it raises.              *)
LoseCommit(r) ==
  /\ txn[r].pc \in {"opening", "closing", "commit"}
  /\ CommitWrites(r)
  /\ Goto(r, "error")
  /\ UNCHANGED <<files, alone>>

(* What a request names.  Only an import names more than one dataset.      *)
Names(kind) ==
  IF kind = "import" THEN TableList ELSE {<<d>> : d \in DatasetName}

(* The dependency has bound the user of the session.                       *)
Begin(r) ==
  /\ txn[r].pc = "waiting"
  /\ \A q \in 1..(r - 1) : txn[q].pc # "waiting"
  /\ Cardinality({q \in Request : Busy(q)}) < MaxOverlap
  /\ \E kind \in Kind, s \in SourceName : \E names \in Names(kind) :
       txn' = [txn EXCEPT ![r] = [pc |-> "received", kind |-> kind,
                                  source |-> s, names |-> names, next |-> 1,
                                  bound |-> TRUE]]
  /\ alone' = (alone /\ \A q \in Request : ~ Busy(q))
  /\ UNCHANGED <<table, writes, files>>

Advance(r) ==
  \/ StartSaving(r)
  \/ FinishSaving(r)
  \/ FailSaving(r)
  \/ InferSchema(r)
  \/ RejectFile(r)
  \/ Probe(r)
  \/ InsertSource(r)
  \/ InsertDataset(r)
  \/ FindSource(r)
  \/ ImportTable(r)
  \/ EndDeadlock(r)
  \/ FindDataset(r)
  \/ InsertRun(r)
  \/ OpenRun(r)
  \/ Measure(r)
  \/ CloseRun(r)
  \/ StampRowCount(r)
  \/ Commit(r)
  \/ Refuse(r)

Next == \E r \in Request : Begin(r) \/ Advance(r) \/ Fail(r) \/ LoseCommit(r)

(* A received request keeps going: external calls have time limits, and    *)
(* PostgreSQL breaks deadlocks.                                            *)
Fairness == \A r \in Request : WF_vars(Advance(r))

Spec == Init /\ [][Next]_vars /\ Fairness

-----------------------------------------------------------------------------
(* Properties.                                                             *)

TypeOK ==
  /\ \A s \in SourceName : table[Source(s)] \in SourceRow \cup {NoRow}
  /\ \A k \in DatasetKey : table[k] \in DatasetRow \cup {NoRow}
  /\ \A r \in Request : table[Run(r)] \in RunRow \cup {NoRow}
  /\ txn \in [Request -> [pc : Place, kind : Kind, source : SourceName,
                          names : TableList \cup {<<d>> : d \in DatasetName},
                          next : Nat, bound : BOOLEAN]]
  /\ \A r \in Request : txn[r].next \in DOMAIN txn[r].names
  /\ files \in [Request -> {"none", "partial", "whole"}]
  /\ alone \in BOOLEAN

(* A file source that is committed has its whole file and its dataset,     *)
(* whatever fails and when, a commit that raises included (upload_file,    *)
(* save, create_dataset_from_upload).                                      *)
SourcesHaveTheirFiles ==
  \A s \in SourceName :
    LET source == table[Source(s)] IN
      source # NoRow => (source.kind = "file" =>
        /\ files[source.by] = "whole"
        /\ \E d \in DatasetName : table[Dataset(s, d)] # NoRow)

(* A file that no row names is left only by a crash or an exception the    *)
(* route does not name: a refused upload, too large, unreadable or under a *)
(* name that is taken, leaves none (save, upload_file's compensation).     *)
RefusedUploadsLeaveNoFile ==
  \A r \in Request :
    txn[r].kind = "upload" /\ txn[r].pc = "refused" => files[r] = "none"

(* "All-or-nothing" (import_tables_as_datasets): of the datasets an import *)
(* asks for it has committed all or none, and a successful one has         *)
(* committed all, however imports of the same tables overlap.              *)
Imported(r) == {k \in DatasetKey : table[k] # NoRow /\ table[k].by = r}

ImportsAreWhole ==
  \A r \in Request :
    txn[r].kind = "import" =>
      LET asked == {Dataset(txn[r].source, txn[r].names[i]) :
                      i \in DOMAIN txn[r].names}
      IN  /\ Imported(r) \in {{}, asked}
          /\ txn[r].pc = "done" => Imported(r) = asked
          /\ txn[r].pc = "refused" => Imported(r) = {}

(* A run is "running" in the database only while its request is at work or *)
(* after that crashed: an answered request has written the outcome         *)
(* (run_profile).                                                          *)
AnsweredRunsAreOver ==
  \A r \in Request :
    txn[r].kind = "profile" /\ txn[r].pc = "done" =>
      table[Run(r)].status \in {"completed", "failed"}

(* When requests do not overlap the row count of a dataset is that of its  *)
(* last completed run, or that run is about to write it or crashed before  *)
(* it did; without a run it is what the upload or the import estimated     *)
(* (run_profile's "stamp the row count back on the dataset").              *)
CountIsOfLastRun ==
  alone => \A k \in DatasetKey :
    LET completed == {r \in Request :
                        table[Run(r)] = [of |-> k, status |-> "completed"]}
    IN  /\ table[k] # NoRow /\ completed = {} => table[k].count = table[k].by
        /\ \A r \in completed :
             (\A q \in completed : q <= r) /\ txn[r].pc = "done"
               => table[k].count = r

(* Every request received ends: two imports that wait for each other's     *)
(* names included.                                                         *)
RequestsEnd == []<>(\A r \in Request : ~ Busy(r))
=============================================================================

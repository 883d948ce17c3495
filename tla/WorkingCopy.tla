---------------------------- MODULE WorkingCopy ----------------------------
(***************************************************************************)
(* The working copy of one dataset and one user (app/transforms): a row    *)
(* that points at the current snapshot file, a journal of the operations   *)
(* that produced the snapshots, and the requests that change them: agent   *)
(* turns running tools, undo, and reset.                                   *)
(*                                                                         *)
(* Every request is one database transaction on a session of its own       *)
(* (PostgreSQL, READ COMMITTED).  A SELECT sees what is committed plus the *)
(* session's own writes; an UPDATE waits for the row lock and then writes  *)
(* the columns the session changed, whatever the row holds by then.  An    *)
(* agent turn awaits the model between its tools, so its transaction stays *)
(* open for as long as the turn lasts.                                     *)
(*                                                                         *)
(* Snapshot files are numbered in the order they are written: the uuid4 in *)
(* a path makes each path new.  A journal row is inserted right after the  *)
(* file it produced is written, so the number of the file is also the id   *)
(* of the row and its place in created_at order (the clock is taken not to *)
(* step back).                                                             *)
(***************************************************************************)
EXTENDS Naturals

CONSTANTS
  Session,   \* requests that can be in progress at the same time
  Rows,      \* heights a snapshot's frame can have
  MaxFiles,  \* bound on the snapshot files written
  MaxCalls   \* bound on the tool calls of one turn

ASSUME RowsAssumption == Rows \subseteq Nat
ASSUME BoundAssumption == MaxFiles \in Nat /\ MaxCalls \in Nat

VARIABLES
  row,        \* the committed dataset_working_copies row
  original,   \* the v0 snapshot the committed row was created with
  committed,  \* the committed rows of dataset_operations
  undone,     \* those of them with undone_at set
  restamped,  \* those of them whose undone_at was written a second time
  written,    \* how many snapshot files are on disk
  height,     \* the number of rows in each file
  before,     \* snapshot_before_path of the journal row of each file
  txn         \* the open transaction of each session

vars == <<row, original, committed, undone, restamped, written, height, before,
          txn>>
disk == <<written, height, before>>
database == <<row, original, committed, undone, restamped>>

Path == 1..MaxFiles
NoPath == 0
PathOrNone == 0..MaxFiles
Row == [path : PathOrNone, rows : Nat]
NoRow == [path |-> NoPath, rows |-> 0]

(* Where a request stands:                                                 *)
(*   turn     an agent turn, awaiting the model                            *)
(*   create   the turn has written v0 and is inserting the row             *)
(*   target   undo has loaded the row and looks its operation up           *)
(*   later    undo has found it and looks the later ones up                *)
(*   active   reset has loaded the row and looks the active ones up        *)
(*   stamp    undone_at is being written to the rows in .later             *)
(*   update   the journal is written; the pointer's UPDATE comes next      *)
(*   done     undo or reset has flushed and is about to commit             *)
Place == {"idle", "turn", "create", "target", "later", "active", "stamp",
          "update", "done"}

NoTxn == [pc |-> "idle", turn |-> FALSE, calls |-> 0, loaded |-> NoRow,
          own |-> NoRow, v0 |-> NoPath, new |-> NoPath, target |-> NoPath,
          inserted |-> {}, later |-> {}]

Txn == [pc : Place, turn : BOOLEAN, calls : 0..MaxCalls, loaded : Row,
        own : Row, v0 : PathOrNone, new : PathOrNone, target : PathOrNone,
        inserted : SUBSET Path, later : SUBSET Path]

(* The operations that are applied and not undone.                         *)
Active == committed \ undone

(* Two ways Seen could go wrong: reading what another session has not      *)
(* committed, and not reading the session's own updates.                   *)
SeenUncommitted(s) ==
  IF \E t \in Session : txn[t].own # NoRow
    THEN txn[CHOOSE t \in Session : txn[t].own # NoRow].own
    ELSE row

SeenBeforeUpdate(s) == IF txn[s].v0 # NoPath THEN txn[s].own ELSE row

(* The working-copy row as a SELECT of session s sees it.                  *)
Seen(s) == IF txn[s].own # NoRow THEN txn[s].own ELSE row

(* Session s holds the lock on the working-copy row, having updated or     *)
(* inserted it.                                                            *)
HoldsRow(s) == txn[s].own # NoRow

(* Locking the rows when they are selected instead.                        *)
StampedWhenSelected(s) ==
  IF txn[s].pc \in {"stamp", "update", "done"} THEN txn[s].later ELSE {}

(* The journal rows session s has stamped and holds the locks of.          *)
Stamped(s) == IF txn[s].pc \in {"update", "done"} THEN txn[s].later ELSE {}

Others(s) == Session \ {s}

Busy(s) == txn[s].pc # "idle"

Init ==
  /\ row = NoRow
  /\ original = NoPath
  /\ committed = {}
  /\ undone = {}
  /\ restamped = {}
  /\ written = 0
  /\ height = [p \in Path |-> 0]
  /\ before = [p \in Path |-> NoPath]
  /\ txn = [s \in Session |-> NoTxn]

(* The session ends: nothing it did remains unless it was committed.       *)
End(s) == txn' = [txn EXCEPT ![s] = NoTxn]

(* A snapshot of r rows goes to a new file, made from snapshot b.          *)
WriteSnapshot(r, b) ==
  /\ written < MaxFiles
  /\ written' = written + 1
  /\ height' = [height EXCEPT ![written + 1] = r]
  /\ before' = [before EXCEPT ![written + 1] = b]

-----------------------------------------------------------------------------
(* An agent turn: send_message and the tools its model calls.              *)

(* A cap that lets one call too many through.                              *)
CallsLeftInclusive(s) == txn[s].calls <= MaxCalls

CallsLeft(s) == txn[s].calls < MaxCalls

StartTurn(s) ==
  /\ txn[s].pc = "idle"
  /\ txn' = [txn EXCEPT ![s].pc = "turn", ![s].turn = TRUE]
  /\ UNCHANGED <<database, disk>>

(* get_or_create_working_copy finds no row: it snapshots the source.       *)
SnapshotSource(s) ==
  /\ txn[s].pc = "turn"
  /\ Seen(s) = NoRow
  /\ CallsLeft(s)
  /\ \E r \in Rows : WriteSnapshot(r, NoPath)
  /\ txn' = [txn EXCEPT ![s].pc = "create", ![s].new = written + 1]
  /\ UNCHANGED database

(* Without the unique constraint.                                          *)
AnyRowFits == TRUE

(* uq_dataset_working_copies_dataset_user has room for a row.              *)
UniqueRowFits == original = NoPath

(* The INSERT waits for a rival that has inserted and not ended; the       *)
(* unique constraint then refuses it when the rival has committed, and the *)
(* IntegrityError ends the request with everything the turn had done.      *)
CreateRow(s) ==
  /\ txn[s].pc = "create"
  /\ \A t \in Others(s) : txn[t].v0 = NoPath
  /\ IF UniqueRowFits
       THEN txn' = [txn EXCEPT ![s].pc = "turn",
                               ![s].v0 = txn[s].new,
                               ![s].own = [path |-> txn[s].new,
                                           rows |-> height[txn[s].new]]]
       ELSE End(s)
  /\ UNCHANGED <<database, disk>>

(* An inspection, or an operation that raises OperationError: the tool     *)
(* answers and nothing is written.                                         *)
InspectTool(s) ==
  /\ txn[s].pc = "turn"
  /\ Seen(s) # NoRow
  /\ CallsLeft(s)
  /\ txn' = [txn EXCEPT ![s].calls = @ + 1]
  /\ UNCHANGED <<database, disk>>

(* run_operation: the snapshot the row points at is read and transformed,  *)
(* the result goes to a new file and the journal row is inserted.          *)
MutateTool(s) ==
  /\ txn[s].pc = "turn"
  /\ Seen(s) # NoRow
  /\ CallsLeft(s)
  /\ \E r \in Rows : WriteSnapshot(r, Seen(s).path)
  /\ txn' = [txn EXCEPT ![s].pc = "update",
                        ![s].calls = @ + 1,
                        ![s].loaded = Seen(s),
                        ![s].new = written + 1,
                        ![s].inserted = @ \cup {written + 1}]
  /\ UNCHANGED database

-----------------------------------------------------------------------------
(* Undo and reset.                                                         *)

(* The route loads the row; the operation is one the history panel listed. *)
StartUndo(s, p) ==
  /\ txn[s].pc = "idle"
  /\ row # NoRow
  /\ txn' = [txn EXCEPT ![s].pc = "target", ![s].loaded = row, ![s].target = p]
  /\ UNCHANGED <<database, disk>>

(* An operation that is undone by now is refused.                          *)
SelectTarget(s) ==
  /\ txn[s].pc = "target"
  /\ IF txn[s].target \in undone
       THEN End(s)
       ELSE txn' = [txn EXCEPT ![s].pc = "later"]
  /\ UNCHANGED <<database, disk>>

(* Leaving the target itself out.                                          *)
AfterTarget(p) == {q \in Active : q > p}

(* Not asking that undone_at be NULL.                                      *)
FromTargetUndoneToo(p) == {q \in committed : q >= p}

(* The active operations created at the target's time or later.            *)
FromTarget(p) == {q \in Active : q >= p}

SelectLater(s) ==
  /\ txn[s].pc = "later"
  /\ txn' = [txn EXCEPT ![s].pc = "stamp",
                        ![s].later = FromTarget(txn[s].target),
                        ![s].new = before[txn[s].target]]
  /\ UNCHANGED <<database, disk>>

StartReset(s) ==
  /\ txn[s].pc = "idle"
  /\ row # NoRow
  /\ txn' = [txn EXCEPT ![s].pc = "active", ![s].loaded = row]
  /\ UNCHANGED <<database, disk>>

(* Taking the last of the list for the first.                              *)
Latest == CHOOSE p \in Active : \A q \in Active : q <= p

(* The first of the active operations in created_at order.                 *)
Earliest == CHOOSE p \in Active : \A q \in Active : p <= q

(* With nothing active reset changes nothing.                              *)
SelectActive(s) ==
  /\ txn[s].pc = "active"
  /\ IF Active = {}
       THEN End(s)
       ELSE txn' = [txn EXCEPT ![s].pc = "stamp",
                               ![s].later = Active,
                               ![s].new = before[Earliest]]
  /\ UNCHANGED <<database, disk>>

(* The flush writes the journal first: it waits for the rows another       *)
(* session has stamped.                                                    *)
StampOperations(s) ==
  /\ txn[s].pc = "stamp"
  /\ \A t \in Others(s) : Stamped(t) \cap txn[s].later = {}
  /\ txn' = [txn EXCEPT ![s].pc = "update"]
  /\ UNCHANGED <<database, disk>>

-----------------------------------------------------------------------------
(* The pointer's UPDATE, the commit and the rollback.                      *)

(* Only the columns that differ from what the session loaded are written.  *)
Changed(s) ==
  \/ txn[s].new # txn[s].loaded.path
  \/ height[txn[s].new] # txn[s].loaded.rows

Column(loaded, new, latest) == IF new # loaded THEN new ELSE latest

(* Forgetting to refresh the row count.                                    *)
NewVersionStaleCount(s) ==
  [path |-> Column(txn[s].loaded.path, txn[s].new, Seen(s).path),
   rows |-> Seen(s).rows]

(* The row once the UPDATE has been granted the lock.                      *)
NewVersion(s) ==
  [path |-> Column(txn[s].loaded.path, txn[s].new, Seen(s).path),
   rows |-> Column(txn[s].loaded.rows, height[txn[s].new], Seen(s).rows)]

UpdateRow(s) ==
  /\ txn[s].pc = "update"
  /\ Changed(s) => \A t \in Others(s) : ~ HoldsRow(t)
  /\ txn' = [txn EXCEPT
       ![s].pc = IF txn[s].turn THEN "turn" ELSE "done",
       ![s].own = IF Changed(s) THEN NewVersion(s) ELSE @]
  /\ UNCHANGED <<database, disk>>

(* The UPDATE of an operation names it by its primary key: it also writes  *)
(* over the undone_at that a rival has committed since the SELECT.         *)
WrittenOver(s) == undone \cap txn[s].later

Commit(s) ==
  /\ txn[s].pc \in {"turn", "done"}
  /\ row' = Seen(s)
  /\ original' = IF txn[s].v0 # NoPath THEN txn[s].v0 ELSE original
  /\ committed' = committed \cup txn[s].inserted
  /\ undone' = undone \cup txn[s].later
  /\ restamped' = restamped \cup WrittenOver(s)
  /\ End(s)
  /\ UNCHANGED disk

(* ProviderError, any other exception, a cancelled request or a crash: the *)
(* database forgets the transaction, the files stay.                       *)
Rollback(s) ==
  /\ Busy(s)
  /\ End(s)
  /\ UNCHANGED <<database, disk>>

-----------------------------------------------------------------------------
(* What a session does by itself once a request has started.               *)
Advance(s) ==
  \/ SnapshotSource(s)
  \/ CreateRow(s)
  \/ InspectTool(s)
  \/ MutateTool(s)
  \/ SelectTarget(s)
  \/ SelectLater(s)
  \/ SelectActive(s)
  \/ StampOperations(s)
  \/ UpdateRow(s)
  \/ Commit(s)

Request(s) ==
  \/ StartTurn(s)
  \/ StartReset(s)
  \/ \E p \in committed : StartUndo(s, p)

Next == \E s \in Session : Request(s) \/ Advance(s) \/ Rollback(s)

(* A started request keeps going: provider calls time out, and a row lock  *)
(* is granted in the order it was asked for.                               *)
Fairness == \A s \in Session : SF_vars(Advance(s))

Spec == Init /\ [][Next]_vars /\ Fairness

(* Session s has begun to change the working copy: a turn from its first   *)
(* new file on, undo and reset from their SELECT of the row.               *)
Changes(s) == txn[s].pc \notin {"idle", "turn"} \/ HoldsRow(s)

(* The same program when one session at a time changes the working copy;   *)
(* turns that have only looked at it run beside that.                      *)
OneAtATime == \A s, t \in Session : Changes(s) /\ Changes(t) => s = t

SerialNext == Next /\ OneAtATime'

SerialSpec == Init /\ [][SerialNext]_vars

(* The same program when turns overlap as they will and only undo and      *)
(* reset take turns: no two requests at once hold operations to stamp.     *)
OneUndoAtATime ==
  \A s, t \in Session : txn[s].later # {} /\ txn[t].later # {} => s = t

UndoNext == Next /\ OneUndoAtATime'

UndoSpec == Init /\ [][UndoNext]_vars

-----------------------------------------------------------------------------
(* Properties.                                                             *)

TypeOK ==
  /\ row \in Row
  /\ original \in PathOrNone
  /\ committed \subseteq Path
  /\ undone \subseteq Path
  /\ restamped \subseteq Path
  /\ written \in 0..MaxFiles
  /\ height \in [Path -> Nat]
  /\ before \in [Path -> PathOrNone]
  /\ txn \in [Session -> Txn]

(* However requests overlap, the committed pointer and the committed       *)
(* journal name only the original and snapshots whose journal row is       *)
(* committed: never a file that a rolled-back turn left behind             *)
(* (run_operation bases a step on working_copy.snapshot_path).             *)
OnRecord == {original} \cup committed

CommittedReferences ==
  /\ row # NoRow => row.path \in OnRecord
  /\ \A p \in committed : before[p] \in OnRecord

(* The operations one turn has made follow from one another without a gap, *)
(* whatever other requests commit meanwhile, and the session's pointer is  *)
(* at the last of them: a turn reads its own writes across its tool calls. *)
TurnIsChain ==
  \A s \in Session : LET mine == txn[s].inserted IN
    /\ \A p, q \in mine :
         (p < q /\ \A o \in mine : o <= p \/ q <= o) => before[q] = p
    /\ (txn[s].pc = "turn" /\ mine # {}) =>
         (txn[s].own.path \in mine /\ \A p \in mine : p <= txn[s].own.path)

(* An operation is undone once: the undone_at that tells when, and with    *)
(* which undo or reset, is never written over by a later one, and no undo  *)
(* counts as its own what another has undone (undo_operation refuses an    *)
(* operation that is undone already and stamps the active ones only).      *)
UndoneOnce == restamped = {}

(* A working copy, once committed, is never replaced by that of a rival    *)
(* first turn: two turns that both found no row cannot both create it.     *)
OneWorkingCopy == [][original # NoPath => original' = original]_vars

(* Every request ends, though turns hold the row lock while the model      *)
(* thinks and undos wait for each other's journal rows.                    *)
RequestsEnd == \A s \in Session : Busy(s) ~> ~ Busy(s)

(* The snapshot shown, sampled and exported is the state after every       *)
(* applied and non-undone operation: the result of the newest active one,  *)
(* or the original when none is active.                                    *)
ShowsActiveOperations ==
  row # NoRow =>
    /\ Active = {} => row.path = original
    /\ Active # {} => row.path \in Active /\ \A p \in Active : p <= row.path

(* The row_count shown next to the snapshot is the height of that snapshot.*)
RowCountMatchesSnapshot == row # NoRow => row.rows = height[row.path]

(* When changes do not overlap the working copy is a straight-line         *)
(* history: the live versions are the original and the active operations.  *)
History == INSTANCE LinearHistory
  WITH live <- (IF row = NoRow THEN {} ELSE {original} \cup Active),
       current <- row.path

HistorySpec == History!Spec
=============================================================================

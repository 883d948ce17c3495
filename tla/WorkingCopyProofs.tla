-------------------------- MODULE WorkingCopyProofs --------------------------
(***************************************************************************)
(* Theorems about WorkingCopy for any number of overlapping requests.      *)
(*                                                                         *)
(* The inductive invariant says, of the committed rows, what               *)
(* CommittedReferences says and, of each open transaction, that it too     *)
(* names only snapshots on record or its own: that is why a commit keeps   *)
(* the committed rows closed and a rollback needs no repair.               *)
(***************************************************************************)
EXTENDS WorkingCopy, WellFoundedInduction, TLAPS

(* The snapshots a transaction x may name.                                 *)
Known(x) == (OnRecord \cup x.inserted \cup {x.v0}) \ {NoPath}

RecordInv ==
  /\ row = NoRow <=> original = NoPath
  /\ row # NoRow => row.path \in OnRecord \ {NoPath}
  /\ original = NoPath => committed = {}
  /\ original <= written
  /\ \A p \in committed : p <= written /\ before[p] \in OnRecord \ {NoPath}

(* What a transaction x refers to.                                         *)
Refers(x) ==
  /\ x.v0 <= written
  /\ x.v0 # NoPath => original = NoPath /\ x.own # NoRow
  /\ (x.inserted # {} \/ x.own # NoRow) => original # NoPath \/ x.v0 # NoPath
  /\ x.own # NoRow => x.own.path \in Known(x)
  /\ \A p \in x.inserted : p <= written /\ before[p] \in Known(x)
  /\ x.pc \in {"stamp", "update"} => x.new \in Known(x)
  /\ x.pc = "create" => x.new \in 1..written /\ x.own = NoRow
  /\ x.pc \in {"target", "later"} => x.target \in committed

(* How the operations of a turn follow from one another.                   *)
Follows(x) ==
  /\ x.pc = "idle" => x = NoTxn
  /\ x.pc \in {"turn", "create"} => x.turn
  /\ ~ x.turn => x.inserted = {}
  /\ x.pc \in {"target", "later", "active", "stamp", "done"} => ~ x.turn
  /\ \A p, q \in x.inserted :
       (p < q /\ \A o \in x.inserted : o <= p \/ q <= o) => before[q] = p
  /\ (x.pc = "turn" /\ x.inserted # {}) =>
       (x.own.path \in x.inserted /\ \A p \in x.inserted : p <= x.own.path)
  /\ (x.pc = "update" /\ x.turn) =>
       /\ x.new \in x.inserted /\ \A p \in x.inserted : p <= x.new
       /\ x.loaded.path # x.new

OneCreator ==
  \A s, t \in Session : txn[s].v0 # NoPath /\ txn[t].v0 # NoPath => s = t

IInv ==
  /\ TypeOK
  /\ RecordInv
  /\ \A s \in Session : Refers(txn[s]) /\ Follows(txn[s])
  /\ OneCreator

-----------------------------------------------------------------------------

LEMMA NoTxnOK == NoTxn \in Txn /\ (TypeOK => Refers(NoTxn)) /\ Follows(NoTxn)
<1> USE BoundAssumption DEF NoTxn, NoRow, NoPath
<1>1. NoTxn \in Txn
  BY DEF Txn, Row, PathOrNone, Path, Place
<1>2. TypeOK => Refers(NoTxn)
  BY DEF Refers, TypeOK
<1>3. Follows(NoTxn)
  BY DEF Follows
<1> QED BY <1>1, <1>2, <1>3

LEMMA InitIInv == Init => IInv
<1> SUFFICES ASSUME Init PROVE IInv
  OBVIOUS
<1> USE BoundAssumption DEF Init, NoRow, NoPath
<1>1. TypeOK
  BY NoTxnOK DEF TypeOK, Row, PathOrNone, Path
<1>2. RecordInv
  BY DEF RecordInv
<1>3. \A s \in Session : Refers(txn[s]) /\ Follows(txn[s])
  BY <1>1, NoTxnOK
<1>4. OneCreator
  BY DEF OneCreator, NoTxn
<1> QED BY <1>1, <1>2, <1>3, <1>4 DEF IInv

(* A step that changes only the transaction of s, into x.                  *)
LEMMA LocalStep ==
  ASSUME IInv, NEW s \in Session, NEW x \in Txn,
         txn' = [txn EXCEPT ![s] = x], UNCHANGED <<database, disk>>,
         Refers(x), Follows(x),
         x.v0 # NoPath => \A t \in Others(s) : txn[t].v0 = NoPath
  PROVE  IInv'
<1> USE DEF database, disk
<1>1. txn \in [Session -> Txn]
  BY DEF IInv, TypeOK
<1>2. TypeOK'
  BY <1>1 DEF IInv, TypeOK
<1>3. RecordInv'
  BY DEF IInv, RecordInv, OnRecord
<1>4. ASSUME NEW t \in Session
      PROVE  (Refers(txn[t]) /\ Follows(txn[t]))'
  <2>1. txn'[t] = IF t = s THEN x ELSE txn[t]
    BY <1>1
  <2>2. \A y : Refers(y) => Refers(y)'
    BY DEF Refers, Known, OnRecord
  <2>3. \A y : Follows(y) => Follows(y)'
    BY DEF Follows
  <2> QED BY <2>1, <2>2, <2>3 DEF IInv
<1>5. OneCreator'
  BY <1>1 DEF IInv, OneCreator, Others
<1> QED BY <1>2, <1>3, <1>4, <1>5 DEF IInv

(* The same when s ends without committing.                                *)
LEMMA EndStep ==
  ASSUME IInv, NEW s \in Session, End(s), UNCHANGED <<database, disk>>
  PROVE  IInv'
<1>1. TypeOK
  BY DEF IInv
<1>2. NoTxn.v0 = NoPath
  BY DEF NoTxn
<1> QED BY <1>1, <1>2, NoTxnOK, LocalStep DEF End

-----------------------------------------------------------------------------
(* One lemma per action of an agent turn.                                  *)

LEMMA StartTurnStep ==
  ASSUME IInv, NEW s \in Session, StartTurn(s) PROVE IInv'
<1> DEFINE x == [NoTxn EXCEPT !.pc = "turn", !.turn = TRUE]
<1>1. txn[s] = NoTxn
  BY DEF IInv, Follows, StartTurn
<1>2. txn' = [txn EXCEPT ![s] = x]
  BY <1>1 DEF StartTurn
<1>3. x \in Txn
  BY NoTxnOK DEF Txn, Place
<1>4. Refers(x) /\ Follows(x) /\ x.v0 = NoPath
  BY NoTxnOK DEF IInv, Refers, Follows, Known, NoTxn, NoRow, NoPath
<1> QED BY <1>2, <1>3, <1>4, LocalStep DEF StartTurn

LEMMA InspectToolStep ==
  ASSUME IInv, NEW s \in Session, InspectTool(s) PROVE IInv'
<1> DEFINE x == [txn[s] EXCEPT !.calls = @ + 1]
<1>1. txn[s] \in Txn /\ Refers(txn[s]) /\ Follows(txn[s])
  BY DEF IInv, TypeOK
<1>2. txn' = [txn EXCEPT ![s] = x]
  BY DEF InspectTool
<1>3. x \in Txn
  BY <1>1, BoundAssumption DEF Txn, InspectTool, CallsLeft
<1>4. Refers(x) /\ Follows(x)
  BY <1>1 DEF Refers, Follows, Known, InspectTool, Txn
<1>5. x.v0 # NoPath => \A t \in Others(s) : txn[t].v0 = NoPath
  BY <1>1 DEF IInv, OneCreator, Others, Txn
<1> QED BY <1>2, <1>3, <1>4, <1>5, LocalStep DEF InspectTool

LEMMA CreateRowStep ==
  ASSUME IInv, NEW s \in Session, CreateRow(s) PROVE IInv'
<1>1. CASE ~ UniqueRowFits
  BY <1>1, EndStep DEF CreateRow
<1>2. CASE UniqueRowFits
  <2> DEFINE new == txn[s].new
             x == [txn[s] EXCEPT !.pc = "turn", !.v0 = new,
                                 !.own = [path |-> new, rows |-> height[new]]]
  <2>1. txn[s] \in Txn /\ Refers(txn[s]) /\ Follows(txn[s]) /\ TypeOK
    BY DEF IInv, TypeOK
  <2>2. txn' = [txn EXCEPT ![s] = x]
    BY <1>2 DEF CreateRow
  <2>3. new \in Path /\ new # NoPath /\ new <= written /\ txn[s].pc = "create"
    BY <2>1, BoundAssumption DEF Refers, CreateRow, TypeOK, Path, NoPath
  <2>4. x \in Txn
    BY <2>1, <2>3 DEF Txn, TypeOK, Place, Row, PathOrNone, Path
  <2>5. original = NoPath /\ txn[s].inserted = {}
    BY <1>2, <2>1, <2>3 DEF UniqueRowFits, Refers
  <2>6. Refers(x)
    BY <2>1, <2>3, <2>5 DEF Refers, Known, NoRow, Txn, NoPath
  <2>7. Follows(x)
    BY <2>1, <2>3, <2>5 DEF Follows, Txn
  <2>8. \A t \in Others(s) : txn[t].v0 = NoPath
    BY DEF CreateRow
  <2> QED BY <2>2, <2>4, <2>6, <2>7, <2>8, LocalStep DEF CreateRow
<1> QED BY <1>1, <1>2

(* A new file leaves what is said of the older ones alone.                 *)
LEMMA WriteKeeps ==
  ASSUME IInv, NEW r \in Rows, NEW b \in PathOrNone, WriteSnapshot(r, b),
         UNCHANGED database
  PROVE  /\ written + 1 \in Path /\ written' = written + 1
         /\ before'[written + 1] = b
         /\ \A p \in Path : p <= written => before'[p] = before[p]
         /\ \A y \in Txn : Refers(y) => Refers(y)'
         /\ \A y \in Txn : Refers(y) /\ Follows(y) => Follows(y)'
         /\ RecordInv'
         /\ height' \in [Path -> Nat] /\ before' \in [Path -> PathOrNone]
<1>1. TypeOK
  BY DEF IInv
<1>2. written \in Nat /\ written + 1 \in Path /\ written' = written + 1
  BY <1>1, BoundAssumption DEF TypeOK, WriteSnapshot, Path
<1>3. before'[written + 1] = b
  BY <1>1, <1>2 DEF TypeOK, WriteSnapshot
<1>4. \A p \in Path : p <= written => before'[p] = before[p]
  BY <1>1, <1>2 DEF TypeOK, WriteSnapshot, Path
<1>5. ASSUME NEW y \in Txn, Refers(y)
      PROVE  Refers(y)'
  <2>1. Known(y)' = Known(y)
    BY DEF Known, OnRecord, database
  <2>2. y.inserted \subseteq Path /\ y.v0 \in Nat
    BY BoundAssumption DEF Txn, PathOrNone
  <2> QED BY <1>2, <1>4, <1>5, <2>1, <2>2 DEF Refers, database, Path
<1>6. ASSUME NEW y \in Txn, Refers(y), Follows(y)
      PROVE  Follows(y)'
  <2>1. \A p \in y.inserted : before'[p] = before[p]
    BY <1>4, <1>6 DEF Txn, Refers
  <2> QED BY <1>6, <2>1 DEF Follows
<1>7. RecordInv'
  <2>1. \A p \in committed : p \in Path /\ p <= written
    BY <1>1 DEF IInv, TypeOK, RecordInv
  <2>2. original \in Nat
    BY <1>1, BoundAssumption DEF TypeOK, PathOrNone
  <2> QED BY <1>2, <1>4, <2>1, <2>2
          DEF IInv, RecordInv, OnRecord, database, Path
<1>8. height' \in [Path -> Nat] /\ before' \in [Path -> PathOrNone]
  BY <1>1, RowsAssumption DEF TypeOK, WriteSnapshot
<1> QED BY <1>2, <1>3, <1>4, <1>5, <1>6, <1>7, <1>8

(* A step of s that writes a file and changes its transaction into x.      *)
LEMMA WriteStep ==
  ASSUME IInv, NEW s \in Session, NEW x \in Txn,
         NEW r \in Rows, NEW b \in PathOrNone, WriteSnapshot(r, b),
         txn' = [txn EXCEPT ![s] = x], UNCHANGED database,
         Refers(x)', Follows(x)', x.v0 = txn[s].v0
  PROVE  IInv'
<1>1. txn \in [Session -> Txn] /\ TypeOK
  BY DEF IInv, TypeOK
<1>2. TypeOK'
  <2>1. written' \in 0..MaxFiles
    BY WriteKeeps, BoundAssumption DEF Path
  <2>2. height' \in [Path -> Nat] /\ before' \in [Path -> PathOrNone]
    BY WriteKeeps
  <2> QED BY <1>1, <2>1, <2>2 DEF TypeOK, database
<1>3. RecordInv'
  BY WriteKeeps
<1>4. ASSUME NEW t \in Session
      PROVE  (Refers(txn[t]) /\ Follows(txn[t]))'
  <2>1. txn'[t] = IF t = s THEN x ELSE txn[t]
    BY <1>1
  <2>2. CASE t = s
    BY <2>1, <2>2
  <2>3. CASE t # s
    <3>1. txn[t] \in Txn /\ Refers(txn[t]) /\ Follows(txn[t])
      BY <1>1 DEF IInv
    <3> QED BY <2>1, <2>3, <3>1, WriteKeeps
  <2> QED BY <2>2, <2>3
<1>5. OneCreator'
  BY <1>1 DEF IInv, OneCreator
<1> QED BY <1>2, <1>3, <1>4, <1>5 DEF IInv

(* What a SELECT returns is on record or the session's own.                *)
LEMMA SeenKnown ==
  ASSUME IInv, NEW s \in Session, Seen(s) # NoRow
  PROVE  Seen(s) \in Row /\ Seen(s).path \in Known(txn[s])
<1>1. txn[s] \in Txn /\ Refers(txn[s]) /\ row \in Row
  BY DEF IInv, TypeOK
<1>2. CASE txn[s].own # NoRow
  BY <1>1, <1>2 DEF Seen, Refers, Txn
<1>3. CASE txn[s].own = NoRow
  BY <1>1, <1>3 DEF Seen, IInv, RecordInv, Known
<1> QED BY <1>2, <1>3

(* Known snapshots are files that have been written.                       *)
LEMMA KnownWritten ==
  ASSUME IInv, NEW s \in Session, NEW p \in Known(txn[s])
  PROVE  p \in Path /\ p <= written
<1>1. txn[s] \in Txn /\ Refers(txn[s]) /\ TypeOK /\ RecordInv
  BY DEF IInv, TypeOK
<1> QED BY <1>1, BoundAssumption
        DEF Known, OnRecord, Refers, RecordInv, TypeOK, Txn, PathOrNone, Path,
            NoPath

LEMMA SnapshotSourceStep ==
  ASSUME IInv, NEW s \in Session, SnapshotSource(s) PROVE IInv'
<1> PICK x : x = [txn[s] EXCEPT !.pc = "create", !.new = written + 1]
  OBVIOUS
<1> PICK y : y = txn[s]
  OBVIOUS
<1>1. y \in Txn /\ Refers(y) /\ Follows(y) /\ TypeOK
  BY DEF IInv, TypeOK
<1>2. PICK r \in Rows : WriteSnapshot(r, NoPath)
  BY DEF SnapshotSource
<1>3. txn' = [txn EXCEPT ![s] = x] /\ UNCHANGED database
  BY DEF SnapshotSource
<1>4. NoPath \in PathOrNone
  BY BoundAssumption DEF PathOrNone, NoPath
<1>5. written + 1 \in Path /\ written' = written + 1 /\ written \in Nat
  BY <1>1, <1>2, <1>3, <1>4, WriteKeeps DEF TypeOK
<1>6. x \in Txn
  <2>1. written + 1 \in PathOrNone
    BY <1>5, BoundAssumption DEF Path, PathOrNone
  <2> QED BY <1>1, <2>1 DEF Txn, Place
<1>7. y.own = NoRow /\ y.v0 = NoPath /\ y.pc = "turn"
  BY <1>1 DEF SnapshotSource, Seen, Refers
<1>8. Refers(y)' /\ Follows(y)'
  BY <1>1, <1>2, <1>3, <1>4, WriteKeeps
<1>9. Refers(x)'
  BY <1>1, <1>5, <1>6, <1>7, <1>8 DEF Refers, Known, Txn
<1>10. Follows(x)'
  BY <1>1, <1>6, <1>7, <1>8 DEF Follows, Txn
<1>11. x.v0 = txn[s].v0
  BY <1>1 DEF Txn
<1> QED
  BY <1>2, <1>3, <1>4, <1>6, <1>9, <1>10, <1>11, WriteStep

LEMMA MutateToolStep ==
  ASSUME IInv, NEW s \in Session, MutateTool(s) PROVE IInv'
<1> PICK n : n = written + 1
  OBVIOUS
<1> PICK x : x = [txn[s] EXCEPT !.pc = "update", !.calls = @ + 1,
                                !.loaded = Seen(s), !.new = n,
                                !.inserted = @ \cup {n}]
  OBVIOUS
<1> PICK y : y = txn[s]
  OBVIOUS
<1> PICK b : b = Seen(s).path
  OBVIOUS
<1>1. y \in Txn /\ Refers(y) /\ Follows(y) /\ TypeOK
  BY DEF IInv, TypeOK
<1>2. PICK r \in Rows : WriteSnapshot(r, b)
  BY DEF MutateTool
<1>3. txn' = [txn EXCEPT ![s] = x] /\ UNCHANGED database
  BY DEF MutateTool
<1>4. Seen(s) \in Row /\ b \in Known(y) /\ b \in Path /\ b <= written
  BY SeenKnown, KnownWritten DEF MutateTool
<1>5. b \in PathOrNone
  BY <1>4, BoundAssumption DEF Path, PathOrNone
<1>6. n \in Path /\ written' = n /\ written \in Nat /\ n \in Nat
  BY <1>1, <1>2, <1>3, <1>5, WriteKeeps DEF TypeOK
<1>7. x \in Txn
  <2>1. n \in PathOrNone
    BY <1>6, BoundAssumption DEF Path, PathOrNone
  <2>2. y.calls + 1 \in 0..MaxCalls
    BY <1>1, BoundAssumption DEF MutateTool, CallsLeft, Txn
  <2>3. y.inserted \cup {n} \in SUBSET Path
    BY <1>1, <1>6 DEF Txn
  <2> QED BY <1>1, <1>4, <2>1, <2>2, <2>3 DEF Txn, Place
<1>8. Refers(y)' /\ Follows(y)' /\ before'[n] = b
  BY <1>1, <1>2, <1>3, <1>5, WriteKeeps
<1>9. y.pc = "turn" /\ y.turn /\ Seen(s) # NoRow
  BY <1>1 DEF MutateTool, Follows
<1>10. y.inserted # {} => b = y.own.path
  <2>1. y.inserted # {} => y.own.path \in y.inserted /\ y.inserted \subseteq Path
    BY <1>1, <1>9 DEF Follows, Txn
  <2> QED BY <2>1 DEF Seen, NoRow, NoPath, Path
<1>11. \A p \in y.inserted : p <= written /\ p # n /\ p \in Nat
  BY <1>1, <1>6 DEF Refers, Txn, Path
<1>12. x.inserted = y.inserted \cup {n} /\ x.v0 = y.v0 /\ x.own = y.own
       /\ x.pc = "update" /\ x.new = n /\ x.loaded.path = b /\ x.turn
  BY <1>1, <1>9 DEF Txn
<1>13. Known(x)' = Known(y)' \cup {n}
  BY <1>6, <1>12 DEF Known, Path, NoPath
<1>14. original # NoPath \/ y.v0 # NoPath
  BY <1>1, <1>9 DEF Seen, IInv, RecordInv, Refers
<1>15. Refers(x)'
  <2>1. b \in Known(x)'
    BY <1>3, <1>4, <1>13 DEF Known, OnRecord, database
  <2>2. \A p \in x.inserted : p <= n /\ before'[p] \in Known(x)'
    BY <1>6, <1>8, <1>11, <1>12, <1>13, <2>1 DEF Refers
  <2>3. x.v0 <= n /\ (x.v0 # NoPath => original' = NoPath /\ x.own # NoRow)
    BY <1>6, <1>8, <1>12 DEF Refers
  <2>4. x.own # NoRow => x.own.path \in Known(x)'
    BY <1>8, <1>12, <1>13 DEF Refers
  <2> QED BY <1>3, <1>6, <1>12, <1>13, <1>14, <2>2, <2>3, <2>4
          DEF Refers, database
<1>16. Follows(x)'
  <2>1. ASSUME NEW p \in x.inserted, NEW q \in x.inserted, p < q,
               \A o \in x.inserted : o <= p \/ q <= o
        PROVE  before'[q] = p
    <3>1. CASE q = n
      <4>1. p \in y.inserted /\ y.own.path = b /\ b \in y.inserted
        BY <1>1, <1>6, <1>9, <1>10, <1>12, <2>1, <3>1 DEF Follows
      <4>2. b <= p /\ p <= b
        BY <1>1, <1>9, <1>11, <1>6, <1>12, <2>1, <3>1, <4>1 DEF Follows
      <4> QED BY <1>8, <1>11, <3>1, <4>1, <4>2
    <3>2. CASE q # n
      <4>1. q \in y.inserted /\ p \in y.inserted
        BY <1>6, <1>11, <1>12, <2>1, <3>2
      <4> QED BY <1>8, <1>12, <2>1, <4>1 DEF Follows
    <3> QED BY <3>1, <3>2
  <2>2. \A p \in x.inserted : p <= n
    BY <1>6, <1>11, <1>12
  <2> QED BY <1>4, <1>6, <1>12, <2>1, <2>2 DEF Follows
<1> QED
  BY <1>2, <1>3, <1>5, <1>7, <1>12, <1>15, <1>16, WriteStep

-----------------------------------------------------------------------------
(* One lemma per action of undo and reset.                                 *)

LEMMA StartUndoStep ==
  ASSUME IInv, NEW s \in Session, NEW p \in committed, StartUndo(s, p)
  PROVE  IInv'
<1> DEFINE x == [NoTxn EXCEPT !.pc = "target", !.loaded = row, !.target = p]
<1>1. txn[s] = NoTxn /\ TypeOK
  BY DEF IInv, Follows, StartUndo
<1>2. txn' = [txn EXCEPT ![s] = x]
  BY <1>1 DEF StartUndo
<1>3. x \in Txn
  <2>1. p \in PathOrNone /\ row \in Row
    BY <1>1, BoundAssumption DEF TypeOK, Path, PathOrNone
  <2> QED BY <2>1, NoTxnOK DEF Txn, Place
<1>4. Refers(x) /\ Follows(x) /\ x.v0 = NoPath
  BY <1>1, NoTxnOK DEF Refers, Follows, Known, NoTxn, NoRow, NoPath
<1> QED BY <1>2, <1>3, <1>4, LocalStep DEF StartUndo

LEMMA StartResetStep ==
  ASSUME IInv, NEW s \in Session, StartReset(s) PROVE IInv'
<1> DEFINE x == [NoTxn EXCEPT !.pc = "active", !.loaded = row]
<1>1. txn[s] = NoTxn /\ TypeOK
  BY DEF IInv, Follows, StartReset
<1>2. txn' = [txn EXCEPT ![s] = x]
  BY <1>1 DEF StartReset
<1>3. x \in Txn
  BY <1>1, NoTxnOK DEF TypeOK, Txn, Place
<1>4. Refers(x) /\ Follows(x) /\ x.v0 = NoPath
  BY <1>1, NoTxnOK DEF Refers, Follows, Known, NoTxn, NoRow, NoPath
<1> QED BY <1>2, <1>3, <1>4, LocalStep DEF StartReset

LEMMA SelectTargetStep ==
  ASSUME IInv, NEW s \in Session, SelectTarget(s) PROVE IInv'
<1>1. CASE txn[s].target \in undone
  BY <1>1, EndStep DEF SelectTarget
<1>2. CASE txn[s].target \notin undone
  <2> DEFINE x == [txn[s] EXCEPT !.pc = "later"]
  <2>1. txn[s] \in Txn /\ Refers(txn[s]) /\ Follows(txn[s])
    BY DEF IInv, TypeOK
  <2>2. txn' = [txn EXCEPT ![s] = x]
    BY <1>2 DEF SelectTarget
  <2>3. x \in Txn
    BY <2>1 DEF Txn, Place
  <2>4. Refers(x) /\ Follows(x) /\ x.v0 = txn[s].v0
    BY <2>1 DEF Refers, Follows, Known, SelectTarget, Txn
  <2>5. x.v0 # NoPath => \A t \in Others(s) : txn[t].v0 = NoPath
    BY <2>4 DEF IInv, OneCreator, Others
  <2> QED BY <2>2, <2>3, <2>4, <2>5, LocalStep DEF SelectTarget
<1> QED BY <1>1, <1>2

(* Choosing what to stamp and where to go: undo and reset alike.           *)
LEMMA StampChosen ==
  ASSUME IInv, NEW s \in Session, txn[s].pc \in {"later", "active"},
         NEW L \in SUBSET Path, NEW p \in committed,
         txn' = [txn EXCEPT ![s].pc = "stamp", ![s].later = L,
                            ![s].new = before[p]],
         UNCHANGED <<database, disk>>
  PROVE  IInv'
<1> DEFINE x == [txn[s] EXCEPT !.pc = "stamp", !.later = L, !.new = before[p]]
<1>1. txn[s] \in Txn /\ Refers(txn[s]) /\ Follows(txn[s]) /\ TypeOK
  BY DEF IInv, TypeOK
<1>2. txn' = [txn EXCEPT ![s] = x]
  OBVIOUS
<1>3. before[p] \in OnRecord \ {NoPath} /\ before[p] \in PathOrNone
  BY <1>1 DEF IInv, RecordInv, TypeOK
<1>4. x \in Txn
  BY <1>1, <1>3 DEF Txn, Place
<1>5. Refers(x) /\ Follows(x) /\ x.v0 = txn[s].v0
  BY <1>1, <1>3 DEF Refers, Follows, Known, Txn
<1>6. x.v0 # NoPath => \A t \in Others(s) : txn[t].v0 = NoPath
  BY <1>5 DEF IInv, OneCreator, Others
<1> QED BY <1>2, <1>4, <1>5, <1>6, LocalStep

LEMMA SelectLaterStep ==
  ASSUME IInv, NEW s \in Session, SelectLater(s) PROVE IInv'
<1>1. FromTarget(txn[s].target) \in SUBSET Path
  BY DEF IInv, TypeOK, FromTarget, Active
<1>2. txn[s].target \in committed
  BY DEF IInv, Refers, SelectLater
<1> QED BY <1>1, <1>2, StampChosen DEF SelectLater

(* The CHOOSE of the earliest active operation has a witness.              *)
LEMMA EarliestIsActive ==
  ASSUME TypeOK, Active # {}
  PROVE  Earliest \in Active /\ \A q \in Active : Earliest <= q
<1>1. Active \subseteq Nat
  BY DEF TypeOK, Active, Path
<1>2. IsWellFoundedOn(OpToRel(<, Nat), Nat)
  BY NatLessThanWellFounded
<1>3. PICK p \in Active : \A q \in Active : <<q, p>> \notin OpToRel(<, Nat)
  BY <1>1, <1>2, WFMin
<1>4. \A q \in Active : ~ (q < p)
  BY <1>1, <1>3 DEF OpToRel
<1>5. \A q \in Active : p <= q
  BY <1>1, <1>4
<1> QED BY <1>3, <1>5 DEF Earliest

LEMMA SelectActiveStep ==
  ASSUME IInv, NEW s \in Session, SelectActive(s) PROVE IInv'
<1>1. CASE Active = {}
  BY <1>1, EndStep DEF SelectActive
<1>2. CASE Active # {}
  <2>1. TypeOK /\ Active \in SUBSET Path
    BY DEF IInv, TypeOK, Active
  <2>2. Earliest \in committed
    BY <1>2, <2>1, EarliestIsActive DEF Active
  <2> QED BY <1>2, <2>1, <2>2, StampChosen DEF SelectActive
<1> QED BY <1>1, <1>2

LEMMA StampOperationsStep ==
  ASSUME IInv, NEW s \in Session, StampOperations(s) PROVE IInv'
<1> DEFINE x == [txn[s] EXCEPT !.pc = "update"]
<1>1. txn[s] \in Txn /\ Refers(txn[s]) /\ Follows(txn[s])
  BY DEF IInv, TypeOK
<1>2. txn' = [txn EXCEPT ![s] = x]
  BY DEF StampOperations
<1>3. x \in Txn
  BY <1>1 DEF Txn, Place
<1>4. Refers(x) /\ Follows(x) /\ x.v0 = txn[s].v0
  BY <1>1 DEF Refers, Follows, Known, StampOperations, Txn
<1>5. x.v0 # NoPath => \A t \in Others(s) : txn[t].v0 = NoPath
  BY <1>4 DEF IInv, OneCreator, Others
<1> QED BY <1>2, <1>3, <1>4, <1>5, LocalStep DEF StampOperations

-----------------------------------------------------------------------------
(* The pointer's UPDATE, the commit and the rollback.                      *)

(* The UPDATE leaves the pointer at the new snapshot, or where a newer     *)
(* version of the row had it.                                              *)
LEMMA NewVersionKnown ==
  ASSUME IInv, NEW s \in Session, txn[s].pc = "update"
  PROVE  /\ NewVersion(s) \in Row
         /\ NewVersion(s).path \in Known(txn[s])
         /\ txn[s].turn => NewVersion(s).path = txn[s].new
<1>1. txn[s] \in Txn /\ Refers(txn[s]) /\ Follows(txn[s]) /\ TypeOK
  BY DEF IInv, TypeOK
<1>2. txn[s].new \in Known(txn[s])
  BY <1>1 DEF Refers
<1>3. txn[s].new \in Path
  BY <1>2, KnownWritten
<1>4. height[txn[s].new] \in Nat
  BY <1>1, <1>3 DEF TypeOK
<1>5. Seen(s) \in Row /\ Seen(s).path \in Known(txn[s])
  <2>1. row # NoRow \/ txn[s].own # NoRow
    BY <1>1, <1>2 DEF IInv, RecordInv, Refers, Known, OnRecord
  <2> QED BY <2>1, SeenKnown DEF Seen
<1>6. txn[s].new \in PathOrNone
  BY <1>1 DEF Txn
<1> QED BY <1>1, <1>2, <1>4, <1>5, <1>6 DEF NewVersion, Column, Row, Follows

LEMMA UpdateRowStep ==
  ASSUME IInv, NEW s \in Session, UpdateRow(s) PROVE IInv'
<1> PICK y : y = txn[s]
  OBVIOUS
<1> PICK v : v = IF Changed(s) THEN NewVersion(s) ELSE y.own
  OBVIOUS
<1> DEFINE x == [y EXCEPT !.pc = IF y.turn THEN "turn" ELSE "done",
                          !.own = v]
<1>1. y \in Txn /\ Refers(y) /\ Follows(y) /\ y.pc = "update"
  BY DEF IInv, TypeOK, UpdateRow
<1>2. txn' = [txn EXCEPT ![s] = x]
  BY DEF UpdateRow
<1>3. v \in Row /\ (v # NoRow => v.path \in Known(y))
  BY <1>1, NewVersionKnown DEF Txn, Refers
<1>4. y.turn => v.path = y.new
  BY <1>1, NewVersionKnown DEF Follows, Changed
<1>5. original # NoPath \/ y.v0 # NoPath
  BY <1>1 DEF Refers, Known, OnRecord, IInv, RecordInv
<1>6. x \in Txn
  BY <1>1, <1>3 DEF Txn, Place
<1>7. y.v0 # NoPath => v # NoRow
  <2>1. ASSUME Changed(s) PROVE NewVersion(s) # NoRow
    BY <1>1, NewVersionKnown DEF Known, NoRow
  <2> QED BY <1>1, <2>1 DEF Refers
<1>8. Refers(x)
  BY <1>1, <1>3, <1>5, <1>6, <1>7 DEF Refers, Known, Txn
<1>9. Follows(x)
  BY <1>1, <1>4, <1>6 DEF Follows, Txn
<1>10. x.v0 = txn[s].v0
  BY <1>1 DEF Txn
<1>11. x.v0 # NoPath => \A t \in Others(s) : txn[t].v0 = NoPath
  BY <1>10 DEF IInv, OneCreator, Others
<1> QED BY <1>2, <1>6, <1>8, <1>9, <1>11, LocalStep DEF UpdateRow

(* What s knows is what is on record once it has committed.                *)
LEMMA CommitRecords ==
  ASSUME IInv, NEW s \in Session, Commit(s)
  PROVE  /\ OnRecord' \ {NoPath} = Known(txn[s])
         /\ original # NoPath => original' = original
         /\ RecordInv'
<1> PICK y : y = txn[s]
  OBVIOUS
<1>1. y \in Txn /\ Refers(y) /\ TypeOK /\ RecordInv
  BY DEF IInv, TypeOK
<1>2. /\ original' = IF y.v0 # NoPath THEN y.v0 ELSE original
      /\ committed' = committed \cup y.inserted
      /\ written' = written /\ before' = before
      /\ row' = Seen(s)
  BY DEF Commit, disk
<1>3. OnRecord' \ {NoPath} = Known(y)
  BY <1>1, <1>2 DEF OnRecord, Known, Refers
<1>4. original # NoPath => original' = original
  BY <1>1, <1>2 DEF Refers
<1>5. row' = NoRow <=> original' = NoPath
  BY <1>1, <1>2 DEF Refers, RecordInv, Seen
<1>6. row' # NoRow => row'.path \in OnRecord' \ {NoPath}
  BY <1>2, <1>3, SeenKnown
<1>7. original' = NoPath => committed' = {}
  BY <1>1, <1>2 DEF Refers, RecordInv
<1>8. original' <= written'
  BY <1>1, <1>2 DEF Refers, RecordInv
<1>9. ASSUME NEW p \in committed'
      PROVE  p <= written' /\ before'[p] \in OnRecord' \ {NoPath}
  <2>1. CASE p \in committed
    BY <1>1, <1>2, <1>3, <2>1 DEF RecordInv, Known
  <2>2. CASE p \in y.inserted
    BY <1>1, <1>2, <1>3, <2>2 DEF Refers
  <2> QED BY <1>2, <2>1, <2>2
<1> QED BY <1>3, <1>4, <1>5, <1>6, <1>7, <1>8, <1>9 DEF RecordInv

LEMMA CommitStep ==
  ASSUME IInv, NEW s \in Session, Commit(s) PROVE IInv'
<1> PICK y : y = txn[s]
  OBVIOUS
<1>1. y \in Txn /\ Refers(y) /\ TypeOK /\ RecordInv /\ y.pc \in {"turn", "done"}
  BY DEF IInv, TypeOK, Commit
<1>2. /\ original' = IF y.v0 # NoPath THEN y.v0 ELSE original
      /\ committed' = committed \cup y.inserted
      /\ undone' = undone \cup y.later
      /\ restamped' = restamped \cup (undone \cap y.later)
      /\ written' = written /\ height' = height /\ before' = before
      /\ row' = Seen(s)
      /\ txn' = [txn EXCEPT ![s] = NoTxn]
  BY DEF Commit, End, WrittenOver, disk
<1>3. TypeOK'
  <2>1. Seen(s) \in Row
    BY <1>1 DEF Seen, TypeOK, Txn
  <2>2. y.v0 \in PathOrNone /\ y.inserted \subseteq Path /\ y.later \subseteq Path
    BY <1>1 DEF Txn
  <2>3. txn' \in [Session -> Txn]
    BY <1>1, <1>2, NoTxnOK DEF TypeOK
  <2> QED BY <1>1, <1>2, <2>1, <2>2, <2>3 DEF TypeOK
<1>4. RecordInv'
  BY CommitRecords
<1>5. ASSUME NEW t \in Session
      PROVE  (Refers(txn[t]) /\ Follows(txn[t]))'
  <2> PICK z : z = txn[t]
    OBVIOUS
  <2>1. CASE t = s
    <3>1. txn'[t] = NoTxn
      BY <1>1, <1>2, <2>1 DEF TypeOK
    <3>2. Refers(NoTxn)'
      BY <1>1, <1>2, BoundAssumption DEF Refers, NoTxn, NoRow, NoPath, TypeOK
    <3> QED BY <3>1, <3>2, NoTxnOK DEF Follows, NoTxn
  <2>2. CASE t # s
    <3>1. txn'[t] = z /\ Refers(z) /\ Follows(z)
      BY <1>1, <1>2, <2>2 DEF TypeOK, IInv
    <3>2. Known(z) \subseteq Known(z)'
      <4>1. OnRecord \ {NoPath} \subseteq OnRecord' \ {NoPath}
        BY <1>2, CommitRecords DEF Known, OnRecord
      <4> QED BY <4>1 DEF Known
    <3>3. z.v0 # NoPath => original' = NoPath
      BY <1>2, <2>2, <3>1 DEF IInv, OneCreator, Refers
    <3>4. original # NoPath => original' # NoPath
      BY CommitRecords
    <3>5. Refers(z)'
      BY <1>2, <3>1, <3>2, <3>3, <3>4 DEF Refers
    <3>6. Follows(z)'
      BY <1>2, <3>1 DEF Follows
    <3> QED BY <3>1, <3>5, <3>6
  <2> QED BY <2>1, <2>2
<1>6. OneCreator'
  BY <1>1, <1>2 DEF IInv, OneCreator, NoTxn, TypeOK
<1> QED BY <1>3, <1>4, <1>5, <1>6 DEF IInv

LEMMA RollbackStep ==
  ASSUME IInv, NEW s \in Session, Rollback(s) PROVE IInv'
BY EndStep DEF Rollback

LEMMA StutterStep == IInv /\ UNCHANGED vars => IInv'
BY DEF IInv, TypeOK, RecordInv, Refers, Follows, Known, OnRecord, OneCreator,
       vars

LEMMA NextIInv == IInv /\ [Next]_vars => IInv'
<1> SUFFICES ASSUME IInv, Next PROVE IInv'
  BY StutterStep
<1>1. ASSUME NEW s \in Session, Request(s) PROVE IInv'
  BY <1>1, StartTurnStep, StartResetStep, StartUndoStep DEF Request
<1>2. ASSUME NEW s \in Session, Advance(s) PROVE IInv'
  BY <1>2, SnapshotSourceStep, CreateRowStep, InspectToolStep, MutateToolStep,
     SelectTargetStep, SelectLaterStep, SelectActiveStep, StampOperationsStep,
     UpdateRowStep, CommitStep
     DEF Advance
<1>3. ASSUME NEW s \in Session, Rollback(s) PROVE IInv'
  BY <1>3, RollbackStep
<1> QED BY <1>1, <1>2, <1>3 DEF Next

-----------------------------------------------------------------------------
(* The theorems.                                                           *)

(* Every behaviour of the program keeps the inductive invariant.           *)
THEOREM IInvHolds == Spec => []IInv
BY InitIInv, NextIInv, PTL DEF Spec

(* The variables keep their types: no file number, tool-call count or      *)
(* place of a request outside its range.                                   *)
THEOREM TypeCorrect == Spec => []TypeOK
<1>1. IInv => TypeOK
  BY DEF IInv
<1> QED BY <1>1, IInvHolds, PTL

(* The committed pointer and journal name only the original and committed  *)
(* operations, however many requests overlap.                              *)
THEOREM CommittedReferencesHold == Spec => []CommittedReferences
<1>1. IInv => CommittedReferences
  BY DEF IInv, RecordInv, CommittedReferences
<1> QED BY <1>1, IInvHolds, PTL

(* A turn reads its own writes: its operations form a chain, whatever      *)
(* commits in between.                                                     *)
THEOREM TurnIsChainHolds == Spec => []TurnIsChain
<1>1. IInv => TurnIsChain
  BY DEF IInv, Follows, TurnIsChain
<1> QED BY <1>1, IInvHolds, PTL

(* Only a commit changes the database.                                     *)
LEMMA DatabaseSteps ==
  ASSUME IInv, Next
  PROVE  UNCHANGED database \/ \E s \in Session : Commit(s)
<1>1. ASSUME NEW s \in Session, Request(s) \/ Rollback(s)
      PROVE  UNCHANGED database
  BY <1>1 DEF Request, StartTurn, StartReset, StartUndo, Rollback
<1>2. ASSUME NEW s \in Session, Advance(s)
      PROVE  UNCHANGED database \/ Commit(s)
  BY <1>2
     DEF Advance, SnapshotSource, CreateRow, InspectTool, MutateTool,
         SelectTarget, SelectLater, SelectActive, StampOperations, UpdateRow
<1> QED BY <1>1, <1>2 DEF Next

(* Once there is a working copy, no rival first turn replaces it.          *)
THEOREM OneWorkingCopyHolds == Spec => OneWorkingCopy
<1>1. IInv /\ [Next]_vars => [original # NoPath => original' = original]_vars
  BY DatabaseSteps, CommitRecords DEF database
<1> QED BY <1>1, IInvHolds, PTL DEF Spec, OneWorkingCopy

-----------------------------------------------------------------------------
(* One undo or reset at a time: what the requests hold to stamp is not     *)
(* undone yet, and no other request holds anything to stamp.               *)
UndoInv ==
  /\ restamped = {}
  /\ \A s \in Session : txn[s].later \cap undone = {}
  /\ OneUndoAtATime

(* A request selects what it will stamp among the active operations; any   *)
(* other step but the commit leaves what it holds, or drops it.            *)
LEMMA LaterSteps ==
  ASSUME IInv, NEW s \in Session, Request(s) \/ Advance(s) \/ Rollback(s),
         NEW t \in Session
  PROVE  txn'[t].later \in {{}, txn[t].later} \/ txn'[t].later \cap undone = {}
<1>1. txn \in [Session -> Txn]
  BY DEF IInv, TypeOK
<1>2. CASE Request(s)
  BY <1>1, <1>2 DEF Request, StartTurn, StartReset, StartUndo, Txn
<1>3. CASE SelectLater(s) \/ SelectActive(s)
  <2>1. PICK x : txn' = [txn EXCEPT ![s] = x] /\ x.later \subseteq Active
    <3>1. CASE SelectLater(s)
      <4> DEFINE x == [txn[s] EXCEPT !.pc = "stamp",
                                     !.later = FromTarget(txn[s].target),
                                     !.new = before[txn[s].target]]
      <4>1. txn' = [txn EXCEPT ![s] = x]
        BY <3>1 DEF SelectLater
      <4>2. x.later = FromTarget(txn[s].target)
        BY <1>1 DEF Txn
      <4> QED BY <4>1, <4>2 DEF FromTarget
    <3>2. CASE SelectActive(s) /\ Active # {}
      <4> DEFINE x == [txn[s] EXCEPT !.pc = "stamp", !.later = Active,
                                     !.new = before[Earliest]]
      <4>1. txn' = [txn EXCEPT ![s] = x]
        BY <3>2 DEF SelectActive
      <4>2. x.later = Active
        BY <1>1 DEF Txn
      <4> QED BY <4>1, <4>2
    <3>3. CASE SelectActive(s) /\ Active = {}
      <4>1. txn' = [txn EXCEPT ![s] = NoTxn]
        BY <3>3 DEF SelectActive, End
      <4>2. NoTxn.later = {}
        BY DEF NoTxn
      <4> QED BY <4>1, <4>2
    <3> QED BY <1>3, <3>1, <3>2, <3>3
  <2> QED BY <1>1, <2>1 DEF Active
<1>4. CASE SnapshotSource(s) \/ CreateRow(s) \/ InspectTool(s) \/ MutateTool(s)
  BY <1>1, <1>4
     DEF SnapshotSource, CreateRow, InspectTool, MutateTool, End, NoTxn, Txn
<1>5. CASE SelectTarget(s) \/ StampOperations(s) \/ UpdateRow(s)
  BY <1>1, <1>5 DEF SelectTarget, StampOperations, UpdateRow, End, NoTxn, Txn
<1>6. CASE Commit(s) \/ Rollback(s)
  BY <1>1, <1>6 DEF Commit, Rollback, End, NoTxn
<1> QED BY <1>2, <1>3, <1>4, <1>5, <1>6 DEF Advance

LEMMA UndoStep == IInv /\ UndoInv /\ [UndoNext]_vars => UndoInv'
<1> SUFFICES ASSUME IInv, UndoInv, [UndoNext]_vars PROVE UndoInv'
  OBVIOUS
<1>1. CASE UNCHANGED vars
  BY <1>1 DEF UndoInv, OneUndoAtATime, vars
<1>2. CASE UndoNext
  <2>1. PICK s \in Session : Request(s) \/ Advance(s) \/ Rollback(s)
    BY <1>2 DEF UndoNext, Next
  <2>2. OneUndoAtATime'
    BY <1>2 DEF UndoNext
  <2>3. CASE UNCHANGED database
    BY <2>1, <2>2, <2>3, LaterSteps DEF UndoInv, database
  <2>4. CASE \E r \in Session : Commit(r)
    <3>1. PICK r \in Session : Commit(r)
      BY <2>4
    <3>2. /\ undone' = undone \cup txn[r].later
          /\ restamped' = restamped \cup (undone \cap txn[r].later)
          /\ txn' = [txn EXCEPT ![r] = NoTxn]
      BY <3>1 DEF Commit, End, WrittenOver
    <3>3. restamped' = {}
      BY <3>2 DEF UndoInv
    <3>4. ASSUME NEW t \in Session
          PROVE  txn'[t].later \cap undone' = {}
      <4>1. CASE t = r
        BY <3>2, <4>1 DEF IInv, TypeOK, NoTxn
      <4>2. CASE t # r
        <5>1. txn'[t] = txn[t]
          BY <3>2, <4>2 DEF IInv, TypeOK
        <5>2. txn[t].later = {} \/ txn[r].later = {}
          BY <4>2 DEF UndoInv, OneUndoAtATime
        <5> QED BY <3>2, <5>1, <5>2 DEF UndoInv
      <4> QED BY <4>1, <4>2
    <3> QED BY <2>2, <3>3, <3>4 DEF UndoInv
  <2>5. Next
    BY <1>2 DEF UndoNext
  <2> QED BY <2>3, <2>4, <2>5, DatabaseSteps
<1> QED BY <1>1, <1>2

(* While no two undos or resets hold operations to stamp at once, however  *)
(* many turns run between their statements, none stamps what is undone.    *)
THEOREM UndoneOnceHolds == UndoSpec => []UndoneOnce
<1>1. Init => UndoInv
  BY DEF Init, UndoInv, OneUndoAtATime, NoTxn
<1>2. [UndoNext]_vars => [Next]_vars
  BY DEF UndoNext
<1>3. UndoInv => UndoneOnce
  BY DEF UndoInv, UndoneOnce
<1> QED BY <1>1, <1>2, <1>3, InitIInv, NextIInv, UndoStep, PTL DEF UndoSpec
=============================================================================

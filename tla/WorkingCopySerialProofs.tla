----------------------- MODULE WorkingCopySerialProofs -----------------------
(***************************************************************************)
(* Theorems about WorkingCopy when changes do not overlap (SerialSpec):    *)
(* turns that only look at the working copy may run beside a change.       *)
(*                                                                         *)
(* The inductive invariant says that the working copy is a straight line:  *)
(* each active operation was made from the active one just before it, and  *)
(* the pointer is at the last.  An open transaction carries what its       *)
(* commit will make of that line.                                          *)
(***************************************************************************)
EXTENDS WorkingCopyProofs

(* From original o, the operations A make one line that ends at t.         *)
Linear(o, A, t) ==
  /\ o # NoPath
  /\ t \in {o} \cup A
  /\ \A p \in A : /\ o < p /\ p <= t
                  /\ before[p] \in {o} \cup A
                  /\ before[p] < p
                  /\ \A q \in A : q < p => q <= before[p]

(* The row and the original as transaction x sees them.                    *)
Top(x) == IF x.own # NoRow THEN x.own ELSE row
Origin(x) == IF x.v0 # NoPath THEN x.v0 ELSE original

(* A turn extends the line with its own operations.                        *)
Extends(x) ==
  /\ x.later = {}
  /\ \A p \in committed, q \in x.inserted : p < q
  /\ (x.v0 = NoPath /\ x.inserted = {}) => x.own = NoRow
  /\ (x.pc = "turn" /\ Top(x) # NoRow) =>
       /\ Linear(Origin(x), Active \cup x.inserted, Top(x).path)
       /\ Top(x).rows = height[Top(x).path]
  /\ x.pc = "update" =>
       /\ Linear(Origin(x), Active \cup x.inserted, x.new)
       /\ x.loaded = Top(x)

(* What undo and reset stamp, and where they put the pointer.              *)
Chosen(x) ==
  \/ /\ x.target \in Active
     /\ x.later = FromTarget(x.target)
     /\ x.new = before[x.target]
  \/ /\ x.target = NoPath
     /\ x.later = Active
     /\ x.new = original

(* Undo and reset cut the line.                                            *)
Cuts(x) ==
  /\ x.v0 = NoPath /\ x.inserted = {}
  /\ x.pc \in {"target", "later", "active", "stamp", "update"} =>
       row # NoRow /\ x.own = NoRow /\ x.loaded = row
  /\ x.pc = "later" => x.target \in Active
  /\ x.pc = "active" => x.target = NoPath
  /\ x.pc \in {"stamp", "update", "done"} => Chosen(x) /\ row # NoRow
  /\ x.pc = "done" => Top(x) = [path |-> x.new, rows |-> height[x.new]]

Aligned(x) == (x.turn => Extends(x)) /\ (~ x.turn => Cuts(x))

Straight == row # NoRow => Linear(original, Active, row.path)

SerialInv ==
  /\ IInv
  /\ OneAtATime
  /\ undone \subseteq committed
  /\ Straight
  /\ RowCountMatchesSnapshot
  /\ \A s \in Session : Aligned(txn[s])

-----------------------------------------------------------------------------
(* Facts about lines.                                                      *)

(* Cutting a line before one of its operations leaves the line that ends   *)
(* where that operation started.                                           *)
LEMMA LinearCut ==
  ASSUME NEW o \in Nat, NEW A \in SUBSET Path, NEW t, Linear(o, A, t),
         NEW p \in A
  PROVE  Linear(o, A \ {q \in A : q >= p}, before[p])
<1> DEFINE B == A \ {q \in A : q >= p}
<1>1. A \subseteq Nat /\ before[p] \in Nat /\ B = {q \in A : q < p}
  <2>1. A \subseteq Nat
    BY DEF Path
  <2>2. before[p] \in {o} \cup A
    BY DEF Linear
  <2>3. \A q \in A : ~ (q >= p) <=> q < p
    BY <2>1
  <2> QED BY <2>1, <2>2, <2>3
<1>2. before[p] \in {o} \cup B
  BY <1>1 DEF Linear
<1>3. ASSUME NEW q \in B
      PROVE  /\ o < q /\ q <= before[p]
             /\ before[q] \in {o} \cup B
             /\ before[q] < q
             /\ \A r \in B : r < q => r <= before[q]
  <2>1. q \in A /\ q < p /\ before[q] \in Nat
    BY <1>1, <1>3 DEF Linear
  <2>2. before[q] \in {o} \cup B
    BY <1>1, <2>1 DEF Linear
  <2> QED BY <1>1, <2>1, <2>2 DEF Linear
<1> QED BY <1>2, <1>3 DEF Linear

(* The first operation of a line was made from the original.               *)
LEMMA LinearFirst ==
  ASSUME NEW o \in Nat, NEW A \in SUBSET Path, NEW t, Linear(o, A, t),
         NEW p \in A, \A q \in A : p <= q
  PROVE  before[p] = o
<1>1. A \subseteq Nat
  BY DEF Path
<1>2. before[p] \in {o} \cup A /\ before[p] < p
  BY DEF Linear
<1>3. before[p] \notin A
  <2> SUFFICES ASSUME before[p] \in A PROVE FALSE
    OBVIOUS
  <2>1. p <= before[p]
    OBVIOUS
  <2>2. p \in Nat /\ before[p] \in Nat
    BY <1>1
  <2> QED BY <1>2, <2>1, <2>2
<1> QED BY <1>2, <1>3

(* The end of a line is the greatest on it.                                *)
LEMMA LinearTop ==
  ASSUME NEW o \in Nat, NEW A \in SUBSET Nat, NEW t, Linear(o, A, t)
  PROVE  t \in {o} \cup A /\ \A w \in {o} \cup A : w <= t
<1>1. t \in {o} \cup A /\ \A w \in A : o < w /\ w <= t
  BY DEF Linear
<1>2. CASE t = o
  BY <1>1, <1>2
<1>3. CASE t \in A
  <2>1. o < t /\ t \in Nat
    BY <1>1, <1>3
  <2> QED BY <1>1, <2>1
<1> QED BY <1>1, <1>2, <1>3

(* A line of written files can be continued with a new file.               *)
LEMMA LinearGrow ==
  ASSUME TypeOK, NEW o \in Nat, NEW A \in SUBSET Path, NEW t, Linear(o, A, t),
         o <= written, \A p \in A : p <= written,
         NEW n \in Path, n = written + 1, before' = [before EXCEPT ![n] = t]
  PROVE  Linear(o, A \cup {n}, n)'
<1> PICK B : B = A \cup {n}
  OBVIOUS
<1>1. A \subseteq Nat /\ written \in Nat /\ n \in Nat /\ t \in Nat
  BY BoundAssumption DEF TypeOK, Path, Linear
<1>2. t <= written /\ \A p \in A : p <= t
  BY DEF Linear
<1>3. before'[n] = t /\ \A p \in A : before'[p] = before[p]
  BY <1>1 DEF TypeOK
<1>4. ASSUME NEW p \in B
      PROVE  /\ o < p /\ p <= n
             /\ before'[p] \in {o} \cup B
             /\ before'[p] < p
             /\ \A q \in B : q < p => q <= before'[p]
  <2>1. CASE p = n
    BY <1>1, <1>2, <1>3, <2>1 DEF Linear
  <2>2. CASE p # n
    BY <1>1, <1>2, <1>3, <1>4, <2>2 DEF Linear
  <2> QED BY <2>1, <2>2
<1> QED BY <1>4 DEF Linear

(* A new file leaves the lines through older files as they were.           *)
LEMMA LinearKept ==
  ASSUME TypeOK, NEW r, NEW b, WriteSnapshot(r, b),
         NEW o \in Nat, NEW A \in SUBSET Path, NEW t, Linear(o, A, t),
         \A p \in A : p <= written
  PROVE  Linear(o, A, t)'
<1>1. A \subseteq Path /\ written \in Nat
  BY BoundAssumption DEF TypeOK
<1>2. \A p \in A : p # written + 1
  BY <1>1 DEF Path
<1>3. \A p \in A : before'[p] = before[p]
  BY <1>1, <1>2 DEF WriteSnapshot, TypeOK
<1> QED BY <1>3 DEF Linear

-----------------------------------------------------------------------------
(* What a step of one session leaves to show.                              *)

LEMMA NoTxnAligned == Aligned(NoTxn) /\ Aligned(NoTxn)'
BY DEF Aligned, Cuts, Extends, NoTxn

(* A turn that has so far only looked.                                     *)
Looks(x) ==
  /\ x.pc = "turn" /\ x.turn
  /\ x.own = NoRow /\ x.v0 = NoPath /\ x.inserted = {} /\ x.later = {}

LEMMA LooksAligned ==
  /\ Straight /\ RowCountMatchesSnapshot =>
       \A x : Looks(x) => Aligned(x)
  /\ Straight' /\ RowCountMatchesSnapshot' =>
       \A x : Looks(x) => Aligned(x)'
<1>1. ASSUME Straight, RowCountMatchesSnapshot, NEW x, Looks(x)
      PROVE  Aligned(x)
  <2>1. Top(x) = row /\ Origin(x) = original /\ Active \cup x.inserted = Active
    BY <1>1 DEF Looks, Top, Origin
  <2> QED BY <1>1, <2>1
      DEF Looks, Aligned, Extends, Straight, RowCountMatchesSnapshot
<1>2. ASSUME Straight', RowCountMatchesSnapshot', NEW x, Looks(x)
      PROVE  Aligned(x)'
  <2>1. Top(x)' = row' /\ Origin(x)' = original'
        /\ (Active \cup x.inserted)' = Active'
    BY <1>2 DEF Looks, Top, Origin
  <2> QED BY <1>2, <2>1
      DEF Looks, Aligned, Extends, Straight, RowCountMatchesSnapshot
<1> QED BY <1>1, <1>2

(* A turn without a row of its own has only looked.                        *)
LEMMA HasOnlyLooked ==
  ASSUME SerialInv, NEW s \in Session, ~ Changes(s)
  PROVE  txn[s] = NoTxn \/ Looks(txn[s])
<1> PICK y : y = txn[s]
  OBVIOUS
<1>1. /\ y \in Txn /\ Refers(y) /\ Follows(y) /\ Aligned(y)
      /\ y.pc \in {"idle", "turn"} /\ y.own = NoRow
  BY DEF SerialInv, IInv, TypeOK, Changes, HoldsRow
<1>2. CASE y.pc = "turn"
  <2>1. y.v0 = NoPath /\ y.inserted = {}
    BY <1>1, <1>2 DEF Refers, Follows, Txn, NoRow, Path, NoPath
  <2> QED BY <1>1, <1>2, <2>1 DEF Follows, Aligned, Extends, Looks
<1> QED BY <1>1, <1>2 DEF Follows

(* While s changes the working copy, before or after the step, the others  *)
(* only look.                                                              *)
LEMMA Alone ==
  ASSUME SerialInv, OneAtATime', NEW s \in Session, NEW x \in Txn,
         txn' = [txn EXCEPT ![s] = x], Changes(s) \/ Changes(s)',
         NEW t \in Session, t # s
  PROVE  txn'[t] = NoTxn \/ Looks(txn'[t])
<1>1. txn \in [Session -> Txn]
  BY DEF SerialInv, IInv, TypeOK
<1>2. txn'[t] = txn[t]
  BY <1>1
<1>3. ~ Changes(t)
  BY <1>2 DEF SerialInv, OneAtATime, Changes, HoldsRow
<1> QED BY <1>2, <1>3, HasOnlyLooked

LEMMA SerialStep ==
  ASSUME SerialInv, IInv', OneAtATime', NEW s \in Session, NEW x \in Txn,
         txn' = [txn EXCEPT ![s] = x], Changes(s) \/ Changes(s)',
         Aligned(x)', (undone \subseteq committed)', Straight',
         RowCountMatchesSnapshot'
  PROVE  SerialInv'
<1>1. ASSUME NEW t \in Session PROVE Aligned(txn[t])'
  <2>1. CASE t = s
    <3>1. txn'[s] = x
      BY DEF SerialInv, IInv, TypeOK
    <3> QED BY <2>1, <3>1
  <2>2. CASE t # s
    <3>1. txn'[t] = NoTxn \/ Looks(txn'[t])
      BY <2>2, Alone
    <3> QED BY <3>1, NoTxnAligned, LooksAligned
  <2> QED BY <2>1, <2>2
<1> QED BY <1>1 DEF SerialInv

(* A step that changes nothing but the transaction of s.                   *)
LEMMA SerialLocalStep ==
  ASSUME SerialInv, IInv', OneAtATime', NEW s \in Session, NEW x \in Txn,
         txn' = [txn EXCEPT ![s] = x],
         UNCHANGED <<database, disk>>, Aligned(x)
  PROVE  SerialInv'
<1>1. \A y : Aligned(y) => Aligned(y)'
  BY DEF database, disk, Aligned, Extends, Cuts, Top, Origin, Linear, Chosen,
         Active, FromTarget
<1>2. (undone \subseteq committed)' /\ Straight' /\ RowCountMatchesSnapshot'
  BY DEF database, disk, SerialInv, Straight, Linear, Active,
         RowCountMatchesSnapshot
<1>3. \A t \in Session : Aligned(txn'[t])
  BY DEF SerialInv, IInv, TypeOK
<1>4. \A t \in Session : Aligned(txn[t])'
  BY <1>1, <1>3
<1> QED BY <1>2, <1>4 DEF SerialInv

LEMMA SerialEndStep ==
  ASSUME SerialInv, IInv', OneAtATime', NEW s \in Session, End(s),
         UNCHANGED <<database, disk>>
  PROVE  SerialInv'
BY NoTxnOK, NoTxnAligned, SerialLocalStep DEF End

(* What holds of the files the record names.                               *)
LEMMA RecordFacts ==
  ASSUME SerialInv
  PROVE  /\ TypeOK
         /\ original \in Nat /\ original <= written
         /\ Active \in SUBSET Path
         /\ \A p \in committed : p <= written
         /\ row # NoRow <=> original # NoPath
<1>1. TypeOK /\ RecordInv
  BY DEF SerialInv, IInv
<1> QED BY <1>1, BoundAssumption DEF TypeOK, RecordInv, PathOrNone, Active

LEMMA TxnFacts ==
  ASSUME SerialInv, NEW s \in Session
  PROVE  /\ txn[s] \in Txn /\ Refers(txn[s]) /\ Follows(txn[s])
         /\ Aligned(txn[s]) /\ Seen(s) = Top(txn[s])
BY DEF SerialInv, IInv, TypeOK, Seen, Top

-----------------------------------------------------------------------------
(* One lemma per action.                                                   *)

LEMMA SerialStartTurn ==
  ASSUME SerialInv, IInv', OneAtATime', NEW s \in Session, StartTurn(s)
  PROVE  SerialInv'
<1> PICK x : x = [NoTxn EXCEPT !.pc = "turn", !.turn = TRUE]
  OBVIOUS
<1>1. txn' = [txn EXCEPT ![s] = x]
  BY DEF SerialInv, IInv, Follows, StartTurn
<1>2. x.pc = "turn" /\ x.turn /\ x.later = {} /\ x.inserted = {}
      /\ x.v0 = NoPath /\ x.own = NoRow /\ x \in Txn
  BY NoTxnOK DEF NoTxn, Txn, Place
<1>3. Active \cup x.inserted = Active
  BY <1>2
<1>4. Aligned(x)
  BY <1>2, <1>3
     DEF Aligned, Extends, Top, Origin, SerialInv, Straight,
         RowCountMatchesSnapshot
<1> QED BY <1>1, <1>2, <1>4, SerialLocalStep DEF StartTurn

LEMMA SerialStartUndo ==
  ASSUME SerialInv, IInv', OneAtATime', NEW s \in Session, NEW p \in committed,
         StartUndo(s, p)
  PROVE  SerialInv'
<1> PICK x : x = [NoTxn EXCEPT !.pc = "target", !.loaded = row, !.target = p]
  OBVIOUS
<1>1. txn' = [txn EXCEPT ![s] = x]
  BY DEF SerialInv, IInv, Follows, StartUndo
<1>2. p \in PathOrNone /\ row \in Row
  BY RecordFacts, BoundAssumption DEF TypeOK, Path, PathOrNone
<1>3. x.pc = "target" /\ ~ x.turn /\ x.inserted = {} /\ x.v0 = NoPath
      /\ x.own = NoRow /\ x.loaded = row /\ x \in Txn
  BY <1>2, NoTxnOK DEF NoTxn, Txn, Place
<1>4. Aligned(x)
  BY <1>3 DEF Aligned, Cuts, StartUndo
<1> QED BY <1>1, <1>3, <1>4, SerialLocalStep DEF StartUndo

LEMMA SerialStartReset ==
  ASSUME SerialInv, IInv', OneAtATime', NEW s \in Session, StartReset(s)
  PROVE  SerialInv'
<1> PICK x : x = [NoTxn EXCEPT !.pc = "active", !.loaded = row]
  OBVIOUS
<1>1. txn' = [txn EXCEPT ![s] = x]
  BY DEF SerialInv, IInv, Follows, StartReset
<1>2. row \in Row
  BY RecordFacts DEF TypeOK
<1>3. x.pc = "active" /\ ~ x.turn /\ x.inserted = {} /\ x.v0 = NoPath
      /\ x.own = NoRow /\ x.loaded = row /\ x.target = NoPath /\ x \in Txn
  BY <1>2, NoTxnOK DEF NoTxn, Txn, Place
<1>4. Aligned(x)
  BY <1>3 DEF Aligned, Cuts, StartReset
<1> QED BY <1>1, <1>3, <1>4, SerialLocalStep DEF StartReset

LEMMA SerialInspectTool ==
  ASSUME SerialInv, IInv', OneAtATime', NEW s \in Session, InspectTool(s)
  PROVE  SerialInv'
<1> PICK x : x = [txn[s] EXCEPT !.calls = @ + 1]
  OBVIOUS
<1>1. txn' = [txn EXCEPT ![s] = x]
  BY DEF InspectTool
<1>2. x \in Txn
  BY TxnFacts, BoundAssumption DEF Txn, InspectTool, CallsLeft
<1>3. Aligned(x)
  BY TxnFacts DEF Txn, Aligned, Extends, Cuts, Top, Origin, Chosen
<1> QED BY <1>1, <1>2, <1>3, SerialLocalStep DEF InspectTool

(* A new file does not disturb what the committed rows say.                *)
LEMMA SerialWriteKeeps ==
  ASSUME SerialInv, NEW r, NEW b, WriteSnapshot(r, b), UNCHANGED database
  PROVE  /\ (undone \subseteq committed)'
         /\ Straight'
         /\ RowCountMatchesSnapshot'
<1>1. Straight'
  <2> SUFFICES ASSUME row # NoRow PROVE Linear(original, Active, row.path)'
    BY DEF Straight, database
  <2>1. Linear(original, Active, row.path)
    BY DEF SerialInv, Straight
  <2>2. \A p \in Active : p <= written
    BY RecordFacts DEF Active
  <2>3. PICK o : o = original
    OBVIOUS
  <2>4. PICK A : A = Active
    OBVIOUS
  <2>5. PICK t : t = row.path
    OBVIOUS
  <2>6. Linear(o, A, t)'
    BY <2>1, <2>2, <2>3, <2>4, <2>5, RecordFacts, LinearKept
  <2> QED BY <2>3, <2>4, <2>5, <2>6 DEF Active, database
<1>2. RowCountMatchesSnapshot'
  <2> SUFFICES ASSUME row # NoRow PROVE row.rows = height'[row.path]
    BY DEF RowCountMatchesSnapshot, database
  <2>1. row.path \in Path /\ row.path <= written /\ written \in Nat
    <3>1. row.path \in OnRecord \ {NoPath}
      BY DEF SerialInv, IInv, RecordInv
    <3>2. \A p \in OnRecord \ {NoPath} : p \in Path /\ p <= written
      BY RecordFacts, BoundAssumption
         DEF OnRecord, TypeOK, Path, PathOrNone, NoPath
    <3> QED BY <3>1, <3>2, RecordFacts, BoundAssumption DEF TypeOK
  <2>2. height'[row.path] = height[row.path]
    BY <2>1, RecordFacts DEF WriteSnapshot, TypeOK
  <2> QED BY <2>2 DEF SerialInv, RowCountMatchesSnapshot
<1>3. (undone \subseteq committed)'
  BY DEF SerialInv, database
<1> QED BY <1>1, <1>2, <1>3

LEMMA SerialSnapshotSource ==
  ASSUME SerialInv, IInv', OneAtATime', NEW s \in Session, SnapshotSource(s)
  PROVE  SerialInv'
<1> PICK y : y = txn[s]
  OBVIOUS
<1> PICK x : x = [txn[s] EXCEPT !.pc = "create", !.new = written + 1]
  OBVIOUS
<1>1. txn' = [txn EXCEPT ![s] = x] /\ UNCHANGED database
  BY DEF SnapshotSource
<1>2. PICK r \in Rows : WriteSnapshot(r, NoPath)
  BY DEF SnapshotSource
<1>3. y \in Txn /\ y.pc = "turn" /\ y.turn /\ y.own = NoRow /\ Aligned(y)
  BY TxnFacts DEF SnapshotSource, Top, Follows
<1>4. written + 1 \in PathOrNone
  BY <1>2, RecordFacts, BoundAssumption DEF WriteSnapshot, TypeOK, PathOrNone
<1>5. x \in Txn /\ x.pc = "create" /\ x.turn /\ x.own = NoRow
      /\ x.later = y.later /\ x.inserted = y.inserted
  BY <1>3, <1>4 DEF Txn, Place
<1>6. Aligned(x)'
  BY <1>1, <1>3, <1>5 DEF Aligned, Extends, database
<1>7. Changes(s)'
  BY <1>1, <1>5 DEF SerialInv, IInv, TypeOK, Changes
<1> QED BY <1>1, <1>2, <1>5, <1>6, <1>7, SerialWriteKeeps, SerialStep

LEMMA SerialCreateRow ==
  ASSUME SerialInv, IInv', OneAtATime', NEW s \in Session, CreateRow(s)
  PROVE  SerialInv'
<1>1. CASE ~ UniqueRowFits
  BY <1>1, SerialEndStep DEF CreateRow
<1>2. CASE UniqueRowFits
  <2> PICK y : y = txn[s]
    OBVIOUS
  <2> PICK n : n = txn[s].new
    OBVIOUS
  <2> PICK v : v = [path |-> n, rows |-> height[n]]
    OBVIOUS
  <2> PICK x : x = [txn[s] EXCEPT !.pc = "turn", !.v0 = n, !.own = v]
    OBVIOUS
  <2>1. txn' = [txn EXCEPT ![s] = x] /\ UNCHANGED <<database, disk>>
    BY <1>2 DEF CreateRow
  <2>2. y \in Txn /\ y.pc = "create" /\ y.turn /\ Aligned(y) /\ Refers(y)
    BY TxnFacts DEF CreateRow, Follows
  <2>3. n \in 1..written /\ n \in Path /\ n \in PathOrNone /\ n # NoPath
    BY <2>2, RecordFacts, BoundAssumption
       DEF Refers, TypeOK, Path, PathOrNone, NoPath
  <2>4. v \in Row /\ v # NoRow /\ v.path = n /\ v.rows = height[n]
    BY <2>3, RecordFacts DEF TypeOK, Row, NoRow
  <2>5. y.inserted = {} /\ Active = {}
    BY <1>2, <2>2 DEF Refers, UniqueRowFits, SerialInv, IInv, RecordInv, Active
  <2>6. x \in Txn /\ x.pc = "turn" /\ x.turn /\ x.own = v /\ x.v0 = n
        /\ x.later = y.later /\ x.inserted = {}
    BY <2>2, <2>3, <2>4, <2>5 DEF Txn, Place
  <2>7. Linear(n, Active \cup x.inserted, n)
    BY <2>3, <2>5, <2>6 DEF Linear
  <2>8. Aligned(x)
    BY <2>2, <2>3, <2>4, <2>6, <2>7 DEF Aligned, Extends, Top, Origin
  <2> QED BY <2>1, <2>6, <2>8, SerialLocalStep
<1> QED BY <1>1, <1>2

LEMMA SerialMutateTool ==
  ASSUME SerialInv, IInv', OneAtATime', NEW s \in Session, MutateTool(s)
  PROVE  SerialInv'
<1> PICK y : y = txn[s]
  OBVIOUS
<1> PICK n : n = written + 1
  OBVIOUS
<1> PICK top : top = Seen(s)
  OBVIOUS
<1> PICK b : b = Seen(s).path
  OBVIOUS
<1> PICK x : x = [txn[s] EXCEPT !.pc = "update", !.calls = @ + 1,
                                !.loaded = top, !.new = n,
                                !.inserted = @ \cup {n}]
  OBVIOUS
<1>1. txn' = [txn EXCEPT ![s] = x] /\ UNCHANGED database
  BY DEF MutateTool
<1>2. PICK r \in Rows : WriteSnapshot(r, b)
  BY DEF MutateTool
<1>3. y \in Txn /\ y.pc = "turn" /\ y.turn /\ Aligned(y) /\ Refers(y)
      /\ top = Top(y) /\ top # NoRow /\ b = top.path
  BY TxnFacts DEF MutateTool, Follows
<1>4. top \in Row
  BY SeenKnown DEF MutateTool, SerialInv
<1>5. TypeOK /\ written \in Nat /\ n \in Path /\ n \in PathOrNone /\ n \in Nat
  BY <1>2, RecordFacts, BoundAssumption
     DEF WriteSnapshot, TypeOK, Path, PathOrNone
<1>6. y.inserted \subseteq Path /\ y.inserted \cup {n} \in SUBSET Path
  BY <1>3, <1>5 DEF Txn
<1>7. y.calls + 1 \in 0..MaxCalls
  BY <1>3, BoundAssumption DEF MutateTool, CallsLeft, Txn
<1>8. x \in Txn /\ x.pc = "update" /\ x.turn /\ x.own = y.own /\ x.v0 = y.v0
      /\ x.loaded = top /\ x.new = n /\ x.inserted = y.inserted \cup {n}
      /\ x.later = y.later
  BY <1>3, <1>4, <1>5, <1>6, <1>7 DEF Txn, Place
<1> PICK o : o = Origin(y)
  OBVIOUS
<1> PICK A : A = Active \cup y.inserted
  OBVIOUS
<1>9. Linear(o, A, b)
  BY <1>3 DEF Aligned, Extends
<1>10. o \in Nat /\ o <= written
  BY <1>3, RecordFacts, BoundAssumption DEF Origin, Refers, Txn, PathOrNone
<1>11. A \in SUBSET Path /\ \A p \in A : p <= written
  BY <1>3, <1>6, RecordFacts DEF Active, Refers
<1>12. Linear(o, A \cup {n}, n)'
  BY <1>2, <1>5, <1>9, <1>10, <1>11, LinearGrow DEF WriteSnapshot
<1>13. /\ Origin(x)' = o /\ Top(x)' = top
       /\ (Active \cup x.inserted)' = A \cup {n}
  BY <1>1, <1>3, <1>8 DEF Origin, Top, Active, database
<1>14. \A p \in committed, q \in x.inserted : p < q
  <2>1. \A p \in committed : p \in Nat /\ p < n
    BY <1>5, RecordFacts DEF TypeOK, Path
  <2> QED BY <1>3, <1>8, <2>1 DEF Aligned, Extends
<1>15. Aligned(x)'
  <2>1. Linear(Origin(x), Active \cup x.inserted, x.new)'
    BY <1>8, <1>12, <1>13
  <2>2. x.later = {} /\ x.inserted # {}
    BY <1>3, <1>8 DEF Aligned, Extends
  <2> QED BY <1>1, <1>8, <1>13, <1>14, <2>1, <2>2 DEF Aligned, Extends, database
<1>16. Changes(s)'
  BY <1>1, <1>8 DEF SerialInv, IInv, TypeOK, Changes
<1> QED BY <1>1, <1>2, <1>8, <1>15, <1>16, SerialWriteKeeps, SerialStep

LEMMA SerialSelectTarget ==
  ASSUME SerialInv, IInv', OneAtATime', NEW s \in Session, SelectTarget(s)
  PROVE  SerialInv'
<1>1. CASE txn[s].target \in undone
  BY <1>1, SerialEndStep DEF SelectTarget
<1>2. CASE txn[s].target \notin undone
  <2> PICK y : y = txn[s]
    OBVIOUS
  <2> PICK x : x = [txn[s] EXCEPT !.pc = "later"]
    OBVIOUS
  <2>1. txn' = [txn EXCEPT ![s] = x] /\ UNCHANGED <<database, disk>>
    BY <1>2 DEF SelectTarget
  <2>2. y \in Txn /\ y.pc = "target" /\ Aligned(y) /\ Refers(y) /\ ~ y.turn
    BY TxnFacts DEF SelectTarget, Follows
  <2>3. y.target \in Active
    BY <1>2, <2>2 DEF Refers, Active
  <2>4. x \in Txn /\ x.pc = "later" /\ ~ x.turn /\ x.own = y.own
        /\ x.loaded = y.loaded /\ x.target = y.target
        /\ x.v0 = y.v0 /\ x.inserted = y.inserted
    BY <2>2 DEF Txn, Place
  <2>5. Aligned(x)
    BY <2>2, <2>3, <2>4 DEF Aligned, Cuts
  <2> QED BY <2>1, <2>4, <2>5, SerialLocalStep
<1> QED BY <1>1, <1>2

(* Undo and reset alike, once they have chosen.                            *)
LEMMA SerialStampChosen ==
  ASSUME SerialInv, IInv', OneAtATime', NEW s \in Session,
         txn[s].pc \in {"later", "active"}, NEW L \in SUBSET Path,
         NEW p \in PathOrNone,
         txn' = [txn EXCEPT ![s].pc = "stamp", ![s].later = L, ![s].new = p],
         UNCHANGED <<database, disk>>,
         \/ txn[s].target \in Active /\ L = FromTarget(txn[s].target)
            /\ p = before[txn[s].target]
         \/ txn[s].target = NoPath /\ L = Active /\ p = original
  PROVE  SerialInv'
<1> PICK y : y = txn[s]
  OBVIOUS
<1> PICK x : x = [txn[s] EXCEPT !.pc = "stamp", !.later = L, !.new = p]
  OBVIOUS
<1>1. txn' = [txn EXCEPT ![s] = x]
  OBVIOUS
<1>2. y \in Txn /\ y.pc \in {"later", "active"} /\ Aligned(y) /\ ~ y.turn
  BY TxnFacts DEF Follows
<1>3. x \in Txn /\ x.pc = "stamp" /\ ~ x.turn /\ x.own = y.own
      /\ x.loaded = y.loaded /\ x.target = y.target /\ x.later = L /\ x.new = p
      /\ x.v0 = y.v0 /\ x.inserted = y.inserted
  BY <1>2 DEF Txn, Place
<1>4. Aligned(x)
  BY <1>2, <1>3 DEF Aligned, Cuts, Chosen
<1> QED BY <1>1, <1>3, <1>4, SerialLocalStep

LEMMA SerialSelectLater ==
  ASSUME SerialInv, IInv', OneAtATime', NEW s \in Session, SelectLater(s)
  PROVE  SerialInv'
<1>1. txn[s].target \in Active
  BY TxnFacts DEF SelectLater, Aligned, Cuts, Follows
<1>2. FromTarget(txn[s].target) \in SUBSET Path
  BY RecordFacts DEF FromTarget
<1>3. before[txn[s].target] \in PathOrNone
  BY <1>1, RecordFacts DEF TypeOK
<1> QED BY <1>1, <1>2, <1>3, SerialStampChosen DEF SelectLater

LEMMA SerialSelectActive ==
  ASSUME SerialInv, IInv', OneAtATime', NEW s \in Session, SelectActive(s)
  PROVE  SerialInv'
<1>1. CASE Active = {}
  BY <1>1, SerialEndStep DEF SelectActive
<1>2. CASE Active # {}
  <2>1. txn[s].target = NoPath /\ row # NoRow
    BY TxnFacts DEF SelectActive, Aligned, Cuts, Follows
  <2>2. Linear(original, Active, row.path)
    BY <2>1 DEF SerialInv, Straight
  <2>3. Earliest \in Active /\ \A q \in Active : Earliest <= q
    BY <1>2, RecordFacts, EarliestIsActive
  <2>4. before[Earliest] = original
    BY <2>2, <2>3, RecordFacts, LinearFirst
  <2>5. original \in PathOrNone
    BY RecordFacts DEF TypeOK
  <2>6. txn' = [txn EXCEPT ![s].pc = "stamp", ![s].later = Active,
                           ![s].new = original]
    BY <1>2, <2>4 DEF SelectActive
  <2> QED BY <2>1, <2>5, <2>6, RecordFacts, SerialStampChosen DEF SelectActive
<1> QED BY <1>1, <1>2

LEMMA SerialStampOperations ==
  ASSUME SerialInv, IInv', OneAtATime', NEW s \in Session, StampOperations(s)
  PROVE  SerialInv'
<1> PICK y : y = txn[s]
  OBVIOUS
<1> PICK x : x = [txn[s] EXCEPT !.pc = "update"]
  OBVIOUS
<1>1. txn' = [txn EXCEPT ![s] = x] /\ UNCHANGED <<database, disk>>
  BY DEF StampOperations
<1>2. y \in Txn /\ y.pc = "stamp" /\ Aligned(y) /\ ~ y.turn
  BY TxnFacts DEF StampOperations, Follows
<1>3. x \in Txn /\ x.pc = "update" /\ ~ x.turn /\ x.own = y.own
      /\ x.loaded = y.loaded /\ x.target = y.target /\ x.later = y.later
      /\ x.new = y.new /\ x.v0 = y.v0 /\ x.inserted = y.inserted
  BY <1>2 DEF Txn, Place
<1>4. Aligned(x)
  BY <1>2, <1>3 DEF Aligned, Cuts, Chosen
<1> QED BY <1>1, <1>3, <1>4, SerialLocalStep

(* With nobody else changing it, the row the UPDATE finds is the one loaded*)
LEMMA SerialNewVersion ==
  ASSUME SerialInv, NEW s \in Session, txn[s].pc = "update"
  PROVE  /\ txn[s].loaded = Top(txn[s])
         /\ NewVersion(s) = [path |-> txn[s].new, rows |-> height[txn[s].new]]
         /\ ~ Changed(s) =>
              Top(txn[s]) = [path |-> txn[s].new, rows |-> height[txn[s].new]]
<1>1. txn[s].loaded = Top(txn[s]) /\ txn[s].loaded \in Row
  BY TxnFacts DEF Aligned, Extends, Cuts, Top, Txn
<1>2. NewVersion(s) = [path |-> txn[s].new, rows |-> height[txn[s].new]]
  BY <1>1, TxnFacts DEF NewVersion, Column
<1>3. ~ Changed(s) => txn[s].loaded =
                        [path |-> txn[s].new, rows |-> height[txn[s].new]]
  BY <1>1 DEF Changed, Row
<1> QED BY <1>1, <1>2, <1>3

LEMMA SerialUpdateRow ==
  ASSUME SerialInv, IInv', OneAtATime', NEW s \in Session, UpdateRow(s)
  PROVE  SerialInv'
<1> PICK y : y = txn[s]
  OBVIOUS
<1> PICK n : n = txn[s].new
  OBVIOUS
<1> PICK full : full = [path |-> n, rows |-> height[n]]
  OBVIOUS
<1> PICK v : v = IF Changed(s) THEN NewVersion(s) ELSE y.own
  OBVIOUS
<1> PICK pc : pc = IF y.turn THEN "turn" ELSE "done"
  OBVIOUS
<1> PICK x : x = [txn[s] EXCEPT !.pc = pc, !.own = v]
  OBVIOUS
<1>1. txn' = [txn EXCEPT ![s] = x] /\ UNCHANGED <<database, disk>>
  BY DEF UpdateRow
<1>2. y \in Txn /\ y.pc = "update" /\ Aligned(y) /\ Refers(y) /\ Follows(y)
  BY TxnFacts DEF UpdateRow
<1>3. v \in Row
  BY <1>2, NewVersionKnown DEF SerialInv, Txn
<1>4. x \in Txn /\ x.pc = pc /\ x.turn = y.turn /\ x.own = v
      /\ x.target = y.target /\ x.later = y.later /\ x.new = n
      /\ x.v0 = y.v0 /\ x.inserted = y.inserted
  BY <1>2, <1>3 DEF Txn, Place
<1>5. n # NoPath
  BY <1>2 DEF Refers, Known
<1>6. full # NoRow /\ full.path = n /\ full.rows = height[n]
  BY <1>5 DEF NoRow
<1>7. NewVersion(s) = full /\ (~ Changed(s) => Top(y) = full)
  BY <1>2, SerialNewVersion
<1>8. Top(x) = full
  BY <1>4, <1>6, <1>7 DEF Top
<1>9. CASE y.turn
  <2>1. n \in y.inserted
    BY <1>2, <1>9 DEF Follows
  <2>2. x.pc = "turn" /\ x.turn /\ Origin(x) = Origin(y)
    BY <1>4, <1>9 DEF Origin
  <2>3. Extends(x)
    BY <1>2, <1>4, <1>6, <1>8, <1>9, <2>1, <2>2 DEF Aligned, Extends
  <2> QED BY <1>1, <1>4, <2>2, <2>3, SerialLocalStep DEF Aligned
<1>10. CASE ~ y.turn
  <2>1. x.pc = "done" /\ ~ x.turn
    BY <1>4, <1>10
  <2>2. Cuts(x)
    BY <1>2, <1>4, <1>8, <1>10, <2>1 DEF Aligned, Cuts, Chosen
  <2> QED BY <1>1, <1>4, <2>1, <2>2, SerialLocalStep DEF Aligned
<1> QED BY <1>9, <1>10

-----------------------------------------------------------------------------
(* The commit.                                                             *)

(* What the commit of s makes of the committed rows.                       *)
LEMMA CommitEffect ==
  ASSUME SerialInv, NEW s \in Session, Commit(s), NEW y, y = txn[s]
  PROVE  /\ y \in Txn /\ Refers(y) /\ Follows(y) /\ Aligned(y)
         /\ y.turn => y.pc = "turn"
         /\ ~ y.turn => y.pc = "done"
         /\ row' = Top(y) /\ original' = Origin(y)
         /\ committed' = committed \cup y.inserted
         /\ undone' = undone \cup y.later
         /\ restamped' = restamped \cup (undone \cap y.later)
         /\ UNCHANGED disk /\ End(s)
BY TxnFacts DEF Commit, WrittenOver, Origin, Follows

(* A turn adds its operations to the end of the line.                      *)
LEMMA CommitTurn ==
  ASSUME SerialInv, NEW s \in Session, Commit(s), txn[s].turn
  PROVE  /\ Active' = Active \cup txn[s].inserted
         /\ (undone \subseteq committed)'
         /\ row' # NoRow =>
              /\ Linear(original', Active', row'.path)
              /\ row'.rows = height[row'.path]
<1> PICK y : y = txn[s]
  OBVIOUS
<1>1. y.later = {} /\ \A p \in committed, q \in y.inserted : p < q
  BY CommitEffect DEF Aligned, Extends
<1>2. \A q \in y.inserted : q \in Nat /\ q \notin undone
  <2>1. undone \subseteq committed /\ y.inserted \subseteq Path
    BY CommitEffect DEF SerialInv, Txn
  <2> QED BY <1>1, <2>1 DEF Path
<1>3. undone' = undone /\ committed' = committed \cup y.inserted
  <2>1. undone' = undone \cup y.later /\ committed' = committed \cup y.inserted
    BY CommitEffect
  <2> QED BY <1>1, <2>1
<1>4. Active' = Active \cup y.inserted
  BY <1>2, <1>3 DEF Active
<1>5. (undone \subseteq committed)'
  BY <1>3 DEF SerialInv
<1>6. ASSUME row' # NoRow
      PROVE  /\ Linear(original', Active', row'.path)
             /\ row'.rows = height[row'.path]
  <2>1. row' = Top(y) /\ original' = Origin(y) /\ Extends(y) /\ y.pc = "turn"
    BY CommitEffect DEF Aligned
  <2> QED BY <1>4, <1>6, <2>1 DEF Extends
<1> QED BY <1>4, <1>5, <1>6

(* Undo and reset leave the line cut where they chose.                     *)
LEMMA CommitCut ==
  ASSUME SerialInv, NEW s \in Session, Commit(s), ~ txn[s].turn
  PROVE  /\ row # NoRow /\ row' # NoRow
         /\ original' = original
         /\ Active' = Active \ txn[s].later
         /\ (undone \subseteq committed)'
         /\ row' = [path |-> txn[s].new, rows |-> height[txn[s].new]]
         /\ Chosen(txn[s])
         /\ Linear(original, Active', row'.path)
<1> PICK y : y = txn[s]
  OBVIOUS
<1>1. y.pc = "done" /\ Cuts(y) /\ row' = Top(y) /\ original' = Origin(y)
      /\ committed' = committed \cup y.inserted /\ undone' = undone \cup y.later
  BY CommitEffect DEF Aligned
<1>2. Chosen(y) /\ row # NoRow /\ y.v0 = NoPath /\ y.inserted = {}
      /\ row' = [path |-> y.new, rows |-> height[y.new]]
  BY <1>1 DEF Cuts
<1>3. original' = original /\ committed' = committed
  BY <1>1, <1>2 DEF Origin
<1>4. Active' = Active \ y.later
  BY <1>1, <1>3 DEF Active
<1>5. y.later \subseteq Active
  BY <1>2 DEF Chosen, FromTarget
<1>6. (undone \subseteq committed)'
  BY <1>1, <1>3, <1>5 DEF SerialInv, Active
<1>7. Linear(original, Active, row.path)
  BY <1>2 DEF SerialInv, Straight
<1>8. Linear(original, Active', y.new)
  <2>1. CASE y.target \in Active /\ y.later = FromTarget(y.target)
             /\ y.new = before[y.target]
    BY <1>4, <1>7, <2>1, RecordFacts, LinearCut DEF FromTarget
  <2>2. CASE y.later = Active /\ y.new = original
    <3>1. Active' = {}
      BY <1>4, <2>2
    <3> QED BY <1>7, <2>2, <3>1 DEF Linear
  <2> QED BY <1>2, <2>1, <2>2 DEF Chosen
<1>9. row' # NoRow
  BY <1>1, <1>2, CommitRecords DEF SerialInv, IInv, RecordInv
<1> QED BY <1>2, <1>3, <1>4, <1>6, <1>8, <1>9

LEMMA SerialCommit ==
  ASSUME SerialInv, IInv', OneAtATime', NEW s \in Session, Commit(s)
  PROVE  SerialInv'
<1>1. /\ (undone \subseteq committed)'
      /\ row' # NoRow => /\ Linear(original', Active', row'.path)
                         /\ row'.rows = height[row'.path]
  BY CommitTurn, CommitCut
<1>2. UNCHANGED disk /\ End(s)
  BY CommitEffect
<1>3. Straight' /\ RowCountMatchesSnapshot'
  BY <1>1, <1>2 DEF Straight, RowCountMatchesSnapshot, Linear, disk
<1>4. CASE Changes(s)
  BY <1>1, <1>2, <1>3, <1>4, NoTxnOK, NoTxnAligned, SerialStep DEF End
<1>5. CASE ~ Changes(s)
  <2>1. Looks(txn[s])
    BY <1>5, HasOnlyLooked DEF Commit, NoTxn
  <2>2. UNCHANGED database
    <3> PICK y : y = txn[s]
      OBVIOUS
    <3>1. Looks(y) /\ row' = Top(y) /\ original' = Origin(y)
          /\ committed' = committed \cup y.inserted
          /\ undone' = undone \cup y.later
          /\ restamped' = restamped \cup (undone \cap y.later)
      BY <2>1, CommitEffect
    <3> QED BY <3>1 DEF Looks, Top, Origin, database
  <2> QED BY <1>2, <2>2, SerialEndStep
<1> QED BY <1>4, <1>5

LEMMA InitSerialInv == Init => SerialInv
<1> SUFFICES ASSUME Init PROVE SerialInv
  OBVIOUS
<1>1. \A s \in Session : txn[s] = NoTxn
  BY DEF Init
<1>2. OneAtATime
  BY <1>1 DEF OneAtATime, Changes, HoldsRow, NoTxn
<1>3. undone \subseteq committed /\ Straight /\ RowCountMatchesSnapshot
  BY DEF Init, Straight, RowCountMatchesSnapshot
<1> QED BY <1>1, <1>2, <1>3, InitIInv, NoTxnAligned DEF SerialInv

LEMMA SerialStutter == SerialInv /\ UNCHANGED vars => SerialInv'
<1> SUFFICES ASSUME SerialInv, UNCHANGED vars PROVE SerialInv'
  OBVIOUS
<1>1. IInv'
  BY StutterStep DEF SerialInv
<1>2. OneAtATime' /\ (undone \subseteq committed)'
  BY DEF SerialInv, vars, OneAtATime, Changes, HoldsRow
<1>3. Straight' /\ RowCountMatchesSnapshot'
  BY DEF SerialInv, vars, Straight, RowCountMatchesSnapshot, Linear, Active
<1>4. \A x : Aligned(x) => Aligned(x)'
  BY DEF vars, Aligned, Extends, Cuts, Chosen, FromTarget, Linear, Top, Origin,
         Active
<1>5. \A s \in Session : Aligned(txn[s])'
  BY <1>4 DEF SerialInv, vars
<1> QED BY <1>1, <1>2, <1>3, <1>5 DEF SerialInv

LEMMA NextSerialInv == SerialInv /\ [SerialNext]_vars => SerialInv'
<1> SUFFICES ASSUME SerialInv, Next, OneAtATime' PROVE SerialInv'
  BY SerialStutter DEF SerialNext
<1>1. IInv'
  BY NextIInv DEF SerialInv
<1>2. ASSUME NEW s \in Session, Request(s) PROVE SerialInv'
  BY <1>1, <1>2, SerialStartTurn, SerialStartReset, SerialStartUndo DEF Request
<1>3. ASSUME NEW s \in Session, Advance(s) PROVE SerialInv'
  BY <1>1, <1>3, SerialSnapshotSource, SerialCreateRow, SerialInspectTool,
     SerialMutateTool, SerialSelectTarget, SerialSelectLater,
     SerialSelectActive, SerialStampOperations, SerialUpdateRow, SerialCommit
     DEF Advance
<1>4. ASSUME NEW s \in Session, Rollback(s) PROVE SerialInv'
  BY <1>1, <1>4, SerialEndStep DEF Rollback
<1> QED BY <1>2, <1>3, <1>4 DEF Next

-----------------------------------------------------------------------------
(* The theorems.                                                           *)

(* Serial behaviours keep the inductive invariant.                         *)
THEOREM SerialInvHolds == SerialSpec => []SerialInv
BY InitSerialInv, NextSerialInv, PTL DEF SerialSpec

(* When changes do not overlap, the snapshot shown and exported is the     *)
(* result of the newest operation applied and not undone.                  *)
THEOREM ShowsActiveOperationsHolds == SerialSpec => []ShowsActiveOperations
<1>1. SerialInv => ShowsActiveOperations
  <2> SUFFICES ASSUME SerialInv, row # NoRow
               PROVE  /\ Active = {} => row.path = original
                      /\ Active # {} => /\ row.path \in Active
                                        /\ \A p \in Active : p <= row.path
    BY DEF ShowsActiveOperations
  <2>1. Linear(original, Active, row.path)
    BY DEF SerialInv, Straight
  <2>2. original \in Nat /\ Active \subseteq Nat
    BY RecordFacts DEF Path
  <2>3. ASSUME NEW p \in Active PROVE row.path # original
    BY <2>1, <2>2 DEF Linear
  <2> QED BY <2>1, <2>3 DEF Linear
<1> QED BY <1>1, SerialInvHolds, PTL

(* When changes do not overlap, the row_count shown is that of the         *)
(* snapshot shown.                                                         *)
THEOREM RowCountMatchesSnapshotHolds == SerialSpec => []RowCountMatchesSnapshot
<1>1. SerialInv => RowCountMatchesSnapshot
  BY DEF SerialInv
<1> QED BY <1>1, SerialInvHolds, PTL

(* The step simulation: a turn's commit extends the history, an undo's     *)
(* rolls it back, a reset's starts it over, and no other step shows.       *)
LEMMA CommitTurnExtends ==
  ASSUME SerialInv, NEW s \in Session, Commit(s), txn[s].turn
  PROVE  [History!Next]_(History!vars)
<1> PICK y : y = txn[s]
  OBVIOUS
<1> DEFINE L == IF row = NoRow THEN {} ELSE {original} \cup Active
           M == IF row' = NoRow THEN {} ELSE {original'} \cup Active'
<1>1. y \in Txn /\ Refers(y) /\ Extends(y) /\ Follows(y) /\ y.pc = "turn"
      /\ row' = Top(y) /\ original' = Origin(y)
  BY CommitEffect DEF Aligned
<1>2. Active' = Active \cup y.inserted
  BY CommitTurn
<1>3. CASE y.v0 = NoPath /\ y.inserted = {}
  <2>1. row' = row /\ original' = original /\ Active' = Active
    BY <1>1, <1>2, <1>3 DEF Extends, Top, Origin
  <2> QED BY <2>1 DEF History!vars
<1>4. CASE ~ (y.v0 = NoPath /\ y.inserted = {})
  <2>1. row' # NoRow
    BY <1>1, <1>4 DEF Refers, Follows, Top, NoRow, Txn, Path, NoPath
  <2>2. Linear(original', Active', row'.path)
    BY <2>1, CommitTurn
  <2>3. row # NoRow => original' = original
    BY <1>1, RecordFacts DEF Origin, Refers
  <2>4. L \subseteq M
    BY <1>2, <2>1, <2>3
  <2>5. \A p \in y.inserted : p \in Nat /\ p \notin L /\ original' < p
    <3>1. \A p \in y.inserted : p \in Nat /\ p \notin committed
      BY <1>1 DEF Extends, Txn, Path
    <3> QED BY <1>2, <2>2, <2>3, <3>1, RecordFacts DEF Active, Linear
  <2>6. M # L
    <3>1. CASE y.inserted # {}
      BY <1>2, <2>1, <2>5, <3>1
    <3>2. CASE y.v0 # NoPath
      BY <1>1, <2>1, <3>2, RecordFacts DEF Refers
    <3> QED BY <1>4, <3>1, <3>2
  <2>7. \A v \in L, w \in M \ L : v < w
    <3> SUFFICES ASSUME NEW v \in L, NEW w \in M \ L PROVE v < w
      OBVIOUS
    <3>1. w \in y.inserted
      BY <1>2, <2>1, <2>3
    <3> QED BY <1>1, <2>3, <2>5, <3>1 DEF Extends, Active
  <2>8. row'.path \in M /\ \A w \in M : w <= row'.path
    <3>1. original' \in Nat /\ Active' \subseteq Nat
      BY <1>1, <1>2, RecordFacts, BoundAssumption
         DEF Origin, Txn, Path, PathOrNone
    <3>2. PICK o, A, t : o = original' /\ A = Active' /\ t = row'.path
      OBVIOUS
    <3>3. t \in {o} \cup A /\ \A w \in {o} \cup A : w <= t
      <4>1. o \in Nat /\ A \in SUBSET Nat /\ Linear(o, A, t)
        BY <2>2, <3>1, <3>2
      <4> QED BY <4>1, LinearTop
    <3> QED BY <2>1, <3>2, <3>3
  <2>9. History!Extend
    BY <2>4, <2>6, <2>7, <2>8 DEF History!Extend, History!Greatest
  <2> QED BY <2>9 DEF History!Next
<1> QED BY <1>3, <1>4

LEMMA CommitCutRollsBack ==
  ASSUME SerialInv, NEW s \in Session, Commit(s), ~ txn[s].turn
  PROVE  History!Next
<1> PICK y : y = txn[s]
  OBVIOUS
<1> DEFINE L == {original} \cup Active
           M == {original} \cup Active'
<1>1. row # NoRow /\ row' # NoRow /\ original' = original
      /\ Active' = Active \ y.later /\ Linear(original, Active', row'.path)
      /\ Chosen(y) /\ row'.path = y.new
  BY CommitCut
<1>2. original \in Nat /\ Active \subseteq Nat
  BY RecordFacts DEF Path
<1>3. \A p \in Active : original < p
  BY <1>1 DEF SerialInv, Straight, Linear
<1>4. row'.path \in M /\ \A w \in M : w <= row'.path
  <2>1. Active' \subseteq Nat
    BY <1>1, <1>2
  <2>2. PICK o, A, t : o = original /\ A = Active' /\ t = row'.path
    OBVIOUS
  <2>3. t \in {o} \cup A /\ \A w \in {o} \cup A : w <= t
    <3>1. o \in Nat /\ A \in SUBSET Nat /\ Linear(o, A, t)
      BY <1>1, <1>2, <2>1, <2>2
    <3> QED BY <3>1, LinearTop
  <2> QED BY <2>2, <2>3
<1>5. CASE y.target \in Active /\ y.later = FromTarget(y.target)
  <2> PICK p \in Active : p = y.target
    BY <1>5
  <2>1. M = {w \in L : w < p}
    <3>1. Active' = {q \in Active : ~ (q >= p)}
      BY <1>1, <1>5 DEF FromTarget
    <3>2. \A q \in Active : ~ (q >= p) <=> q < p
      BY <1>2
    <3> QED BY <1>3, <3>1, <3>2
  <2>2. p \in L /\ ~ (p <= original)
    <3>1. p \in Nat /\ original < p
      BY <1>2, <1>3
    <3> QED BY <1>2, <3>1
  <2>3. History!UndoFrom(p)
    BY <1>1, <1>4, <2>1, <2>2
       DEF History!UndoFrom, History!Least, History!Greatest
  <2> QED BY <1>1, <2>2, <2>3 DEF History!Next
<1>6. CASE y.later = Active /\ y.new = original
  <2>1. \A w \in L : original <= w
    BY <1>2, <1>3
  <2>2. M = {original}
    BY <1>1, <1>6
  <2>3. History!StartOver
    BY <1>1, <1>6, <2>1, <2>2 DEF History!StartOver, History!Least
  <2> QED BY <2>3 DEF History!Next
<1> QED BY <1>1, <1>5, <1>6 DEF Chosen

LEMMA HistoryStep ==
  SerialInv /\ [SerialNext]_vars => [History!Next]_(History!vars)
<1> SUFFICES ASSUME SerialInv, [Next]_vars
             PROVE  [History!Next]_(History!vars)
  BY DEF SerialNext
<1>1. UNCHANGED database => UNCHANGED History!vars
  BY DEF History!vars, database, Active
<1>2. CASE UNCHANGED vars
  BY <1>1, <1>2 DEF vars, database
<1>3. ASSUME NEW s \in Session, Commit(s)
      PROVE  [History!Next]_(History!vars)
  BY <1>3, CommitTurnExtends, CommitCutRollsBack
<1>4. CASE Next
  BY <1>1, <1>3, <1>4, DatabaseSteps DEF SerialInv
<1> QED BY <1>2, <1>4

(* The program implements the straight-line history when changes to the    *)
(* working copy do not overlap, whatever turns look at it meanwhile.       *)
THEOREM ImplementsLinearHistory == SerialSpec => HistorySpec
<1>1. Init => History!Init
  BY DEF Init, History!Init, NoRow, NoPath
<1> QED
  BY <1>1, HistoryStep, SerialInvHolds, PTL
     DEF SerialSpec, HistorySpec, History!Spec
=============================================================================

--------------------------- MODULE DatasetsProofs ---------------------------
(***************************************************************************)
(* Theorems about Datasets for any names, lists of tables and number of    *)
(* requests.                                                               *)
(*                                                                         *)
(* The inductive invariant says, for each request, what its transaction    *)
(* has written at its place in the code and how that, its file and its     *)
(* profile run fit what is committed (Mine), and that no two transactions  *)
(* have written the same row (Exclusive).                                  *)
(***************************************************************************)
EXTENDS Datasets, TLAPS

Txn == [pc : Place, kind : Kind, source : SourceName,
        names : TableList \cup {<<d>> : d \in DatasetName},
        next : Nat, bound : BOOLEAN]

Sources == {Source(s) : s \in SourceName}
Runs == {Run(r) : r \in Request}

(* The datasets transaction t asks for up to place n of its list, and the  *)
(* one it has come to.                                                     *)
Asked(t, n) == {Dataset(t.source, t.names[i]) : i \in 1..n}
Aim(t) == Dataset(t.source, t.names[t.next])

(* The rows a transaction has written.                                     *)
Written(r) == DOMAIN writes[r]

IsRow(k, value) ==
  /\ k \in Sources => value \in SourceRow
  /\ k \in DatasetKey => value \in DatasetRow
  /\ k \in Runs => value \in RunRow

Types ==
  /\ Key \subseteq DOMAIN table
  /\ \A k \in Key : table[k] = NoRow \/ IsRow(k, table[k])
  /\ DOMAIN writes = Request /\ writes = [r \in Request |-> writes[r]]
  /\ \A r \in Request :
       /\ Written(r) \subseteq Key
       /\ \A k \in Written(r) : IsRow(k, writes[r][k])
  /\ txn \in [Request -> Txn]
  /\ \A r \in Request : txn[r].next \in DOMAIN txn[r].names
  /\ files \in [Request -> {"none", "partial", "whole"}]
  /\ alone \in BOOLEAN

(* Which kinds of request come to which place.                             *)
Fits(t) ==
  /\ t.pc \in {"saving", "saved", "sourced"} => t.kind = "upload"
  /\ t.pc = "ready" => t.kind \in {"upload", "connect"}
  /\ t.pc = "importing" => t.kind = "import"
  /\ t.pc \in {"looked", "opening", "profiling", "closing", "counting"} =>
       t.kind = "profile"
  /\ t.pc \in {"waiting", "received"} => t.next = 1
  /\ t.pc # "waiting" => t.bound

(* The keys request r has written, w being its rows.                       *)
Holds(r, t, w) ==
  /\ t.pc \notin {"sourced", "importing", "opening", "closing", "commit"} =>
       DOMAIN w = {}
  /\ t.pc = "sourced" => DOMAIN w = {Source(t.source)}
  /\ t.pc = "importing" => DOMAIN w = Asked(t, t.next - 1)
  /\ t.pc \in {"opening", "closing"} => DOMAIN w = {Run(r)}
  /\ t.pc = "commit" =>
       /\ t.kind = "upload" => DOMAIN w = {Source(t.source), Aim(t)}
       /\ t.kind = "connect" => DOMAIN w = {Source(t.source)}
       /\ t.kind = "import" => DOMAIN w = Asked(t, Len(t.names))
       /\ t.kind = "profile" => DOMAIN w = {Aim(t)}

(* And what they hold: new rows, but for the count a profile run stamps.   *)
Pending(r, t, w) ==
  /\ \A k \in DOMAIN w \cap Sources :
       /\ table[k] = NoRow
       /\ w[k].by = r
       /\ w[k].kind = "file" => t.kind = "upload"
  /\ \A k \in DOMAIN w \cap DatasetKey :
       IF t.kind = "profile"
         THEN table[k] # NoRow /\ w[k].by = table[k].by /\ w[k].count = r
         ELSE table[k] = NoRow /\ w[k].by = r /\ w[k].count = r
  /\ \A s \in SourceName, d \in DatasetName :
       Dataset(s, d) \in DOMAIN w =>
         table[Source(s)] # NoRow \/ Source(s) \in DOMAIN w
  /\ t.pc = "importing" => table[Source(t.source)] # NoRow

(* The stored file of an upload.                                           *)
Stored(t, f) ==
  /\ t.pc \in {"waiting", "received"} => f = "none"
  /\ t.kind = "upload" /\ t.pc = "refused" => f = "none"
  /\ t.kind = "upload" /\ t.pc \in {"saved", "ready", "sourced", "commit"} =>
       f = "whole"

(* The profile run of a request.                                           *)
Profiled(r, t, w) ==
  /\ table[Run(r)] # NoRow =>
       /\ t.kind = "profile"
       /\ t.pc \in {"profiling", "closing", "counting", "commit", "done", "error"}
       /\ table[Run(r)].of = Aim(t)
       /\ table[Aim(t)] # NoRow
  /\ t.kind = "profile" =>
       /\ t.pc \in {"looked", "opening", "profiling", "closing", "counting",
                    "commit"} => table[Aim(t)] # NoRow
       /\ t.pc = "opening" => w[Run(r)] = [of |-> Aim(t), status |-> "running"]
       /\ t.pc \in {"profiling", "closing"} =>
            table[Run(r)] = [of |-> Aim(t), status |-> "running"]
       /\ t.pc = "closing" =>
            /\ w[Run(r)].of = Aim(t)
            /\ w[Run(r)].status \in {"completed", "failed"}
       /\ t.pc \in {"counting", "commit"} =>
            table[Run(r)] = [of |-> Aim(t), status |-> "completed"]
       /\ t.pc = "done" => table[Run(r)].status \in {"completed", "failed"}

(* The datasets an import has committed.                                   *)
Gained(r, t) ==
  /\ t.pc \notin {"done", "error"} => Imported(r) = {}
  /\ t.kind = "import" =>
       /\ t.pc = "done" => Imported(r) = Asked(t, Len(t.names))
       /\ t.pc = "error" => Imported(r) \in {{}, Asked(t, Len(t.names))}

Mine(r, t, w, f) ==
  /\ Fits(t)
  /\ Holds(r, t, w)
  /\ Pending(r, t, w)
  /\ Stored(t, f)
  /\ Profiled(r, t, w)
  /\ Gained(r, t)

(* What is committed.                                                      *)
Committed ==
  /\ \A s \in SourceName :
       table[Source(s)] # NoRow /\ table[Source(s)].kind = "file" =>
         /\ table[Source(s)].by \in Request
         /\ txn[table[Source(s)].by].pc \in {"done", "error"}
         /\ files[table[Source(s)].by] = "whole"
         /\ \E d \in DatasetName : table[Dataset(s, d)] # NoRow
  /\ \A s \in SourceName, d \in DatasetName :
       table[Dataset(s, d)] # NoRow => table[Source(s)] # NoRow

Exclusive ==
  \A q, r \in Request : \A k \in Written(q) \cap Written(r) : q = r

(* Requests arrive in the order of their numbers; without overlap the one  *)
(* in progress is the last.                                                *)
InOrder ==
  \A q, r \in Request :
    q < r /\ txn[q].pc = "waiting" => txn[r].pc = "waiting"

OneAtATime ==
  alone => \A q \in Request :
    Busy(q) => \A r \in Request :
      /\ Busy(r) => q = r
      /\ q < r => txn[r].pc = "waiting"

IInv ==
  /\ Types
  /\ \A r \in Request : Mine(r, txn[r], writes[r], files[r])
  /\ Committed
  /\ Exclusive
  /\ InOrder
  /\ OneAtATime
  /\ CountIsOfLastRun

-----------------------------------------------------------------------------
(* Keys, rows and lists.                                                   *)

LEMMA KeysDiffer ==
  /\ Sources \cap DatasetKey = {} /\ Sources \cap Runs = {}
  /\ DatasetKey \cap Runs = {}
  /\ \A r, q : Run(r) = Run(q) => r = q
  /\ \A s, t : Source(s) = Source(t) => s = t
  /\ \A s, d, t, e : Dataset(s, d) = Dataset(t, e) => s = t /\ d = e
  /\ Key = Sources \cup DatasetKey \cup Runs
  /\ \A r \in Request : Run(r) \in Runs /\ Run(r) \in Key
  /\ \A s \in SourceName : Source(s) \in Sources /\ Source(s) \in Key
  /\ DatasetKey \subseteq Key
  /\ \A s \in SourceName, d \in DatasetName : Dataset(s, d) \in DatasetKey
BY DEF Sources, DatasetKey, Runs, Key, Source, Dataset, Run

LEMMA RequestsAreMakers == Request \subseteq Maker /\ Request \subseteq Nat
BY BoundsArePositive DEF Request, Maker

LEMMA RowsAreRows ==
  ASSUME NEW k \in Key, NEW value, IsRow(k, value) PROVE value # NoRow
BY KeysDiffer, NoRowIsNoRow DEF IsRow

LEMMA NamesAreLists ==
  ASSUME NEW t \in Txn
  PROVE  t.names \in Seq(DatasetName) /\ Len(t.names) \in Nat \ {0}
<1>1. \A d \in DatasetName : <<d>> \in Seq(DatasetName) /\ Len(<<d>>) = 1
  OBVIOUS
<1>2. \A list \in TableList : list \in Seq(DatasetName) /\ Len(list) \in Nat \ {0}
  BY ListsNameDatasets
<1>3. t.names \in TableList \cup {<<d>> : d \in DatasetName}
  BY DEF Txn
<1>4. CASE t.names \in TableList
  BY <1>2, <1>4
<1>5. CASE t.names \in {<<d>> : d \in DatasetName}
  <2>1. PICK d \in DatasetName : t.names = <<d>>
    BY <1>5
  <2> QED
    BY <1>1, <2>1
<1> QED
  BY <1>3, <1>4, <1>5

LEMMA AimIsKey ==
  ASSUME NEW t \in Txn, t.next \in DOMAIN t.names
  PROVE  /\ Aim(t) \in DatasetKey
         /\ \A n \in 0..Len(t.names) : Asked(t, n) \subseteq DatasetKey
<1>1. \A i \in 1..Len(t.names) : t.names[i] \in DatasetName
  BY NamesAreLists
<1>2. t.source \in SourceName
  BY DEF Txn
<1> QED
  BY <1>1, <1>2, NamesAreLists, KeysDiffer DEF Aim, Asked

LEMMA AskedMore ==
  ASSUME NEW t, NEW n \in Nat \ {0}
  PROVE  /\ Asked(t, n) = Asked(t, n - 1) \cup {Dataset(t.source, t.names[n])}
         /\ Asked(t, 0) = {}
<1>1. 1..n = (1..(n - 1)) \cup {n} /\ 1..0 = {}
  OBVIOUS
<1> QED
  BY <1>1 DEF Asked

LEMMA SetRow ==
  ASSUME NEW k, NEW value
  PROVE  DOMAIN Set(k, value) = {k} /\ Set(k, value)[k] = value
BY DEF Set

LEMMA NoWritesEmpty == DOMAIN NoWrites = {}
BY DEF NoWrites

LEMMA WriteRows ==
  ASSUME Types, NEW r \in Request, NEW rows, Write(r, rows)
  PROVE  /\ DOMAIN writes' = Request /\ writes' = [q \in Request |-> writes'[q]]
         /\ \A q \in Request \ {r} : writes'[q] = writes[q]
         /\ Written(r)' = DOMAIN rows \cup Written(r)
         /\ \A k \in DOMAIN rows : writes'[r][k] = rows[k]
         /\ \A k \in Written(r) \ DOMAIN rows : writes'[r][k] = writes[r][k]
<1>1. writes' = [writes EXCEPT ![r] = Over(rows, writes[r])]
  BY DEF Write
<1>2. writes'[r] = Over(rows, writes[r])
  BY <1>1 DEF Types
<1>3. /\ DOMAIN writes' = Request /\ writes' = [q \in Request |-> writes'[q]]
      /\ \A q \in Request \ {r} : writes'[q] = writes[q]
  BY <1>1 DEF Types
<1> QED
  BY <1>2, <1>3 DEF Written, Over

LEMMA DropRows ==
  ASSUME Types, NEW r \in Request, DropWrites(r)
  PROVE  /\ DOMAIN writes' = Request /\ writes' = [q \in Request |-> writes'[q]]
         /\ \A q \in Request \ {r} : writes'[q] = writes[q]
         /\ Written(r)' = {} /\ DOMAIN writes'[r] = {}
<1>1. writes' = [writes EXCEPT ![r] = NoWrites]
  BY DEF DropWrites
<1>2. writes'[r] = NoWrites
  BY <1>1 DEF Types
<1>3. /\ DOMAIN writes' = Request /\ writes' = [q \in Request |-> writes'[q]]
      /\ \A q \in Request \ {r} : writes'[q] = writes[q]
  BY <1>1 DEF Types
<1> QED
  BY <1>2, <1>3, NoWritesEmpty DEF Written

(* A request moves to another place in the code.                           *)
LEMMA GotoPlace ==
  ASSUME Types, NEW r \in Request, NEW p \in Place, Goto(r, p)
  PROVE  /\ txn' = [txn EXCEPT ![r] = txn'[r]] /\ txn'[r] \in Txn
         /\ txn'[r].pc = p /\ txn'[r].kind = txn[r].kind
         /\ txn'[r].source = txn[r].source /\ txn'[r].names = txn[r].names
         /\ txn'[r].next = txn[r].next /\ txn'[r].bound = txn[r].bound
         /\ txn'[r].next \in DOMAIN txn'[r].names
<1> DEFINE t == [txn[r] EXCEPT !.pc = p]
<1>1. txn \in [Request -> Txn] /\ txn[r].next \in DOMAIN txn[r].names
  BY DEF Types
<1>2. /\ t \in Txn /\ t.pc = p /\ t.kind = txn[r].kind
      /\ t.source = txn[r].source /\ t.names = txn[r].names
      /\ t.next = txn[r].next /\ t.bound = txn[r].bound
  BY <1>1 DEF Txn
<1>3. txn' = [txn EXCEPT ![r] = t]
  BY DEF Goto
<1> HIDE DEF t
<1> QED
  BY <1>1, <1>2, <1>3

-----------------------------------------------------------------------------
(* Steps that do not commit.                                               *)

(* Request r alone moves, and its variables keep their types.              *)
Moves(r) ==
  /\ txn' = [txn EXCEPT ![r] = txn'[r]] /\ txn'[r] \in Txn
  /\ txn'[r].next \in DOMAIN txn'[r].names
  /\ files' \in [Request -> {"none", "partial", "whole"}]
  /\ DOMAIN writes' = Request /\ writes' = [q \in Request |-> writes'[q]]
  /\ \A q \in Request \ {r} : files'[q] = files[q] /\ writes'[q] = writes[q]
  /\ Written(r)' \subseteq Key
  /\ \A k \in Written(r)' : IsRow(k, writes'[r][k])

LEMMA OthersStay ==
  ASSUME Types, NEW r \in Request, Moves(r)
  PROVE  /\ \A q \in Request \ {r} : txn'[q] = txn[q] /\ Written(q)' = Written(q)
         /\ txn' \in [Request -> Txn]
BY DEF Types, Moves, Written

(* What is left to show of a step of r that commits nothing.               *)
LEMMA StepKeeps ==
  ASSUME IInv, NEW r \in Request, Moves(r), UNCHANGED <<table, alone>>, Busy(r),
         txn'[r].pc \notin {"waiting", "done"},
         Mine(r, txn'[r], writes'[r], files'[r]),
         \A q \in Request \ {r} : Written(r)' \cap Written(q) = {}
  PROVE  IInv'
<1>1. /\ \A q \in Request \ {r} : txn'[q] = txn[q] /\ Written(q)' = Written(q)
      /\ \A q \in Request \ {r} : files'[q] = files[q] /\ writes'[q] = writes[q]
      /\ txn' \in [Request -> Txn] /\ table' = table /\ alone' = alone
  BY OthersStay DEF IInv, Moves
<1>2. Types'
  BY <1>1 DEF IInv, Types, Moves
<1>3. ASSUME NEW q \in Request
      PROVE  Mine(q, txn[q], writes[q], files[q])'
  <2>1. Mine(q, txn'[q], writes'[q], files'[q])
    BY <1>1 DEF IInv
  <2> QED
    BY <1>1, <2>1
    DEF Mine, Fits, Holds, Pending, Stored, Profiled, Gained, Imported
<1>4. txn[r].pc \notin {"waiting", "done", "error"}
  BY DEF Busy, Ended
<1>5. Committed'
  BY <1>1, <1>4 DEF IInv, Committed
<1>6. Exclusive'
  BY <1>1 DEF IInv, Exclusive
<1>7. InOrder'
  BY <1>1, <1>4 DEF IInv, InOrder
<1>8. OneAtATime'
  BY <1>1, <1>4 DEF IInv, OneAtATime, Busy, Ended
<1>9. CountIsOfLastRun'
  BY <1>1, <1>4 DEF IInv, CountIsOfLastRun
<1> QED
  BY <1>2, <1>3, <1>5, <1>6, <1>7, <1>8, <1>9 DEF IInv
(* A transaction's own facts, spelled out.                                 *)
LEMMA Facts ==
  ASSUME IInv, NEW r \in Request
  PROVE  /\ Types /\ txn[r] \in Txn /\ txn[r].next \in DOMAIN txn[r].names
         /\ Mine(r, txn[r], writes[r], files[r])
         /\ Written(r) = DOMAIN writes[r]
BY DEF IInv, Types, Written

(* A step that reads, or works on the disk, before anything is written.    *)
LEMMA IdleStep ==
  ASSUME IInv, NEW r \in Request, Busy(r),
         NEW p \in {"saving", "saved", "ready", "looked", "refused"}, Goto(r, p),
         UNCHANGED <<table, writes, alone>>, Written(r) = {},
         txn[r].pc \notin {"opening", "profiling", "closing", "counting", "commit"},
         files' \in [Request -> {"none", "partial", "whole"}],
         \A q \in Request \ {r} : files'[q] = files[q],
         p \in {"saving", "saved"} => txn[r].kind = "upload",
         p = "ready" => txn[r].kind \in {"upload", "connect"},
         p = "looked" => txn[r].kind = "profile" /\ table[Aim(txn[r])] # NoRow,
         p = "refused" /\ txn[r].kind = "upload" => files'[r] = "none",
         p \in {"saved", "ready"} /\ txn[r].kind = "upload" => files'[r] = "whole"
  PROVE  IInv'
<1>1. /\ Types /\ txn[r] \in Txn /\ Mine(r, txn[r], writes[r], files[r])
      /\ DOMAIN writes[r] = {}
  BY Facts
<1>2. /\ txn' = [txn EXCEPT ![r] = txn'[r]] /\ txn'[r] \in Txn
      /\ txn'[r].pc = p /\ txn'[r].kind = txn[r].kind
      /\ txn'[r].source = txn[r].source /\ txn'[r].names = txn[r].names
      /\ txn'[r].next = txn[r].next /\ txn'[r].bound = txn[r].bound
      /\ txn'[r].next \in DOMAIN txn'[r].names
  BY <1>1, GotoPlace DEF Place
<1>3. Moves(r)
  BY <1>1, <1>2 DEF Moves, Types, Written
<1>4. txn[r].pc \notin {"waiting", "done", "error", "refused"}
  BY DEF Busy, Ended
<1>5. table[Run(r)] = NoRow
  BY <1>1, <1>4 DEF Mine, Profiled
<1>6. Aim(txn'[r]) = Aim(txn[r])
  BY <1>2 DEF Aim
<1> DEFINE t == txn'[r]
           w == writes'[r]
<1>7. Fits(t) /\ Holds(r, t, w) /\ Pending(r, t, w) /\ Stored(t, files'[r])
  BY <1>1, <1>2, <1>4 DEF Mine, Fits, Holds, Pending, Stored
<1>8. Profiled(r, t, w) /\ Gained(r, t)
  BY <1>1, <1>2, <1>4, <1>5, <1>6 DEF Mine, Profiled, Gained
<1>9. Mine(r, t, w, files'[r])
  BY <1>7, <1>8 DEF Mine
<1> QED
  BY <1>1, <1>2, <1>3, <1>9, StepKeeps DEF Written

LEMMA EmptyHanded ==
  ASSUME IInv, NEW r \in Request,
         txn[r].pc \notin {"sourced", "importing", "opening", "closing", "commit"}
  PROVE  Written(r) = {}
BY Facts DEF Mine, Holds

LEMMA StartSavingStep ==
  ASSUME IInv, NEW r \in Request, StartSaving(r) PROVE IInv'
<1>1. /\ txn[r].pc = "received" /\ txn[r].kind = "upload" /\ Goto(r, "saving")
      /\ files' = [files EXCEPT ![r] = "partial"]
      /\ UNCHANGED <<table, writes, alone>>
  BY DEF StartSaving, Is, Store
<1>2. Written(r) = {} /\ Busy(r)
  BY <1>1, EmptyHanded DEF Busy, Ended
<1> QED
  BY <1>1, <1>2, IdleStep DEF IInv, Types

LEMMA FinishSavingStep ==
  ASSUME IInv, NEW r \in Request, FinishSaving(r) PROVE IInv'
<1>1. /\ txn[r].pc = "saving" /\ Goto(r, "saved")
      /\ files' = [files EXCEPT ![r] = "whole"]
      /\ UNCHANGED <<table, writes, alone>>
  BY DEF FinishSaving, Store
<1>2. Written(r) = {} /\ Busy(r) /\ txn[r].kind = "upload"
  BY <1>1, EmptyHanded, Facts DEF Busy, Ended, Mine, Fits
<1>3. files' \in [Request -> {"none", "partial", "whole"}] /\ files'[r] = "whole"
      /\ \A q \in Request \ {r} : files'[q] = files[q]
  BY <1>1 DEF IInv, Types
<1> QED
  BY <1>1, <1>2, <1>3, IdleStep

LEMMA FailSavingStep ==
  ASSUME IInv, NEW r \in Request, FailSaving(r) PROVE IInv'
<1>1. /\ txn[r].pc = "saving" /\ Goto(r, "refused")
      /\ files' = [files EXCEPT ![r] = "none"]
      /\ UNCHANGED <<table, writes, alone>>
  BY DEF FailSaving, Store
<1>2. Written(r) = {} /\ Busy(r)
  BY <1>1, EmptyHanded DEF Busy, Ended
<1>3. files' \in [Request -> {"none", "partial", "whole"}] /\ files'[r] = "none"
      /\ \A q \in Request \ {r} : files'[q] = files[q]
  BY <1>1 DEF IInv, Types
<1> QED
  BY <1>1, <1>2, <1>3, IdleStep

LEMMA InferSchemaStep ==
  ASSUME IInv, NEW r \in Request, InferSchema(r) PROVE IInv'
<1>1. txn[r].pc = "saved" /\ Goto(r, "ready") /\ Read
  BY DEF InferSchema
<1>2. Written(r) = {} /\ Busy(r)
  BY <1>1, EmptyHanded DEF Busy, Ended
<1>3. txn[r].kind = "upload" /\ files[r] = "whole"
  BY <1>1, Facts DEF Mine, Fits, Stored
<1> QED
  BY <1>1, <1>2, <1>3, IdleStep DEF Read, IInv, Types

LEMMA RejectFileStep ==
  ASSUME IInv, NEW r \in Request, RejectFile(r) PROVE IInv'
<1>1. /\ txn[r].pc = "saved" /\ Goto(r, "refused")
      /\ files' = [files EXCEPT ![r] = "none"]
      /\ UNCHANGED <<table, writes, alone>>
  BY DEF RejectFile, Store
<1>2. Written(r) = {} /\ Busy(r)
  BY <1>1, EmptyHanded DEF Busy, Ended
<1>3. files' \in [Request -> {"none", "partial", "whole"}] /\ files'[r] = "none"
      /\ \A q \in Request \ {r} : files'[q] = files[q]
  BY <1>1 DEF IInv, Types
<1> QED
  BY <1>1, <1>2, <1>3, IdleStep

LEMMA ProbeStep ==
  ASSUME IInv, NEW r \in Request, Probe(r) PROVE IInv'
<1>1. /\ txn[r].pc = "received" /\ txn[r].kind = "connect" /\ Goto(r, "ready")
      /\ Read
  BY DEF Probe, Is
<1>2. Written(r) = {} /\ Busy(r)
  BY <1>1, EmptyHanded DEF Busy, Ended
<1> QED
  BY <1>1, <1>2, IdleStep DEF Read, IInv, Types

LEMMA FindDatasetStep ==
  ASSUME IInv, NEW r \in Request, FindDataset(r) PROVE IInv'
<1>1. /\ txn[r].pc = "received" /\ txn[r].kind = "profile" /\ Goto(r, "looked")
      /\ Read /\ Seen(r, Aim(txn[r])) # NoRow
  BY DEF FindDataset, Is, Target, Aim
<1>2. Written(r) = {} /\ Busy(r)
  BY <1>1, EmptyHanded DEF Busy, Ended
<1>3. table[Aim(txn[r])] # NoRow
  BY <1>1, <1>2 DEF Seen, Written
<1> QED
  BY <1>1, <1>2, <1>3, IdleStep DEF Read, IInv, Types

LEMMA RefuseStep ==
  ASSUME IInv, NEW r \in Request, Refuse(r) PROVE IInv'
<1>1. txn[r].pc = "received" /\ Goto(r, "refused") /\ Read
  BY DEF Refuse
<1>2. Written(r) = {} /\ Busy(r)
  BY <1>1, EmptyHanded DEF Busy, Ended
<1>3. files[r] = "none"
  BY <1>1, Facts DEF Mine, Stored
<1> QED
  BY <1>1, <1>2, <1>3, IdleStep DEF Read, IInv, Types

(* A rollback.                                                             *)
LEMMA DropKeeps ==
  ASSUME IInv, NEW r \in Request, Busy(r), NEW p \in {"refused", "error"},
         Goto(r, p), DropWrites(r), UNCHANGED <<table, alone>>,
         files' \in [Request -> {"none", "partial", "whole"}],
         \A q \in Request \ {r} : files'[q] = files[q],
         p = "refused" => files'[r] = "none" /\ txn[r].kind # "profile"
  PROVE  IInv'
<1>1. Types /\ txn[r] \in Txn /\ Mine(r, txn[r], writes[r], files[r])
  BY Facts
<1>2. /\ txn' = [txn EXCEPT ![r] = txn'[r]] /\ txn'[r] \in Txn
      /\ txn'[r].pc = p /\ txn'[r].kind = txn[r].kind
      /\ txn'[r].source = txn[r].source /\ txn'[r].names = txn[r].names
      /\ txn'[r].next = txn[r].next /\ txn'[r].bound = txn[r].bound
      /\ txn'[r].next \in DOMAIN txn'[r].names
  BY <1>1, GotoPlace DEF Place
<1>3. /\ DOMAIN writes' = Request /\ writes' = [q \in Request |-> writes'[q]]
      /\ \A q \in Request \ {r} : writes'[q] = writes[q]
      /\ Written(r)' = {} /\ DOMAIN writes'[r] = {}
  BY <1>1, DropRows
<1>4. Moves(r)
  BY <1>1, <1>2, <1>3 DEF Moves
<1>5. txn[r].pc \notin {"waiting", "done", "error", "refused"}
  BY DEF Busy, Ended
<1>6. Aim(txn'[r]) = Aim(txn[r])
  BY <1>2 DEF Aim
<1> DEFINE t == txn'[r]
           w == writes'[r]
<1>7. Fits(t) /\ Holds(r, t, w) /\ Pending(r, t, w) /\ Stored(t, files'[r])
  BY <1>1, <1>2, <1>3, <1>5 DEF Mine, Fits, Holds, Pending, Stored
<1>8. Profiled(r, t, w) /\ Gained(r, t)
  BY <1>1, <1>2, <1>5, <1>6 DEF Mine, Profiled, Gained
<1>9. Mine(r, t, w, files'[r])
  BY <1>7, <1>8 DEF Mine
<1> QED
  BY <1>2, <1>3, <1>4, <1>9, StepKeeps

LEMMA DuplicateNameStep ==
  ASSUME IInv, NEW r \in Request, Busy(r), DuplicateName(r),
         txn[r].kind # "profile"
  PROVE  IInv'
<1>1. /\ Goto(r, "refused") /\ DropWrites(r) /\ UNCHANGED <<table, alone>>
      /\ files' = [files EXCEPT ![r] = "none"]
  BY DEF DuplicateName
<1>2. files' \in [Request -> {"none", "partial", "whole"}] /\ files'[r] = "none"
      /\ \A q \in Request \ {r} : files'[q] = files[q]
  BY <1>1 DEF IInv, Types
<1> QED
  BY <1>1, <1>2, DropKeeps

LEMMA EndDeadlockStep ==
  ASSUME IInv, NEW r \in Request, EndDeadlock(r) PROVE IInv'
<1>1. Busy(r)
  BY DEF EndDeadlock, WaitsFor, Busy, Ended
<1> QED
  BY <1>1, DropKeeps DEF EndDeadlock, IInv, Types

LEMMA FailStep ==
  ASSUME IInv, NEW r \in Request, Fail(r) PROVE IInv'
BY DropKeeps DEF Fail, IInv, Types

-----------------------------------------------------------------------------
(* Steps that write.                                                       *)

(* What a step that writes leaves as it is.                                *)
LEMMA FlushMoves ==
  ASSUME IInv, NEW r \in Request, NEW rows, NEW p \in Place, Flush(r, rows, p),
         DOMAIN rows \subseteq Key, \A k \in DOMAIN rows : IsRow(k, rows[k])
  PROVE  /\ Moves(r) /\ UNCHANGED <<table, alone, files>>
         /\ txn'[r].pc = p /\ txn'[r].kind = txn[r].kind
         /\ txn'[r].source = txn[r].source /\ txn'[r].names = txn[r].names
         /\ txn'[r].next = txn[r].next /\ txn'[r].bound = txn[r].bound
         /\ DOMAIN writes'[r] = DOMAIN rows \cup Written(r)
         /\ \A k \in DOMAIN rows : writes'[r][k] = rows[k]
         /\ \A k \in Written(r) \ DOMAIN rows : writes'[r][k] = writes[r][k]
<1>1. Types /\ Goto(r, p) /\ Write(r, rows) /\ UNCHANGED <<table, alone, files>>
  BY DEF IInv, Flush
<1>2. /\ txn' = [txn EXCEPT ![r] = txn'[r]] /\ txn'[r] \in Txn
      /\ txn'[r].pc = p /\ txn'[r].kind = txn[r].kind
      /\ txn'[r].source = txn[r].source /\ txn'[r].names = txn[r].names
      /\ txn'[r].next = txn[r].next /\ txn'[r].bound = txn[r].bound
      /\ txn'[r].next \in DOMAIN txn'[r].names
  BY <1>1, GotoPlace
<1>3. /\ DOMAIN writes' = Request /\ writes' = [q \in Request |-> writes'[q]]
      /\ \A q \in Request \ {r} : writes'[q] = writes[q]
      /\ Written(r)' = DOMAIN rows \cup Written(r)
      /\ \A k \in DOMAIN rows : writes'[r][k] = rows[k]
      /\ \A k \in Written(r) \ DOMAIN rows : writes'[r][k] = writes[r][k]
  BY <1>1, WriteRows
<1>4. Written(r) \subseteq Key /\ \A k \in Written(r) : IsRow(k, writes[r][k])
  BY <1>1 DEF Types
<1>5. Moves(r)
  BY <1>1, <1>2, <1>3, <1>4 DEF Moves, Types
<1> QED
  BY <1>1, <1>2, <1>3, <1>5 DEF Written

(* Nobody else has written a row that is free.                             *)
LEMMA FreeRow ==
  ASSUME NEW r \in Request, NEW k, Free(r, {k})
  PROVE  \A q \in Request \ {r} : k \notin Written(q)
BY DEF Free, Written

LEMMA InsertSourceStep ==
  ASSUME IInv, NEW r \in Request, InsertSource(r) PROVE IInv'
<1> DEFINE k == Source(txn[r].source)
           kind == IF txn[r].kind = "upload" THEN "file" ELSE "database"
           row == [by |-> r, kind |-> kind]
           p == IF txn[r].kind = "upload" THEN "sourced" ELSE "commit"
<1>1. /\ txn[r] \in Txn /\ Mine(r, txn[r], writes[r], files[r])
      /\ txn[r].pc = "ready" /\ Free(r, {k})
  BY Facts DEF InsertSource
<1>2. /\ Written(r) = {} /\ Busy(r) /\ txn[r].kind \in {"upload", "connect"}
      /\ txn[r].kind = "upload" => files[r] = "whole"
  BY <1>1, EmptyHanded DEF Busy, Ended, Mine, Fits, Stored
<1>3. CASE Seen(r, k) # NoRow
  BY <1>2, <1>3, DuplicateNameStep DEF InsertSource
<1>4. CASE Seen(r, k) = NoRow
  <2>1. Flush(r, Set(k, row), p)
    BY <1>4 DEF InsertSource
  <2>2. k \in Sources /\ k \in Key /\ k \notin DatasetKey /\ k \notin Runs
    BY <1>1, KeysDiffer DEF Txn
  <2>3. row \in SourceRow /\ row.by = r /\ row.kind = kind
    BY RequestsAreMakers DEF SourceRow
  <2>4. table[k] = NoRow
    BY <1>2, <1>4 DEF Seen, Written
  <2>5. /\ p \in Place /\ p \in {"sourced", "commit"}
        /\ p = "sourced" <=> txn[r].kind = "upload"
        /\ kind = "file" <=> txn[r].kind = "upload"
    BY DEF Place
  <2> DEFINE rows == Set(k, row)
  <2>6. DOMAIN rows = {k} /\ rows[k] = row
    <3> HIDE DEF k, row
    <3> QED
      BY SetRow
  <2>7. Flush(r, rows, p)
    BY <2>1
  <2>8. Aim(txn[r]) \in DatasetKey
    BY Facts, AimIsKey
  <2>9. k = Source(txn[r].source)
    OBVIOUS
  <2>13. \A s \in SourceName, d \in DatasetName : Dataset(s, d) # k
    BY <2>2, KeysDiffer
  <2> HIDE DEF rows, row, k, p, kind
  <2>10. /\ Moves(r) /\ UNCHANGED <<table, alone, files>>
         /\ txn'[r].pc = p /\ txn'[r].kind = txn[r].kind
         /\ txn'[r].source = txn[r].source /\ txn'[r].names = txn[r].names
         /\ txn'[r].next = txn[r].next /\ txn'[r].bound = txn[r].bound
         /\ DOMAIN writes'[r] = {k} /\ writes'[r][k] = row
    <3>1. \A x \in DOMAIN rows : IsRow(x, rows[x])
      BY <2>2, <2>3, <2>6 DEF IsRow
    <3> QED
      BY <1>2, <2>2, <2>5, <2>6, <2>7, <3>1, FlushMoves
  <2> DEFINE t == txn'[r]
             w == writes'[r]
  <2>11. Fits(t) /\ Holds(r, t, w) /\ Pending(r, t, w) /\ Stored(t, files'[r])
    <3>1. Fits(t) /\ Stored(t, files'[r])
      BY <1>1, <1>2, <2>5, <2>10 DEF Mine, Fits, Stored
    <3>2. Holds(r, t, w)
      BY <1>2, <2>5, <2>9, <2>10 DEF Holds
    <3>3. Pending(r, t, w)
      BY <1>2, <2>2, <2>3, <2>4, <2>5, <2>10, <2>13 DEF Pending
    <3> QED
      BY <3>1, <3>2, <3>3
  <2>12. Profiled(r, t, w) /\ Gained(r, t)
    BY <1>1, <1>2, <2>5, <2>10 DEF Mine, Profiled, Gained
  <2>14. \A q \in Request \ {r} : Written(r)' \cap Written(q) = {}
    BY <1>1, <2>9, <2>10, FreeRow DEF Written
  <2> QED
    BY <1>2, <2>5, <2>10, <2>11, <2>12, <2>14, StepKeeps DEF Mine
<1> QED
  BY <1>3, <1>4

LEMMA InsertDatasetStep ==
  ASSUME IInv, NEW r \in Request, InsertDataset(r) PROVE IInv'
<1> DEFINE k == Aim(txn[r])
           source == Source(txn[r].source)
           row == [by |-> r, count |-> r]
           rows == Set(k, row)
<1>1. /\ txn[r] \in Txn /\ Mine(r, txn[r], writes[r], files[r])
      /\ txn[r].pc = "sourced"
  BY Facts DEF InsertDataset
<1>2. /\ Written(r) = {source} /\ DOMAIN writes[r] = {source} /\ Busy(r)
      /\ txn[r].kind = "upload" /\ files[r] = "whole"
  BY <1>1 DEF Busy, Ended, Mine, Fits, Stored, Holds, Written
<1>3. Flush(r, rows, "commit")
  BY DEF InsertDataset, Target, Aim
<1>4. k \in DatasetKey /\ k \in Key /\ k \notin Sources /\ k \notin Runs
  BY Facts, AimIsKey, KeysDiffer
<1>5. row \in DatasetRow /\ row.by = r /\ row.count = r
  BY RequestsAreMakers DEF DatasetRow
<1>6. DOMAIN rows = {k} /\ rows[k] = row
  <2> HIDE DEF k, row
  <2> QED
    BY SetRow
<1>7. /\ source \in Sources /\ source \in Key /\ source \notin DatasetKey
      /\ txn[r].source \in SourceName
      /\ txn[r].names[txn[r].next] \in DatasetName
  <2>1. txn[r].names[txn[r].next] \in DatasetName
    BY Facts, NamesAreLists
  <2> QED
    BY <1>1, <2>1, KeysDiffer DEF Txn
<1>8. table[source] = NoRow /\ writes[r][source].by = r
  BY <1>1, <1>2, <1>7 DEF Mine, Pending
<1>9. table[k] = NoRow
  BY <1>7, <1>8 DEF IInv, Committed, Aim
<1>10. \A q \in Request \ {r} : k \notin Written(q)
  <2> SUFFICES ASSUME NEW q \in Request \ {r}, k \in Written(q) PROVE FALSE
    OBVIOUS
  <2>1. table[source] # NoRow \/ source \in Written(q)
    BY <1>7, Facts DEF Mine, Pending, Aim
  <2> QED
    BY <1>2, <1>8, <2>1 DEF IInv, Exclusive
<1>11. \A s \in SourceName, d \in DatasetName :
         Dataset(s, d) = k => s = txn[r].source
  BY KeysDiffer DEF Aim
<1>12. \A s \in SourceName, d \in DatasetName : Dataset(s, d) # source
  BY <1>7, KeysDiffer
<1>13. source = Source(txn[r].source) /\ k = Aim(txn[r])
  OBVIOUS
<1> HIDE DEF rows, row, k, source
<1>14. /\ Moves(r) /\ UNCHANGED <<table, alone, files>>
       /\ txn'[r].pc = "commit" /\ txn'[r].kind = txn[r].kind
       /\ txn'[r].source = txn[r].source /\ txn'[r].names = txn[r].names
       /\ txn'[r].next = txn[r].next /\ txn'[r].bound = txn[r].bound
       /\ DOMAIN writes'[r] = {source, k}
       /\ writes'[r][k] = row /\ writes'[r][source] = writes[r][source]
  <2>1. \A x \in DOMAIN rows : IsRow(x, rows[x])
    BY <1>4, <1>5, <1>6 DEF IsRow
  <2>2. "commit" \in Place
    BY DEF Place
  <2> QED
    BY <1>2, <1>3, <1>4, <1>6, <1>7, <2>1, <2>2, FlushMoves
<1> DEFINE t == txn'[r]
           w == writes'[r]
<1>15. Aim(t) = k
  BY <1>13, <1>14 DEF Aim
<1>16. Fits(t) /\ Holds(r, t, w) /\ Stored(t, files'[r])
  BY <1>1, <1>2, <1>13, <1>14, <1>15 DEF Mine, Fits, Holds, Stored
<1>17. Pending(r, t, w)
  <2>1. writes[r][source].kind = "file" => txn[r].kind = "upload"
    BY <1>2
  <2> QED
    BY <1>2, <1>4, <1>5, <1>7, <1>8, <1>9, <1>11, <1>12, <1>13, <1>14, <2>1
    DEF Pending
<1>18. Profiled(r, t, w) /\ Gained(r, t)
  BY <1>1, <1>2, <1>14 DEF Mine, Profiled, Gained
<1>19. \A q \in Request \ {r} : Written(r)' \cap Written(q) = {}
  BY <1>2, <1>10, <1>14 DEF Written, IInv, Exclusive
<1> QED
  BY <1>2, <1>14, <1>16, <1>17, <1>18, <1>19, StepKeeps DEF Mine

LEMMA FindSourceStep ==
  ASSUME IInv, NEW r \in Request, FindSource(r) PROVE IInv'
<1>1. /\ txn[r].pc = "received" /\ txn[r].kind = "import"
      /\ Goto(r, "importing") /\ UNCHANGED <<table, writes, files, alone>>
      /\ Seen(r, Source(txn[r].source)) # NoRow
  BY DEF FindSource, Is, Read
<1>2. Written(r) = {} /\ Busy(r)
  BY <1>1, EmptyHanded DEF Busy, Ended
<1>3. /\ Types /\ txn[r] \in Txn /\ Mine(r, txn[r], writes[r], files[r])
      /\ DOMAIN writes[r] = {} /\ txn[r].next = 1
  BY <1>1, <1>2, Facts DEF Mine, Fits
<1>4. table[Source(txn[r].source)] # NoRow
  BY <1>1, <1>2 DEF Seen, Written
<1>5. /\ txn' = [txn EXCEPT ![r] = txn'[r]] /\ txn'[r] \in Txn
      /\ txn'[r].pc = "importing" /\ txn'[r].kind = txn[r].kind
      /\ txn'[r].source = txn[r].source /\ txn'[r].names = txn[r].names
      /\ txn'[r].next = 1 /\ txn'[r].bound = txn[r].bound
      /\ txn'[r].next \in DOMAIN txn'[r].names
  BY <1>1, <1>3, GotoPlace DEF Place
<1>6. Moves(r)
  BY <1>1, <1>3, <1>5 DEF Moves, Types, Written
<1> DEFINE t == txn'[r]
           w == writes'[r]
<1>7. Fits(t) /\ Pending(r, t, w) /\ Stored(t, files'[r])
  BY <1>1, <1>3, <1>4, <1>5 DEF Mine, Fits, Pending, Stored
<1>8. Holds(r, t, w)
  <2>1. Asked(t, 0) = {}
    BY AskedMore
  <2>2. t.next - 1 = 0
    BY <1>5
  <2> QED
    BY <1>1, <1>3, <1>5, <2>1, <2>2 DEF Holds
<1>9. Profiled(r, t, w) /\ Gained(r, t)
  BY <1>1, <1>3, <1>5 DEF Mine, Profiled, Gained
<1> QED
  BY <1>1, <1>2, <1>5, <1>6, <1>7, <1>8, <1>9, StepKeeps DEF Mine, Written

LEMMA NextPlace ==
  ASSUME Types, NEW r \in Request, NextTable(r)
  PROVE  /\ txn' = [txn EXCEPT ![r] = txn'[r]] /\ txn'[r] \in Txn
         /\ txn'[r].kind = txn[r].kind /\ txn'[r].bound = txn[r].bound
         /\ txn'[r].source = txn[r].source /\ txn'[r].names = txn[r].names
         /\ txn'[r].next \in DOMAIN txn'[r].names
         /\ \/ /\ txn'[r].pc = "commit" /\ txn'[r].next = txn[r].next
               /\ txn[r].next = Len(txn[r].names)
            \/ txn'[r].pc = txn[r].pc /\ txn'[r].next = txn[r].next + 1
<1>1. /\ txn \in [Request -> Txn] /\ txn[r] \in Txn
      /\ txn[r].next \in DOMAIN txn[r].names
  BY DEF Types
<1>2. /\ txn[r].names \in Seq(DatasetName) /\ Len(txn[r].names) \in Nat
      /\ txn[r].next \in 1..Len(txn[r].names)
  BY <1>1, NamesAreLists
<1>3. CASE txn[r].next = Len(txn[r].names)
  <2>1. Goto(r, "commit") /\ "commit" \in Place
    BY <1>3 DEF NextTable, Goto, Place
  <2> QED
    BY <1>3, <2>1, GotoPlace
<1>4. CASE txn[r].next # Len(txn[r].names)
  <2> DEFINE t == [txn[r] EXCEPT !.next = txn[r].next + 1]
  <2>1. txn[r].next + 1 \in Nat /\ txn[r].next + 1 \in 1..Len(txn[r].names)
    BY <1>2, <1>4
  <2>2. /\ t \in Txn /\ t.pc = txn[r].pc /\ t.kind = txn[r].kind
        /\ t.source = txn[r].source /\ t.names = txn[r].names
        /\ t.next = txn[r].next + 1 /\ t.bound = txn[r].bound
    BY <1>1, <2>1 DEF Txn
  <2>3. txn' = [txn EXCEPT ![r] = t]
    BY <1>4 DEF NextTable
  <2> HIDE DEF t
  <2>4. txn'[r] = t
    BY <1>1, <2>3
  <2>5. t.next \in DOMAIN t.names
    BY <1>2, <2>1, <2>2
  <2> QED
    BY <1>1, <2>2, <2>3, <2>4, <2>5
<1> QED
  BY <1>3, <1>4

LEMMA ImportTableStep ==
  ASSUME IInv, NEW r \in Request, ImportTable(r) PROVE IInv'
<1> DEFINE k == Aim(txn[r])
           row == [by |-> r, count |-> r]
           rows == Set(k, row)
<1>1. /\ txn[r] \in Txn /\ Mine(r, txn[r], writes[r], files[r]) /\ Types
      /\ txn[r].pc = "importing" /\ Free(r, {k})
  BY Facts DEF ImportTable, Target, Aim
<1>2. /\ Written(r) = Asked(txn[r], txn[r].next - 1) /\ Busy(r)
      /\ DOMAIN writes[r] = Written(r)
      /\ txn[r].kind = "import" /\ table[Source(txn[r].source)] # NoRow
  BY <1>1 DEF Busy, Ended, Mine, Fits, Holds, Pending, Written
<1>3. CASE Seen(r, k) # NoRow
  BY <1>2, <1>3, DuplicateNameStep DEF ImportTable, Target, Aim
<1>4. CASE Seen(r, k) = NoRow
  <2>1. /\ NextTable(r) /\ Write(r, rows)
        /\ UNCHANGED <<table, files, alone>>
    BY <1>4 DEF ImportTable, Target, Aim
  <2>2. /\ k \in DatasetKey /\ k \in Key /\ k \notin Sources /\ k \notin Runs
        /\ \A n \in 0..Len(txn[r].names) : Asked(txn[r], n) \subseteq DatasetKey
    BY Facts, AimIsKey, KeysDiffer
  <2>3. row \in DatasetRow /\ row.by = r /\ row.count = r
    BY RequestsAreMakers DEF DatasetRow
  <2>4. DOMAIN rows = {k} /\ rows[k] = row
    <3> HIDE DEF k, row
    <3> QED
      BY SetRow
  <2>5. /\ txn[r].next \in 1..Len(txn[r].names) /\ Len(txn[r].names) \in Nat
        /\ txn[r].next \in Nat \ {0} /\ txn[r].next - 1 \in 0..Len(txn[r].names)
    BY <1>1, NamesAreLists, Facts
  <2>6. Written(r) \subseteq DatasetKey
    BY <1>2, <2>2, <2>5
  <2>7. /\ k \notin Written(r) /\ table[k] = NoRow
    <3>1. ASSUME k \in Written(r) PROVE FALSE
      <4>1. IsRow(k, writes[r][k]) /\ writes[r][k] = NoRow
        BY <1>1, <1>4, <3>1 DEF Types, Seen, Written
      <4> QED
        BY <2>2, <4>1, RowsAreRows
    <3> QED
      BY <1>4, <3>1 DEF Seen, Written
  <2>8. \A q \in Request \ {r} : k \notin Written(q)
    BY <1>1, FreeRow
  <2>9. \A s \in SourceName, d \in DatasetName :
          Dataset(s, d) = k => s = txn[r].source
    BY KeysDiffer DEF Aim
  <2>10. Asked(txn[r], txn[r].next) = Written(r) \cup {k}
    BY <1>2, <2>5, AskedMore DEF Aim
  <2> HIDE DEF rows, row, k
  <2>11. /\ DOMAIN writes' = Request /\ writes' = [q \in Request |-> writes'[q]]
         /\ \A q \in Request \ {r} : writes'[q] = writes[q]
         /\ Written(r)' = Written(r) \cup {k} /\ writes'[r][k] = row
         /\ \A x \in Written(r) : writes'[r][x] = writes[r][x]
    BY <1>1, <2>1, <2>4, <2>7, WriteRows
  <2>12. /\ txn' = [txn EXCEPT ![r] = txn'[r]] /\ txn'[r] \in Txn
         /\ txn'[r].kind = txn[r].kind /\ txn'[r].bound = txn[r].bound
         /\ txn'[r].source = txn[r].source /\ txn'[r].names = txn[r].names
         /\ txn'[r].next \in DOMAIN txn'[r].names
         /\ \/ /\ txn'[r].pc = "commit" /\ txn'[r].next = txn[r].next
               /\ txn[r].next = Len(txn[r].names)
            \/ txn'[r].pc = txn[r].pc /\ txn'[r].next = txn[r].next + 1
    BY <1>1, <2>1, NextPlace
  <2>13. Moves(r)
    <3>1. IsRow(k, row) /\ \A x \in Written(r) : IsRow(x, writes[r][x])
      BY <1>1, <2>2, <2>3 DEF IsRow, Types
    <3>2. Written(r)' \subseteq Key
      BY <2>2, <2>11, <1>1 DEF Types
    <3>3. files' \in [Request -> {"none", "partial", "whole"}]
      BY <1>1, <2>1 DEF Types
    <3> QED
      BY <2>1, <2>11, <2>12, <3>1, <3>2, <3>3 DEF Moves
  <2> DEFINE t == txn'[r]
             w == writes'[r]
  <2>14. DOMAIN w = Written(r) \cup {k} /\ w[k] = row
         /\ \A x \in Written(r) : w[x] = writes[r][x]
    BY <2>11 DEF Written
  <2>15. Fits(t) /\ Stored(t, files'[r])
    BY <1>1, <1>2, <2>1, <2>12 DEF Mine, Fits, Stored
  <2>16. Holds(r, t, w)
    <3>1. \A n : Asked(t, n) = Asked(txn[r], n)
      BY <2>12 DEF Asked
    <3>2. CASE t.pc = "commit"
      BY <1>1, <1>2, <2>10, <2>12, <2>14, <3>1, <3>2 DEF Holds
    <3>3. CASE t.pc = "importing" /\ t.next = txn[r].next + 1
      <4>1. t.next - 1 = txn[r].next
        BY <2>5, <3>3
      <4> QED
        BY <2>10, <2>14, <3>1, <3>3, <4>1 DEF Holds
    <3> QED
      BY <1>1, <2>12, <3>2, <3>3
  <2>17. Pending(r, t, w)
    <3>1. \A x \in Written(r) :
            table[x] = NoRow /\ writes[r][x].by = r /\ writes[r][x].count = r
      BY <1>1, <1>2, <2>6 DEF Mine, Pending
    <3>2. \A x \in DOMAIN w : x \notin Sources
      BY <2>2, <2>6, <2>14, KeysDiffer
    <3>3. \A s \in SourceName, d \in DatasetName :
            Dataset(s, d) \in DOMAIN w =>
              table[Source(s)] # NoRow \/ Source(s) \in DOMAIN w
      BY <1>1, <1>2, <2>9, <2>14 DEF Mine, Pending
    <3> QED
      BY <1>2, <2>3, <2>7, <2>12, <2>14, <3>1, <3>2, <3>3 DEF Pending
  <2>18. Profiled(r, t, w) /\ Gained(r, t)
    BY <1>1, <1>2, <2>12 DEF Mine, Profiled, Gained
  <2>19. \A q \in Request \ {r} : Written(r)' \cap Written(q) = {}
    BY <2>8, <2>11 DEF IInv, Exclusive
  <2>20. txn'[r].pc \notin {"waiting", "done"}
    BY <1>1, <2>12
  <2> QED
    BY <1>2, <2>1, <2>13, <2>15, <2>16, <2>17, <2>18, <2>19, <2>20, StepKeeps
    DEF Mine
<1> QED
  BY <1>3, <1>4

(* Only its own request writes a profile run.                              *)
LEMMA RunsAreOwn ==
  ASSUME IInv, NEW q \in Request, NEW r \in Request, Run(r) \in Written(q)
  PROVE  q = r /\ txn[q].pc \in {"opening", "closing"}
<1>1. /\ txn[q] \in Txn /\ txn[q].next \in DOMAIN txn[q].names
      /\ Mine(q, txn[q], writes[q], files[q]) /\ Written(q) = DOMAIN writes[q]
  BY Facts
<1>2. /\ Run(r) \notin Sources /\ Run(r) \notin DatasetKey
      /\ Source(txn[q].source) \in Sources
  BY <1>1, KeysDiffer DEF Txn
<1>3. /\ Aim(txn[q]) \in DatasetKey /\ Len(txn[q].names) \in Nat
      /\ txn[q].next \in 1..Len(txn[q].names)
      /\ \A n \in 0..Len(txn[q].names) : Asked(txn[q], n) \subseteq DatasetKey
  BY <1>1, AimIsKey, NamesAreLists
<1>4. /\ Len(txn[q].names) \in 0..Len(txn[q].names)
      /\ txn[q].next - 1 \in 0..Len(txn[q].names)
  BY <1>3
<1>5. txn[q].pc \in {"opening", "closing"}
  BY <1>1, <1>2, <1>3, <1>4 DEF Mine, Holds, Txn, Kind
<1> QED
  BY <1>1, <1>5, KeysDiffer DEF Mine, Holds

LEMMA InsertRunStep ==
  ASSUME IInv, NEW r \in Request, InsertRun(r) PROVE IInv'
<1> DEFINE k == Run(r)
           row == [of |-> Aim(txn[r]), status |-> "running"]
           rows == Set(k, row)
<1>1. /\ txn[r] \in Txn /\ Mine(r, txn[r], writes[r], files[r])
      /\ txn[r].pc = "looked"
  BY Facts DEF InsertRun
<1>2. /\ Written(r) = {} /\ Busy(r) /\ txn[r].kind = "profile"
  BY <1>1, EmptyHanded DEF Busy, Ended, Mine, Fits
<1>3. Flush(r, rows, "opening")
  BY DEF InsertRun, Target, Aim
<1>4. k \in Runs /\ k \in Key /\ k \notin Sources /\ k \notin DatasetKey
  BY KeysDiffer
<1>5. row \in RunRow
  BY Facts, AimIsKey DEF RunRow
<1>6. DOMAIN rows = {k} /\ rows[k] = row
  <2> HIDE DEF k, row
  <2> QED
    BY SetRow
<1>7. k = Run(r) /\ row = [of |-> Aim(txn[r]), status |-> "running"]
  OBVIOUS
<1>8. \A s \in SourceName, d \in DatasetName : Dataset(s, d) # k
  BY <1>4, KeysDiffer
<1> HIDE DEF rows, row, k
<1>9. /\ Moves(r) /\ UNCHANGED <<table, alone, files>>
      /\ txn'[r].pc = "opening" /\ txn'[r].kind = txn[r].kind
      /\ txn'[r].source = txn[r].source /\ txn'[r].names = txn[r].names
      /\ txn'[r].next = txn[r].next /\ txn'[r].bound = txn[r].bound
      /\ DOMAIN writes'[r] = {k} /\ writes'[r][k] = row
  <2>1. \A x \in DOMAIN rows : IsRow(x, rows[x])
    BY <1>4, <1>5, <1>6 DEF IsRow
  <2>2. "opening" \in Place
    BY DEF Place
  <2> QED
    BY <1>2, <1>3, <1>4, <1>6, <2>1, <2>2, FlushMoves
<1> DEFINE t == txn'[r]
           w == writes'[r]
<1>10. Aim(t) = Aim(txn[r])
  BY <1>9 DEF Aim
<1>11. Fits(t) /\ Holds(r, t, w) /\ Pending(r, t, w) /\ Stored(t, files'[r])
  BY <1>1, <1>2, <1>4, <1>7, <1>8, <1>9 DEF Mine, Fits, Holds, Pending, Stored
<1>12. Profiled(r, t, w) /\ Gained(r, t)
  BY <1>1, <1>2, <1>7, <1>9, <1>10 DEF Mine, Profiled, Gained
<1>13. \A q \in Request \ {r} : Written(r)' \cap Written(q) = {}
  BY <1>7, <1>9, RunsAreOwn DEF Written
<1> QED
  BY <1>2, <1>9, <1>11, <1>12, <1>13, StepKeeps DEF Mine

LEMMA MeasureStep ==
  ASSUME IInv, NEW r \in Request, Measure(r) PROVE IInv'
<1>1. /\ txn[r] \in Txn /\ Mine(r, txn[r], writes[r], files[r])
      /\ txn[r].pc = "profiling"
  BY Facts DEF Measure
<1>2. /\ Written(r) = {} /\ Busy(r) /\ txn[r].kind = "profile"
      /\ table[Run(r)] = [of |-> Aim(txn[r]), status |-> "running"]
  BY <1>1, EmptyHanded DEF Busy, Ended, Mine, Fits, Profiled
<1>3. PICK outcome \in {"completed", "failed"} :
        Flush(r, Set(Run(r), [table[Run(r)] EXCEPT !.status = outcome]),
              "closing")
  BY DEF Measure
<1> DEFINE k == Run(r)
           row == [table[Run(r)] EXCEPT !.status = outcome]
           rows == Set(k, row)
<1>4. k \in Runs /\ k \in Key /\ k \notin Sources /\ k \notin DatasetKey
  BY KeysDiffer
<1>5. row = [of |-> Aim(txn[r]), status |-> outcome]
  BY <1>2
<1>6. row \in RunRow
  BY <1>5, Facts, AimIsKey DEF RunRow
<1>7. DOMAIN rows = {k} /\ rows[k] = row
  <2> HIDE DEF k, row
  <2> QED
    BY SetRow
<1>8. k = Run(r) /\ Flush(r, rows, "closing")
  BY <1>3
<1>9. \A s \in SourceName, d \in DatasetName : Dataset(s, d) # k
  BY <1>4, KeysDiffer
<1> HIDE DEF rows, row, k
<1>10. /\ Moves(r) /\ UNCHANGED <<table, alone, files>>
       /\ txn'[r].pc = "closing" /\ txn'[r].kind = txn[r].kind
       /\ txn'[r].source = txn[r].source /\ txn'[r].names = txn[r].names
       /\ txn'[r].next = txn[r].next /\ txn'[r].bound = txn[r].bound
       /\ DOMAIN writes'[r] = {k} /\ writes'[r][k] = row
  <2>1. \A x \in DOMAIN rows : IsRow(x, rows[x])
    BY <1>4, <1>6, <1>7 DEF IsRow
  <2>2. "closing" \in Place
    BY DEF Place
  <2> QED
    BY <1>2, <1>4, <1>7, <1>8, <2>1, <2>2, FlushMoves
<1> DEFINE t == txn'[r]
           w == writes'[r]
<1>11. Aim(t) = Aim(txn[r])
  BY <1>10 DEF Aim
<1>12. Fits(t) /\ Holds(r, t, w) /\ Pending(r, t, w) /\ Stored(t, files'[r])
  BY <1>1, <1>2, <1>4, <1>8, <1>9, <1>10 DEF Mine, Fits, Holds, Pending, Stored
<1>13. Profiled(r, t, w) /\ Gained(r, t)
  BY <1>1, <1>2, <1>5, <1>8, <1>10, <1>11 DEF Mine, Profiled, Gained
<1>14. \A q \in Request \ {r} : Written(r)' \cap Written(q) = {}
  BY <1>8, <1>10, RunsAreOwn DEF Written
<1> QED
  BY <1>2, <1>10, <1>12, <1>13, <1>14, StepKeeps DEF Mine

LEMMA StampRowCountStep ==
  ASSUME IInv, NEW r \in Request, StampRowCount(r) PROVE IInv'
<1> DEFINE k == Aim(txn[r])
           row == [table[k] EXCEPT !.count = r]
           rows == Set(k, row)
<1>1. /\ txn[r] \in Txn /\ Mine(r, txn[r], writes[r], files[r])
      /\ txn[r].pc = "counting" /\ Free(r, {k})
  BY Facts DEF StampRowCount, Target, Aim
<1>2. /\ Written(r) = {} /\ Busy(r) /\ txn[r].kind = "profile"
      /\ txn[r].bound /\ table[k] # NoRow
  BY <1>1, EmptyHanded DEF Busy, Ended, Mine, Fits, Profiled
<1>3. Flush(r, rows, "commit")
  BY <1>2 DEF StampRowCount, Target, Aim
<1>4. k \in DatasetKey /\ k \in Key /\ k \notin Sources /\ k \notin Runs
  BY Facts, AimIsKey, KeysDiffer
<1>5. row \in DatasetRow /\ row.by = table[k].by /\ row.count = r
  <2>1. table[k] \in DatasetRow
    BY <1>2, <1>4 DEF IInv, Types, IsRow
  <2> QED
    BY <2>1, RequestsAreMakers DEF DatasetRow
<1>6. DOMAIN rows = {k} /\ rows[k] = row
  <2> HIDE DEF k, row
  <2> QED
    BY SetRow
<1>7. /\ txn[r].source \in SourceName
      /\ txn[r].names[txn[r].next] \in DatasetName
  BY <1>1, Facts, NamesAreLists DEF Txn
<1>8. table[Source(txn[r].source)] # NoRow
  BY <1>2, <1>7 DEF IInv, Committed, Aim
<1>9. \A s \in SourceName, d \in DatasetName :
        Dataset(s, d) = k => s = txn[r].source
  BY KeysDiffer DEF Aim
<1>10. k = Aim(txn[r])
  OBVIOUS
<1>11. \A q \in Request \ {r} : k \notin Written(q)
  BY <1>1, FreeRow
<1> HIDE DEF rows, row, k
<1>12. /\ Moves(r) /\ UNCHANGED <<table, alone, files>>
       /\ txn'[r].pc = "commit" /\ txn'[r].kind = txn[r].kind
       /\ txn'[r].source = txn[r].source /\ txn'[r].names = txn[r].names
       /\ txn'[r].next = txn[r].next /\ txn'[r].bound = txn[r].bound
       /\ DOMAIN writes'[r] = {k} /\ writes'[r][k] = row
  <2>1. \A x \in DOMAIN rows : IsRow(x, rows[x])
    BY <1>4, <1>5, <1>6 DEF IsRow
  <2>2. "commit" \in Place
    BY DEF Place
  <2>3. DOMAIN rows \subseteq Key
    BY <1>4, <1>6
  <2>4. /\ Moves(r) /\ UNCHANGED <<table, alone, files>>
        /\ txn'[r].pc = "commit" /\ txn'[r].kind = txn[r].kind
        /\ txn'[r].source = txn[r].source /\ txn'[r].names = txn[r].names
        /\ txn'[r].next = txn[r].next /\ txn'[r].bound = txn[r].bound
        /\ DOMAIN writes'[r] = DOMAIN rows \cup Written(r)
        /\ \A x \in DOMAIN rows : writes'[r][x] = rows[x]
    BY <1>3, <2>1, <2>2, <2>3, FlushMoves
  <2> QED
    BY <1>2, <1>6, <2>4
<1> DEFINE t == txn'[r]
           w == writes'[r]
<1>13. Aim(t) = k
  BY <1>10, <1>12 DEF Aim
<1>14. Fits(t) /\ Holds(r, t, w) /\ Stored(t, files'[r])
  BY <1>1, <1>2, <1>12, <1>13 DEF Mine, Fits, Holds, Stored
<1>15. Pending(r, t, w)
  BY <1>2, <1>4, <1>5, <1>8, <1>9, <1>12 DEF Pending
<1>16. Profiled(r, t, w) /\ Gained(r, t)
  BY <1>1, <1>2, <1>10, <1>12, <1>13 DEF Mine, Profiled, Gained
<1>17. \A q \in Request \ {r} : Written(r)' \cap Written(q) = {}
  BY <1>11, <1>12 DEF Written
<1> QED
  BY <1>2, <1>12, <1>14, <1>15, <1>16, <1>17, StepKeeps DEF Mine

-----------------------------------------------------------------------------
(* Steps that commit.                                                      *)

(* What a commit does to the rows.                                         *)
LEMMA CommitRows ==
  ASSUME Types, NEW r \in Request, CommitWrites(r)
  PROVE  /\ DOMAIN writes' = Request /\ writes' = [q \in Request |-> writes'[q]]
         /\ \A q \in Request \ {r} : writes'[q] = writes[q]
         /\ Written(r)' = {} /\ DOMAIN writes'[r] = {}
         /\ Key \subseteq DOMAIN table'
         /\ \A k \in Written(r) : table'[k] = writes[r][k] /\ table'[k] # NoRow
         /\ \A k \in Key \ Written(r) : table'[k] = table[k]
         /\ \A k \in Key : table[k] # NoRow => table'[k] # NoRow
         /\ \A k \in Key : table'[k] = NoRow \/ IsRow(k, table'[k])
<1>1. DropWrites(r) /\ table' = Over(writes[r], table)
  BY DEF CommitWrites, DropWrites
<1>2. /\ DOMAIN writes' = Request /\ writes' = [q \in Request |-> writes'[q]]
      /\ \A q \in Request \ {r} : writes'[q] = writes[q]
      /\ Written(r)' = {} /\ DOMAIN writes'[r] = {}
  BY <1>1, DropRows
<1>3. /\ DOMAIN table' = Written(r) \cup DOMAIN table
      /\ \A k \in Written(r) : table'[k] = writes[r][k]
      /\ \A k \in DOMAIN table \ Written(r) : table'[k] = table[k]
  BY <1>1 DEF Over, Written
<1>4. /\ Key \subseteq DOMAIN table /\ Written(r) \subseteq Key
      /\ \A k \in Written(r) : IsRow(k, writes[r][k])
      /\ \A k \in Key : table[k] = NoRow \/ IsRow(k, table[k])
  BY DEF Types
<1>5. \A k \in Written(r) : writes[r][k] # NoRow
  BY <1>4, RowsAreRows
<1> QED
  BY <1>2, <1>3, <1>4, <1>5

(* The completed runs of a dataset, and whether its count is theirs.       *)
Completed(k) ==
  {r \in Request : table[Run(r)] = [of |-> k, status |-> "completed"]}

CountFits(k) ==
  /\ table[k] # NoRow /\ Completed(k) = {} => table[k].count = table[k].by
  /\ \A r \in Completed(k) :
       (\A q \in Completed(k) : q <= r) /\ txn[r].pc = "done"
         => table[k].count = r

(* Where the commits of the code are, and where they lead.                 *)
Commits(r, p) ==
  \/ txn[r].pc = "opening" /\ p \in {"profiling", "error"}
  \/ /\ txn[r].pc = "closing"
     /\ \/ p = "error"
        \/ p = "counting" /\ writes[r][Run(r)].status = "completed"
        \/ p = "done" /\ writes[r][Run(r)].status # "completed"
  \/ txn[r].pc = "commit" /\ p \in {"done", "error"}

LEMMA CommitKeeps ==
  ASSUME IInv, NEW r \in Request, NEW p \in Place, Goto(r, p), CommitWrites(r),
         UNCHANGED <<files, alone>>, Commits(r, p)
  PROVE  IInv'
<1> DEFINE W == Written(r)
           k == Aim(txn[r])
<1>1. /\ Types /\ txn[r] \in Txn /\ txn[r].next \in DOMAIN txn[r].names
      /\ Mine(r, txn[r], writes[r], files[r]) /\ W = DOMAIN writes[r]
  BY Facts
<1>2. /\ txn' = [txn EXCEPT ![r] = txn'[r]] /\ txn'[r] \in Txn
      /\ txn'[r].pc = p /\ txn'[r].kind = txn[r].kind
      /\ txn'[r].source = txn[r].source /\ txn'[r].names = txn[r].names
      /\ txn'[r].next = txn[r].next /\ txn'[r].bound = txn[r].bound
      /\ txn'[r].next \in DOMAIN txn'[r].names
  BY <1>1, GotoPlace
<1>3. /\ DOMAIN writes' = Request /\ writes' = [q \in Request |-> writes'[q]]
      /\ \A q \in Request \ {r} : writes'[q] = writes[q]
      /\ Written(r)' = {} /\ DOMAIN writes'[r] = {}
      /\ Key \subseteq DOMAIN table'
      /\ \A x \in W : table'[x] = writes[r][x] /\ table'[x] # NoRow
      /\ \A x \in Key \ W : table'[x] = table[x]
      /\ \A x \in Key : table[x] # NoRow => table'[x] # NoRow
      /\ \A x \in Key : table'[x] = NoRow \/ IsRow(x, table'[x])
  BY <1>1, CommitRows
<1>4. /\ \A q \in Request \ {r} : txn'[q] = txn[q] /\ Written(q)' = Written(q)
      /\ txn' \in [Request -> Txn] /\ files' = files /\ alone' = alone
  BY <1>1, <1>2, <1>3 DEF Types, Written
<1>5. /\ W \subseteq Key /\ \A x \in W : IsRow(x, writes[r][x])
      /\ k \in DatasetKey /\ k \in Key /\ Run(r) \in Key
      /\ DatasetKey \subseteq Key
      /\ Len(txn[r].names) \in Nat /\ txn[r].names \in Seq(DatasetName)
      /\ Asked(txn[r], Len(txn[r].names)) \subseteq DatasetKey
      /\ txn[r].source \in SourceName
      /\ txn[r].names[txn[r].next] \in DatasetName
      /\ txn[r].pc \in {"opening", "closing", "commit"}
      /\ p \notin {"waiting", "importing", "saved", "ready", "sourced",
                   "received", "refused", "looked", "saving", "opening",
                   "closing", "commit"}
      /\ txn'[r].pc # "waiting" /\ Busy(r)
  <2>1. /\ txn[r].names \in Seq(DatasetName) /\ Len(txn[r].names) \in Nat
        /\ txn[r].source \in SourceName
    BY <1>1, NamesAreLists DEF Txn
  <2>2. /\ k \in DatasetKey
        /\ Asked(txn[r], Len(txn[r].names)) \subseteq DatasetKey
    BY <1>1, <2>1, AimIsKey
  <2>3. txn[r].names[txn[r].next] \in DatasetName
    BY <1>1, <2>1
  <2>4. W \subseteq Key /\ \A x \in W : IsRow(x, writes[r][x])
    BY <1>1 DEF Types
  <2>5. /\ txn[r].pc \in {"opening", "closing", "commit"}
        /\ p \notin {"waiting", "importing", "saved", "ready", "sourced",
                     "received", "refused", "looked", "saving", "opening",
                     "closing", "commit"}
    BY DEF Commits
  <2> QED
    BY <1>2, <2>1, <2>2, <2>3, <2>4, <2>5, KeysDiffer DEF Busy, Ended
<1>6. /\ txn[r].pc \in {"opening", "closing"} =>
           W = {Run(r)} /\ txn[r].kind = "profile"
      /\ txn[r].pc = "commit" => W \cap Runs = {} /\ Run(r) \notin W
  <2>1. txn[r].pc \in {"opening", "closing"} =>
          W = {Run(r)} /\ txn[r].kind = "profile"
    BY <1>1 DEF Mine, Holds, Fits
  <2>2. ASSUME txn[r].pc = "commit", NEW q \in Request, Run(q) \in W
        PROVE  FALSE
    BY <2>2, RunsAreOwn
  <2> QED
    BY <2>1, <2>2 DEF Runs
<1>7. \A x \in W \cap DatasetKey :
        IF txn[r].kind = "profile"
          THEN /\ table[x] # NoRow /\ table'[x].by = table[x].by
               /\ table'[x].count = r
          ELSE table[x] = NoRow /\ table'[x].by = r /\ table'[x].count = r
  BY <1>1, <1>3 DEF Mine, Pending
<1>8. \A q \in Request \ {r} : \A x \in Key :
        x \in Written(q) => table'[x] = table[x]
  BY <1>3 DEF IInv, Exclusive
<1>9. \A q \in Request \ {r} : table'[Run(q)] = table[Run(q)]
  <2> SUFFICES ASSUME NEW q \in Request \ {r}
               PROVE  table'[Run(q)] = table[Run(q)]
    OBVIOUS
  <2>1. Run(q) \notin W
    BY RunsAreOwn
  <2> QED
    BY <1>3, <2>1, KeysDiffer
<1>10. \A q \in Request \ {r} : Imported(q)' = Imported(q)
  <2> SUFFICES ASSUME NEW q \in Request \ {r}, NEW x \in DatasetKey
               PROVE  (table'[x] # NoRow /\ table'[x].by = q)
                        <=> (table[x] # NoRow /\ table[x].by = q)
    BY DEF Imported
  <2>1. CASE x \in W
    BY <1>3, <1>7, <2>1
  <2>2. CASE x \notin W
    BY <1>3, <1>5, <2>2
  <2> QED
    BY <2>1, <2>2
<1> HIDE DEF W, k
<1>11. Types'
  <2>1. \A q \in Request : txn'[q].next \in DOMAIN txn'[q].names
    BY <1>1, <1>2, <1>4 DEF Types
  <2>2. \A q \in Request : /\ Written(q)' \subseteq Key
                           /\ \A x \in Written(q)' : IsRow(x, writes'[q][x])
    BY <1>1, <1>3, <1>4 DEF Types
  <2> QED
    BY <1>1, <1>3, <1>4, <2>1, <2>2 DEF Types
<1>12. ASSUME NEW q \in Request \ {r}
       PROVE  Mine(q, txn[q], writes[q], files[q])'
  <2>1. /\ Mine(q, txn[q], writes[q], files[q]) /\ txn'[q] = txn[q]
        /\ writes'[q] = writes[q] /\ files'[q] = files[q]
        /\ Written(q) = DOMAIN writes[q]
    BY <1>3, <1>4, Facts
  <2>2. /\ txn[q] \in Txn /\ Aim(txn[q]) \in DatasetKey /\ Aim(txn[q]) \in Key
        /\ txn[q].source \in SourceName
    BY Facts, AimIsKey, KeysDiffer DEF Txn
  <2>3. Fits(txn'[q]) /\ Holds(q, txn'[q], writes'[q]) /\ Stored(txn'[q], files'[q])
    BY <2>1 DEF Mine
  <2>4. Pending(q, txn[q], writes[q])'
    <3>1. \A x \in DOMAIN writes[q] : table'[x] = table[x]
      BY <1>1, <1>8, <2>1 DEF Types
    <3>2. \A s \in SourceName : table[Source(s)] # NoRow => table'[Source(s)] # NoRow
      BY <1>3, KeysDiffer
    <3> QED
      BY <2>1, <2>2, <3>1, <3>2 DEF Mine, Pending
  <2>5. Profiled(q, txn[q], writes[q])'
    <3>1. table'[Run(q)] = table[Run(q)]
      BY <1>9
    <3>2. table[Aim(txn[q])] # NoRow => table'[Aim(txn[q])] # NoRow
      BY <1>3, <2>2
    <3>3. Aim(txn[q])' = Aim(txn[q])
      BY <2>1 DEF Aim
    <3> QED
      BY <2>1, <3>1, <3>2, <3>3 DEF Mine, Profiled
  <2>6. Gained(q, txn[q])'
    <3>1. Imported(q)' = Imported(q)
      BY <1>10
    <3>2. Asked(txn[q], Len(txn[q].names))' = Asked(txn[q], Len(txn[q].names))
      BY <2>1 DEF Asked
    <3> QED
      BY <2>1, <3>1, <3>2 DEF Mine, Gained
  <2> QED
    BY <2>3, <2>4, <2>5, <2>6 DEF Mine, Fits, Holds, Stored
<1>13. Mine(r, txn[r], writes[r], files[r])'
  <2>0. /\ Aim(txn[r])' = k /\ k = Aim(txn[r])
        /\ Asked(txn[r], Len(txn[r].names))' = Asked(txn[r], Len(txn[r].names))
    BY <1>2 DEF Aim, Asked, k
  <2>1. Fits(txn[r])'
    BY <1>1, <1>2, <1>5, <1>6 DEF Mine, Fits, Commits
  <2>2. Holds(r, txn[r], writes[r])'
    BY <1>2, <1>3, <1>5 DEF Holds
  <2>3. Pending(r, txn[r], writes[r])'
    BY <1>2, <1>3, <1>5 DEF Pending
  <2>4. Stored(txn[r], files[r])'
    BY <1>2, <1>5 DEF Stored
  <2>5. Profiled(r, txn[r], writes[r])'
    <3>1. table[k] # NoRow => table'[k] # NoRow
      BY <1>3, <1>5
    <3>2. CASE txn[r].pc = "opening"
      <4>1. /\ table'[Run(r)] = [of |-> k, status |-> "running"]
            /\ table[k] # NoRow /\ txn[r].kind = "profile"
        BY <1>1, <1>3, <1>6, <2>0, <3>2 DEF Mine, Profiled
      <4>2. p \in {"profiling", "error"}
        BY <3>2 DEF Commits
      <4> QED
        BY <1>2, <2>0, <3>1, <4>1, <4>2 DEF Profiled
    <3>3. CASE txn[r].pc = "closing"
      <4>1. /\ table'[Run(r)] = writes[r][Run(r)] /\ writes[r][Run(r)].of = k
            /\ writes[r][Run(r)].status \in {"completed", "failed"}
            /\ table[k] # NoRow /\ txn[r].kind = "profile"
        BY <1>1, <1>3, <1>6, <2>0, <3>3 DEF Mine, Profiled
      <4>2. writes[r][Run(r)] \in RunRow
        BY <1>5, <1>6, <3>3, KeysDiffer DEF IsRow
      <4>3. writes[r][Run(r)].status = "completed" =>
              table'[Run(r)] = [of |-> k, status |-> "completed"]
        BY <4>1, <4>2 DEF RunRow
      <4>4. \/ p = "error"
            \/ p = "counting" /\ writes[r][Run(r)].status = "completed"
            \/ p = "done"
        BY <3>3 DEF Commits
      <4> QED
        BY <1>2, <2>0, <3>1, <4>1, <4>3, <4>4 DEF Profiled
    <3>4. CASE txn[r].pc = "commit"
      <4>1. table'[Run(r)] = table[Run(r)]
        BY <1>3, <1>5, <1>6, <3>4
      <4>2. p \in {"done", "error"}
        BY <3>4 DEF Commits
      <4> QED
        BY <1>1, <1>2, <2>0, <3>1, <3>4, <4>1, <4>2 DEF Mine, Profiled
    <3> QED
      BY <1>5, <3>2, <3>3, <3>4
  <2>6. Gained(r, txn[r])'
    <3>1. Imported(r) = {}
      BY <1>1, <1>5 DEF Mine, Gained
    <3>2. CASE txn[r].pc \in {"opening", "closing"}
      <4>1. \A x \in DatasetKey : table'[x] = table[x]
        BY <1>3, <1>5, <1>6, <3>2, KeysDiffer
      <4>2. Imported(r)' = {}
        BY <3>1, <4>1 DEF Imported
      <4> QED
        BY <1>2, <1>6, <3>2, <4>2 DEF Gained
    <3>3. CASE txn[r].pc = "commit" /\ txn[r].kind = "import"
      <4>1. W = Asked(txn[r], Len(txn[r].names)) /\ W \subseteq DatasetKey
        BY <1>1, <1>5, <3>3 DEF Mine, Holds, W
      <4>2. \A x \in DatasetKey :
              (table'[x] # NoRow /\ table'[x].by = r) <=> x \in W
        <5> SUFFICES ASSUME NEW x \in DatasetKey
                     PROVE  (table'[x] # NoRow /\ table'[x].by = r) <=> x \in W
          OBVIOUS
        <5>1. CASE x \in W
          BY <1>3, <1>7, <3>3, <5>1
        <5>2. CASE x \notin W
          <6>1. table'[x] = table[x]
            BY <1>3, <1>5, <5>2
          <6>2. ~ (table[x] # NoRow /\ table[x].by = r)
            BY <3>1 DEF Imported
          <6> QED
            BY <5>2, <6>1, <6>2
        <5> QED
          BY <5>1, <5>2
      <4>3. Imported(r)' = W
        BY <4>1, <4>2 DEF Imported
      <4>4. p \in {"done", "error"}
        BY <3>3 DEF Commits
      <4> QED
        BY <1>2, <2>0, <4>1, <4>3, <4>4 DEF Gained
    <3>4. CASE txn[r].pc = "commit" /\ txn[r].kind # "import"
      <4>1. p \in {"done", "error"}
        BY <3>4 DEF Commits
      <4> QED
        BY <1>2, <3>4, <4>1 DEF Gained
    <3> QED
      BY <1>5, <3>2, <3>3, <3>4
  <2> QED
    BY <2>1, <2>2, <2>3, <2>4, <2>5, <2>6 DEF Mine
<1>14. Committed'
  <2>1. ASSUME NEW s \in SourceName, table'[Source(s)] # NoRow,
               table'[Source(s)].kind = "file"
        PROVE  /\ table'[Source(s)].by \in Request
               /\ txn'[table'[Source(s)].by].pc \in {"done", "error"}
               /\ files'[table'[Source(s)].by] = "whole"
               /\ \E d \in DatasetName : table'[Dataset(s, d)] # NoRow
    <3>1. CASE Source(s) \in W
      <4>1. /\ table'[Source(s)].by = r /\ txn[r].kind = "upload"
        BY <1>1, <1>3, <2>1, <3>1, KeysDiffer DEF Mine, Pending, W
      <4>2. txn[r].pc = "commit" /\ W = {Source(txn[r].source), k}
        BY <1>1, <1>5, <1>6, <4>1 DEF Mine, Holds, W, k
      <4>3. s = txn[r].source
        <5>1. Source(s) # k
          BY <1>5, KeysDiffer
        <5> QED
          BY <3>1, <4>2, <5>1, KeysDiffer
      <4>4. table'[k] # NoRow /\ k = Dataset(s, txn[r].names[txn[r].next])
        BY <1>3, <4>2, <4>3 DEF k, Aim
      <4>5. files[r] = "whole" /\ p \in {"done", "error"}
        BY <1>1, <4>1, <4>2 DEF Mine, Stored, Commits
      <4> QED
        BY <1>2, <1>4, <1>5, <4>1, <4>4, <4>5
    <3>2. CASE Source(s) \notin W
      <4>1. table'[Source(s)] = table[Source(s)]
        BY <1>3, <3>2, KeysDiffer
      <4> DEFINE q == table[Source(s)].by
      <4>2. /\ q \in Request /\ txn[q].pc \in {"done", "error"}
            /\ files[q] = "whole"
            /\ \E d \in DatasetName : table[Dataset(s, d)] # NoRow
        BY <2>1, <4>1 DEF IInv, Committed
      <4>3. q # r
        BY <1>5, <4>2
      <4>4. \E d \in DatasetName : table'[Dataset(s, d)] # NoRow
        BY <1>3, <4>2, KeysDiffer
      <4> HIDE DEF q
      <4>5. txn'[q].pc \in {"done", "error"} /\ files'[q] = "whole"
        BY <1>4, <4>2, <4>3
      <4> QED
        BY <4>1, <4>2, <4>4, <4>5 DEF q
    <3> QED
      BY <3>1, <3>2
  <2>2. ASSUME NEW s \in SourceName, NEW d \in DatasetName,
               table'[Dataset(s, d)] # NoRow
        PROVE  table'[Source(s)] # NoRow
    <3>1. CASE Dataset(s, d) \in W
      <4>1. table[Source(s)] # NoRow \/ Source(s) \in W
        BY <1>1, <3>1 DEF Mine, Pending, W
      <4> QED
        BY <1>3, <4>1, KeysDiffer
    <3>2. CASE Dataset(s, d) \notin W
      <4>1. table'[Dataset(s, d)] = table[Dataset(s, d)]
        BY <1>3, <3>2, KeysDiffer
      <4>2. table[Source(s)] # NoRow
        BY <2>2, <4>1 DEF IInv, Committed
      <4> QED
        BY <1>3, <4>2, KeysDiffer
    <3> QED
      BY <3>1, <3>2
  <2> QED
    BY <2>1, <2>2 DEF Committed
<1>15. Exclusive'
  BY <1>3, <1>4 DEF IInv, Exclusive
<1>16. InOrder'
  BY <1>4, <1>5 DEF IInv, InOrder
<1>17. OneAtATime'
  BY <1>4, <1>5 DEF IInv, OneAtATime, Busy, Ended
<1>18. CountIsOfLastRun'
  <2> SUFFICES ASSUME alone, NEW x \in DatasetKey PROVE CountFits(x)'
    BY <1>4 DEF CountIsOfLastRun, CountFits, Completed
  <2>1. CountFits(x)
    BY DEF IInv, CountIsOfLastRun, CountFits, Completed
  <2>2. \A q \in Request \ {r} : (q \in Completed(x)') <=> (q \in Completed(x))
    BY <1>9 DEF Completed
  <2>3. \A q \in Completed(x) :
          /\ q \in Request /\ txn[q].kind = "profile"
          /\ txn[q].pc \in {"profiling", "closing", "counting", "commit",
                            "done", "error"}
          /\ Aim(txn[q]) = x /\ table[x] # NoRow
    <3> SUFFICES ASSUME NEW q \in Request,
                        table[Run(q)] = [of |-> x, status |-> "completed"]
                 PROVE  /\ txn[q].kind = "profile"
                        /\ txn[q].pc \in {"profiling", "closing", "counting",
                                          "commit", "done", "error"}
                        /\ Aim(txn[q]) = x /\ table[x] # NoRow
      BY DEF Completed
    <3>1. table[Run(q)] # NoRow /\ table[Run(q)].of = x
      <4>1. [of |-> x, status |-> "completed"] \in RunRow
        BY DEF RunRow
      <4> QED
        BY <4>1, NoRowIsNoRow
    <3>2. Mine(q, txn[q], writes[q], files[q])
      BY Facts
    <3> QED
      BY <3>1, <3>2 DEF Mine, Profiled
  <2>4. \A q \in Completed(x) : ~ (r < q)
    BY <1>5, <2>3 DEF IInv, OneAtATime
  <2>5. \A q \in Completed(x)' : q # r => (txn'[q].pc = "done" <=> txn[q].pc = "done")
    BY <1>4 DEF Completed
  <2>6. Completed(x)' \subseteq Request /\ Request \subseteq Nat
    BY RequestsAreMakers DEF Completed
  <2>7. CASE x \in W /\ txn[r].kind = "profile"
    <3>1. txn[r].pc = "commit" /\ x = k
      BY <1>1, <1>5, <1>6, <2>7, KeysDiffer DEF Mine, Holds, W, k
    <3>2. r \in Completed(x)'
      <4>1. /\ table[Run(r)] = [of |-> x, status |-> "completed"]
            /\ table'[Run(r)] = table[Run(r)]
        BY <1>1, <1>3, <1>5, <1>6, <2>7, <3>1 DEF Mine, Profiled, k
      <4> QED
        BY <4>1 DEF Completed
    <3>3. table'[x].count = r
      BY <1>7, <2>7
    <3>4. \A q \in Completed(x)' : (\A i \in Completed(x)' : i <= q) => q = r
      BY <2>2, <2>4, <2>6, <3>2
    <3> QED
      BY <3>2, <3>3, <3>4 DEF CountFits
  <2>8. CASE x \in W /\ txn[r].kind # "profile"
    <3>1. table[x] = NoRow /\ table'[x].by = r /\ table'[x].count = r
      BY <1>7, <2>8
    <3>2. Completed(x) = {}
      BY <2>3, <3>1
    <3>3. table'[Run(r)] = table[Run(r)]
      BY <1>3, <1>5, <1>6, <2>8
    <3>4. Completed(x)' = {}
      BY <1>9, <3>2, <3>3 DEF Completed
    <3> QED
      BY <3>1, <3>4 DEF CountFits
  <2>9. CASE x \notin W
    <3>1. table'[x] = table[x]
      BY <1>3, <1>5, <2>9
    <3>2. CASE r \in Completed(x)' /\ r \notin Completed(x)
      <4>1. txn'[r].pc # "done"
        <5>1. txn[r].pc # "commit"
          BY <1>3, <1>5, <1>6, <3>2 DEF Completed
        <5>2. table'[Run(r)] = writes[r][Run(r)]
          BY <1>3, <1>5, <1>6, <5>1
        <5>3. writes[r][Run(r)].status = "completed"
          BY <3>2, <5>2 DEF Completed
        <5> QED
          BY <1>2, <5>1, <5>3 DEF Commits
      <4>2. \A q \in Completed(x)' : (\A i \in Completed(x)' : i <= q) => q = r
        BY <2>2, <2>4, <2>6, <3>2
      <4> QED
        BY <3>2, <4>1, <4>2 DEF CountFits
    <3>3. CASE r \in Completed(x)' <=> r \in Completed(x)
      <4>1. Completed(x)' = Completed(x)
        BY <2>2, <2>6, <3>3 DEF Completed
      <4>2. r \in Completed(x) => txn'[r].pc # "done"
        <5> SUFFICES ASSUME r \in Completed(x) PROVE txn'[r].pc # "done"
          OBVIOUS
        <5>1. /\ txn[r].kind = "profile" /\ k = x
              /\ table[Run(r)] = [of |-> x, status |-> "completed"]
          BY <2>3 DEF k, Completed
        <5>2. txn[r].pc \notin {"commit", "closing"}
          BY <1>1, <2>9, <5>1 DEF Mine, Holds, Profiled, W, k
        <5> QED
          BY <1>2, <5>2 DEF Commits
      <4> QED
        BY <2>1, <2>5, <3>1, <4>1, <4>2 DEF CountFits
    <3>4. CASE r \notin Completed(x)' /\ r \in Completed(x)
      <4>1. table[Run(r)] = [of |-> x, status |-> "completed"]
        BY <3>4 DEF Completed
      <4>2. Run(r) \in W
        BY <1>3, <1>5, <3>4, <4>1 DEF Completed
      <4>3. txn[r].pc \in {"opening", "closing"}
        BY <1>5, <1>6, <4>2
      <4> QED
        BY <1>1, <2>3, <3>4, <4>1, <4>3 DEF Mine, Profiled
    <3> QED
      BY <3>2, <3>3, <3>4
  <2> QED
    BY <2>7, <2>8, <2>9
<1> QED
  BY <1>11, <1>12, <1>13, <1>14, <1>15, <1>16, <1>17, <1>18 DEF IInv

LEMMA CommittingSteps ==
  ASSUME IInv, NEW r \in Request,
         OpenRun(r) \/ CloseRun(r) \/ Commit(r) \/ LoseCommit(r)
  PROVE  IInv'
<1>1. CASE OpenRun(r)
  <2>1. Commits(r, "profiling") /\ "profiling" \in Place
    BY <1>1 DEF OpenRun, Commits, Place
  <2> QED
    BY <1>1, <2>1, CommitKeeps DEF OpenRun
<1>2. CASE CloseRun(r)
  <2> DEFINE p == IF writes[r][Run(r)].status = "completed" THEN "counting"
                                                            ELSE "done"
  <2>1. Commits(r, p) /\ p \in Place /\ Goto(r, p)
    BY <1>2 DEF CloseRun, Commits, Place
  <2> HIDE DEF p
  <2> QED
    BY <1>2, <2>1, CommitKeeps DEF CloseRun
<1>3. CASE Commit(r)
  <2>1. Commits(r, "done") /\ "done" \in Place
    BY <1>3 DEF Commit, Commits, Place
  <2> QED
    BY <1>3, <2>1, CommitKeeps DEF Commit
<1>4. CASE LoseCommit(r)
  <2>1. Commits(r, "error") /\ "error" \in Place
    BY <1>4 DEF LoseCommit, Commits, Place
  <2> QED
    BY <1>4, <2>1, CommitKeeps DEF LoseCommit
<1> QED
  BY <1>1, <1>2, <1>3, <1>4

-----------------------------------------------------------------------------
(* The invariant.                                                          *)

LEMMA BeginStep ==
  ASSUME IInv, NEW r \in Request, Begin(r) PROVE IInv'
<1>1. PICK kind \in Kind, s \in SourceName : \E names \in Names(kind) :
        txn' = [txn EXCEPT ![r] = [pc |-> "received", kind |-> kind,
                                   source |-> s, names |-> names, next |-> 1,
                                   bound |-> TRUE]]
  BY DEF Begin
<1>2. PICK names \in Names(kind) :
        txn' = [txn EXCEPT ![r] = [pc |-> "received", kind |-> kind,
                                   source |-> s, names |-> names, next |-> 1,
                                   bound |-> TRUE]]
  BY <1>1
<1> DEFINE t == [pc |-> "received", kind |-> kind, source |-> s,
                 names |-> names, next |-> 1, bound |-> TRUE]
<1>3. /\ t \in Txn /\ t.pc = "received" /\ t.next = 1 /\ t.bound
  BY DEF Txn, Place, Names
<1>4. t.next \in DOMAIN t.names
  <2> HIDE DEF t
  <2>1. t.names \in Seq(DatasetName) /\ Len(t.names) \in Nat \ {0}
    BY <1>3, NamesAreLists
  <2> QED
    BY <1>3, <2>1
<1>5. /\ txn' = [txn EXCEPT ![r] = t] /\ txn'[r] = t
      /\ txn' \in [Request -> Txn]
      /\ \A q \in Request \ {r} : txn'[q] = txn[q]
  BY <1>2, <1>3 DEF IInv, Types
<1> HIDE DEF t
<1>6. /\ txn[r].pc = "waiting" /\ UNCHANGED <<table, writes, files>>
      /\ alone' \in BOOLEAN
      /\ alone' => alone /\ \A q \in Request : ~ Busy(q)
      /\ \A q \in 1..(r - 1) : txn[q].pc # "waiting"
  BY DEF Begin, IInv, Types
<1>7. Types'
  BY <1>3, <1>4, <1>5, <1>6 DEF IInv, Types, Written
<1>8. ASSUME NEW q \in Request
      PROVE  Mine(q, txn[q], writes[q], files[q])'
  <2>1. CASE q = r
    <3>1. Mine(r, txn[r], writes[r], files[r])
      BY Facts
    <3> QED
      BY <1>3, <1>5, <1>6, <2>1, <3>1
      DEF Mine, Fits, Holds, Pending, Stored, Profiled, Gained, Imported
  <2>2. CASE q # r
    <3>1. Mine(q, txn[q], writes[q], files[q]) /\ txn'[q] = txn[q]
      BY <1>5, <2>2, Facts
    <3> QED
      BY <1>6, <3>1
      DEF Mine, Fits, Holds, Pending, Stored, Profiled, Gained, Imported
  <2> QED
    BY <2>1, <2>2
<1>9. Committed'
  BY <1>5, <1>6 DEF IInv, Committed
<1>10. Exclusive'
  BY <1>6 DEF IInv, Exclusive, Written
<1>11. InOrder'
  <2> SUFFICES ASSUME NEW q \in Request, NEW x \in Request, q < x,
                      txn'[q].pc = "waiting"
               PROVE  txn'[x].pc = "waiting"
    BY DEF InOrder
  <2>1. q # r /\ txn[q].pc = "waiting"
    BY <1>3, <1>5
  <2>2. x # r
    <3>1. q \in Nat /\ r \in Nat /\ 0 < q
      BY DEF Request
    <3>2. x = r => q \in 1..(r - 1)
      BY <3>1
    <3> QED
      BY <1>6, <2>1, <3>2
  <2> QED
    BY <1>5, <2>1, <2>2 DEF IInv, InOrder
<1>12. OneAtATime'
  <2> SUFFICES ASSUME alone', NEW q \in Request, Busy(q)',
                      NEW x \in Request
               PROVE  /\ Busy(x)' => q = x
                      /\ q < x => txn'[x].pc = "waiting"
    BY DEF OneAtATime
  <2>1. \A y \in Request \ {r} : Busy(y)' <=> Busy(y)
    BY <1>5 DEF Busy, Ended
  <2>2. q = r
    BY <1>6, <2>1
  <2>3. Busy(x)' => q = x
    BY <1>6, <2>1, <2>2
  <2>4. q < x => txn[x].pc = "waiting" /\ x # r
    BY <1>6, <2>2, RequestsAreMakers DEF IInv, InOrder
  <2> QED
    BY <1>5, <2>3, <2>4
<1>13. CountIsOfLastRun'
  <2>1. \A q \in Request : txn'[q].pc = "done" => txn[q].pc = "done"
    BY <1>3, <1>5
  <2> QED
    BY <1>6, <2>1 DEF IInv, CountIsOfLastRun
<1> QED
  BY <1>7, <1>8, <1>9, <1>10, <1>11, <1>12, <1>13 DEF IInv

LEMMA InitInvariant == Init => IInv
<1> SUFFICES ASSUME Init PROVE IInv
  OBVIOUS
<1>1. /\ DOMAIN writes = Request /\ writes = [r \in Request |-> writes[r]]
      /\ \A r \in Request : Written(r) = {} /\ DOMAIN writes[r] = {}
  BY NoWritesEmpty DEF Init, Written
<1>2. ASource \in SourceName /\ ADataset \in DatasetName
  BY NamesExist DEF ASource, ADataset
<1>3. /\ Waiting \in Txn /\ Waiting.pc = "waiting" /\ Waiting.next = 1
      /\ Waiting.kind = "upload"
  BY <1>2 DEF Waiting, Txn, Place, Kind
<1>4. /\ txn \in [Request -> Txn]
      /\ \A r \in Request : txn[r] = Waiting
  BY <1>3 DEF Init
<1>5. Waiting.next \in DOMAIN Waiting.names
  <2>1. Waiting.names \in Seq(DatasetName) /\ Len(Waiting.names) \in Nat \ {0}
    BY <1>3, NamesAreLists
  <2> QED
    BY <1>3, <2>1
<1>6. /\ Key \subseteq DOMAIN table
      /\ \A r \in Request : table[Run(r)] = NoRow
      /\ \A k \in DatasetKey :
           table[k] # NoRow =>
             table[k] \in DatasetRow /\ table[k].by = 0 /\ table[k].count = 0
      /\ \A s \in SourceName :
           table[Source(s)] # NoRow =>
             table[Source(s)] \in SourceRow /\ table[Source(s)].kind = "database"
      /\ \A s \in SourceName, d \in DatasetName :
           table[Dataset(s, d)] # NoRow => table[Source(s)] # NoRow
  <2>1. CASE table = NoRows
    BY <2>1, KeysDiffer DEF NoRows
  <2>2. CASE table = Connected
    <3> DEFINE k == Source(ASource)
               d == Dataset(ASource, ADataset)
               source == [by |-> 0, kind |-> "database"]
               dataset == [by |-> 0, count |-> 0]
    <3>1. /\ k \in Key /\ k \in Sources /\ k \notin DatasetKey /\ k \notin Runs
          /\ d \in Key /\ d \in DatasetKey /\ d \notin Sources /\ d \notin Runs
      BY <1>2, KeysDiffer
    <3>2. /\ source \in SourceRow /\ source.kind = "database"
          /\ dataset \in DatasetRow /\ dataset.by = 0 /\ dataset.count = 0
      BY BoundsArePositive DEF SourceRow, DatasetRow, Maker
    <3>3. source # NoRow
      BY <3>2, NoRowIsNoRow
    <3>4. table = [[k1 \in Key |-> NoRow] EXCEPT ![k] = source, ![d] = dataset]
      BY <2>2 DEF Connected, NoRows
    <3>5. k = Source(ASource) /\ d = Dataset(ASource, ADataset)
      OBVIOUS
    <3> HIDE DEF source, dataset, k, d
    <3>6. /\ DOMAIN table = Key /\ table[k] = source /\ table[d] = dataset
          /\ \A x \in Key \ {k, d} : table[x] = NoRow
      BY <3>1, <3>4
    <3> QED
      BY <3>1, <3>2, <3>3, <3>5, <3>6, KeysDiffer
  <2> QED
    BY <2>1, <2>2 DEF Init
<1>7. Types
  <2>1. \A k \in Key : table[k] = NoRow \/ IsRow(k, table[k])
    <3> SUFFICES ASSUME NEW k \in Key, table[k] # NoRow PROVE IsRow(k, table[k])
      OBVIOUS
    <3>1. CASE k \in Sources
      BY <1>6, <3>1, KeysDiffer DEF IsRow, Sources
    <3>2. CASE k \in DatasetKey
      BY <1>6, <3>2, KeysDiffer DEF IsRow
    <3>3. CASE k \in Runs
      BY <1>6, <3>3 DEF Runs
    <3> QED
      BY <3>1, <3>2, <3>3, KeysDiffer
  <2>2. files \in [Request -> {"none", "partial", "whole"}] /\ alone \in BOOLEAN
    BY DEF Init
  <2> QED
    BY <1>1, <1>4, <1>5, <1>6, <2>1, <2>2 DEF Types
<1>8. ASSUME NEW r \in Request
      PROVE  Mine(r, txn[r], writes[r], files[r])
  <2>1. Imported(r) = {}
    <3>1. r # 0
      BY DEF Request
    <3> QED
      BY <1>6, <3>1 DEF Imported
  <2>2. files[r] = "none"
    BY DEF Init
  <2> QED
    BY <1>1, <1>3, <1>4, <1>6, <2>1, <2>2
    DEF Mine, Fits, Holds, Pending, Stored, Profiled, Gained
<1>9. Committed
  BY <1>6 DEF Committed
<1>10. Exclusive
  BY <1>1 DEF Exclusive
<1>11. InOrder
  BY <1>3, <1>4 DEF InOrder
<1>12. OneAtATime
  BY <1>3, <1>4 DEF OneAtATime, Busy
<1>13. CountIsOfLastRun
  <2> SUFFICES ASSUME NEW k \in DatasetKey PROVE CountFits(k)
    BY DEF CountIsOfLastRun, CountFits, Completed
  <2>1. [of |-> k, status |-> "completed"] # NoRow
    <3>1. [of |-> k, status |-> "completed"] \in RunRow
      BY DEF RunRow
    <3> QED
      BY <3>1, NoRowIsNoRow
  <2>2. Completed(k) = {}
    BY <1>6, <2>1 DEF Completed
  <2> QED
    BY <1>6, <2>2 DEF CountFits
<1> QED
  BY <1>7, <1>8, <1>9, <1>10, <1>11, <1>12, <1>13 DEF IInv

LEMMA NextInvariant == IInv /\ [Next]_vars => IInv'
<1> SUFFICES ASSUME IInv, [Next]_vars PROVE IInv'
  OBVIOUS
<1>1. CASE UNCHANGED vars
  <2>1. /\ table' = table /\ writes' = writes /\ txn' = txn /\ files' = files
        /\ alone' = alone
    BY <1>1 DEF vars
  <2>2. Types' /\ Committed' /\ Exclusive' /\ InOrder' /\ OneAtATime'
        /\ CountIsOfLastRun'
    BY <2>1 DEF IInv, Types, Written, Committed, Exclusive, InOrder, OneAtATime,
                Busy, Ended, CountIsOfLastRun
  <2>3. ASSUME NEW r \in Request PROVE Mine(r, txn[r], writes[r], files[r])'
    <3>1. Mine(r, txn[r], writes[r], files[r])
      BY DEF IInv
    <3> QED
      BY <2>1, <3>1
      DEF Mine, Fits, Holds, Pending, Stored, Profiled, Gained, Imported
  <2> QED
    BY <2>2, <2>3 DEF IInv
<1>2. CASE Next
  <2>1. PICK r \in Request : Begin(r) \/ Advance(r) \/ Fail(r) \/ LoseCommit(r)
    BY <1>2 DEF Next
  <2> QED
    BY <2>1, BeginStep, FailStep, CommittingSteps, StartSavingStep,
       FinishSavingStep, FailSavingStep, InferSchemaStep, RejectFileStep,
       ProbeStep, InsertSourceStep, InsertDatasetStep, FindSourceStep,
       ImportTableStep, EndDeadlockStep, FindDatasetStep, InsertRunStep,
       MeasureStep, StampRowCountStep, RefuseStep
    DEF Advance
<1> QED
  BY <1>1, <1>2

LEMMA InvariantHolds == Spec => []IInv
BY InitInvariant, NextInvariant, PTL DEF Spec

-----------------------------------------------------------------------------
(* Theorems.                                                               *)

(* Rows, requests and files keep their types, and an import never passes   *)
(* the end of its list (data/models.py, import_tables_as_datasets).        *)
THEOREM TypeCorrect == Spec => []TypeOK
<1>1. IInv => TypeOK
  BY KeysDiffer DEF IInv, Types, TypeOK, IsRow, Txn
<1> QED
  BY <1>1, InvariantHolds, PTL

(* Whatever fails and whenever, a file source that is committed has its    *)
(* whole file and a dataset (upload_file, save, create_dataset_from_upload)*)
(* for any number of uploads at the same time.                             *)
THEOREM SourcesAlwaysHaveTheirFiles == Spec => []SourcesHaveTheirFiles
<1>1. IInv => SourcesHaveTheirFiles
  BY DEF IInv, Committed, SourcesHaveTheirFiles
<1> QED
  BY <1>1, InvariantHolds, PTL

(* An upload that is refused leaves no file behind (save, the compensation *)
(* of upload_file).                                                        *)
THEOREM RefusedUploadsNeverLeaveFiles == Spec => []RefusedUploadsLeaveNoFile
<1>1. IInv => RefusedUploadsLeaveNoFile
  BY DEF IInv, Mine, Stored, RefusedUploadsLeaveNoFile
<1> QED
  BY <1>1, InvariantHolds, PTL

(* An import commits all the datasets it asks for or none, however imports *)
(* of the same tables overlap (import_tables_as_datasets), whatever the    *)
(* lists.                                                                  *)
THEOREM ImportsAreAlwaysWhole == Spec => []ImportsAreWhole
<1>1. IInv => ImportsAreWhole
  <2> SUFFICES ASSUME IInv, NEW r \in Request, txn[r].kind = "import"
               PROVE  /\ Imported(r) \in {{}, Asked(txn[r], Len(txn[r].names))}
                      /\ txn[r].pc = "done" =>
                           Imported(r) = Asked(txn[r], Len(txn[r].names))
                      /\ txn[r].pc = "refused" => Imported(r) = {}
    <3>1. ASSUME IInv, NEW q \in Request
          PROVE  Asked(txn[q], Len(txn[q].names)) =
                   {Dataset(txn[q].source, txn[q].names[i]) :
                      i \in DOMAIN txn[q].names}
      <4>1. /\ txn[q].names \in Seq(DatasetName)
            /\ DOMAIN txn[q].names = 1..Len(txn[q].names)
        BY <3>1, Facts, NamesAreLists
      <4> QED
        BY <4>1 DEF Asked
    <3> QED
      BY <3>1 DEF ImportsAreWhole
  <2> QED
    BY Facts DEF Mine, Gained
<1> QED
  BY <1>1, InvariantHolds, PTL

(* A profile run that was answered has its outcome (run_profile).          *)
THEOREM AnsweredRunsAreAlwaysOver == Spec => []AnsweredRunsAreOver
<1>1. IInv => AnsweredRunsAreOver
  BY DEF IInv, Mine, Profiled, AnsweredRunsAreOver
<1> QED
  BY <1>1, InvariantHolds, PTL

(* Without overlap a dataset's row count is that of its last completed run *)
(* (run_profile), for any number of runs.                                  *)
THEOREM CountIsAlwaysOfLastRun == Spec => []CountIsOfLastRun
<1>1. IInv => CountIsOfLastRun
  BY DEF IInv
<1> QED
  BY <1>1, InvariantHolds, PTL
=============================================================================

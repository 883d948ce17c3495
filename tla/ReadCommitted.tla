--------------------------- MODULE ReadCommitted ---------------------------
(***************************************************************************)
(* What the routes rely on of PostgreSQL under READ COMMITTED, its default *)
(* and the engine's (app/db/session.py): a request is one transaction, its *)
(* statements see the committed rows and its own writes, a row it has      *)
(* written is locked until it commits or rolls back.                       *)
(***************************************************************************)
CONSTANTS
  Request,  \* the requests, each with a session of its own
  NoRow     \* the value of a row that does not exist

VARIABLES
  table,    \* the committed rows: the value of each key
  writes    \* the rows each open transaction has written

NoWrites == <<>>

(* What a statement of request r sees at key k.                            *)
Seen(r, k) == IF k \in DOMAIN writes[r] THEN writes[r][k] ELSE table[k]

(* No other transaction holds a lock on one of these rows.                 *)
Free(r, keys) == \A q \in Request \ {r} : keys \cap DOMAIN writes[q] = {}

(* One row.                                                                *)
Set(k, value) == [x \in {k} |-> value]

(* The rows of base, those in rows in their new state.                     *)
Over(rows, base) ==
  [k \in DOMAIN rows \cup DOMAIN base |->
     IF k \in DOMAIN rows THEN rows[k] ELSE base[k]]

(* Statements of r write these rows.                                       *)
Write(r, rows) == writes' = [writes EXCEPT ![r] = Over(rows, @)]

CommitWrites(r) ==
  /\ table' = Over(writes[r], table)
  /\ writes' = [writes EXCEPT ![r] = NoWrites]

DropWrites(r) == writes' = [writes EXCEPT ![r] = NoWrites]
=============================================================================

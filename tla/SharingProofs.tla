---------------------------- MODULE SharingProofs ----------------------------
(***************************************************************************)
(* Theorems about Sharing for any workspace, any number of requests and    *)
(* any number of them at a time.                                           *)
(*                                                                         *)
(* The inductive invariant says what each open transaction may have        *)
(* written at its place in the code, on whose behalf (Local), and how what *)
(* is not committed yet fits what is (References): no transaction that     *)
(* deletes the credential is open beside one that refers to it.            *)
(***************************************************************************)
EXTENDS Sharing, TLAPS

Txn ==
  [pc : Place, kind : Kind, by : Person,
   arg : Visibility \cup MemberAccess \cup Person \cup {NoArg},
   id : Maker \cup {NoRow},
   loaded : Visibility \cup MemberAccess \cup {NoArg},
   key : Maker \cup {NoRow}, shown : BOOLEAN, bound : BOOLEAN]

(* The rows a transaction has written.                                     *)
Written(r) == DOMAIN writes[r]

(* What may be written at key k.                                           *)
IsRow(k, value) ==
  /\ k = Dataset => value \in Visibility
  /\ k = Credential => value \in CredentialRow \cup {NoRow}
  /\ k \in Grants \cup Accesses => value \in {"row", NoRow}
  /\ k \in Conversations => value \in ConversationRow

Types ==
  /\ table = [k \in DOMAIN table |-> table[k]] /\ Key \subseteq DOMAIN table
  /\ \A k \in Key : IsRow(k, table[k]) \/ (k \in Conversations /\ table[k] = NoRow)
  /\ DOMAIN writes = Request /\ writes = [r \in Request |-> writes[r]]
  /\ \A r \in Request : \A k \in Written(r) : IsRow(k, writes[r][k])
  /\ txn \in [Request -> Txn]

(* A transaction t with the written keys W.                                *)
Local(t, W) ==
  /\ t.pc \in {"waiting", "received", "verified", "looked", "refetch",
               "testing", "stamping"} => W = {}
  /\ t.pc \in {"loading", "keyed", "calling"} => W \subseteq Conversations
  /\ W \cap ({Dataset} \cup Grants) # {} => Manages(t.by)
  /\ W \cap ({Credential} \cup Accesses) # {} => Administers(t.by)
  /\ t.shown \/ t.pc \in {"keyed", "calling"} => Manages(t.by)
  /\ t.pc = "verified" => t.kind \in {"open", "kickoff"}
  /\ t.pc = "looked" /\ t.kind = "visibility" => Manages(t.by)
  /\ \/ t.pc \in {"testing", "stamping"}
     \/ t.pc = "looked" /\ t.kind \in {"update", "rotate", "delete", "test"}
     => Administers(t.by)
  /\ t.kind = "visibility" => t.arg \in Visibility
  /\ t.kind \in {"create", "update"} => t.arg \in MemberAccess
  /\ t.kind \in {"open", "kickoff"} => t.id \in Maker

(* Nobody is about to delete the credential.                               *)
NoDeletion ==
  \A q \in Request : Credential \in Written(q) => writes[q][Credential] # NoRow

References ==
  /\ ReferencesHold
  /\ \A q, r \in Request :
       Credential \in Written(q) \cap Written(r) => q = r
  /\ \A r \in Request : \A k \in Conversations \cap Written(r) :
       /\ table[Credential] # NoRow
       /\ table[Credential].id = writes[r][k].credential
       /\ NoDeletion
  /\ \A r \in Request : \A k \in Accesses \cap Written(r) :
       writes[r][k] # NoRow => table[Credential] # NoRow /\ NoDeletion
  /\ \A r \in Request :
       Credential \in Written(r) =>
         IF writes[r][Credential] # NoRow
           THEN \/ table[Credential] = NoRow
                \/ table[Credential].id = writes[r][Credential].id
           ELSE /\ \A k \in Conversations : table[k] = NoRow
                /\ \A k \in Accesses :
                     k \in Written(r) /\ writes[r][k] = NoRow

Core ==
  /\ Types
  /\ \A r \in Request : Local(txn[r], Written(r))
  /\ References

IInv ==
  /\ Core
  /\ legible \in [Request -> SUBSET Maker]
  /\ KeysAreLegible

-----------------------------------------------------------------------------
(* Keys and rows.                                                          *)

LEMMA KeysDiffer ==
  /\ Dataset # Credential
  /\ Dataset \notin Grants \cup Accesses \cup Conversations
  /\ Credential \notin Grants \cup Accesses \cup Conversations
  /\ Grants \cap (Accesses \cup Conversations) = {}
  /\ Accesses \cap Conversations = {}
  /\ \A x : /\ Grant(x) \notin Accesses \cup Conversations
            /\ Grant(x) # Dataset /\ Grant(x) # Credential
            /\ Access(x) \notin Grants \cup Conversations
            /\ Access(x) # Dataset /\ Access(x) # Credential
            /\ Conversation(x) \notin Grants \cup Accesses
            /\ Conversation(x) # Dataset /\ Conversation(x) # Credential
BY DEF Dataset, Credential, Grants, Accesses, Conversations, Grant, Access,
       Conversation

LEMMA RequestsAreMakers == Request \subseteq Maker
BY BoundsArePositive DEF Request, Maker

LEMMA OverRows ==
  ASSUME NEW rows, NEW base
  PROVE  /\ DOMAIN Over(rows, base) = DOMAIN rows \cup DOMAIN base
         /\ \A k \in DOMAIN rows : Over(rows, base)[k] = rows[k]
         /\ \A k \in DOMAIN base \ DOMAIN rows : Over(rows, base)[k] = base[k]
         /\ Over(rows, base) = [k \in DOMAIN Over(rows, base) |-> Over(rows, base)[k]]
BY DEF Over

LEMMA SetRow ==
  ASSUME NEW k, NEW value
  PROVE  DOMAIN Set(k, value) = {k} /\ Set(k, value)[k] = value
BY DEF Set

LEMMA NoWritesEmpty == DOMAIN NoWrites = {}
BY DEF NoWrites

(* The writes of a transaction that had written nothing.                   *)
LEMMA WriteRows ==
  ASSUME Types, NEW r \in Request, NEW rows, Written(r) = {}, Write(r, rows)
  PROVE  /\ DOMAIN writes' = Request /\ writes' = [q \in Request |-> writes'[q]]
         /\ Written(r)' = DOMAIN rows
         /\ \A k \in DOMAIN rows : writes'[r][k] = rows[k]
         /\ \A q \in Request \ {r} : writes'[q] = writes[q]
<1>1. writes' = [writes EXCEPT ![r] = Over(rows, writes[r])]
  BY DEF Write
<1>2. writes'[r] = Over(rows, writes[r])
  BY <1>1 DEF Types
<1>3. /\ DOMAIN writes' = Request /\ writes' = [q \in Request |-> writes'[q]]
      /\ \A q \in Request \ {r} : writes'[q] = writes[q]
  BY <1>1 DEF Types
<1>4. /\ DOMAIN Over(rows, writes[r]) = DOMAIN rows
      /\ \A k \in DOMAIN rows : Over(rows, writes[r])[k] = rows[k]
  <2>1. DOMAIN writes[r] = {}
    BY DEF Written
  <2> QED
    BY <2>1 DEF Over
<1> QED
  BY <1>2, <1>3, <1>4 DEF Written

LEMMA DropRows ==
  ASSUME Types, NEW r \in Request, DropWrites(r)
  PROVE  /\ DOMAIN writes' = Request /\ writes' = [q \in Request |-> writes'[q]]
         /\ Written(r)' = {}
         /\ \A q \in Request \ {r} : writes'[q] = writes[q]
<1>1. writes' = [writes EXCEPT ![r] = NoWrites]
  BY DEF DropWrites
<1>2. writes'[r] = NoWrites
  BY <1>1 DEF Types
<1>3. /\ DOMAIN writes' = Request /\ writes' = [q \in Request |-> writes'[q]]
      /\ \A q \in Request \ {r} : writes'[q] = writes[q]
  BY <1>1 DEF Types
<1> QED
  BY <1>2, <1>3, NoWritesEmpty DEF Written

(* A request moves to another place in the code.                           *)
LEMMA GotoPlace ==
  ASSUME txn \in [Request -> Txn], NEW r \in Request, NEW p \in Place, Goto(r, p)
  PROVE  /\ txn' = [txn EXCEPT ![r] = txn'[r]] /\ txn'[r] \in Txn
         /\ txn'[r].pc = p /\ txn'[r].kind = txn[r].kind
         /\ txn'[r].by = txn[r].by /\ txn'[r].arg = txn[r].arg
         /\ txn'[r].id = txn[r].id /\ txn'[r].key = txn[r].key
         /\ txn'[r].shown = txn[r].shown
<1> DEFINE t == [txn[r] EXCEPT !.pc = p]
<1>1. /\ t \in Txn /\ t.pc = p /\ t.kind = txn[r].kind /\ t.by = txn[r].by
      /\ t.arg = txn[r].arg /\ t.id = txn[r].id /\ t.key = txn[r].key
      /\ t.shown = txn[r].shown
  BY DEF Txn
<1>2. txn' = [txn EXCEPT ![r] = t]
  BY DEF Goto
<1> HIDE DEF t
<1> QED
  BY <1>1, <1>2

-----------------------------------------------------------------------------
(* Steps of one request and the rows.                                      *)

(* What is left to show of a step of r that does not touch the rows.       *)
LEMMA QuietStep ==
  ASSUME Core, NEW r \in Request, UNCHANGED <<table, writes>>,
         txn' = [txn EXCEPT ![r] = txn'[r]], txn'[r] \in Txn,
         Local(txn'[r], Written(r))
  PROVE  Core'
<1>1. \A q \in Request \ {r} : txn'[q] = txn[q]
  BY DEF Core, Types
<1>2. Types'
  BY DEF Core, Types, Written
<1>3. \A q \in Request : Local(txn'[q], Written(q)')
  BY <1>1 DEF Core, Written
<1>4. References'
  BY DEF Core, References, ReferencesHold, NoDeletion, Written
<1> QED
  BY <1>2, <1>3, <1>4 DEF Core

(* A rollback takes pending rows away and nothing else.                    *)
LEMMA DropStep ==
  ASSUME Core, NEW r \in Request, DropWrites(r), UNCHANGED table,
         txn' = [txn EXCEPT ![r] = txn'[r]], txn'[r] \in Txn,
         Local(txn'[r], {})
  PROVE  Core'
<1>1. \A q \in Request \ {r} : txn'[q] = txn[q]
  BY DEF Core, Types
<1>2. /\ DOMAIN writes' = Request /\ writes' = [q \in Request |-> writes'[q]]
      /\ Written(r)' = {}
      /\ \A q \in Request \ {r} : writes'[q] = writes[q] /\ Written(q)' = Written(q)
  BY DropRows DEF Core, Written
<1>3. Types'
  BY <1>2 DEF Core, Types
<1>4. \A q \in Request : Local(txn'[q], Written(q)')
  BY <1>1, <1>2 DEF Core
<1>5. References'
  <2>1. NoDeletion => NoDeletion'
    BY <1>2 DEF NoDeletion
  <2> QED
    BY <1>2, <2>1 DEF Core, References, ReferencesHold
<1> QED
  BY <1>3, <1>4, <1>5 DEF Core

(* No other transaction is about to delete the credential.                 *)
NoOtherDeletion(r) ==
  \A q \in Request \ {r} :
    Credential \in Written(q) => writes[q][Credential] # NoRow

(* Rows that r may write: they fit what is committed, and what others have *)
(* written.                                                                *)
Fitting(r, rows) ==
  /\ \A k \in DOMAIN rows : IsRow(k, rows[k])
  /\ \A k \in Conversations \cap DOMAIN rows :
       /\ table[Credential] # NoRow
       /\ table[Credential].id = rows[k].credential
       /\ NoOtherDeletion(r) /\ Credential \notin DOMAIN rows
  /\ \A k \in Accesses \cap DOMAIN rows :
       rows[k] # NoRow =>
         /\ table[Credential] # NoRow
         /\ NoOtherDeletion(r) /\ Credential \notin DOMAIN rows
  /\ Credential \in DOMAIN rows =>
       /\ Free(r, {Credential})
       /\ IF rows[Credential] # NoRow
            THEN \/ table[Credential] = NoRow
                 \/ table[Credential].id = rows[Credential].id
            ELSE /\ \A k \in Conversations : table[k] = NoRow
                 /\ \A k \in Accesses : k \in DOMAIN rows /\ rows[k] = NoRow
                 /\ Free(r, Accesses \cup Conversations)

LEMMA WriteStep ==
  ASSUME Core, NEW r \in Request, NEW rows, Written(r) = {}, Write(r, rows),
         Fitting(r, rows), UNCHANGED table,
         txn' = [txn EXCEPT ![r] = txn'[r]], txn'[r] \in Txn,
         Local(txn'[r], DOMAIN rows)
  PROVE  Core'
<1>1. \A q \in Request \ {r} : txn'[q] = txn[q]
  BY DEF Core, Types
<1>2. /\ DOMAIN writes' = Request /\ writes' = [q \in Request |-> writes'[q]]
      /\ Written(r)' = DOMAIN rows
      /\ \A k \in DOMAIN rows : writes'[r][k] = rows[k]
      /\ \A q \in Request \ {r} : writes'[q] = writes[q] /\ Written(q)' = Written(q)
  BY WriteRows DEF Core, Written
<1>3. Types'
  <2>1. \A q \in Request : \A k \in Written(q)' : IsRow(k, writes'[q][k])
    BY <1>2 DEF Core, Types, Fitting
  <2> QED
    BY <1>2, <2>1 DEF Core, Types
<1>4. \A q \in Request : Local(txn'[q], Written(q)')
  BY <1>1, <1>2 DEF Core
<1>5. References'
  <2>1. ReferencesHold'
    BY DEF Core, References, ReferencesHold
  <2>2. \A q, p \in Request :
          Credential \in Written(q)' \cap Written(p)' => q = p
    <3>1. Credential \in DOMAIN rows =>
            \A q \in Request \ {r} : Credential \notin Written(q)
      BY DEF Fitting, Free, Written
    <3> QED
      BY <1>2, <3>1 DEF Core, References
  <2>3. NoOtherDeletion(r) /\ (Credential \notin DOMAIN rows) => NoDeletion'
    BY <1>2 DEF NoOtherDeletion, NoDeletion
  <2>4. ASSUME NEW q \in Request \ {r}, NEW k \in Conversations \cap Written(q)
        PROVE  /\ table[Credential] # NoRow
               /\ table[Credential].id = writes[q][k].credential
               /\ NoDeletion'
    <3>1. /\ table[Credential] # NoRow /\ NoDeletion
          /\ table[Credential].id = writes[q][k].credential
      BY DEF Core, References
    <3>2. Credential \in DOMAIN rows => rows[Credential] # NoRow
      BY DEF Fitting, Free, Written
    <3> QED
      BY <1>2, <3>1, <3>2 DEF NoDeletion
  <2>5. ASSUME NEW q \in Request \ {r}, NEW k \in Accesses \cap Written(q),
               writes[q][k] # NoRow
        PROVE  table[Credential] # NoRow /\ NoDeletion'
    <3>1. table[Credential] # NoRow /\ NoDeletion
      BY <2>5 DEF Core, References
    <3>2. Credential \in DOMAIN rows => rows[Credential] # NoRow
      BY DEF Fitting, Free, Written
    <3> QED
      BY <1>2, <3>1, <3>2 DEF NoDeletion
  <2>6. \A q \in Request : \A k \in Conversations \cap Written(q)' :
          /\ table'[Credential] # NoRow
          /\ table'[Credential].id = writes'[q][k].credential
          /\ NoDeletion'
    BY <1>2, <2>3, <2>4 DEF Fitting
  <2>7. \A q \in Request : \A k \in Accesses \cap Written(q)' :
          writes'[q][k] # NoRow => table'[Credential] # NoRow /\ NoDeletion'
    BY <1>2, <2>3, <2>5 DEF Fitting
  <2>8. \A q \in Request :
          Credential \in Written(q)' =>
            IF writes'[q][Credential] # NoRow
              THEN \/ table'[Credential] = NoRow
                   \/ table'[Credential].id = writes'[q][Credential].id
              ELSE /\ \A k \in Conversations : table'[k] = NoRow
                   /\ \A k \in Accesses :
                        k \in Written(q)' /\ writes'[q][k] = NoRow
    BY <1>2 DEF Core, References, Fitting
  <2> QED
    BY <2>1, <2>2, <2>6, <2>7, <2>8 DEF References
<1> QED
  BY <1>3, <1>4, <1>5 DEF Core

LEMMA CommitStep ==
  ASSUME Core, NEW r \in Request, Commit(r) PROVE Core'
<1> DEFINE W == Written(r)
<1>1. /\ txn' = [txn EXCEPT ![r] = txn'[r]] /\ txn'[r] \in Txn
      /\ txn'[r].pc = "done" /\ txn'[r].kind = txn[r].kind
      /\ txn'[r].by = txn[r].by /\ txn'[r].arg = txn[r].arg
      /\ txn'[r].id = txn[r].id
      /\ txn'[r].shown = txn[r].shown
      /\ txn' \in [Request -> Txn]
      /\ \A q \in Request \ {r} : txn'[q] = txn[q]
  <2>1. "done" \in Place /\ txn \in [Request -> Txn] /\ Goto(r, "done")
    BY DEF Core, Types, Commit, Place
  <2>2. /\ txn' = [txn EXCEPT ![r] = txn'[r]] /\ txn'[r] \in Txn
        /\ txn'[r].pc = "done" /\ txn'[r].kind = txn[r].kind
        /\ txn'[r].by = txn[r].by /\ txn'[r].arg = txn[r].arg
        /\ txn'[r].id = txn[r].id
        /\ txn'[r].shown = txn[r].shown
    BY <2>1, GotoPlace
  <2> QED
    BY <2>1, <2>2
<1>2. /\ DOMAIN writes' = Request /\ writes' = [q \in Request |-> writes'[q]]
      /\ Written(r)' = {}
      /\ \A q \in Request \ {r} : writes'[q] = writes[q] /\ Written(q)' = Written(q)
  BY DropRows DEF Core, Written, Commit, CommitWrites, DropWrites
<1>3. table' = Over(writes[r], table)
  BY DEF Commit, CommitWrites
<1>4. /\ DOMAIN table' = W \cup DOMAIN table
      /\ \A k \in W : table'[k] = writes[r][k]
      /\ \A k \in Key \ W : table'[k] = table[k]
      /\ table' = [k \in DOMAIN table' |-> table'[k]]
  <2>1. /\ DOMAIN table' = DOMAIN writes[r] \cup DOMAIN table
        /\ \A k \in DOMAIN writes[r] : table'[k] = writes[r][k]
        /\ \A k \in DOMAIN table \ DOMAIN writes[r] : table'[k] = table[k]
        /\ table' = [k \in DOMAIN table' |-> table'[k]]
    BY <1>3 DEF Over
  <2> QED
    BY <2>1 DEF Written, Core, Types
<1>5. Types'
  <2>1. \A k \in Key :
          IsRow(k, table'[k]) \/ (k \in Conversations /\ table'[k] = NoRow)
    BY <1>4 DEF Core, Types
  <2>2. Key \subseteq DOMAIN table'
    BY <1>4 DEF Core, Types
  <2>3. \A q \in Request : \A k \in Written(q)' : IsRow(k, writes'[q][k])
    BY <1>2 DEF Core, Types
  <2> QED
    BY <1>1, <1>2, <1>4, <2>1, <2>2, <2>3 DEF Types
<1>6. \A q \in Request : Local(txn'[q], Written(q)')
  <2>1. Local(txn[r], Written(r))
    BY DEF Core
  <2>2. Local(txn'[r], {})
    BY <1>1, <2>1 DEF Local
  <2> QED
    BY <1>1, <1>2, <2>2 DEF Core
<1>7. References'
  <2>1. /\ Credential \in Key /\ Accesses \subseteq Key
        /\ Conversations \subseteq Key
    BY DEF Key
  <2>2. /\ Credential \in W => table'[Credential] = writes[r][Credential]
        /\ Credential \notin W => table'[Credential] = table[Credential]
    BY <1>4, <2>1
  <2>3. NoDeletion => NoDeletion'
    BY <1>2 DEF NoDeletion
  (* The row stays the one that rows refer to, unless it goes.             *)
  <2>4. table[Credential] # NoRow /\ NoDeletion =>
          table'[Credential] # NoRow
            /\ table'[Credential].id = table[Credential].id
    BY <2>2 DEF Core, References, NoDeletion
  <2>5. ASSUME NEW k \in Conversations, table'[k] # NoRow
        PROVE  /\ table'[Credential] # NoRow
               /\ table'[Credential].id = table'[k].credential
    <3>1. CASE k \in W
      <4>1. /\ table[Credential] # NoRow /\ NoDeletion
            /\ table[Credential].id = writes[r][k].credential
        BY <3>1 DEF Core, References
      <4> QED
        BY <1>4, <2>4, <3>1, <4>1
    <3>2. CASE k \notin W
      <4>1. table'[k] = table[k]
        BY <1>4, <2>1, <3>2
      <4>2. /\ table[Credential] # NoRow
            /\ table[Credential].id = table[k].credential
        BY <2>5, <4>1 DEF Core, References, ReferencesHold
      <4>3. Credential \in W => writes[r][Credential] # NoRow
        BY <2>5, <4>1 DEF Core, References
      <4>4. Credential \in W =>
              table[Credential].id = writes[r][Credential].id
        BY <4>2, <4>3 DEF Core, References
      <4> QED
        BY <2>2, <4>1, <4>2, <4>3, <4>4
    <3> QED
      BY <3>1, <3>2
  <2>6. ASSUME NEW k \in Accesses, table'[k] # NoRow
        PROVE  table'[Credential] # NoRow
    <3>1. CASE k \in W
      <4>1. writes[r][k] # NoRow
        BY <1>4, <2>6, <3>1
      <4>2. table[Credential] # NoRow /\ NoDeletion
        BY <3>1, <4>1 DEF Core, References
      <4> QED
        BY <2>4, <4>2
    <3>2. CASE k \notin W
      <4>1. table'[k] = table[k]
        BY <1>4, <2>1, <3>2
      <4>2. table[Credential] # NoRow
        BY <2>6, <4>1 DEF Core, References, ReferencesHold
      <4>3. Credential \in W => writes[r][Credential] # NoRow
        BY <3>2 DEF Core, References
      <4> QED
        BY <2>2, <4>2, <4>3
    <3> QED
      BY <3>1, <3>2
  <2>7. \A q, p \in Request :
          Credential \in Written(q)' \cap Written(p)' => q = p
    BY <1>2 DEF Core, References
  <2>8. ASSUME NEW q \in Request, NEW k \in Conversations \cap Written(q)'
        PROVE  /\ table'[Credential] # NoRow
               /\ table'[Credential].id = writes'[q][k].credential
               /\ NoDeletion'
    <3>1. q # r /\ k \in Written(q) /\ writes'[q] = writes[q]
      BY <1>2
    <3>2. /\ table[Credential] # NoRow /\ NoDeletion
          /\ table[Credential].id = writes[q][k].credential
      BY <3>1 DEF Core, References
    <3> QED
      BY <2>3, <2>4, <3>1, <3>2
  <2>9. ASSUME NEW q \in Request, NEW k \in Accesses \cap Written(q)',
               writes'[q][k] # NoRow
        PROVE  table'[Credential] # NoRow /\ NoDeletion'
    <3>1. q # r /\ k \in Written(q) /\ writes'[q] = writes[q]
      BY <1>2
    <3>2. table[Credential] # NoRow /\ NoDeletion
      BY <2>9, <3>1 DEF Core, References
    <3> QED
      BY <2>3, <2>4, <3>2
  <2>10. ASSUME NEW q \in Request, Credential \in Written(q)'
         PROVE  IF writes'[q][Credential] # NoRow
                  THEN \/ table'[Credential] = NoRow
                       \/ table'[Credential].id = writes'[q][Credential].id
                  ELSE /\ \A k \in Conversations : table'[k] = NoRow
                       /\ \A k \in Accesses :
                            k \in Written(q)' /\ writes'[q][k] = NoRow
    <3>1. /\ q # r /\ Credential \in Written(q) /\ writes'[q] = writes[q]
          /\ Written(q)' = Written(q)
      BY <1>2, <2>10
    <3>2. Credential \notin W /\ table'[Credential] = table[Credential]
      BY <2>2, <3>1 DEF Core, References
    <3>3. CASE writes[q][Credential] # NoRow
      BY <3>1, <3>2, <3>3 DEF Core, References
    <3>4. CASE writes[q][Credential] = NoRow
      <4>1. /\ \A k \in Conversations : table[k] = NoRow
            /\ \A k \in Accesses : k \in Written(q) /\ writes[q][k] = NoRow
        BY <3>1, <3>4 DEF Core, References
      <4>2. Conversations \cap W = {}
        BY <3>1, <3>4 DEF Core, References, NoDeletion
      <4>3. \A k \in Conversations : table'[k] = table[k]
        BY <1>4, <2>1, <4>2
      <4> QED
        BY <3>1, <3>4, <4>1, <4>3
    <3> QED
      BY <3>3, <3>4
  <2> QED
    BY <2>5, <2>6, <2>7, <2>8, <2>9, <2>10 DEF References, ReferencesHold
<1> QED
  BY <1>5, <1>6, <1>7 DEF Core

-----------------------------------------------------------------------------
(* Steps of one request that do not commit.                                *)

(* A key that is read is one the person can read.                          *)
KeyIsRead(r) ==
  txn'[r].pc \in {"testing", "calling"} =>
    txn'[r].key \in Legible(txn'[r].by, table)

Step(r) ==
  /\ Core'
  /\ KeyIsRead(r)
  /\ UNCHANGED table
  /\ \A q \in Request \ {r} : txn'[q] = txn[q]

LEMMA OthersStay ==
  ASSUME Core, NEW r \in Request, txn' = [txn EXCEPT ![r] = txn'[r]]
  PROVE  \A q \in Request \ {r} : txn'[q] = txn[q]
BY DEF Core, Types

LEMMA GotoStep ==
  ASSUME Core, NEW r \in Request, NEW p \in Place \ {"testing", "calling"},
         Goto(r, p), Read,
         p \in {"waiting", "received", "verified", "looked", "refetch",
                "stamping"} => Written(r) = {},
         p \in {"loading", "keyed"} => Written(r) \subseteq Conversations,
         p = "keyed" => Manages(txn[r].by),
         p \in {"verified", "looked"} => txn[r].kind \in {"open", "kickoff"},
         p = "stamping" => Administers(txn[r].by)
  PROVE  Step(r)
<1>1. /\ txn' = [txn EXCEPT ![r] = txn'[r]] /\ txn'[r] \in Txn
      /\ txn'[r].pc = p /\ txn'[r].kind = txn[r].kind
      /\ txn'[r].by = txn[r].by /\ txn'[r].arg = txn[r].arg
      /\ txn'[r].id = txn[r].id /\ txn'[r].shown = txn[r].shown
  BY GotoPlace DEF Core, Types
<1>2. Local(txn[r], Written(r))
  BY DEF Core
<1>3. Local(txn'[r], Written(r))
  BY <1>1, <1>2 DEF Local
<1> QED
  BY <1>1, <1>3, QuietStep, OthersStay DEF Step, KeyIsRead, Read

LEMMA CloseStep ==
  ASSUME Core, NEW r \in Request, NEW p \in {"refused", "error"}, Close(r, p)
  PROVE  Step(r)
<1>1. p \in Place /\ Goto(r, p) /\ DropWrites(r) /\ UNCHANGED table
  BY DEF Close, Place
<1>2. /\ txn' = [txn EXCEPT ![r] = txn'[r]] /\ txn'[r] \in Txn
      /\ txn'[r].pc = p /\ txn'[r].kind = txn[r].kind
      /\ txn'[r].by = txn[r].by /\ txn'[r].arg = txn[r].arg
      /\ txn'[r].id = txn[r].id /\ txn'[r].shown = txn[r].shown
  BY <1>1, GotoPlace DEF Core, Types
<1>3. Local(txn[r], Written(r))
  BY DEF Core
<1>4. Local(txn'[r], {})
  BY <1>2, <1>3 DEF Local
<1> QED
  BY <1>1, <1>2, <1>4, DropStep, OthersStay DEF Step, KeyIsRead

LEMMA FlushStep ==
  ASSUME Core, NEW r \in Request, NEW rows, NEW p \in {"commit", "loading"},
         Flush(r, rows, p), Written(r) = {}, Fitting(r, rows),
         p = "loading" => DOMAIN rows \subseteq Conversations,
         DOMAIN rows \cap ({Dataset} \cup Grants) # {} => Manages(txn[r].by),
         DOMAIN rows \cap ({Credential} \cup Accesses) # {} =>
           Administers(txn[r].by)
  PROVE  Step(r)
<1>1. p \in Place /\ Goto(r, p) /\ Write(r, rows) /\ UNCHANGED table
  BY DEF Flush, Place
<1>2. /\ txn' = [txn EXCEPT ![r] = txn'[r]] /\ txn'[r] \in Txn
      /\ txn'[r].pc = p /\ txn'[r].kind = txn[r].kind
      /\ txn'[r].by = txn[r].by /\ txn'[r].arg = txn[r].arg
      /\ txn'[r].id = txn[r].id /\ txn'[r].shown = txn[r].shown
  BY <1>1, GotoPlace DEF Core, Types
<1>3. Local(txn[r], Written(r))
  BY DEF Core
<1>4. Local(txn'[r], DOMAIN rows)
  BY <1>2, <1>3 DEF Local
<1> QED
  BY <1>1, <1>2, <1>4, WriteStep, OthersStay DEF Step, KeyIsRead

LEMMA ErrorStep ==
  ASSUME Core, NEW r \in Request, Error(r) PROVE Step(r)
BY CloseStep DEF Error

(* One row that is neither the credential's nor refers to it.              *)
LEMMA FitsAlone ==
  ASSUME NEW r \in Request, NEW k, NEW value, IsRow(k, value),
         k # Credential, k \notin Conversations,
         k \in Accesses => value = NoRow
  PROVE  Fitting(r, Set(k, value))
<1> DEFINE rows == Set(k, value)
<1>1. DOMAIN rows = {k} /\ rows[k] = value
  BY SetRow
<1> HIDE DEF rows
<1>2. Fitting(r, rows)
  BY <1>1 DEF Fitting
<1> QED
  BY <1>2 DEF rows

(* No row at all.                                                          *)
LEMMA FitsNone ==
  ASSUME NEW r \in Request PROVE Fitting(r, NoWrites)
BY NoWritesEmpty DEF Fitting

-----------------------------------------------------------------------------
(* The dataset.                                                            *)

LEMMA ListDatasetsStep ==
  ASSUME Core, NEW r \in Request, ListDatasets(r) PROVE Step(r)
<1> DEFINE shown == SeesDataset(r) /\ Manages(txn[r].by)
           t == [txn[r] EXCEPT !.pc = "commit", !.shown = shown]
<1>1. txn[r] \in Txn /\ Local(txn[r], Written(r))
  BY DEF Core, Types
<1>2. shown \in BOOLEAN
  OBVIOUS
<1>3. /\ t \in Txn /\ t.pc = "commit" /\ t.kind = txn[r].kind
      /\ t.by = txn[r].by /\ t.arg = txn[r].arg /\ t.id = txn[r].id
      /\ t.shown = shown
  <2> HIDE DEF shown
  <2> QED
    BY <1>1, <1>2 DEF Txn, Place
<1>4. txn' = [txn EXCEPT ![r] = t] /\ txn'[r] = t
  BY DEF ListDatasets, Core, Types
<1>5. shown => Manages(txn[r].by)
  OBVIOUS
<1> HIDE DEF t, shown
<1>6. Local(txn'[r], Written(r))
  BY <1>1, <1>3, <1>4, <1>5 DEF Local
<1> QED
  BY <1>3, <1>4, <1>6, QuietStep, OthersStay
     DEF Step, KeyIsRead, Read, ListDatasets

LEMMA FindDatasetStep ==
  ASSUME Core, NEW r \in Request, FindDataset(r) PROVE Step(r)
<1> DEFINE t == [txn[r] EXCEPT !.pc = "looked", !.loaded = Seen(r, Dataset)]
<1>1. /\ txn[r] \in Txn /\ Local(txn[r], Written(r))
      /\ txn[r].pc = "received" /\ txn[r].kind = "visibility"
  BY DEF Core, Types, FindDataset, Is
<1>2. Written(r) = {} /\ Seen(r, Dataset) \in Visibility
  BY <1>1, KeysDiffer DEF Local, Seen, Written, Core, Types, IsRow, Key
<1>3. /\ t \in Txn /\ t.pc = "looked" /\ t.kind = txn[r].kind
      /\ t.by = txn[r].by /\ t.arg = txn[r].arg /\ t.id = txn[r].id
      /\ t.shown = txn[r].shown
  BY <1>1, <1>2 DEF Txn, Place
<1>4. txn' = [txn EXCEPT ![r] = t] /\ txn'[r] = t
  BY DEF FindDataset, Core, Types
<1> HIDE DEF t
<1>5. Local(txn'[r], Written(r))
  BY <1>1, <1>2, <1>3, <1>4 DEF Local, FindDataset
<1> QED
  BY <1>3, <1>4, <1>5, QuietStep, OthersStay
     DEF Step, KeyIsRead, Read, FindDataset

LEMMA UpdateVisibilityStep ==
  ASSUME Core, NEW r \in Request, UpdateVisibility(r) PROVE Step(r)
<1>1. /\ txn[r] \in Txn /\ Local(txn[r], Written(r))
      /\ txn[r].pc = "looked" /\ txn[r].kind = "visibility"
  BY DEF Core, Types, UpdateVisibility, Is
<1>2. Written(r) = {} /\ Manages(txn[r].by) /\ txn[r].arg \in Visibility
  BY <1>1 DEF Local
<1>3. CASE txn[r].arg = txn[r].loaded
  BY <1>2, <1>3, GotoStep DEF UpdateVisibility, Place
<1>4. CASE txn[r].arg # txn[r].loaded
  <2>1. Flush(r, Set(Dataset, txn[r].arg), "commit")
    BY <1>4 DEF UpdateVisibility
  <2>2. IsRow(Dataset, txn[r].arg)
    BY <1>2, KeysDiffer DEF IsRow
  <2>3. Fitting(r, Set(Dataset, txn[r].arg))
    BY <2>2, KeysDiffer, FitsAlone
  <2>4. DOMAIN Set(Dataset, txn[r].arg) = {Dataset}
    BY SetRow
  <2>5. DOMAIN Set(Dataset, txn[r].arg) \cap ({Credential} \cup Accesses) = {}
    BY <2>4, KeysDiffer
  <2> QED
    BY <1>2, <2>1, <2>3, <2>5, FlushStep
<1> QED
  BY <1>3, <1>4

LEMMA AddDatasetGrantStep ==
  ASSUME Core, NEW r \in Request, AddDatasetGrant(r) PROVE Step(r)
<1> DEFINE grant == Grant(txn[r].arg)
           rows == Set(grant, "row")
<1>1. txn[r].pc = "received" /\ Local(txn[r], Written(r))
  BY DEF Core, AddDatasetGrant, Is
<1>2. Written(r) = {}
  BY <1>1 DEF Local
<1>3. CASE ~ Manages(txn[r].by)
  BY <1>3, ErrorStep DEF AddDatasetGrant
<1>4. CASE Manages(txn[r].by) /\ Seen(r, grant) # NoRow
  BY <1>4, CloseStep DEF AddDatasetGrant
<1>5. CASE Manages(txn[r].by) /\ Seen(r, grant) = NoRow
  <2>1. Flush(r, rows, "commit")
    BY <1>5 DEF AddDatasetGrant
  <2>2. IsRow(grant, "row")
    BY KeysDiffer DEF IsRow
  <2>3. Fitting(r, rows)
    BY <2>2, KeysDiffer, FitsAlone
  <2>4. DOMAIN rows = {grant}
    BY SetRow
  <2>5. DOMAIN rows \cap ({Credential} \cup Accesses) = {}
    BY <2>4, KeysDiffer
  <2> HIDE DEF rows
  <2> QED
    BY <1>2, <1>5, <2>1, <2>3, <2>5, FlushStep
<1> QED
  BY <1>3, <1>4, <1>5

LEMMA RemoveDatasetGrantStep ==
  ASSUME Core, NEW r \in Request, RemoveDatasetGrant(r) PROVE Step(r)
<1> DEFINE grant == Grant(txn[r].arg)
           rows == Set(grant, NoRow)
           found == Manages(txn[r].by) /\ table[grant] # NoRow
<1>1. txn[r].pc = "received" /\ Local(txn[r], Written(r))
  BY DEF Core, RemoveDatasetGrant, Is
<1>2. Written(r) = {}
  BY <1>1 DEF Local
<1>3. CASE ~ found
  <2>1. Flush(r, NoWrites, "commit")
    BY <1>3 DEF RemoveDatasetGrant
  <2> QED
    BY <1>2, <2>1, FitsNone, NoWritesEmpty, FlushStep
<1>4. CASE found
  <2>1. Flush(r, rows, "commit")
    BY <1>4 DEF RemoveDatasetGrant
  <2>2. IsRow(grant, NoRow)
    BY KeysDiffer DEF IsRow
  <2>3. Fitting(r, rows)
    BY <2>2, KeysDiffer, FitsAlone
  <2>4. DOMAIN rows = {grant}
    BY SetRow
  <2>5. DOMAIN rows \cap ({Credential} \cup Accesses) = {}
    BY <2>4, KeysDiffer
  <2> HIDE DEF rows
  <2> QED
    BY <1>2, <1>4, <2>1, <2>3, <2>5, FlushStep
<1> QED
  BY <1>3, <1>4

-----------------------------------------------------------------------------
(* The credential.                                                         *)

(* A row of the credential that keeps its id, or the first one.            *)
LEMMA FitsCredential ==
  ASSUME NEW r \in Request, NEW row \in CredentialRow, Free(r, {Credential}),
         table[Credential] = NoRow \/ table[Credential].id = row.id
  PROVE  Fitting(r, Set(Credential, row))
<1> DEFINE rows == Set(Credential, row)
<1>1. DOMAIN rows = {Credential} /\ rows[Credential] = row
  BY SetRow
<1>2. row # NoRow
  BY NoRowIsNoRow
<1>3. IsRow(Credential, row)
  BY KeysDiffer DEF IsRow
<1> HIDE DEF rows
<1>4. Fitting(r, rows)
  BY <1>1, <1>2, <1>3, KeysDiffer DEF Fitting
<1> QED
  BY <1>4 DEF rows

LEMMA FlushCredential ==
  ASSUME Core, NEW r \in Request, NEW row \in CredentialRow,
         Free(r, {Credential}), Written(r) = {}, Administers(txn[r].by),
         table[Credential] = NoRow \/ table[Credential].id = row.id,
         Flush(r, Set(Credential, row), "commit")
  PROVE  Step(r)
<1> DEFINE rows == Set(Credential, row)
<1>1. Fitting(r, rows)
  BY FitsCredential
<1>2. DOMAIN rows = {Credential}
  BY SetRow
<1>3. DOMAIN rows \cap ({Dataset} \cup Grants) = {}
  BY <1>2, KeysDiffer
<1> HIDE DEF rows
<1>4. Flush(r, rows, "commit")
  BY DEF rows
<1> QED
  BY <1>1, <1>3, <1>4, FlushStep

LEMMA CredentialIsRow ==
  ASSUME Core PROVE table[Credential] \in CredentialRow \cup {NoRow}
BY KeysDiffer DEF Core, Types, IsRow, Key

LEMMA CreateCredentialStep ==
  ASSUME Core, NEW r \in Request, CreateCredential(r) PROVE Step(r)
<1> DEFINE row == [id |-> r, key |-> r, access |-> txn[r].arg, tested |-> NoRow]
<1>1. /\ txn[r].pc = "received" /\ txn[r].kind = "create"
      /\ Local(txn[r], Written(r)) /\ Administers(txn[r].by)
      /\ Free(r, {Credential})
  BY DEF Core, CreateCredential, Is
<1>2. Written(r) = {} /\ txn[r].arg \in MemberAccess
  BY <1>1 DEF Local
<1>3. row \in CredentialRow
  BY <1>2, RequestsAreMakers DEF CredentialRow
<1>4. Seen(r, Credential) = table[Credential]
  BY <1>2 DEF Seen, Written
<1>5. CASE table[Credential] # NoRow
  BY <1>4, <1>5, CloseStep DEF CreateCredential
<1>6. CASE table[Credential] = NoRow
  <2>1. Flush(r, Set(Credential, row), "commit")
    BY <1>4, <1>6 DEF CreateCredential
  <2> HIDE DEF row
  <2> QED
    BY <1>1, <1>2, <1>3, <1>6, <2>1, FlushCredential
<1> QED
  BY <1>5, <1>6

LEMMA FindCredentialStep ==
  ASSUME Core, NEW r \in Request, FindCredential(r) PROVE Step(r)
<1> DEFINE test == txn[r].kind = "test"
           p == IF test THEN "testing" ELSE "looked"
           k == IF test THEN Seen(r, Credential).key ELSE NoRow
           t == [txn[r] EXCEPT !.pc = p, !.loaded = Seen(r, Credential).access,
                               !.key = k]
<1>1. /\ txn[r] \in Txn /\ Local(txn[r], Written(r))
      /\ txn[r].pc = "received" /\ Administers(txn[r].by)
      /\ txn[r].kind \in {"update", "rotate", "delete", "test"}
      /\ SeesCredential(r, txn[r].id)
  BY DEF Core, Types, FindCredential, Is
<1>2. Written(r) = {}
  BY <1>1 DEF Local
<1>3. \A x : Seen(r, x) = table[x]
  BY <1>2 DEF Seen, Written
<1>4. /\ SelectsCredential(txn[r].by, table[Credential],
                           table[Access(txn[r].by)])
      /\ table[Credential] # NoRow
  BY <1>1, <1>3 DEF SeesCredential, SelectsCredential
<1>5. /\ Seen(r, Credential).access \in MemberAccess
      /\ Seen(r, Credential).key \in Maker
  BY <1>3, <1>4, CredentialIsRow DEF CredentialRow
<1>6. p \in {"testing", "looked"} /\ k \in Maker \cup {NoRow}
  BY <1>5
<1>7. /\ t \in Txn /\ t.pc = p /\ t.kind = txn[r].kind /\ t.key = k
      /\ t.by = txn[r].by /\ t.arg = txn[r].arg /\ t.id = txn[r].id
      /\ t.shown = txn[r].shown
  <2> HIDE DEF p, k
  <2> QED
    BY <1>1, <1>5, <1>6 DEF Txn, Place
<1>8. txn' = [txn EXCEPT ![r] = t] /\ txn'[r] = t
  BY DEF FindCredential, Core, Types
<1> HIDE DEF t
<1>9. Local(txn'[r], Written(r))
  BY <1>1, <1>2, <1>6, <1>7, <1>8 DEF Local
<1>10. KeyIsRead(r)
  <2>1. table[Credential].key \in Legible(txn[r].by, table)
    BY <1>4 DEF Legible
  <2> QED
    BY <1>3, <1>7, <1>8, <2>1 DEF KeyIsRead
<1> QED
  BY <1>7, <1>8, <1>9, <1>10, QuietStep, OthersStay
     DEF Step, Read, FindCredential

LEMMA UpdateRowStep ==
  ASSUME Core, NEW r \in Request, NEW row, UpdateRow(r, row), Written(r) = {},
         Administers(txn[r].by),
         StillThere(r) => row \in CredentialRow /\ row.id = table[Credential].id
  PROVE  Step(r)
<1>1. CASE StillThere(r)
  BY <1>1, FlushCredential DEF UpdateRow
<1>2. CASE ~ StillThere(r)
  BY <1>2, ErrorStep DEF UpdateRow
<1> QED
  BY <1>1, <1>2

LEMMA UpdateCredentialStep ==
  ASSUME Core, NEW r \in Request, UpdateCredential(r) PROVE Step(r)
<1>1. /\ txn[r] \in Txn /\ Local(txn[r], Written(r)) /\ txn[r].pc = "looked"
      /\ txn[r].kind \in {"update", "rotate"}
  BY DEF Core, Types, UpdateCredential, Is
<1>2. /\ Written(r) = {} /\ Administers(txn[r].by)
      /\ txn[r].kind = "update" => txn[r].arg \in MemberAccess
  BY <1>1 DEF Local
<1>3. CASE txn[r].kind = "rotate"
  <2> DEFINE row == [table[Credential] EXCEPT !.key = r]
  <2>1. StillThere(r) => row \in CredentialRow /\ row.id = table[Credential].id
    BY CredentialIsRow, RequestsAreMakers DEF StillThere, CredentialRow
  <2>2. UpdateRow(r, row)
    BY <1>3 DEF UpdateCredential
  <2> HIDE DEF row
  <2> QED
    BY <1>2, <2>1, <2>2, UpdateRowStep
<1>4. CASE txn[r].kind = "update" /\ txn[r].arg = txn[r].loaded
  BY <1>2, <1>4, GotoStep DEF UpdateCredential, Place
<1>5. CASE txn[r].kind = "update" /\ txn[r].arg # txn[r].loaded
  <2> DEFINE row == [table[Credential] EXCEPT !.access = txn[r].arg]
  <2>1. StillThere(r) => row \in CredentialRow /\ row.id = table[Credential].id
    BY <1>2, <1>5, CredentialIsRow DEF StillThere, CredentialRow
  <2>2. UpdateRow(r, row)
    BY <1>5 DEF UpdateCredential
  <2> HIDE DEF row
  <2> QED
    BY <1>2, <2>1, <2>2, UpdateRowStep
<1> QED
  BY <1>1, <1>3, <1>4, <1>5

(* The rows of the deletion with its cascade.                              *)
LEMMA FitsDeletion ==
  ASSUME NEW r \in Request, Free(r, {Credential} \cup Accesses \cup Conversations),
         ~ InUse
  PROVE  Fitting(r, [k \in {Credential} \cup Accesses |-> NoRow])
<1> DEFINE rows == [k \in {Credential} \cup Accesses |-> NoRow]
<1>1. DOMAIN rows = {Credential} \cup Accesses
      /\ \A k \in DOMAIN rows : rows[k] = NoRow
  OBVIOUS
<1>2. Free(r, {Credential}) /\ Free(r, Accesses \cup Conversations)
  BY DEF Free
<1>3. \A k \in {Credential} \cup Accesses : IsRow(k, NoRow)
  BY KeysDiffer DEF IsRow
<1>4. \A k \in Conversations : table[k] = NoRow
  BY DEF InUse
<1> HIDE DEF rows
<1>5. Fitting(r, rows)
  BY <1>1, <1>2, <1>3, <1>4, KeysDiffer DEF Fitting
<1> QED
  BY <1>5 DEF rows

LEMMA DeleteCredentialStep ==
  ASSUME Core, NEW r \in Request, DeleteCredential(r) PROVE Step(r)
<1> DEFINE rows == [k \in {Credential} \cup Accesses |-> NoRow]
<1>1. /\ Local(txn[r], Written(r)) /\ txn[r].pc = "looked"
      /\ txn[r].kind = "delete"
      /\ Free(r, {Credential} \cup Accesses \cup Conversations)
  BY DEF Core, DeleteCredential, Is
<1>2. Written(r) = {} /\ Administers(txn[r].by)
  BY <1>1 DEF Local
<1>3. CASE ~ StillThere(r)
  BY <1>2, <1>3, GotoStep DEF DeleteCredential, Place
<1>4. CASE StillThere(r) /\ InUse
  BY <1>4, ErrorStep DEF DeleteCredential
<1>5. CASE StillThere(r) /\ ~ InUse
  <2>1. Flush(r, rows, "commit")
    BY <1>5 DEF DeleteCredential
  <2>2. Fitting(r, rows)
    BY <1>1, <1>5, FitsDeletion
  <2>3. DOMAIN rows \cap ({Dataset} \cup Grants) = {}
    BY KeysDiffer
  <2> HIDE DEF rows
  <2> QED
    BY <1>2, <2>1, <2>2, <2>3, FlushStep
<1> QED
  BY <1>3, <1>4, <1>5

LEMMA AskProviderStep ==
  ASSUME Core, NEW r \in Request, AskProvider(r) PROVE Step(r)
<1>1. Local(txn[r], Written(r)) /\ txn[r].pc = "testing"
  BY DEF Core, AskProvider
<1>2. Written(r) = {} /\ Administers(txn[r].by)
  BY <1>1 DEF Local
<1> QED
  BY <1>2, GotoStep DEF AskProvider, Place

LEMMA StampResultStep ==
  ASSUME Core, NEW r \in Request, StampResult(r) PROVE Step(r)
<1> DEFINE row == [table[Credential] EXCEPT !.tested = txn[r].key]
<1>1. txn[r] \in Txn /\ Local(txn[r], Written(r)) /\ txn[r].pc = "stamping"
  BY DEF Core, Types, StampResult
<1>2. Written(r) = {} /\ Administers(txn[r].by)
  BY <1>1 DEF Local
<1>3. StillThere(r) => row \in CredentialRow /\ row.id = table[Credential].id
  BY <1>1, CredentialIsRow DEF StillThere, CredentialRow, Txn
<1>4. UpdateRow(r, row)
  BY DEF StampResult
<1> HIDE DEF row
<1> QED
  BY <1>2, <1>3, <1>4, UpdateRowStep

LEMMA AddGrantStep ==
  ASSUME Core, NEW r \in Request, AddGrant(r) PROVE Step(r)
<1> DEFINE grant == Access(txn[r].arg)
           rows == Set(grant, "row")
           t == [txn[r] EXCEPT !.pc = "refetch", !.bound = FALSE]
<1>1. /\ txn[r] \in Txn /\ Local(txn[r], Written(r)) /\ txn[r].pc = "received"
      /\ Administers(txn[r].by) /\ ~ BeingDeleted(r)
  BY DEF Core, Types, AddGrant, Is
<1>2. Written(r) = {}
  BY <1>1 DEF Local
<1>3. CASE StillThere(r) /\ Seen(r, grant) = NoRow
  <2>1. Flush(r, rows, "commit")
    BY <1>3 DEF AddGrant
  <2>2. DOMAIN rows = {grant} /\ rows[grant] = "row"
    BY SetRow
  <2>3. IsRow(grant, "row") /\ grant \notin Conversations \cup Grants
        /\ grant # Credential /\ grant # Dataset
    BY KeysDiffer DEF IsRow
  <2>4. NoOtherDeletion(r)
    BY <1>1 DEF BeingDeleted, NoOtherDeletion, Written
  <2>5. table[Credential] # NoRow
    BY <1>3 DEF StillThere
  <2> HIDE DEF rows, grant
  <2>6. Fitting(r, rows)
    BY <2>2, <2>3, <2>4, <2>5 DEF Fitting
  <2>7. DOMAIN rows \cap ({Dataset} \cup Grants) = {}
    BY <2>2, <2>3
  <2> QED
    BY <1>1, <1>2, <2>1, <2>6, <2>7, FlushStep
<1>4. CASE ~ (StillThere(r) /\ Seen(r, grant) = NoRow)
  <2>1. /\ t \in Txn /\ t.pc = "refetch" /\ t.kind = txn[r].kind
        /\ t.by = txn[r].by /\ t.arg = txn[r].arg /\ t.id = txn[r].id
        /\ t.shown = txn[r].shown
    BY <1>1 DEF Txn, Place
  <2>2. txn' = [txn EXCEPT ![r] = t] /\ txn'[r] = t
    BY <1>4 DEF AddGrant, Core, Types
  <2>3. DropWrites(r) /\ UNCHANGED table
    BY <1>4 DEF AddGrant
  <2> HIDE DEF t
  <2>4. Local(txn'[r], {})
    BY <1>1, <2>1, <2>2 DEF Local
  <2> QED
    BY <2>1, <2>2, <2>3, <2>4, DropStep, OthersStay DEF Step, KeyIsRead
<1> QED
  BY <1>3, <1>4

LEMMA RefetchGrantStep ==
  ASSUME Core, NEW r \in Request, RefetchGrant(r) PROVE Step(r)
<1> DEFINE there == txn[r].bound /\ Seen(r, Access(txn[r].arg)) # NoRow
<1>1. CASE there
  BY <1>1, GotoStep DEF RefetchGrant, Place
<1>2. CASE ~ there
  BY <1>2, ErrorStep DEF RefetchGrant
<1> QED
  BY <1>1, <1>2

LEMMA RemoveGrantStep ==
  ASSUME Core, NEW r \in Request, RemoveGrant(r) PROVE Step(r)
<1> DEFINE grant == Access(txn[r].arg)
           rows == Set(grant, NoRow)
<1>1. /\ Local(txn[r], Written(r)) /\ txn[r].pc = "received"
      /\ Administers(txn[r].by)
  BY DEF Core, RemoveGrant, Is
<1>2. Written(r) = {}
  BY <1>1 DEF Local
<1>3. CASE table[grant] = NoRow
  <2>1. Flush(r, NoWrites, "commit")
    BY <1>3 DEF RemoveGrant
  <2> QED
    BY <1>2, <2>1, FitsNone, NoWritesEmpty, FlushStep
<1>4. CASE table[grant] # NoRow
  <2>1. Flush(r, rows, "commit")
    BY <1>4 DEF RemoveGrant
  <2>2. IsRow(grant, NoRow)
    BY KeysDiffer DEF IsRow
  <2>3. Fitting(r, rows)
    BY <2>2, KeysDiffer, FitsAlone
  <2>4. DOMAIN rows = {grant}
    BY SetRow
  <2>5. DOMAIN rows \cap ({Dataset} \cup Grants) = {}
    BY <2>4, KeysDiffer
  <2> HIDE DEF rows
  <2> QED
    BY <1>1, <1>2, <2>1, <2>3, <2>5, FlushStep
<1> QED
  BY <1>3, <1>4

-----------------------------------------------------------------------------
(* Conversations.                                                          *)

LEMMA VerifyDatasetStep ==
  ASSUME Core, NEW r \in Request, VerifyDataset(r) PROVE Step(r)
<1>1. /\ Local(txn[r], Written(r)) /\ txn[r].pc = "received"
      /\ txn[r].kind \in {"open", "kickoff"}
  BY DEF Core, VerifyDataset, Is
<1>2. Written(r) = {}
  BY <1>1 DEF Local
<1> QED
  BY <1>1, <1>2, GotoStep DEF VerifyDataset, Place

LEMMA VerifyCredentialStep ==
  ASSUME Core, NEW r \in Request, VerifyCredential(r) PROVE Step(r)
<1>1. Local(txn[r], Written(r)) /\ txn[r].pc = "verified"
  BY DEF Core, VerifyCredential
<1>2. Written(r) = {} /\ txn[r].kind \in {"open", "kickoff"}
  BY <1>1 DEF Local
<1>3. CASE SeesCredential(r, txn[r].id)
  BY <1>2, <1>3, GotoStep DEF VerifyCredential, Place
<1>4. CASE ~ SeesCredential(r, txn[r].id)
  BY <1>4, GotoStep DEF VerifyCredential, Place
<1> QED
  BY <1>3, <1>4

LEMMA InsertConversationStep ==
  ASSUME Core, NEW r \in Request, InsertConversation(r) PROVE Step(r)
<1> DEFINE k == Conversation(r)
           row == [by |-> txn[r].by, credential |-> txn[r].id]
           rows == Set(k, row)
           p == IF txn[r].kind = "open" THEN "commit" ELSE "loading"
<1>1. /\ txn[r] \in Txn /\ Local(txn[r], Written(r)) /\ txn[r].pc = "looked"
      /\ txn[r].kind \in {"open", "kickoff"} /\ ~ BeingDeleted(r)
  BY DEF Core, Types, InsertConversation, Is
<1>2. Written(r) = {} /\ txn[r].id \in Maker
  BY <1>1 DEF Local
<1>3. CASE StillThere(r)
  <2>1. Flush(r, rows, p)
    BY <1>3 DEF InsertConversation
  <2>2. DOMAIN rows = {k} /\ rows[k] = row
    <3> HIDE DEF row, k
    <3> QED
      BY SetRow
  <2>3. row \in ConversationRow /\ row.credential = txn[r].id
    BY <1>1, <1>2 DEF ConversationRow, Txn
  <2>4. /\ k \in Conversations /\ k \notin Grants \cup Accesses
        /\ k # Dataset /\ k # Credential
    BY KeysDiffer, RequestsAreMakers DEF Conversations
  <2>5. NoOtherDeletion(r)
    BY <1>1 DEF BeingDeleted, NoOtherDeletion, Written
  <2>6. table[Credential] # NoRow /\ table[Credential].id = txn[r].id
    BY <1>3 DEF StillThere
  <2>7. p \in {"commit", "loading"}
    OBVIOUS
  <2> HIDE DEF rows, row, k, p
  <2>8. IsRow(k, row)
    BY <2>3, <2>4 DEF IsRow
  <2>9. Fitting(r, rows)
    BY <2>2, <2>3, <2>4, <2>5, <2>6, <2>8 DEF Fitting
  <2>10. DOMAIN rows \subseteq Conversations
         /\ DOMAIN rows \cap ({Dataset} \cup Grants) = {}
         /\ DOMAIN rows \cap ({Credential} \cup Accesses) = {}
    BY <2>2, <2>4
  <2> QED
    BY <1>2, <2>1, <2>7, <2>9, <2>10, FlushStep
<1>4. CASE ~ StillThere(r)
  BY <1>4, ErrorStep DEF InsertConversation
<1> QED
  BY <1>3, <1>4

LEMMA StartTurnStep ==
  ASSUME Core, NEW r \in Request, StartTurn(r) PROVE Step(r)
<1>1. Local(txn[r], Written(r)) /\ txn[r].pc = "received"
  BY DEF Core, StartTurn, Is
<1>2. Written(r) = {}
  BY <1>1 DEF Local
<1> QED
  BY <1>2, GotoStep DEF StartTurn, Place

LEMMA LoadDatasetStep ==
  ASSUME Core, NEW r \in Request, LoadDataset(r) PROVE Step(r)
<1> DEFINE seen == SeesDataset(r) /\ Manages(txn[r].by)
<1>1. Local(txn[r], Written(r)) /\ txn[r].pc = "loading"
  BY DEF Core, LoadDataset
<1>2. Written(r) \subseteq Conversations
  BY <1>1 DEF Local
<1>3. CASE seen
  BY <1>2, <1>3, GotoStep DEF LoadDataset, Place
<1>4. CASE ~ seen
  BY <1>4, CloseStep DEF LoadDataset
<1> QED
  BY <1>3, <1>4

LEMMA LoadKeyStep ==
  ASSUME Core, NEW r \in Request, LoadKey(r) PROVE Step(r)
<1> DEFINE k == Seen(r, Credential).key
           t == [txn[r] EXCEPT !.pc = "calling", !.key = k]
<1>1. txn[r] \in Txn /\ Local(txn[r], Written(r)) /\ txn[r].pc = "keyed"
  BY DEF Core, Types, LoadKey
<1>2. Written(r) \subseteq Conversations
  BY <1>1 DEF Local
<1>3. /\ Seen(r, Credential) = table[Credential]
      /\ Seen(r, Access(txn[r].by)) = table[Access(txn[r].by)]
  BY <1>2, KeysDiffer DEF Seen, Written
<1>4. CASE SeesCredential(r, txn[r].id)
  <2>1. /\ SelectsCredential(txn[r].by, table[Credential],
                             table[Access(txn[r].by)])
        /\ table[Credential] # NoRow
    BY <1>3, <1>4 DEF SeesCredential, SelectsCredential
  <2>2. k \in Maker /\ k = table[Credential].key
    BY <1>3, <2>1, CredentialIsRow DEF CredentialRow
  <2>3. k \in Legible(txn[r].by, table)
    BY <2>1, <2>2 DEF Legible
  <2>4. /\ t \in Txn /\ t.pc = "calling" /\ t.kind = txn[r].kind /\ t.key = k
        /\ t.by = txn[r].by /\ t.arg = txn[r].arg /\ t.id = txn[r].id
        /\ t.shown = txn[r].shown
    <3> HIDE DEF k
    <3> QED
      BY <1>1, <2>2 DEF Txn, Place
  <2>5. txn' = [txn EXCEPT ![r] = t] /\ txn'[r] = t /\ Read
    BY <1>4 DEF LoadKey, Core, Types
  <2> HIDE DEF t, k
  <2>6. Local(txn'[r], Written(r))
    BY <1>1, <1>2, <2>4, <2>5 DEF Local
  <2> QED
    BY <2>3, <2>4, <2>5, <2>6, QuietStep, OthersStay DEF Step, KeyIsRead, Read
<1>5. CASE ~ SeesCredential(r, txn[r].id)
  BY <1>5, CloseStep DEF LoadKey
<1> QED
  BY <1>4, <1>5

LEMMA CallStep ==
  ASSUME Core, NEW r \in Request, Call(r) PROVE Step(r)
BY GotoStep DEF Call, Place

-----------------------------------------------------------------------------
(* How requests begin and end.                                             *)

LEMMA RefuseStep ==
  ASSUME Core, NEW r \in Request, Refuse(r) PROVE Step(r)
BY GotoStep DEF Refuse, Place

LEMMA FailStep ==
  ASSUME Core, NEW r \in Request, Fail(r) PROVE Step(r)
BY ErrorStep DEF Fail

LEMMA NamedIsMaker ==
  ASSUME Core, NEW kind \in Kind, NEW p \in Person, NEW id \in Named(kind, p)
  PROVE  /\ id \in Maker \cup {NoRow}
         /\ kind \in {"open", "kickoff"} => id \in Maker
<1>1. CASE kind = "send"
  <2>1. PICK k \in Conversations : table[k] # NoRow /\ id = table[k].credential
    BY <1>1 DEF Named, SelectsConversation
  <2>2. table[k] \in ConversationRow
    BY <2>1 DEF Core, Types, IsRow, Key
  <2> QED
    BY <1>1, <2>1, <2>2 DEF ConversationRow
<1>2. CASE kind \in {"update", "rotate", "delete", "test", "grant", "revoke",
                     "open", "kickoff"}
  <2>1. table[Credential] # NoRow /\ id = table[Credential].id
    BY <1>2 DEF Named
  <2> QED
    BY <2>1, CredentialIsRow DEF CredentialRow
<1>3. CASE kind \in {"list", "visibility", "share", "unshare", "create"}
  BY <1>3 DEF Named
<1> QED
  BY <1>1, <1>2, <1>3 DEF Kind

LEMMA ArgumentFits ==
  ASSUME NEW kind \in Kind, NEW arg \in Argument(kind)
  PROVE  /\ arg \in Visibility \cup MemberAccess \cup Person \cup {NoArg}
         /\ kind = "visibility" => arg \in Visibility
         /\ kind \in {"create", "update"} => arg \in MemberAccess
<1>1. CASE kind = "visibility"
  BY <1>1 DEF Argument
<1>2. CASE kind \in {"create", "update"}
  BY <1>2 DEF Argument
<1>3. CASE kind \in {"share", "unshare", "grant", "revoke"}
  BY <1>3 DEF Argument
<1>4. CASE kind \in {"list", "rotate", "delete", "test", "open", "kickoff",
                     "send"}
  BY <1>4 DEF Argument
<1> QED
  BY <1>1, <1>2, <1>3, <1>4 DEF Kind

LEMMA BeginStep ==
  ASSUME Core, NEW r \in Request, Begin(r) PROVE Step(r)
<1>1. Local(txn[r], Written(r)) /\ txn[r].pc = "waiting" /\ Read
  BY DEF Core, Begin
<1>2. Written(r) = {}
  BY <1>1 DEF Local
<1>3. PICK kind \in Kind, p \in Person :
        \E arg \in Argument(kind), id \in Named(kind, p) :
          txn' = [txn EXCEPT ![r] =
                    [pc |-> "received", kind |-> kind, by |-> p, arg |-> arg,
                     id |-> id, loaded |-> NoArg, key |-> NoRow,
                     shown |-> FALSE, bound |-> TRUE]]
  BY DEF Begin
<1>4. PICK arg \in Argument(kind), id \in Named(kind, p) :
        txn' = [txn EXCEPT ![r] =
                  [pc |-> "received", kind |-> kind, by |-> p, arg |-> arg,
                   id |-> id, loaded |-> NoArg, key |-> NoRow,
                   shown |-> FALSE, bound |-> TRUE]]
  BY <1>3
<1> DEFINE t == [pc |-> "received", kind |-> kind, by |-> p, arg |-> arg,
                 id |-> id, loaded |-> NoArg, key |-> NoRow,
                 shown |-> FALSE, bound |-> TRUE]
<1>5. /\ t \in Txn /\ t.pc = "received" /\ t.kind = kind /\ t.arg = arg
      /\ t.id = id /\ t.shown = FALSE
  BY NamedIsMaker, ArgumentFits DEF Txn, Place
<1>6. txn' = [txn EXCEPT ![r] = t] /\ txn'[r] = t
  BY <1>4 DEF Core, Types
<1> HIDE DEF t
<1>7. Local(txn'[r], Written(r))
  BY <1>2, <1>5, <1>6, NamedIsMaker, ArgumentFits DEF Local
<1> QED
  BY <1>1, <1>5, <1>6, <1>7, QuietStep, OthersStay DEF Step, KeyIsRead, Read

LEMMA AdvanceStep ==
  ASSUME Core, NEW r \in Request, Begin(r) \/ Advance(r) \/ Fail(r),
         ~ Commit(r)
  PROVE  Step(r)
BY BeginStep, FailStep, ListDatasetsStep, FindDatasetStep, UpdateVisibilityStep,
   AddDatasetGrantStep, RemoveDatasetGrantStep, CreateCredentialStep,
   FindCredentialStep, UpdateCredentialStep, DeleteCredentialStep,
   AskProviderStep, StampResultStep, AddGrantStep, RefetchGrantStep,
   RemoveGrantStep, VerifyDatasetStep, VerifyCredentialStep,
   InsertConversationStep, StartTurnStep, LoadDatasetStep, LoadKeyStep,
   CallStep, RefuseStep
DEF Advance

-----------------------------------------------------------------------------
(* The invariant.                                                          *)

LEMMA LegibleIsMaker ==
  ASSUME Core, NEW p PROVE Legible(p, table) \subseteq Maker
BY CredentialIsRow DEF Legible, SelectsCredential, CredentialRow

LEMMA InitInvariant == Init => IInv
<1> SUFFICES ASSUME Init PROVE IInv
  OBVIOUS
<1>1. /\ DOMAIN writes = Request /\ writes = [r \in Request |-> writes[r]]
      /\ \A r \in Request : Written(r) = {}
  BY NoWritesEmpty DEF Init, Written
<1>2. txn \in [Request -> Txn] /\ \A r \in Request : txn[r].pc = "waiting"
  <2>1. Waiting \in Txn /\ Waiting.pc = "waiting"
    BY PeopleHaveRoles DEF Waiting, Txn, Place, Kind
  <2> QED
    BY <2>1 DEF Init
<1>3. \A r \in Request : Local(txn[r], Written(r))
  <2>1. Local(Waiting, {})
    BY DEF Local, Waiting
  <2> QED
    BY <1>1, <2>1 DEF Init
<1>4. /\ legible \in [Request -> SUBSET Maker]
      /\ KeysAreLegible
  BY <1>2 DEF Init, KeysAreLegible
<1>5. /\ table = [k \in Key |-> table[k]]
      /\ \A k \in Key :
           IsRow(k, table[k]) \/ (k \in Conversations /\ table[k] = NoRow)
      /\ ReferencesHold
  <2>1. Creator \in Person /\ 0 \in Maker
    BY PeopleHaveRoles, BoundsArePositive DEF Maker
  <2>2. /\ Dataset \in Key /\ Credential \in Key /\ Grants \subseteq Key
        /\ Accesses \subseteq Key /\ Conversations \subseteq Key
        /\ Access(Creator) \in Accesses /\ Conversation(0) \in Conversations
    BY <2>1 DEF Key, Accesses, Conversations
  <2>3. CASE table = Private
    <3>1. /\ table = [k \in Key |-> table[k]] /\ table[Dataset] = "private"
          /\ \A k \in Key \ {Dataset} : table[k] = NoRow
      BY <2>2, <2>3 DEF Private, NoRows
    <3> QED
      BY <2>2, <3>1, KeysDiffer DEF IsRow, ReferencesHold, Visibility
  <2>4. CASE table = Open
    <3> DEFINE row == [id |-> 0, key |-> 0, access |-> "all_members",
                       tested |-> 0]
    <3>1. /\ table = [k \in Key |-> table[k]]
          /\ table[Dataset] = "shared_workspace" /\ table[Credential] = row
          /\ \A k \in Key \ {Dataset, Credential} : table[k] = NoRow
      BY <2>2, <2>4, KeysDiffer DEF Open, NoRows
    <3>2. row \in CredentialRow
      BY <2>1 DEF CredentialRow, MemberAccess
    <3>3. row # NoRow
      BY <3>2, NoRowIsNoRow
    <3> HIDE DEF row
    <3> QED
      BY <2>2, <3>1, <3>2, <3>3, KeysDiffer
      DEF IsRow, ReferencesHold, Visibility
  <2>5. CASE table = Granted
    <3> DEFINE row == [id |-> 0, key |-> 0, access |-> "specific_members",
                       tested |-> NoRow]
               conversation == [by |-> Creator, credential |-> 0]
    <3>1. /\ table = [k \in Key |-> table[k]]
          /\ table[Dataset] = "shared_specific" /\ table[Credential] = row
          /\ \A k \in Grants : table[k] = "row"
          /\ \A k \in Accesses : table[k] \in {"row", NoRow}
          /\ table[Conversation(0)] = conversation
          /\ \A k \in Conversations \ {Conversation(0)} : table[k] = NoRow
      BY <2>2, <2>5, KeysDiffer DEF Granted
    <3>2. row \in CredentialRow /\ conversation \in ConversationRow
      BY <2>1 DEF CredentialRow, ConversationRow, MemberAccess
    <3>3. row # NoRow /\ row.id = conversation.credential
      BY <3>2, NoRowIsNoRow
    <3> HIDE DEF row, conversation
    <3>4. ReferencesHold
      BY <3>1, <3>3 DEF ReferencesHold
    <3>5. \A k \in Key :
            IsRow(k, table[k]) \/ (k \in Conversations /\ table[k] = NoRow)
      <4>1. IsRow(Dataset, table[Dataset])
        BY <3>1, KeysDiffer DEF IsRow, Visibility
      <4>2. IsRow(Credential, table[Credential])
        BY <3>1, <3>2, KeysDiffer DEF IsRow
      <4>3. \A k \in Grants \cup Accesses : IsRow(k, table[k])
        BY <3>1, KeysDiffer DEF IsRow
      <4>4. \A k \in Conversations : table[k] = NoRow \/ IsRow(k, table[k])
        BY <3>1, <3>2, KeysDiffer DEF IsRow
      <4> QED
        BY <4>1, <4>2, <4>3, <4>4 DEF Key
    <3> QED
      BY <3>1, <3>4, <3>5
  <2> QED
    BY <2>3, <2>4, <2>5 DEF Init
<1>6. Types
  BY <1>1, <1>2, <1>5 DEF Types
<1>7. References
  BY <1>1, <1>5 DEF References
<1> QED
  BY <1>3, <1>4, <1>6, <1>7 DEF IInv, Core

LEMMA KeysStayLegible ==
  ASSUME IInv, NEW r \in Request, Core', KeyIsRead(r),
         \A q \in Request \ {r} : txn'[q] = txn[q],
         legible' = [q \in Request |-> Reads(q)]
  PROVE  IInv'
<1>1. \A q \in Request : Reads(q) \subseteq Maker
  <2> SUFFICES ASSUME NEW q \in Request PROVE Reads(q) \subseteq Maker
    OBVIOUS
  <2>1. legible[q] \subseteq Maker
    BY DEF IInv
  <2>2. /\ Legible(txn'[q].by, table) \subseteq Maker
        /\ Legible(txn'[q].by, table') \subseteq Maker
    <3>1. \A p : Legible(p, table) \subseteq Maker
      BY LegibleIsMaker DEF IInv
    <3>2. \A p : Legible(p, table') \subseteq Maker
      <4>1. table'[Credential] \in CredentialRow \cup {NoRow}
        BY KeysDiffer DEF Core, Types, IsRow, Key
      <4> QED
        BY <4>1 DEF Legible, SelectsCredential, CredentialRow
    <3> QED
      BY <3>1, <3>2
  <2> QED
    BY <2>1, <2>2 DEF Reads
<1>2. KeysAreLegible'
  <2> SUFFICES ASSUME NEW q \in Request, txn'[q].pc \in {"testing", "calling"}
               PROVE  txn'[q].key \in legible'[q]
    BY DEF KeysAreLegible
  <2>1. legible'[q] = legible[q] \cup Legible(txn'[q].by, table)
                        \cup Legible(txn'[q].by, table')
    BY DEF Reads, Busy, Ended
  <2>2. CASE q = r
    BY <2>1, <2>2 DEF KeyIsRead
  <2>3. CASE q # r
    <3>1. txn'[q] = txn[q]
      BY <2>3
    <3>2. txn[q].key \in legible[q]
      BY <3>1 DEF IInv, KeysAreLegible
    <3> QED
      BY <2>1, <3>1, <3>2
  <2> QED
    BY <2>2, <2>3
<1> QED
  BY <1>1, <1>2 DEF IInv

LEMMA CommitEnds ==
  ASSUME Core, NEW r \in Request, Commit(r)
  PROVE  /\ txn'[r].pc = "done"
         /\ \A q \in Request \ {r} : txn'[q] = txn[q]
<1>1. txn' = [txn EXCEPT ![r].pc = "done"] /\ txn \in [Request -> Txn]
  BY DEF Commit, Goto, Core, Types
<1>2. txn[r] \in Txn
  BY <1>1
<1> QED
  BY <1>1, <1>2 DEF Txn

LEMMA NextInvariant == IInv /\ [Next]_vars => IInv'
<1> SUFFICES ASSUME IInv, [Next]_vars PROVE IInv'
  OBVIOUS
<1>1. CASE UNCHANGED vars
  BY <1>1 DEF IInv, Core, Types, References, ReferencesHold, Local, Written,
              NoDeletion, KeysAreLegible, vars
<1>2. CASE Next
  <2>1. PICK r \in Request : Begin(r) \/ Advance(r) \/ Fail(r)
    BY <1>2 DEF Next
  <2>2. legible' = [q \in Request |-> Reads(q)] /\ Core
    BY <1>2 DEF Next, IInv
  <2>3. CASE Commit(r)
    <3>1. Core' /\ txn'[r].pc = "done"
          /\ \A q \in Request \ {r} : txn'[q] = txn[q]
      BY <2>2, <2>3, CommitStep, CommitEnds
    <3> QED
      BY <2>2, <3>1, KeysStayLegible DEF KeyIsRead
  <2>4. CASE ~ Commit(r)
    <3>1. Step(r)
      BY <2>1, <2>2, <2>4, AdvanceStep
    <3> QED
      BY <2>2, <3>1, KeysStayLegible DEF Step
  <2> QED
    BY <2>3, <2>4
<1> QED
  BY <1>1, <1>2

LEMMA InvariantHolds == Spec => []IInv
BY InitInvariant, NextInvariant, PTL DEF Spec

-----------------------------------------------------------------------------
(* Theorems.                                                               *)

(* Every row, and what every request has read, is of its table's type, in  *)
(* workspaces of any size (data/models.py, llm/models.py, agent/models.py).*)
THEOREM TypeCorrect == Spec => []TypeOK
<1>1. IInv => TypeOK
  BY KeysDiffer DEF IInv, Core, Types, TypeOK, IsRow, Key, Txn
<1> QED
  BY <1>1, InvariantHolds, PTL

(* Conversations and grants never name a credential that is gone, however  *)
(* many requests delete, grant and open conversations at the same time     *)
(* (delete_credential, add_grant, create_conversation).                    *)
THEOREM ReferencesAlwaysHold == Spec => []ReferencesHold
<1>1. IInv => ReferencesHold
  BY DEF IInv, Core, References
<1> QED
  BY <1>1, InvariantHolds, PTL

(* No turn and no test sends a key its person could not read since it was  *)
(* received (_load_conversation_context, test_saved_credential).           *)
THEOREM KeysAreAlwaysLegible == Spec => []KeysAreLegible
<1>1. IInv => KeysAreLegible
  BY DEF IInv
<1> QED
  BY <1>1, InvariantHolds, PTL

(* Whatever its visibility and grants, a dataset is listed to and talked   *)
(* about by its creator and the owner only: models.py promises             *)
(* shared_workspace to every member, and the source's policy takes it back *)
(* (list_datasets, _load_conversation_context).                            *)
THEOREM SharedIsAlwaysOutOfReach == Spec => []SharedIsOutOfReach
<1>1. IInv => SharedIsOutOfReach
  BY DEF IInv, Core, Local, SharedIsOutOfReach
<1> QED
  BY <1>1, InvariantHolds, PTL

(* Only who may manage a dataset or administer a credential commits a      *)
(* change of it (datasets_update, dataset_grants_insert and _delete, the   *)
(* routes of llm/routes.py).                                               *)
THEOREM OnlyManagersEverShare == Spec => OnlyManagersShare
<1> DEFINE changed == {k \in Key : table'[k] # table[k]}
           Entitled ==
             \E r \in Request :
               /\ changed \cap (Grants \cup {Dataset}) # {} =>
                    Manages(txn[r].by) /\ txn'[r].pc # txn[r].pc
               /\ changed \cap (Accesses \cup {Credential}) # {} =>
                    Administers(txn[r].by) /\ txn'[r].pc # txn[r].pc
<1>1. IInv /\ [Next]_vars => [Entitled]_vars
  <2> SUFFICES ASSUME IInv, Next PROVE Entitled
    BY DEF Entitled
  <2>1. PICK r \in Request : Begin(r) \/ Advance(r) \/ Fail(r)
    BY DEF Next
  <2>2. Core
    BY DEF IInv
  <2>3. CASE ~ Commit(r)
    <3>1. changed = {}
      BY <2>1, <2>2, <2>3, AdvanceStep DEF Step
    <3> QED
      BY <3>1
  <2>4. CASE Commit(r)
    <3>1. txn'[r].pc # txn[r].pc
      BY <2>2, <2>4, CommitEnds DEF Commit
    <3>2. changed \subseteq Written(r)
      <4>1. table' = Over(writes[r], table) /\ Key \subseteq DOMAIN table
        BY <2>2, <2>4 DEF Commit, CommitWrites, Core, Types
      <4>2. \A k \in Key \ Written(r) : table'[k] = table[k]
        BY <4>1 DEF Written, Over
      <4> QED
        BY <4>2
    <3>3. Local(txn[r], Written(r))
      BY <2>2 DEF Core
    <3>4. /\ changed \cap (Grants \cup {Dataset}) # {} => Manages(txn[r].by)
          /\ changed \cap (Accesses \cup {Credential}) # {} =>
               Administers(txn[r].by)
      <4> HIDE DEF changed
      <4> QED
        BY <3>2, <3>3 DEF Local
    <3> QED
      BY <3>1, <3>4
  <2> QED
    BY <2>3, <2>4
<1> QED
  BY <1>1, InvariantHolds, PTL DEF Spec, OnlyManagersShare
=============================================================================

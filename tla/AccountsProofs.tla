--------------------------- MODULE AccountsProofs ---------------------------
(***************************************************************************)
(* Theorems about Accounts for any number of requests and any overlap.     *)
(*                                                                         *)
(* What is committed says nothing of what is about to be, so the inductive *)
(* invariant speaks of open transactions: for each request, which rows it  *)
(* has written at its place in the code and what it found before (Mine),   *)
(* and that the rows the account turns on have one writer at a time        *)
(* (Exclusive).                                                            *)
(***************************************************************************)
EXTENDS Accounts, FiniteSetTheorems, TLAPS

Txn == [pc : Place, kind : Kind, arg : Key \cup {NoArg}, seen : SUBSET Maker]

Workspaces == {Workspace(r) : r \in Maker}
Verifies == {Verify(r) : r \in Maker}
Resets == {Reset(r) : r \in Maker}
SessionKeys == {Session(r) : r \in Maker}
CodeKeys == {Code(r) : r \in Maker}
Audits == {Audit(r) : r \in Maker}

(* The rows a transaction has written.                                     *)
Written(r) == DOMAIN writes[r]

IsRow(k, value) ==
  /\ k = User => value \in UserRow
  /\ k = Method => value \in MethodRow
  /\ k \in Workspaces => value = "row"
  /\ k \in Verifies \cup Resets => value \in SUBSET Maker
  /\ k \in SessionKeys => value \in SessionRow
  /\ k \in CodeKeys => value \in BOOLEAN
  /\ k \in Audits => value \in AuditRow

(* What a statement may leave at a key: only a method and the recovery     *)
(* codes are ever deleted.                                                 *)
MayBe(k, value) ==
  \/ IsRow(k, value)
  \/ value = NoRow /\ k \in {Method} \cup CodeKeys

Types ==
  /\ role \in Role
  /\ Key \subseteq DOMAIN table
  /\ \A k \in Key : table[k] = NoRow \/ IsRow(k, table[k])
  /\ DOMAIN writes = Request /\ writes = [r \in Request |-> writes[r]]
  /\ \A r \in Request :
       /\ Written(r) \subseteq Key
       /\ \A k \in Written(r) : MayBe(k, writes[r][k])
  /\ txn \in [Request -> Txn]
  /\ mailed \subseteq Key

(* Which kinds of request come to which place, and what they present.      *)
Fits(t) ==
  /\ t.pc = "unknown" => t.kind \in {"register", "sso"}
  /\ t.pc = "looked" =>
       t.kind \in {"verify", "reset", "login", "sso", "mfa", "refresh",
                   "setup", "confirm", "disable"}
  /\ t.pc = "unsent" => t.kind \in {"register", "forgot"}
  /\ t.pc = "revoking" => t.kind = "reset"
  /\ t.pc \in {"reuse", "raise"} => t.kind = "refresh"
  /\ t.pc \in {"challenge", "challenged"} => t.kind \in {"login", "sso"}
  /\ t.kind = "verify" => t.arg \in Verifies
  /\ t.kind = "reset" => t.arg \in Resets
  /\ t.kind \in {"refresh", "logout", "revoke"} => t.arg \in SessionKeys
  /\ t.kind = "mfa" => t.arg \in CodeKeys \cup {NoArg}

(* What a request has found, w being the rows it has written.              *)
Found(t, w) ==
  /\ t.kind \in {"refresh", "logout", "revoke"} => table[t.arg] # NoRow
  /\ t.kind = "mfa" => table[User] # NoRow
  /\ t.kind \in {"verify", "reset"} /\ t.pc \in {"looked", "revoking", "commit"} =>
       table[User] # NoRow /\ table[t.arg] # NoRow
  /\ t.kind \in {"login", "sso"} /\ t.pc \in {"looked", "commit", "challenge"} =>
       User \in DOMAIN w \/ table[User] # NoRow
  /\ t.pc = "challenged" => table[User] # NoRow
  /\ t.pc \in {"revoking", "reuse"} =>
       \A s \in t.seen : table[Session(s)] # NoRow

(* The keys request r has written.                                         *)
Holds(r, t, w) ==
  LET W == DOMAIN w IN
    /\ t.pc \notin {"looked", "revoking", "raise", "unsent", "challenge",
                    "commit"} => W = {}
    /\ t.pc = "looked" /\ t.kind # "sso" => W = {}
    /\ t.kind = "register" =>
         W \subseteq {User, Workspace(r), Verify(r), Audit(r)}
    /\ t.kind = "verify" => W \subseteq {t.arg, User, Audit(r)}
    /\ t.kind = "forgot" => W \subseteq {Reset(r), Audit(r)}
    /\ t.kind = "reset" =>
         W \subseteq {t.arg, User, Audit(r)} \cup SessionKeys
    /\ t.kind = "login" => W \subseteq {Session(r), Audit(r)}
    /\ t.kind = "sso" =>
         W \subseteq {User, Workspace(r), Session(r), Audit(r)}
    /\ t.kind = "mfa" => W \subseteq {Session(r), t.arg, Audit(r)} \ {NoArg}
    /\ t.kind \in {"refresh", "logout", "revoke"} =>
         W \subseteq {Audit(r)} \cup SessionKeys
    /\ t.kind \in {"setup", "disable"} => W \subseteq {Method, Audit(r)}
    /\ t.kind = "confirm" => W \subseteq {Method, Audit(r)} \cup CodeKeys
    /\ t.kind = "login" /\ t.pc = "challenge" => Session(r) \notin W
    /\ t.kind = "sso" /\ t.pc \in {"looked", "challenge"} => Session(r) \notin W

(* An account is written whole, by who found the e-mail free.              *)
Creates(r, t, w) ==
  /\ t.kind \in {"register", "sso"} =>
       /\ (User \in DOMAIN w) <=> (Workspace(r) \in DOMAIN w)
       /\ User \in DOMAIN w => table[User] = NoRow
  /\ t.kind = "register" /\ t.pc \in {"unsent", "commit"} => User \in DOMAIN w
  /\ t.kind = "forgot" /\ Reset(r) \in DOMAIN w => table[User] # NoRow

(* A token is mailed before it is committed.                               *)
Mails(r, t, w) ==
  \A k \in DOMAIN w \cap (Verifies \cup Resets) :
    \/ k \in mailed
    \/ t.pc = "unsent" /\ k = IF t.kind = "register" THEN Verify(r) ELSE Reset(r)

(* A confirmation replaces the codes there are, a login keeps its code.    *)
Recovers(r, t, w) ==
  /\ t.kind = "mfa" =>
       \A k \in DOMAIN w \cap CodeKeys : w[k] # NoRow /\ table[k] # NoRow
  /\ t.kind = "confirm" /\ t.pc = "commit" =>
       /\ {Method, Code(r)} \subseteq DOMAIN w /\ w[Code(r)] # NoRow
       /\ \A c \in Maker \ {r} :
            /\ table[Code(c)] # NoRow => Code(c) \in DOMAIN w
            /\ Code(c) \in DOMAIN w => w[Code(c)] = NoRow
  /\ t.kind # "confirm" /\ Method \in DOMAIN w => ~ Active(w[Method])
  /\ table[Code(r)] # NoRow => t.pc = "done"

(* The audit row, before the commit.                                       *)
Told(r, t, w) ==
  LET told == w[Audit(r)] IN
    /\ t.pc \in {"unsent", "challenge", "commit"} /\ DOMAIN w # {} =>
         /\ Audit(r) \in DOMAIN w
         /\ t.kind = "register" => "register" \in told
         /\ t.kind = "verify" => "email_verified" \in told
         /\ t.kind = "reset" => "password_reset_completed" \in told
         /\ t.kind = "mfa" => "login_success" \in told /\ "mfa_success" \in told
         /\ t.kind = "refresh" => "refresh" \in told
         /\ t.kind = "logout" => "logout" \in told
         /\ t.kind = "revoke" => "session_revoked" \in told
         /\ t.kind = "setup" => "mfa_setup_started" \in told
         /\ t.kind = "confirm" => "mfa_setup_completed" \in told
         /\ t.kind = "disable" => "mfa_disabled" \in told
         /\ t.kind \in {"login", "sso"} /\ Session(r) \in DOMAIN w =>
              "login_success" \in told
    /\ t.kind = "sso" /\ User \in DOMAIN w =>
         Audit(r) \in DOMAIN w /\ "register" \in told
    /\ table[Audit(r)] # NoRow => t.pc \in {"done", "challenged"}

Mine(r, t, w) ==
  /\ Fits(t)
  /\ Found(t, w)
  /\ Holds(r, t, w)
  /\ Creates(r, t, w)
  /\ Mails(r, t, w)
  /\ Recovers(r, t, w)
  /\ Told(r, t, w)

(* What is committed.                                                      *)
Committed ==
  /\ \A k \in Verifies \cup Resets :
       table[k] # NoRow => k \in mailed /\ table[User] # NoRow
  /\ \A k \in SessionKeys : table[k] # NoRow => table[User] # NoRow
  /\ table[User] = NoRow => \A q \in Maker : table[Workspace(q)] = NoRow
  /\ table[User] # NoRow =>
       \E q \in Maker : \A x \in Maker : table[Workspace(x)] # NoRow <=> x = q
  /\ \A c, d \in Maker :
       table[Code(c)] # NoRow /\ table[Code(d)] # NoRow => c = d
  /\ Active(table[Method]) => \E c \in Maker : table[Code(c)] # NoRow

Exclusive ==
  \A q, r \in Request :
    \A k \in Written(q) \cap Written(r) :
      k \in {User, Method} \cup CodeKeys => q = r

IInv ==
  /\ Types
  /\ \A r \in Request : Mine(r, txn[r], writes[r])
  /\ Committed
  /\ Exclusive

-----------------------------------------------------------------------------
(* Keys and rows.                                                          *)

LEMMA RequestsAreMakers ==
  Request \subseteq Maker /\ Request # {} /\ 0 \in Maker /\ 0 \notin Request
BY BoundsArePositive DEF Request, Maker

LEMMA KeysDiffer ==
  /\ Key = {User, Method} \cup Workspaces \cup Verifies \cup Resets
             \cup SessionKeys \cup CodeKeys \cup Audits
  /\ User # Method /\ NoArg \notin Key
  /\ \A r : Workspace(r) # User /\ Workspace(r) # Method
  /\ \A r : Verify(r) # User /\ Verify(r) # Method
  /\ \A r : Reset(r) # User /\ Reset(r) # Method
  /\ \A r : Session(r) # User /\ Session(r) # Method
  /\ \A r : Code(r) # User /\ Code(r) # Method
  /\ \A r : Audit(r) # User /\ Audit(r) # Method
  /\ \A q, r : Workspace(q) # Verify(r) /\ Workspace(q) # Reset(r)
  /\ \A q, r : Workspace(q) # Session(r) /\ Workspace(q) # Code(r)
  /\ \A q, r : Workspace(q) # Audit(r) /\ Verify(q) # Audit(r)
  /\ \A q, r : Verify(q) # Reset(r) /\ Verify(q) # Session(r)
  /\ \A q, r : Verify(q) # Code(r) /\ Reset(q) # Session(r)
  /\ \A q, r : Reset(q) # Code(r) /\ Reset(q) # Audit(r)
  /\ \A q, r : Session(q) # Code(r) /\ Session(q) # Audit(r)
  /\ \A q, r : Code(q) # Audit(r)
BY DEF Key, User, Method, NoArg, Workspace, Verify, Reset, Session, Code, Audit,
       Workspaces, Verifies, Resets, SessionKeys, CodeKeys, Audits

LEMMA KeysAreOne ==
  /\ \A q, r : Workspace(q) = Workspace(r) => q = r
  /\ \A q, r : Verify(q) = Verify(r) => q = r
  /\ \A q, r : Reset(q) = Reset(r) => q = r
  /\ \A q, r : Session(q) = Session(r) => q = r
  /\ \A q, r : Code(q) = Code(r) => q = r
  /\ \A q, r : Audit(q) = Audit(r) => q = r
BY DEF Workspace, Verify, Reset, Session, Code, Audit

(* No two sets of keys meet.                                               *)
LEMMA KeySets ==
  /\ User \in Key /\ Method \in Key /\ User # Method
  /\ User \notin Workspaces \cup Verifies \cup Resets \cup SessionKeys
                  \cup CodeKeys \cup Audits
  /\ Method \notin Workspaces \cup Verifies \cup Resets \cup SessionKeys
                    \cup CodeKeys \cup Audits
  /\ \A r \in Maker :
       /\ Workspace(r) \in Workspaces /\ Verify(r) \in Verifies
       /\ Reset(r) \in Resets /\ Session(r) \in SessionKeys
       /\ Code(r) \in CodeKeys /\ Audit(r) \in Audits
  /\ Workspaces \subseteq Key /\ Verifies \subseteq Key /\ Resets \subseteq Key
  /\ SessionKeys \subseteq Key /\ CodeKeys \subseteq Key /\ Audits \subseteq Key
  /\ Workspaces \cap (Verifies \cup Resets \cup SessionKeys \cup CodeKeys
                       \cup Audits) = {}
  /\ Verifies \cap (Resets \cup SessionKeys \cup CodeKeys \cup Audits) = {}
  /\ Resets \cap (SessionKeys \cup CodeKeys \cup Audits) = {}
  /\ SessionKeys \cap (CodeKeys \cup Audits) = {}
  /\ CodeKeys \cap Audits = {}
BY KeysDiffer
   DEF Workspaces, Verifies, Resets, SessionKeys, CodeKeys, Audits

LEMMA RowsAreRows ==
  ASSUME NEW k \in Key, NEW value, IsRow(k, value) PROVE value # NoRow
<1>1. k \in {User, Method} \cup Workspaces \cup Verifies \cup Resets
             \cup SessionKeys \cup CodeKeys \cup Audits
  BY KeysDiffer
<1> QED
  BY <1>1, NoRowIsNoRow DEF IsRow

LEMMA RowsOfTable ==
  ASSUME Types
  PROVE  /\ table[User] # NoRow => table[User] \in UserRow
         /\ table[Method] # NoRow => table[Method] \in MethodRow
         /\ \A k \in Verifies \cup Resets :
              table[k] # NoRow => table[k] \in SUBSET Maker
         /\ \A k \in SessionKeys : table[k] # NoRow => table[k] \in SessionRow
BY KeySets DEF Types, IsRow

LEMMA SetRow ==
  ASSUME NEW k, NEW value
  PROVE  DOMAIN Set(k, value) = {k} /\ Set(k, value)[k] = value
BY DEF Set

-----------------------------------------------------------------------------
(* What the parts of a step do.                                            *)

LEMMA NoWritesEmpty == DOMAIN NoWrites = {}
BY DEF NoWrites

LEMMA WriteRows ==
  ASSUME Types, NEW r \in Request, NEW rows, Write(r, rows)
  PROVE  /\ DOMAIN writes' = Request /\ writes' = [q \in Request |-> writes'[q]]
         /\ \A q \in Request \ {r} : writes'[q] = writes[q]
         /\ DOMAIN writes'[r] = DOMAIN rows \cup Written(r)
         /\ \A k \in DOMAIN rows : writes'[r][k] = rows[k]
         /\ \A k \in Written(r) \ DOMAIN rows : writes'[r][k] = writes[r][k]
<1>1. writes' = [writes EXCEPT ![r] = Over(rows, writes[r])]
  BY DEF Write
<1>2. writes'[r] = Over(rows, writes[r])
  BY <1>1 DEF Types
<1>3. /\ DOMAIN writes' = Request /\ writes' = [q \in Request |-> writes'[q]]
      /\ \A q \in Request \ {r} : writes'[q] = writes[q]
  BY <1>1 DEF Types
<1> QED
  BY <1>2, <1>3 DEF Written, Over

LEMMA DropRows ==
  ASSUME Types, NEW r \in Request, DropWrites(r)
  PROVE  /\ DOMAIN writes' = Request /\ writes' = [q \in Request |-> writes'[q]]
         /\ \A q \in Request \ {r} : writes'[q] = writes[q]
         /\ DOMAIN writes'[r] = {}
<1>1. writes' = [writes EXCEPT ![r] = NoWrites]
  BY DEF DropWrites
<1>2. writes'[r] = NoWrites
  BY <1>1 DEF Types
<1>3. /\ DOMAIN writes' = Request /\ writes' = [q \in Request |-> writes'[q]]
      /\ \A q \in Request \ {r} : writes'[q] = writes[q]
  BY <1>1 DEF Types
<1> QED
  BY <1>2, <1>3, NoWritesEmpty

(* A request moves to another place in the code.                           *)
LEMMA GotoPlace ==
  ASSUME Types, NEW r \in Request, NEW p \in Place, Goto(r, p)
  PROVE  /\ txn' = [txn EXCEPT ![r] = txn'[r]] /\ txn'[r] \in Txn
         /\ txn'[r].pc = p /\ txn'[r].kind = txn[r].kind
         /\ txn'[r].arg = txn[r].arg /\ txn'[r].seen = txn[r].seen
<1> DEFINE t == [txn[r] EXCEPT !.pc = p]
<1>1. txn \in [Request -> Txn]
  BY DEF Types
<1>2. /\ t \in Txn /\ t.pc = p /\ t.kind = txn[r].kind
      /\ t.arg = txn[r].arg /\ t.seen = txn[r].seen
  BY <1>1 DEF Txn
<1>3. txn' = [txn EXCEPT ![r] = t]
  BY DEF Goto
<1> HIDE DEF t
<1> QED
  BY <1>1, <1>2, <1>3

LEMMA RememberPlace ==
  ASSUME Types, NEW r \in Request, NEW p \in Place, NEW seen \in SUBSET Maker,
         Remember(r, p, seen)
  PROVE  /\ txn' = [txn EXCEPT ![r] = txn'[r]] /\ txn'[r] \in Txn
         /\ txn'[r].pc = p /\ txn'[r].kind = txn[r].kind
         /\ txn'[r].arg = txn[r].arg /\ txn'[r].seen = seen
<1> DEFINE t == [txn[r] EXCEPT !.pc = p, !.seen = seen]
<1>1. txn \in [Request -> Txn]
  BY DEF Types
<1>2. /\ t \in Txn /\ t.pc = p /\ t.kind = txn[r].kind
      /\ t.arg = txn[r].arg /\ t.seen = seen
  BY <1>1 DEF Txn
<1>3. txn' = [txn EXCEPT ![r] = t]
  BY DEF Remember
<1> HIDE DEF t
<1> QED
  BY <1>1, <1>2, <1>3

(* Request r alone moves, and its variables keep their types.              *)
Moves(r) ==
  /\ txn' = [txn EXCEPT ![r] = txn'[r]] /\ txn'[r] \in Txn
  /\ DOMAIN writes' = Request /\ writes' = [q \in Request |-> writes'[q]]
  /\ \A q \in Request \ {r} : writes'[q] = writes[q]
  /\ DOMAIN writes'[r] \subseteq Key
  /\ \A k \in DOMAIN writes'[r] : MayBe(k, writes'[r][k])
  /\ role' = role
  /\ mailed \subseteq mailed' /\ mailed' \subseteq Key

LEMMA OthersStay ==
  ASSUME Types, NEW r \in Request, Moves(r)
  PROVE  /\ \A q \in Request \ {r} : txn'[q] = txn[q] /\ Written(q)' = Written(q)
         /\ txn' \in [Request -> Txn]
BY DEF Types, Moves, Written

(* What the others have to do with what is committed stays.                *)
LEMMA MineStays ==
  ASSUME NEW r \in Request, Mine(r, txn[r], writes[r]),
         txn'[r] = txn[r], writes'[r] = writes[r], table' = table,
         mailed \subseteq mailed'
  PROVE  Mine(r, txn[r], writes[r])'
<1> USE DEF Mine
<1>1. /\ Fits(txn[r])' /\ Found(txn[r], writes[r])'
      /\ Holds(r, txn[r], writes[r])'
  BY DEF Fits, Found, Holds
<1>2. Creates(r, txn[r], writes[r])' /\ Mails(r, txn[r], writes[r])'
  BY DEF Creates, Mails
<1>3. Recovers(r, txn[r], writes[r])' /\ Told(r, txn[r], writes[r])'
  BY DEF Recovers, Told, Active
<1> QED
  BY <1>1, <1>2, <1>3

(* What is left to show of a step of r that commits nothing.               *)
LEMMA StepKeeps ==
  ASSUME IInv, NEW r \in Request, Moves(r), UNCHANGED table,
         Mine(r, txn[r], writes[r])',
         \A q \in Request \ {r} :
           \A k \in DOMAIN writes'[r] \cap Written(q) :
             k \notin {User, Method} \cup CodeKeys
  PROVE  IInv'
<1>1. /\ \A q \in Request \ {r} : txn'[q] = txn[q] /\ Written(q)' = Written(q)
      /\ \A q \in Request \ {r} : writes'[q] = writes[q]
      /\ txn' \in [Request -> Txn] /\ table' = table
      /\ mailed \subseteq mailed'
  BY OthersStay DEF IInv, Moves
<1>2. Types'
  BY <1>1 DEF IInv, Types, Moves, Written
<1>3. \A q \in Request : Mine(q, txn[q], writes[q])'
  BY <1>1, MineStays DEF IInv
<1>4. Committed'
  BY <1>1 DEF IInv, Committed, Active
<1>5. Exclusive'
  BY <1>1 DEF IInv, Exclusive, Written
<1> QED
  BY <1>2, <1>3, <1>4, <1>5 DEF IInv

(* A transaction's own facts, spelled out.                                 *)
LEMMA Facts ==
  ASSUME IInv, NEW r \in Request
  PROVE  /\ Types /\ txn[r] \in Txn /\ Mine(r, txn[r], writes[r])
         /\ Written(r) = DOMAIN writes[r]
         /\ r \in Maker /\ Committed /\ Exclusive
BY RequestsAreMakers DEF IInv, Types, Written

(* A step that leaves nothing written: a read, or an exception.            *)
LEMMA EmptyStep ==
  ASSUME IInv, NEW r \in Request,
         txn' = [txn EXCEPT ![r] = txn'[r]], txn'[r] \in Txn,
         txn'[r].kind = txn[r].kind, txn'[r].arg = txn[r].arg, Busy(r),
         txn'[r].pc \in {"unknown", "looked", "reuse", "refused", "error"},
         DOMAIN writes' = Request, writes' = [q \in Request |-> writes'[q]],
         \A q \in Request \ {r} : writes'[q] = writes[q],
         DOMAIN writes'[r] = {}, UNCHANGED <<role, table, mailed>>,
         Fits(txn'[r]), Found(txn'[r], writes'[r])
  PROVE  IInv'
<1>1. /\ Types /\ txn[r] \in Txn /\ Mine(r, txn[r], writes[r])
      /\ Written(r) = DOMAIN writes[r]
  BY Facts
<1>2. Moves(r)
  BY <1>1 DEF Moves, Types
<1>3. txn[r].pc \notin {"done", "challenged"}
  BY DEF Busy, Ended
<1>4. table' = table
  OBVIOUS
<1>5. Fits(txn[r])' /\ Found(txn[r], writes[r])'
  BY <1>4 DEF Fits, Found
<1>6. Holds(r, txn[r], writes[r])' /\ Creates(r, txn[r], writes[r])'
  BY <1>4 DEF Holds, Creates
<1>7. Mails(r, txn[r], writes[r])'
  BY <1>4 DEF Mails
<1>8. Recovers(r, txn[r], writes[r])' /\ Told(r, txn[r], writes[r])'
  BY <1>1, <1>3, <1>4 DEF Mine, Recovers, Told
<1>9. Mine(r, txn[r], writes[r])'
  BY <1>5, <1>6, <1>7, <1>8 DEF Mine
<1> QED
  BY <1>2, <1>4, <1>9, StepKeeps

(* A read by a request that has written nothing.                           *)
LEMMA ReadStep ==
  ASSUME IInv, NEW r \in Request, NEW p \in {"unknown", "looked", "refused"},
         Goto(r, p), Read, Busy(r), Written(r) = {},
         Fits(txn'[r]), Found(txn'[r], writes'[r])
  PROVE  IInv'
<1>1. Types /\ p \in Place
  BY Facts DEF Place
<1>2. /\ txn' = [txn EXCEPT ![r] = txn'[r]] /\ txn'[r] \in Txn
      /\ txn'[r].pc = p /\ txn'[r].kind = txn[r].kind
      /\ txn'[r].arg = txn[r].arg
  BY <1>1, GotoPlace
<1>3. /\ writes' = writes /\ DOMAIN writes'[r] = {}
      /\ UNCHANGED <<role, table, mailed>>
  BY DEF Read, Written
<1> QED
  BY <1>1, <1>2, <1>3, EmptyStep DEF Types

LEMMA DropStep ==
  ASSUME IInv, NEW r \in Request, NEW p \in {"refused", "error"},
         DropWrites(r), Goto(r, p), UNCHANGED <<role, table, mailed>>, Busy(r)
  PROVE  IInv'
<1>1. /\ Types /\ txn[r] \in Txn /\ Mine(r, txn[r], writes[r]) /\ p \in Place
  BY Facts DEF Place
<1>2. /\ txn' = [txn EXCEPT ![r] = txn'[r]] /\ txn'[r] \in Txn
      /\ txn'[r].pc = p /\ txn'[r].kind = txn[r].kind
      /\ txn'[r].arg = txn[r].arg
  BY <1>1, GotoPlace
<1>3. /\ DOMAIN writes' = Request /\ writes' = [q \in Request |-> writes'[q]]
      /\ \A q \in Request \ {r} : writes'[q] = writes[q]
      /\ DOMAIN writes'[r] = {}
  BY <1>1, DropRows
<1>4. Fits(txn'[r]) /\ Found(txn'[r], writes'[r])
  BY <1>1, <1>2 DEF Mine, Fits, Found
<1> QED
  BY <1>2, <1>3, <1>4, EmptyStep

LEMMA ErrorStep ==
  ASSUME IInv, NEW r \in Request, Error(r), Busy(r) PROVE IInv'
BY DropStep DEF Error

LEMMA CrashStep ==
  ASSUME IInv, NEW r \in Request, Crash(r) PROVE IInv'
BY DropStep DEF Crash

LEMMA RaiseReuseStep ==
  ASSUME IInv, NEW r \in Request, RaiseReuse(r) PROVE IInv'
BY DropStep DEF RaiseReuse, Busy, Ended

(* What a request has that has just been received.                         *)
LEMMA EmptyHanded ==
  ASSUME IInv, NEW r \in Request,
         \/ txn[r].pc \in {"received", "unknown", "reuse"}
         \/ txn[r].pc = "looked" /\ txn[r].kind # "sso"
  PROVE  Written(r) = {} /\ Busy(r)
BY Facts DEF Mine, Holds, Busy, Ended

LEMMA RefuseStep ==
  ASSUME IInv, NEW r \in Request, Refuse(r) PROVE IInv'
<1>1. /\ Types /\ txn[r] \in Txn /\ Mine(r, txn[r], writes[r])
      /\ Goto(r, "refused") /\ Read /\ Written(r) = {} /\ Busy(r)
  BY Facts, EmptyHanded DEF Refuse
<1>2. /\ txn'[r].pc = "refused" /\ txn'[r].kind = txn[r].kind
      /\ txn'[r].arg = txn[r].arg
  BY <1>1, GotoPlace DEF Place
<1>3. Fits(txn'[r]) /\ Found(txn'[r], writes'[r])
  BY <1>1, <1>2 DEF Mine, Fits, Found
<1> QED
  BY <1>1, <1>3, ReadStep

(* What a request without writes sees is what is committed.                *)
LEMMA SeesCommitted ==
  ASSUME NEW r \in Request, Written(r) = {}, NEW k
  PROVE  Seen(r, k) = table[k]
BY DEF Seen, Written

(* The reads of all kinds of request.                                      *)
LEMMA LookStep ==
  ASSUME IInv, NEW r \in Request, txn[r].pc = "received",
         NEW p \in {"unknown", "looked"}, Goto(r, p), Read,
         p = "unknown" => txn[r].kind \in {"register", "sso"},
         p = "looked" =>
           txn[r].kind \in {"verify", "reset", "login", "sso", "mfa", "refresh"},
         p = "looked" /\ txn[r].kind \in {"login", "sso"} => table[User] # NoRow,
         txn[r].kind \in {"verify", "reset"} => table[txn[r].arg] # NoRow
  PROVE  IInv'
<1>1. /\ Types /\ txn[r] \in Txn /\ Mine(r, txn[r], writes[r]) /\ Committed
      /\ Written(r) = {} /\ Busy(r) /\ p \in Place
  BY Facts, EmptyHanded DEF Place
<1>2. /\ txn'[r].pc = p /\ txn'[r].kind = txn[r].kind
      /\ txn'[r].arg = txn[r].arg
  BY <1>1, GotoPlace
<1>3. Fits(txn'[r])
  BY <1>1, <1>2 DEF Mine, Fits
<1>4. txn[r].kind \in {"verify", "reset"} => table[User] # NoRow
  BY <1>1 DEF Mine, Fits, Committed
<1>5. Found(txn'[r], writes'[r])
  BY <1>1, <1>2, <1>4 DEF Mine, Found
<1> QED
  BY <1>1, <1>3, <1>5, ReadStep

LEMMA LookUpEmailStep ==
  ASSUME IInv, NEW r \in Request, LookUpEmail(r) PROVE IInv'
BY LookStep DEF LookUpEmail, Is

LEMMA NoRowOfAToken == NoRow # {}
BY NoRowIsNoRow

LEMMA FindAuthTokenStep ==
  ASSUME IInv, NEW r \in Request, FindAuthToken(r) PROVE IInv'
<1>1. /\ txn[r].pc = "received" /\ txn[r].kind \in {"verify", "reset"}
      /\ Seen(r, txn[r].arg) = {} /\ Goto(r, "looked") /\ Read
  BY DEF FindAuthToken
<1>2. table[txn[r].arg] # NoRow
  BY <1>1, EmptyHanded, SeesCommitted, NoRowOfAToken
<1> QED
  BY <1>1, <1>2, LookStep

LEMMA FindUserStep ==
  ASSUME IInv, NEW r \in Request, FindUser(r) PROVE IInv'
<1>1. /\ txn[r].pc = "received" /\ txn[r].kind = "login"
      /\ Active(Seen(r, User)) /\ Goto(r, "looked") /\ Read
  BY DEF FindUser, Is
<1>2. table[User] # NoRow
  BY <1>1, EmptyHanded, SeesCommitted DEF Active
<1> QED
  BY <1>1, <1>2, LookStep

LEMMA FindVouchedUserStep ==
  ASSUME IInv, NEW r \in Request, FindVouchedUser(r) PROVE IInv'
<1> DEFINE p == IF table[User] = NoRow THEN "unknown" ELSE "looked"
<1>1. txn[r].pc = "received" /\ txn[r].kind = "sso" /\ Read
  BY DEF FindVouchedUser, Is
<1>2. Goto(r, p)
  BY <1>1, EmptyHanded, SeesCommitted DEF FindVouchedUser
<1> QED
  BY <1>1, <1>2, LookStep

LEMMA FindMethodStep ==
  ASSUME IInv, NEW r \in Request, FindMethod(r) PROVE IInv'
BY LookStep DEF FindMethod, Is

LEMMA FindSessionStep ==
  ASSUME IInv, NEW r \in Request, FindSession(r) PROVE IInv'
BY LookStep DEF FindSession, Is

(* Reads whose result is kept.                                             *)
LEMMA RememberStep ==
  ASSUME IInv, NEW r \in Request, txn[r].pc = "received",
         NEW p \in {"looked", "reuse"}, NEW seen \in SUBSET Maker,
         Remember(r, p, seen), Read,
         p = "looked" => txn[r].kind \in {"setup", "confirm", "disable"},
         p = "reuse" => txn[r].kind = "refresh"
                          /\ \A s \in seen : table[Session(s)] # NoRow
  PROVE  IInv'
<1>1. /\ Types /\ txn[r] \in Txn /\ Mine(r, txn[r], writes[r])
      /\ Written(r) = {} /\ Busy(r) /\ p \in Place
  BY Facts, EmptyHanded DEF Place
<1>2. /\ txn' = [txn EXCEPT ![r] = txn'[r]] /\ txn'[r] \in Txn
      /\ txn'[r].pc = p /\ txn'[r].kind = txn[r].kind
      /\ txn'[r].arg = txn[r].arg /\ txn'[r].seen = seen
  BY <1>1, RememberPlace
<1>3. /\ writes' = writes /\ DOMAIN writes'[r] = {}
      /\ UNCHANGED <<role, table, mailed>>
  BY <1>1 DEF Read, Written
<1>4. Fits(txn'[r]) /\ Found(txn'[r], writes'[r])
  BY <1>1, <1>2 DEF Mine, Fits, Found
<1> QED
  BY <1>1, <1>2, <1>3, <1>4, EmptyStep DEF Types

LEMMA SessionsAreMakers ==
  SessionsToRevoke \in SUBSET Maker
    /\ \A s \in SessionsToRevoke : table[Session(s)] # NoRow
BY DEF SessionsToRevoke, Sessions

LEMMA DetectReuseStep ==
  ASSUME IInv, NEW r \in Request, DetectReuse(r) PROVE IInv'
BY RememberStep, SessionsAreMakers DEF DetectReuse, Is

LEMMA FindPendingStep ==
  ASSUME IInv, NEW r \in Request, FindPending(r) PROVE IInv'
<1> DEFINE seen == IF table[Method] = NoRow THEN {} ELSE {table[Method].id}
<1>1. /\ txn[r].pc = "received" /\ Read
      /\ txn[r].kind \in {"setup", "confirm", "disable"}
  BY DEF FindPending, Is
<1>2. Remember(r, "looked", seen)
  BY <1>1, EmptyHanded, SeesCommitted DEF FindPending
<1>3. seen \in SUBSET Maker
  BY Facts, KeySets DEF Types, IsRow, MethodRow
<1> QED
  BY <1>1, <1>2, <1>3, RememberStep

-----------------------------------------------------------------------------
(* Steps that write.                                                       *)

Flushed(r, rows, p) ==
  /\ Moves(r) /\ UNCHANGED <<role, table, alone, mailed>>
  /\ txn'[r].pc = p /\ txn'[r].kind = txn[r].kind
  /\ txn'[r].arg = txn[r].arg /\ txn'[r].seen = txn[r].seen
  /\ DOMAIN writes'[r] = DOMAIN rows \cup Written(r)
  /\ \A k \in DOMAIN rows : writes'[r][k] = rows[k]
  /\ \A k \in Written(r) \ DOMAIN rows : writes'[r][k] = writes[r][k]

LEMMA FlushMoves ==
  ASSUME IInv, NEW r \in Request, NEW rows, NEW p \in Place, Flush(r, rows, p),
         DOMAIN rows \subseteq Key, \A k \in DOMAIN rows : MayBe(k, rows[k])
  PROVE  Flushed(r, rows, p)
<1>1. /\ Types /\ Goto(r, p) /\ Write(r, rows)
      /\ UNCHANGED <<role, table, alone, mailed>>
  BY DEF IInv, Flush
<1>2. /\ txn' = [txn EXCEPT ![r] = txn'[r]] /\ txn'[r] \in Txn
      /\ txn'[r].pc = p /\ txn'[r].kind = txn[r].kind
      /\ txn'[r].arg = txn[r].arg /\ txn'[r].seen = txn[r].seen
  BY <1>1, GotoPlace
<1>3. /\ DOMAIN writes' = Request /\ writes' = [q \in Request |-> writes'[q]]
      /\ \A q \in Request \ {r} : writes'[q] = writes[q]
      /\ DOMAIN writes'[r] = DOMAIN rows \cup Written(r)
      /\ \A k \in DOMAIN rows : writes'[r][k] = rows[k]
      /\ \A k \in Written(r) \ DOMAIN rows : writes'[r][k] = writes[r][k]
  BY <1>1, WriteRows
<1>4. Written(r) \subseteq Key /\ \A k \in Written(r) : MayBe(k, writes[r][k])
  BY <1>1 DEF Types
<1>5. Moves(r)
  BY <1>1, <1>2, <1>3, <1>4 DEF Moves, Types
<1> QED
  BY <1>1, <1>2, <1>3, <1>5 DEF Flushed

(* Rows of each kind are what they may be.                                 *)
LEMMA RowsMayBe ==
  /\ \A value \in UserRow : MayBe(User, value)
  /\ \A value \in MethodRow \cup {NoRow} : MayBe(Method, value)
  /\ \A r \in Maker : MayBe(Workspace(r), "row")
  /\ \A k \in Verifies \cup Resets, value \in SUBSET Maker : MayBe(k, value)
  /\ \A k \in SessionKeys, value \in SessionRow : MayBe(k, value)
  /\ \A k \in CodeKeys, value \in BOOLEAN \cup {NoRow} : MayBe(k, value)
  /\ \A r \in Maker, value \in AuditRow : MayBe(Audit(r), value)
BY KeySets DEF MayBe, IsRow

(* Nobody else has written a row that is free.                             *)
LEMMA FreeRow ==
  ASSUME NEW r \in Request, NEW keys, Free(r, keys)
  PROVE  \A q \in Request \ {r} : \A k \in keys : k \notin Written(q)
BY DEF Free, Written

(* A request that is under way has committed nothing.                      *)
LEMMA NothingYet ==
  ASSUME IInv, NEW r \in Request, Busy(r)
  PROVE  table[Audit(r)] = NoRow /\ table[Code(r)] = NoRow
BY Facts DEF Mine, Told, Recovers, Busy, Ended

(* Registration.                                                           *)
LEMMA RegisterStep ==
  ASSUME IInv, NEW r \in Request, Register(r) PROVE IInv'
<1> DEFINE u == [password |-> r, verified |-> FALSE]
           account == Over(Set(User, u),
                           Over(Set(Verify(r), {}), Set(Audit(r), {"register"})))
           rows == Over(Set(Workspace(r), "row"), account)
<1>1. /\ Types /\ txn[r] \in Txn /\ Mine(r, txn[r], writes[r])
      /\ txn[r].kind = "register" /\ txn[r].pc = "unknown"
      /\ Written(r) = {} /\ Busy(r) /\ r \in Maker
      /\ table[Audit(r)] = NoRow /\ table[Code(r)] = NoRow
  BY Facts, EmptyHanded, NothingYet DEF Register, Is
<1>2. CreateAccount(r, account, "unsent")
  BY DEF Register
<1>3. CASE table[User] # NoRow
  BY <1>1, <1>2, <1>3, SeesCommitted, ErrorStep DEF CreateAccount
<1>4. CASE table[User] = NoRow
  <2>1. Flush(r, rows, "unsent") /\ Free(r, {User})
    BY <1>1, <1>2, <1>4, SeesCommitted DEF CreateAccount
  <2>2. u \in UserRow /\ {"register"} \in AuditRow /\ "unsent" \in Place
    BY <1>1 DEF UserRow, AuditRow, Event, Place
  <2> HIDE DEF u
  <2>3. /\ DOMAIN rows = {Workspace(r), User, Verify(r), Audit(r)}
        /\ rows[User] = u /\ rows[Workspace(r)] = "row"
        /\ rows[Verify(r)] = {} /\ rows[Audit(r)] = {"register"}
    BY KeysDiffer DEF Set, Over
  <2> HIDE DEF rows
  <2>4. DOMAIN rows \subseteq Key /\ \A k \in DOMAIN rows : MayBe(k, rows[k])
    <3>1. /\ MayBe(User, u) /\ MayBe(Workspace(r), "row")
          /\ MayBe(Verify(r), {}) /\ MayBe(Audit(r), {"register"})
      BY <1>1, <2>2, RowsMayBe, KeySets
    <3> QED
      BY <1>1, <2>3, <3>1, KeySets
  <2>5. /\ Moves(r) /\ UNCHANGED <<role, table, alone, mailed>>
        /\ txn'[r].pc = "unsent" /\ txn'[r].kind = "register"
        /\ DOMAIN writes'[r] = {Workspace(r), User, Verify(r), Audit(r)}
        /\ writes'[r][Audit(r)] = {"register"}
    <3>1. Flushed(r, rows, "unsent")
      BY <1>1, <2>1, <2>2, <2>3, <2>4, FlushMoves
    <3> QED
      BY <1>1, <2>1, <2>2, <2>3, <2>4, <3>1 DEF Flushed
  <2>6. /\ Fits(txn[r])' /\ Found(txn[r], writes[r])'
        /\ Holds(r, txn[r], writes[r])'
    BY <2>5 DEF Fits, Found, Holds
  <2>7. /\ Creates(r, txn[r], writes[r])' /\ Mails(r, txn[r], writes[r])'
        /\ Recovers(r, txn[r], writes[r])' /\ Told(r, txn[r], writes[r])'
    BY <1>1, <1>4, <2>5, KeySets DEF Creates, Mails, Recovers, Told
  <2>8. \A q \in Request \ {r} : \A k \in DOMAIN writes'[r] \cap Written(q) :
          k \notin {User, Method} \cup CodeKeys
    BY <1>1, <2>1, <2>5, FreeRow, KeySets
  <2> QED
    BY <2>5, <2>6, <2>7, <2>8, StepKeeps DEF Mine
<1> QED
  BY <1>3, <1>4

LEMMA ProvisionStep ==
  ASSUME IInv, NEW r \in Request, Provision(r) PROVE IInv'
<1> DEFINE u == [password |-> r, verified |-> TRUE]
           account == Over(Set(User, u), Set(Audit(r), {"register"}))
           rows == Over(Set(Workspace(r), "row"), account)
<1>1. /\ Types /\ txn[r] \in Txn /\ Mine(r, txn[r], writes[r])
      /\ txn[r].kind = "sso" /\ txn[r].pc = "unknown"
      /\ Written(r) = {} /\ Busy(r) /\ r \in Maker
      /\ table[Audit(r)] = NoRow /\ table[Code(r)] = NoRow
  BY Facts, EmptyHanded, NothingYet DEF Provision, Is
<1>2. CreateAccount(r, account, "looked")
  BY DEF Provision
<1>3. CASE table[User] # NoRow
  BY <1>1, <1>2, <1>3, SeesCommitted, ErrorStep DEF CreateAccount
<1>4. CASE table[User] = NoRow
  <2>1. Flush(r, rows, "looked") /\ Free(r, {User})
    BY <1>1, <1>2, <1>4, SeesCommitted DEF CreateAccount
  <2>2. u \in UserRow /\ {"register"} \in AuditRow /\ "looked" \in Place
    BY <1>1 DEF UserRow, AuditRow, Event, Place
  <2> HIDE DEF u
  <2>3. /\ DOMAIN rows = {Workspace(r), User, Audit(r)}
        /\ rows[User] = u /\ rows[Workspace(r)] = "row"
        /\ rows[Audit(r)] = {"register"}
    BY KeysDiffer DEF Set, Over
  <2> HIDE DEF rows
  <2>4. DOMAIN rows \subseteq Key /\ \A k \in DOMAIN rows : MayBe(k, rows[k])
    <3>1. /\ MayBe(User, u) /\ MayBe(Workspace(r), "row")
          /\ MayBe(Audit(r), {"register"})
      BY <1>1, <2>2, RowsMayBe
    <3> QED
      BY <1>1, <2>3, <3>1, KeySets
  <2>5. /\ Moves(r) /\ UNCHANGED <<role, table, alone, mailed>>
        /\ txn'[r].pc = "looked" /\ txn'[r].kind = "sso"
        /\ DOMAIN writes'[r] = {Workspace(r), User, Audit(r)}
        /\ writes'[r][Audit(r)] = {"register"}
    <3>1. Flushed(r, rows, "looked")
      BY <1>1, <2>1, <2>2, <2>3, <2>4, FlushMoves
    <3> QED
      BY <1>1, <2>1, <2>2, <2>3, <2>4, <3>1 DEF Flushed
  <2>6. /\ Fits(txn[r])' /\ Found(txn[r], writes[r])'
        /\ Holds(r, txn[r], writes[r])'
    BY <1>1, <2>5, KeysDiffer DEF Fits, Found, Holds
  <2>7. /\ Creates(r, txn[r], writes[r])' /\ Mails(r, txn[r], writes[r])'
        /\ Recovers(r, txn[r], writes[r])' /\ Told(r, txn[r], writes[r])'
    BY <1>1, <1>4, <2>5, KeySets DEF Creates, Mails, Recovers, Told
  <2>8. \A q \in Request \ {r} : \A k \in DOMAIN writes'[r] \cap Written(q) :
          k \notin {User, Method} \cup CodeKeys
    BY <1>1, <2>1, <2>5, FreeRow, KeySets
  <2> QED
    BY <2>5, <2>6, <2>7, <2>8, StepKeeps DEF Mine
<1> QED
  BY <1>3, <1>4

LEMMA SendMailStep ==
  ASSUME IInv, NEW r \in Request, SendMail(r) PROVE IInv'
<1> DEFINE link == IF txn[r].kind = "register" THEN Verify(r) ELSE Reset(r)
<1>1. /\ Types /\ txn[r] \in Txn /\ Mine(r, txn[r], writes[r]) /\ Exclusive
      /\ Written(r) = DOMAIN writes[r] /\ r \in Maker
      /\ txn[r].pc = "unsent" /\ Goto(r, "commit")
      /\ mailed' = mailed \cup {link}
      /\ role' = role /\ table' = table /\ writes' = writes
  BY Facts DEF SendMail
<1>2. /\ txn' = [txn EXCEPT ![r] = txn'[r]] /\ txn'[r] \in Txn
      /\ txn'[r].pc = "commit" /\ txn'[r].kind = txn[r].kind
      /\ txn'[r].arg = txn[r].arg
  BY <1>1, GotoPlace DEF Place
<1>3. link \in Key
  BY <1>1, KeySets
<1>4. Moves(r)
  BY <1>1, <1>2, <1>3 DEF Moves, Types, Written
<1>5. txn[r].kind \in {"register", "forgot"}
  BY <1>1 DEF Mine, Fits
<1>6. Fits(txn[r])' /\ Found(txn[r], writes[r])' /\ Holds(r, txn[r], writes[r])'
  BY <1>1, <1>2, <1>5 DEF Mine, Fits, Found, Holds
<1>7. Creates(r, txn[r], writes[r])' /\ Mails(r, txn[r], writes[r])'
  BY <1>1, <1>2, <1>5 DEF Mine, Creates, Mails
<1>8. Recovers(r, txn[r], writes[r])' /\ Told(r, txn[r], writes[r])'
  BY <1>1, <1>2, <1>5 DEF Mine, Recovers, Told, Active
<1>9. \A q \in Request \ {r} : \A k \in DOMAIN writes'[r] \cap Written(q) :
        k \notin {User, Method} \cup CodeKeys
  BY <1>1 DEF Exclusive
<1> QED
  BY <1>1, <1>4, <1>6, <1>7, <1>8, <1>9, StepKeeps DEF Mine

LEMMA VerifyEmailStep ==
  ASSUME IInv, NEW r \in Request, VerifyEmail(r) PROVE IInv'
<1> DEFINE k == txn[r].arg
           used == table[k] \cup {r}
           u == [table[User] EXCEPT !.verified = TRUE]
           rows == Over(Set(k, used),
                        Over(Set(User, u), Set(Audit(r), {"email_verified"})))
<1>1. /\ Types /\ txn[r] \in Txn /\ Mine(r, txn[r], writes[r]) /\ Committed
      /\ txn[r].kind = "verify" /\ txn[r].pc = "looked"
      /\ Written(r) = {} /\ Busy(r) /\ r \in Maker
      /\ table[Audit(r)] = NoRow /\ table[Code(r)] = NoRow
      /\ Free(r, {k, User}) /\ Flush(r, rows, "commit")
  BY Facts, EmptyHanded, NothingYet DEF VerifyEmail, Is, Consumed
<1>2. /\ k \in Verifies /\ table[k] # NoRow /\ table[User] # NoRow
      /\ k \in mailed
  BY <1>1 DEF Mine, Fits, Found, Committed
<1>3. /\ used \in SUBSET Maker /\ u \in UserRow
      /\ {"email_verified"} \in AuditRow /\ "commit" \in Place
  <2>1. table[k] \in SUBSET Maker /\ table[User] \in UserRow
    BY <1>1, <1>2, RowsOfTable
  <2> QED
    BY <1>1, <2>1 DEF UserRow, AuditRow, Event, Place
<1>4. k # User /\ k # Audit(r) /\ User # Audit(r) /\ k \in Key /\ k = txn[r].arg
  BY <1>1, <1>2, KeySets
<1> HIDE DEF u, used, k
<1>5. /\ DOMAIN rows = {k, User, Audit(r)}
      /\ rows[User] = u /\ rows[k] = used
      /\ rows[Audit(r)] = {"email_verified"}
  BY <1>4 DEF Set, Over
<1> HIDE DEF rows
<1>6. DOMAIN rows \subseteq Key /\ \A x \in DOMAIN rows : MayBe(x, rows[x])
  <2>1. /\ MayBe(User, u) /\ MayBe(k, used)
        /\ MayBe(Audit(r), {"email_verified"})
    BY <1>1, <1>2, <1>3, RowsMayBe
  <2> QED
    BY <1>1, <1>4, <1>5, <2>1, KeySets
<1>7. /\ Moves(r) /\ UNCHANGED <<role, table, alone, mailed>>
      /\ txn'[r].pc = "commit" /\ txn'[r].kind = "verify" /\ txn'[r].arg = k
      /\ DOMAIN writes'[r] = {k, User, Audit(r)}
      /\ writes'[r][Audit(r)] = {"email_verified"}
  <2>1. Flushed(r, rows, "commit")
    BY <1>1, <1>3, <1>4, <1>5, <1>6, FlushMoves
  <2> QED
    BY <1>1, <1>3, <1>4, <1>5, <1>6, <2>1 DEF Flushed
<1>8. /\ Fits(txn[r])' /\ Found(txn[r], writes[r])'
      /\ Holds(r, txn[r], writes[r])'
  BY <1>1, <1>2, <1>7 DEF Fits, Found, Holds
<1>9. /\ Creates(r, txn[r], writes[r])' /\ Mails(r, txn[r], writes[r])'
      /\ Recovers(r, txn[r], writes[r])' /\ Told(r, txn[r], writes[r])'
  BY <1>1, <1>2, <1>7, KeySets DEF Creates, Mails, Recovers, Told
<1>10. \A q \in Request \ {r} : \A x \in DOMAIN writes'[r] \cap Written(q) :
         x \notin {User, Method} \cup CodeKeys
  BY <1>1, <1>2, <1>4, <1>7, FreeRow, KeySets
<1> QED
  BY <1>7, <1>8, <1>9, <1>10, StepKeeps DEF Mine

-----------------------------------------------------------------------------
(* Password reset.                                                         *)

LEMMA ForgetUnknownStep ==
  ASSUME IInv, NEW r \in Request, ForgetUnknown(r) PROVE IInv'
<1> DEFINE rows == Set(Audit(r), {"password_reset_requested"})
<1>1. /\ Types /\ txn[r] \in Txn /\ Mine(r, txn[r], writes[r])
      /\ txn[r].kind = "forgot" /\ txn[r].pc = "received"
      /\ Written(r) = {} /\ Busy(r) /\ r \in Maker
      /\ table[Audit(r)] = NoRow /\ table[Code(r)] = NoRow
      /\ Flush(r, rows, "commit")
  BY Facts, EmptyHanded, NothingYet DEF ForgetUnknown, Is
<1>2. {"password_reset_requested"} \in AuditRow /\ "commit" \in Place
  BY DEF AuditRow, Event, Place
<1>3. DOMAIN rows = {Audit(r)} /\ rows[Audit(r)] = {"password_reset_requested"}
  BY DEF Set
<1> HIDE DEF rows
<1>4. DOMAIN rows \subseteq Key /\ \A k \in DOMAIN rows : MayBe(k, rows[k])
  <2>1. MayBe(Audit(r), {"password_reset_requested"})
    BY <1>1, <1>2, RowsMayBe
  <2> QED
    BY <1>1, <1>3, <2>1, KeySets
<1>5. /\ Moves(r) /\ UNCHANGED <<role, table, alone, mailed>>
      /\ txn'[r].pc = "commit" /\ txn'[r].kind = "forgot"
      /\ DOMAIN writes'[r] = {Audit(r)}
  <2>1. Flushed(r, rows, "commit")
    BY <1>1, <1>2, <1>3, <1>4, FlushMoves
  <2> QED
    BY <1>1, <1>2, <1>3, <1>4, <2>1 DEF Flushed
<1>6. /\ Fits(txn[r])' /\ Found(txn[r], writes[r])'
      /\ Holds(r, txn[r], writes[r])'
  BY <1>5 DEF Fits, Found, Holds
<1>7. /\ Creates(r, txn[r], writes[r])' /\ Mails(r, txn[r], writes[r])'
      /\ Recovers(r, txn[r], writes[r])' /\ Told(r, txn[r], writes[r])'
  BY <1>1, <1>5, KeySets DEF Creates, Mails, Recovers, Told
<1>8. \A q \in Request \ {r} : \A k \in DOMAIN writes'[r] \cap Written(q) :
        k \notin {User, Method} \cup CodeKeys
  BY <1>1, <1>5, KeySets
<1> QED
  BY <1>5, <1>6, <1>7, <1>8, StepKeeps DEF Mine

LEMMA ForgetStep ==
  ASSUME IInv, NEW r \in Request, Forget(r) PROVE IInv'
<1> DEFINE rows == Over(Set(Reset(r), {}),
                        Set(Audit(r), {"password_reset_requested"}))
<1>1. /\ Types /\ txn[r] \in Txn /\ Mine(r, txn[r], writes[r])
      /\ txn[r].kind = "forgot" /\ txn[r].pc = "received"
      /\ Written(r) = {} /\ Busy(r) /\ r \in Maker
      /\ table[Audit(r)] = NoRow /\ table[Code(r)] = NoRow
      /\ table[User] # NoRow
  BY Facts, EmptyHanded, NothingYet, SeesCommitted DEF Forget, Is
<1>2. CASE ~ Permitted({"user"}, {})
  BY <1>1, <1>2, ErrorStep DEF Forget
<1>3. CASE Permitted({"user"}, {})
  <2>1. Flush(r, rows, "unsent")
    BY <1>3 DEF Forget
  <2>2. {"password_reset_requested"} \in AuditRow /\ "unsent" \in Place
    BY DEF AuditRow, Event, Place
  <2>3. /\ DOMAIN rows = {Reset(r), Audit(r)} /\ rows[Reset(r)] = {}
        /\ rows[Audit(r)] = {"password_reset_requested"}
    BY KeysDiffer DEF Set, Over
  <2> HIDE DEF rows
  <2>4. DOMAIN rows \subseteq Key /\ \A k \in DOMAIN rows : MayBe(k, rows[k])
    <3>1. /\ MayBe(Reset(r), {})
          /\ MayBe(Audit(r), {"password_reset_requested"})
      BY <1>1, <2>2, RowsMayBe, KeySets
    <3> QED
      BY <1>1, <2>3, <3>1, KeySets
  <2>5. /\ Moves(r) /\ UNCHANGED <<role, table, alone, mailed>>
        /\ txn'[r].pc = "unsent" /\ txn'[r].kind = "forgot"
        /\ DOMAIN writes'[r] = {Reset(r), Audit(r)}
    <3>1. Flushed(r, rows, "unsent")
      BY <1>1, <2>1, <2>2, <2>3, <2>4, FlushMoves
    <3> QED
      BY <1>1, <2>1, <2>2, <2>3, <2>4, <3>1 DEF Flushed
  <2>6. /\ Fits(txn[r])' /\ Found(txn[r], writes[r])'
        /\ Holds(r, txn[r], writes[r])'
    BY <2>5 DEF Fits, Found, Holds
  <2>7. /\ Creates(r, txn[r], writes[r])' /\ Mails(r, txn[r], writes[r])'
        /\ Recovers(r, txn[r], writes[r])' /\ Told(r, txn[r], writes[r])'
    BY <1>1, <2>5, KeySets DEF Creates, Mails, Recovers, Told
  <2>8. \A q \in Request \ {r} : \A k \in DOMAIN writes'[r] \cap Written(q) :
          k \notin {User, Method} \cup CodeKeys
    BY <1>1, <2>5, KeySets
  <2> QED
    BY <2>5, <2>6, <2>7, <2>8, StepKeeps DEF Mine
<1> QED
  BY <1>2, <1>3

LEMMA ResetPasswordStep ==
  ASSUME IInv, NEW r \in Request, ResetPassword(r) PROVE IInv'
<1> DEFINE k == txn[r].arg
           used == table[k] \cup {r}
           u == [table[User] EXCEPT !.password = r]
           rows == Over(Set(k, used), Set(User, u))
<1>1. /\ Types /\ txn[r] \in Txn /\ Mine(r, txn[r], writes[r]) /\ Committed
      /\ txn[r].kind = "reset" /\ txn[r].pc = "looked"
      /\ Written(r) = {} /\ Busy(r) /\ r \in Maker
      /\ table[Audit(r)] = NoRow /\ table[Code(r)] = NoRow
      /\ Free(r, {k, User}) /\ Write(r, rows)
      /\ Remember(r, "revoking", SessionsToRevoke)
      /\ UNCHANGED <<role, table, mailed, alone>>
  BY Facts, EmptyHanded, NothingYet DEF ResetPassword, Is, Consumed
<1>2. /\ k \in Resets /\ table[k] # NoRow /\ table[User] # NoRow
      /\ k \in mailed
  BY <1>1 DEF Mine, Fits, Found, Committed
<1>3. used \in SUBSET Maker /\ u \in UserRow /\ "revoking" \in Place
  <2>1. table[k] \in SUBSET Maker /\ table[User] \in UserRow
    BY <1>1, <1>2, RowsOfTable
  <2> QED
    BY <1>1, <2>1 DEF UserRow, Place
<1>4. k # User /\ k \in Key /\ User \in Key /\ k = txn[r].arg
  BY <1>1, <1>2, KeySets
<1> HIDE DEF u, used, k
<1>5. DOMAIN rows = {k, User} /\ rows[User] = u /\ rows[k] = used
  BY <1>4 DEF Set, Over
<1> HIDE DEF rows
<1>6. MayBe(User, u) /\ MayBe(k, used)
  BY <1>1, <1>2, <1>3, RowsMayBe
<1>7. /\ DOMAIN writes' = Request /\ writes' = [q \in Request |-> writes'[q]]
      /\ \A q \in Request \ {r} : writes'[q] = writes[q]
      /\ DOMAIN writes'[r] = {k, User}
      /\ writes'[r][k] = used /\ writes'[r][User] = u
  BY <1>1, <1>5, WriteRows
<1>8. /\ txn' = [txn EXCEPT ![r] = txn'[r]] /\ txn'[r] \in Txn
      /\ txn'[r].pc = "revoking" /\ txn'[r].kind = "reset" /\ txn'[r].arg = k
      /\ txn'[r].seen = SessionsToRevoke
  BY <1>1, <1>3, <1>4, RememberPlace, SessionsAreMakers
<1>9. Moves(r)
  BY <1>1, <1>4, <1>6, <1>7, <1>8 DEF Moves, Types
<1>10. /\ Fits(txn[r])' /\ Found(txn[r], writes[r])'
       /\ Holds(r, txn[r], writes[r])'
  BY <1>1, <1>2, <1>7, <1>8, SessionsAreMakers DEF Fits, Found, Holds
<1>11. /\ Creates(r, txn[r], writes[r])' /\ Mails(r, txn[r], writes[r])'
       /\ Recovers(r, txn[r], writes[r])' /\ Told(r, txn[r], writes[r])'
  BY <1>1, <1>2, <1>7, <1>8, KeySets DEF Creates, Mails, Recovers, Told
<1>12. \A q \in Request \ {r} : \A x \in DOMAIN writes'[r] \cap Written(q) :
         x \notin {User, Method} \cup CodeKeys
  BY <1>1, <1>2, <1>4, <1>7, FreeRow, KeySets
<1> QED
  BY <1>1, <1>9, <1>10, <1>11, <1>12, StepKeeps DEF Mine

LEMMA RevokeSessionsStep ==
  ASSUME IInv, NEW r \in Request, RevokeSessions(r) PROVE IInv'
<1> DEFINE told == IF txn[r].pc = "reuse" THEN {"refresh_token_reuse_detected"}
                                          ELSE {"password_reset_completed"}
           p == IF txn[r].pc = "reuse" THEN "raise" ELSE "commit"
           keys == {Session(s) : s \in txn[r].seen}
           revoked == [k \in keys |-> [table[k] EXCEPT !.revoked = TRUE]]
           rows == Over(Set(Audit(r), told), revoked)
<1>1. /\ Types /\ txn[r] \in Txn /\ Mine(r, txn[r], writes[r]) /\ Committed
      /\ Exclusive /\ Written(r) = DOMAIN writes[r]
      /\ txn[r].pc \in {"revoking", "reuse"} /\ Busy(r) /\ r \in Maker
      /\ table[Audit(r)] = NoRow /\ table[Code(r)] = NoRow
  BY Facts, NothingYet DEF RevokeSessions, Busy, Ended
<1>2. CASE Error(r)
  BY <1>1, <1>2, ErrorStep
<1>3. CASE Flush(r, rows, p)
  <2>1. told \in AuditRow /\ p \in Place
    BY DEF AuditRow, Event, Place
  <2>2. /\ \A s \in txn[r].seen : s \in Maker /\ table[Session(s)] # NoRow
        /\ keys \subseteq SessionKeys
    BY <1>1, KeySets DEF Mine, Found, Txn
  <2>3. \A k \in keys : revoked[k] \in SessionRow
    <3>1. \A k \in keys : table[k] \in SessionRow
      BY <1>1, <2>2, RowsOfTable
    <3> QED
      BY <3>1 DEF SessionRow
  <2>4. Audit(r) \notin keys /\ DOMAIN revoked = keys
    BY KeysDiffer
  <2> HIDE DEF told, keys, revoked
  <2>5. /\ DOMAIN rows = {Audit(r)} \cup keys /\ rows[Audit(r)] = told
        /\ \A k \in keys : rows[k] = revoked[k]
    BY <2>4 DEF Set, Over
  <2> HIDE DEF rows
  <2>6. DOMAIN rows \subseteq Key /\ \A k \in DOMAIN rows : MayBe(k, rows[k])
    <3>1. MayBe(Audit(r), told) /\ \A k \in keys : MayBe(k, revoked[k])
      BY <1>1, <2>1, <2>2, <2>3, RowsMayBe
    <3> QED
      BY <1>1, <2>2, <2>5, <3>1, KeySets
  <2>7. /\ Moves(r) /\ UNCHANGED <<role, table, alone, mailed>>
        /\ txn'[r].pc = p /\ txn'[r].kind = txn[r].kind
        /\ txn'[r].arg = txn[r].arg
        /\ DOMAIN writes'[r] = {Audit(r)} \cup keys \cup Written(r)
        /\ writes'[r][Audit(r)] = told
    <3>1. Flushed(r, rows, p)
      BY <1>3, <2>1, <2>5, <2>6, FlushMoves
    <3> QED
      BY <1>3, <2>1, <2>5, <2>6, <3>1 DEF Flushed
  <2>8. /\ txn[r].pc = "reuse" => txn[r].kind = "refresh" /\ Written(r) = {}
        /\ txn[r].pc = "revoking" => txn[r].kind = "reset"
    BY <1>1 DEF Mine, Fits, Holds
  <2>9. /\ Fits(txn[r])' /\ Found(txn[r], writes[r])'
        /\ Holds(r, txn[r], writes[r])'
    BY <1>1, <2>2, <2>7, <2>8 DEF Mine, Fits, Found, Holds
  <2>10. told = {"password_reset_completed"} \/ txn[r].pc = "reuse"
    BY DEF told
  <2>11. /\ Creates(r, txn[r], writes[r])' /\ Recovers(r, txn[r], writes[r])'
         /\ Told(r, txn[r], writes[r])'
    BY <1>1, <2>2, <2>7, <2>8, <2>10, KeySets
    DEF Mine, Creates, Recovers, Told, Holds, Fits
  <2>12. Mails(r, txn[r], writes[r])'
    BY <1>1, <2>2, <2>7, <2>8, KeySets DEF Mine, Mails
  <2>13. \A q \in Request \ {r} : \A x \in DOMAIN writes'[r] \cap Written(q) :
           x \notin {User, Method} \cup CodeKeys
    BY <1>1, <2>2, <2>7, KeySets DEF Exclusive
  <2> QED
    BY <2>7, <2>9, <2>11, <2>12, <2>13, StepKeeps DEF Mine
<1> QED
  BY <1>1, <1>2, <1>3 DEF RevokeSessions

-----------------------------------------------------------------------------
(* Signing in.                                                             *)

LEMMA SignInStep ==
  ASSUME IInv, NEW r \in Request, SignIn(r) PROVE IInv'
<1> DEFINE audited == IF Audit(r) \in DOMAIN writes[r]
                        THEN writes[r][Audit(r)] ELSE {}
<1>1. /\ Types /\ txn[r] \in Txn /\ Mine(r, txn[r], writes[r]) /\ Exclusive
      /\ Written(r) = DOMAIN writes[r]
      /\ txn[r].kind \in {"login", "sso"} /\ txn[r].pc = "looked"
      /\ Busy(r) /\ r \in Maker
      /\ table[Audit(r)] = NoRow /\ table[Code(r)] = NoRow
  BY Facts, NothingYet DEF SignIn, Busy, Ended
<1>2. audited \in AuditRow
  BY <1>1, KeySets DEF Types, MayBe, IsRow, AuditRow
<1>3. /\ txn[r].kind = "login" => Written(r) = {}
      /\ User \in Written(r) => "register" \in audited
      /\ User \in Written(r) \/ table[User] # NoRow
      /\ Session(r) \notin Written(r)
  BY <1>1 DEF Mine, Told, Found, Holds
<1>4. CASE AsksSecondFactor(r)
  <2> DEFINE told == audited \cup {"mfa_required"}
             rows == Set(Audit(r), told)
  <2>1. Flush(r, rows, "challenge")
    BY <1>4 DEF SignIn
  <2>2. told \in AuditRow /\ "challenge" \in Place
    BY <1>2 DEF AuditRow, Event, Place
  <2>3. User \in Written(r) => "register" \in told
    BY <1>3
  <2> HIDE DEF told
  <2>4. DOMAIN rows = {Audit(r)} /\ rows[Audit(r)] = told
    BY DEF Set
  <2> HIDE DEF rows
  <2>5. DOMAIN rows \subseteq Key /\ \A k \in DOMAIN rows : MayBe(k, rows[k])
    <3>1. MayBe(Audit(r), told)
      BY <1>1, <2>2, RowsMayBe
    <3> QED
      BY <1>1, <2>4, <3>1, KeySets
  <2>6. /\ Moves(r) /\ UNCHANGED <<role, table, alone, mailed>>
        /\ txn'[r].pc = "challenge" /\ txn'[r].kind = txn[r].kind
        /\ DOMAIN writes'[r] = {Audit(r)} \cup Written(r)
        /\ writes'[r][Audit(r)] = told
    <3>1. Flushed(r, rows, "challenge")
      BY <2>1, <2>2, <2>4, <2>5, FlushMoves
    <3> QED
      BY <2>1, <2>2, <2>4, <2>5, <3>1 DEF Flushed
  <2>7. /\ Fits(txn[r])' /\ Found(txn[r], writes[r])'
        /\ Holds(r, txn[r], writes[r])'
    BY <1>1, <1>3, <2>6, KeysDiffer DEF Mine, Fits, Found, Holds
  <2>8. /\ Creates(r, txn[r], writes[r])' /\ Mails(r, txn[r], writes[r])'
        /\ Recovers(r, txn[r], writes[r])' /\ Told(r, txn[r], writes[r])'
    BY <1>1, <1>3, <2>3, <2>6, KeySets
    DEF Mine, Creates, Mails, Recovers, Told, Holds
  <2>9. \A q \in Request \ {r} : \A k \in DOMAIN writes'[r] \cap Written(q) :
          k \notin {User, Method} \cup CodeKeys
    BY <1>1, <2>6, KeySets DEF Exclusive
  <2> QED
    BY <2>6, <2>7, <2>8, <2>9, StepKeeps DEF Mine
<1>5. CASE ~ AsksSecondFactor(r)
  <2> DEFINE told == audited \cup {"login_success"}
             session == [under |-> Seen(r, User).password, from |-> NoRow,
                         spent |-> NoRow, revoked |-> FALSE]
             rows == Over(Set(Session(r), session), Set(Audit(r), told))
  <2>1. Flush(r, rows, "commit")
    BY <1>5 DEF SignIn, NewSession
  <2>2. told \in AuditRow /\ "commit" \in Place
    BY <1>2 DEF AuditRow, Event, Place
  <2>3. Seen(r, User) \in UserRow
    <3>1. User \in Written(r) => writes[r][User] \in UserRow
      BY <1>1, KeySets DEF Types, MayBe, IsRow
    <3> QED
      BY <1>1, <1>3, <3>1, RowsOfTable DEF Seen
  <2>4. session \in SessionRow
    BY <2>3 DEF SessionRow, UserRow
  <2>5. /\ User \in Written(r) => "register" \in told
        /\ "login_success" \in told
    BY <1>3
  <2> HIDE DEF told, session
  <2>6. /\ DOMAIN rows = {Session(r), Audit(r)} /\ rows[Audit(r)] = told
        /\ rows[Session(r)] = session
    BY KeysDiffer DEF Set, Over
  <2> HIDE DEF rows
  <2>7. DOMAIN rows \subseteq Key /\ \A k \in DOMAIN rows : MayBe(k, rows[k])
    <3>1. MayBe(Audit(r), told) /\ MayBe(Session(r), session)
      BY <1>1, <2>2, <2>4, RowsMayBe, KeySets
    <3> QED
      BY <1>1, <2>6, <3>1, KeySets
  <2>8. /\ Moves(r) /\ UNCHANGED <<role, table, alone, mailed>>
        /\ txn'[r].pc = "commit" /\ txn'[r].kind = txn[r].kind
        /\ DOMAIN writes'[r] = {Session(r), Audit(r)} \cup Written(r)
        /\ writes'[r][Audit(r)] = told
    <3>1. Flushed(r, rows, "commit")
      BY <2>1, <2>2, <2>6, <2>7, FlushMoves
    <3> QED
      BY <2>1, <2>2, <2>6, <2>7, <3>1 DEF Flushed
  <2>9. /\ Fits(txn[r])' /\ Found(txn[r], writes[r])'
        /\ Holds(r, txn[r], writes[r])'
    BY <1>1, <1>3, <2>8, KeysDiffer DEF Mine, Fits, Found, Holds
  <2>10. /\ Creates(r, txn[r], writes[r])' /\ Mails(r, txn[r], writes[r])'
         /\ Recovers(r, txn[r], writes[r])' /\ Told(r, txn[r], writes[r])'
    BY <1>1, <1>3, <2>5, <2>8, KeySets
    DEF Mine, Creates, Mails, Recovers, Told, Holds
  <2>11. \A q \in Request \ {r} : \A k \in DOMAIN writes'[r] \cap Written(q) :
           k \notin {User, Method} \cup CodeKeys
    BY <1>1, <2>8, KeySets DEF Exclusive
  <2> QED
    BY <2>8, <2>9, <2>10, <2>11, StepKeeps DEF Mine
<1> QED
  BY <1>4, <1>5

LEMMA SignInWithSecondFactorStep ==
  ASSUME IInv, NEW r \in Request, SignInWithSecondFactor(r) PROVE IInv'
<1> DEFINE code == txn[r].arg
           told == {"mfa_success", "login_success"}
           session(spent) == [under |-> Seen(r, User).password, from |-> NoRow,
                              spent |-> spent, revoked |-> FALSE]
<1>1. /\ Types /\ txn[r] \in Txn /\ Mine(r, txn[r], writes[r])
      /\ txn[r].kind = "mfa" /\ txn[r].pc = "looked"
      /\ Written(r) = {} /\ Busy(r) /\ r \in Maker
      /\ table[Audit(r)] = NoRow /\ table[Code(r)] = NoRow
  BY Facts, EmptyHanded, NothingYet DEF SignInWithSecondFactor, Is
<1>2. /\ table[User] \in UserRow /\ Seen(r, User) = table[User]
      /\ code \in CodeKeys \cup {NoArg} /\ NoArg \notin Key
  BY <1>1, SeesCommitted, RowsOfTable, KeysDiffer DEF Mine, Found, Fits
<1>3. \A spent \in CodeKeys \cup {NoRow} : session(spent) \in SessionRow
  BY <1>2, KeySets DEF SessionRow, UserRow
<1>4. told \in AuditRow /\ "commit" \in Place
  BY DEF AuditRow, Event, Place
<1>5. "login_success" \in told /\ "mfa_success" \in told
  OBVIOUS
<1>6. MayBe(Audit(r), told)
  BY <1>1, <1>4, RowsMayBe
<1>7. CASE code = NoArg
  <2> DEFINE row == session(NoRow)
             rows == Over(Set(Session(r), row), Set(Audit(r), told))
  <2>1. Flush(r, rows, "commit")
    BY <1>7 DEF SignInWithSecondFactor, NewSession
  <2>2. MayBe(Session(r), row)
    BY <1>1, <1>3, RowsMayBe, KeySets
  <2> HIDE DEF told, session, row
  <2>3. /\ DOMAIN rows = {Session(r), Audit(r)} /\ rows[Audit(r)] = told
        /\ rows[Session(r)] = row
    BY KeysDiffer DEF Set, Over
  <2> HIDE DEF rows
  <2>4. DOMAIN rows \subseteq Key /\ \A k \in DOMAIN rows : MayBe(k, rows[k])
    BY <1>1, <1>6, <2>2, <2>3, KeySets
  <2>5. /\ Moves(r) /\ UNCHANGED <<role, table, alone, mailed>>
        /\ txn'[r].pc = "commit" /\ txn'[r].kind = "mfa"
        /\ txn'[r].arg = txn[r].arg
        /\ DOMAIN writes'[r] = {Session(r), Audit(r)}
        /\ writes'[r][Audit(r)] = told
    <3>1. Flushed(r, rows, "commit")
      BY <1>1, <1>4, <2>1, <2>3, <2>4, FlushMoves
    <3> QED
      BY <1>1, <1>4, <2>1, <2>3, <2>4, <3>1 DEF Flushed
  <2>6. /\ Fits(txn[r])' /\ Found(txn[r], writes[r])'
        /\ Holds(r, txn[r], writes[r])'
    BY <1>1, <1>2, <1>7, <2>5, KeySets DEF Mine, Fits, Found, Holds
  <2>7. /\ Creates(r, txn[r], writes[r])' /\ Mails(r, txn[r], writes[r])'
        /\ Recovers(r, txn[r], writes[r])' /\ Told(r, txn[r], writes[r])'
    BY <1>1, <1>5, <2>5, KeySets DEF Creates, Mails, Recovers, Told
  <2>8. \A q \in Request \ {r} : \A k \in DOMAIN writes'[r] \cap Written(q) :
          k \notin {User, Method} \cup CodeKeys
    BY <1>1, <2>5, KeySets
  <2> QED
    BY <2>5, <2>6, <2>7, <2>8, StepKeeps DEF Mine
<1>8. CASE code # NoArg /\ table[code] = NoRow
  BY <1>1, <1>8, ErrorStep DEF SignInWithSecondFactor
<1>9. CASE code # NoArg /\ table[code] # NoRow
  <2> DEFINE row == session(code)
             rows == Over(Set(code, TRUE),
                          Over(Set(Session(r), row), Set(Audit(r), told)))
  <2>1. Flush(r, rows, "commit") /\ Free(r, {code})
    BY <1>9 DEF SignInWithSecondFactor, NewSession
  <2>2. /\ code \in CodeKeys /\ code = txn[r].arg /\ table[code] # NoRow
        /\ code # Session(r) /\ code # Audit(r) /\ code \in Key
    BY <1>1, <1>2, <1>9, KeySets
  <2>3. MayBe(Session(r), row) /\ MayBe(code, TRUE)
    BY <1>1, <1>3, <2>2, RowsMayBe, KeySets
  <2> HIDE DEF told, session, row, code
  <2>4. /\ DOMAIN rows = {code, Session(r), Audit(r)} /\ rows[Audit(r)] = told
        /\ rows[Session(r)] = row /\ rows[code] = TRUE
    BY <2>2, KeysDiffer DEF Set, Over
  <2> HIDE DEF rows
  <2>5. DOMAIN rows \subseteq Key /\ \A k \in DOMAIN rows : MayBe(k, rows[k])
    BY <1>1, <1>6, <2>2, <2>3, <2>4, KeySets
  <2>6. /\ Moves(r) /\ UNCHANGED <<role, table, alone, mailed>>
        /\ txn'[r].pc = "commit" /\ txn'[r].kind = "mfa" /\ txn'[r].arg = code
        /\ DOMAIN writes'[r] = {code, Session(r), Audit(r)}
        /\ writes'[r][Audit(r)] = told /\ writes'[r][code] = TRUE
    <3>1. Flushed(r, rows, "commit")
      BY <1>1, <1>4, <2>1, <2>2, <2>4, <2>5, FlushMoves
    <3> QED
      BY <1>1, <1>4, <2>1, <2>2, <2>4, <2>5, <3>1 DEF Flushed
  <2>7. /\ Fits(txn[r])' /\ Found(txn[r], writes[r])'
        /\ Holds(r, txn[r], writes[r])'
    BY <1>1, <1>2, <2>2, <2>6, KeySets DEF Mine, Fits, Found, Holds
  <2>8. NoRow # TRUE
    BY NoRowIsNoRow
  <2>9. /\ Creates(r, txn[r], writes[r])' /\ Mails(r, txn[r], writes[r])'
        /\ Recovers(r, txn[r], writes[r])' /\ Told(r, txn[r], writes[r])'
    <3>1. /\ Creates(r, txn[r], writes[r])' /\ Mails(r, txn[r], writes[r])'
          /\ Told(r, txn[r], writes[r])'
      BY <1>1, <1>5, <2>2, <2>6, KeySets DEF Creates, Mails, Told
    <3>2. \A k \in DOMAIN writes'[r] \cap CodeKeys : k = code
      BY <1>1, <2>6, KeySets
    <3>3. writes'[r][code] # NoRow
      BY <2>6, <2>8
    <3>4. table' = table /\ Method \notin DOMAIN writes'[r]
      BY <1>1, <2>2, <2>6, KeySets
    <3>5. Recovers(r, txn[r], writes[r])'
      BY <1>1, <2>2, <2>6, <3>2, <3>3, <3>4 DEF Recovers
    <3> QED
      BY <3>1, <3>5
  <2>10. \A q \in Request \ {r} : \A k \in DOMAIN writes'[r] \cap Written(q) :
           k \notin {User, Method} \cup CodeKeys
    BY <1>1, <2>1, <2>2, <2>6, FreeRow, KeySets
  <2> QED
    BY <2>6, <2>7, <2>9, <2>10, StepKeeps DEF Mine
<1> QED
  BY <1>7, <1>8, <1>9

-----------------------------------------------------------------------------
(* Sessions.                                                               *)

(* The session a request presents, and that session revoked.               *)
LEMMA Presented ==
  ASSUME IInv, NEW r \in Request, txn[r].kind \in {"refresh", "logout", "revoke"}
  PROVE  /\ txn[r].arg \in SessionKeys /\ txn[r].arg \in Key
         /\ table[txn[r].arg] \in SessionRow
         /\ [table[txn[r].arg] EXCEPT !.revoked = TRUE] \in SessionRow
<1>1. /\ txn[r].arg \in SessionKeys /\ table[txn[r].arg] # NoRow /\ Types
  BY Facts DEF Mine, Fits, Found
<1>2. table[txn[r].arg] \in SessionRow
  BY <1>1, RowsOfTable
<1> QED
  BY <1>1, <1>2, KeySets DEF SessionRow

(* Sessions and their audit row.                                           *)
LEMMA SessionsStep ==
  ASSUME IInv, NEW r \in Request, Busy(r), Written(r) = {}, NEW rows,
         NEW event,
         \/ txn[r].kind = "refresh" /\ event = "refresh"
         \/ txn[r].kind = "logout" /\ event = "logout"
         \/ txn[r].kind = "revoke" /\ event = "session_revoked",
         Flush(r, rows, "commit"),
         DOMAIN rows \subseteq {Audit(r)} \cup SessionKeys,
         DOMAIN rows # {} => Audit(r) \in DOMAIN rows /\ rows[Audit(r)] = {event},
         \A k \in DOMAIN rows \cap SessionKeys : rows[k] \in SessionRow
  PROVE  IInv'
<1>1. /\ Types /\ txn[r] \in Txn /\ Mine(r, txn[r], writes[r]) /\ r \in Maker
      /\ table[Audit(r)] = NoRow /\ table[Code(r)] = NoRow
  BY Facts, NothingYet
<1>2. "commit" \in Place /\ {event} \in AuditRow
  BY DEF Place, AuditRow, Event
<1>3. \A k \in DOMAIN rows : MayBe(k, rows[k])
  <2>1. MayBe(Audit(r), {event})
    BY <1>1, <1>2, RowsMayBe
  <2>2. \A k \in DOMAIN rows \cap SessionKeys : MayBe(k, rows[k])
    BY RowsMayBe
  <2> QED
    BY <2>1, <2>2
<1>4. DOMAIN rows \subseteq Key
  BY <1>1, KeySets
<1>5. /\ Moves(r) /\ UNCHANGED <<role, table, alone, mailed>>
      /\ txn'[r].pc = "commit" /\ txn'[r].kind = txn[r].kind
      /\ txn'[r].arg = txn[r].arg
      /\ DOMAIN writes'[r] = DOMAIN rows
      /\ DOMAIN rows # {} => writes'[r][Audit(r)] = {event}
  <2>1. Flushed(r, rows, "commit")
    BY <1>2, <1>3, <1>4, FlushMoves
  <2> QED
    BY <2>1 DEF Flushed
<1>6. /\ Fits(txn[r])' /\ Found(txn[r], writes[r])'
      /\ Holds(r, txn[r], writes[r])'
  BY <1>1, <1>5 DEF Mine, Fits, Found, Holds
<1>7. Creates(r, txn[r], writes[r])' /\ Mails(r, txn[r], writes[r])'
  BY <1>1, <1>5, KeySets DEF Creates, Mails
<1>8. Recovers(r, txn[r], writes[r])' /\ Told(r, txn[r], writes[r])'
  <2>1. table' = table /\ Method \notin DOMAIN writes'[r]
    BY <1>1, <1>5, KeySets
  <2>2. Recovers(r, txn[r], writes[r])'
    BY <1>1, <1>5, <2>1 DEF Recovers
  <2>3. DOMAIN writes'[r] # {} =>
          Audit(r) \in DOMAIN writes'[r] /\ event \in writes'[r][Audit(r)]
    BY <1>5
  <2>4. Told(r, txn[r], writes[r])'
    BY <1>1, <1>5, <2>1, <2>3 DEF Told
  <2> QED
    BY <2>2, <2>4
<1>9. \A q \in Request \ {r} : \A k \in DOMAIN writes'[r] \cap Written(q) :
        k \notin {User, Method} \cup CodeKeys
  BY <1>1, <1>5, KeySets
<1> QED
  BY <1>5, <1>6, <1>7, <1>8, <1>9, StepKeeps DEF Mine

LEMMA RotateStep ==
  ASSUME IInv, NEW r \in Request, Rotate(r) PROVE IInv'
<1> DEFINE old == txn[r].arg
           gone == [table[old] EXCEPT !.revoked = TRUE]
           new == [table[old] EXCEPT !.from = old, !.spent = NoRow,
                                     !.revoked = FALSE]
           rows == Over(Set(old, gone),
                        Over(Set(Session(r), new), Set(Audit(r), {"refresh"})))
<1>1. /\ txn[r].kind = "refresh" /\ Busy(r) /\ Written(r) = {}
      /\ r \in Maker /\ Flush(r, rows, "commit")
  BY Facts, EmptyHanded DEF Rotate, Is, Revoked
<1>2. old \in SessionKeys /\ old \in Key /\ gone \in SessionRow
  BY <1>1, Presented
<1>3. new \in SessionRow
  BY <1>1, <1>2, Presented DEF SessionRow
<1>4. old # Audit(r)
  BY <1>1, <1>2, KeySets
<1> HIDE DEF old, gone, new
<1>5. /\ DOMAIN rows = {old, Session(r), Audit(r)}
      /\ rows[Audit(r)] = {"refresh"} /\ rows[old] = gone
      /\ rows[Session(r)] = new \/ Session(r) = old
  BY <1>4, KeysDiffer DEF Set, Over
<1> HIDE DEF rows
<1>6. /\ \A k \in DOMAIN rows \cap SessionKeys : rows[k] \in SessionRow
      /\ DOMAIN rows \subseteq {Audit(r)} \cup SessionKeys
  BY <1>1, <1>2, <1>3, <1>5, KeySets
<1> QED
  BY <1>1, <1>5, <1>6, SessionsStep

LEMMA RevokeOne ==
  ASSUME IInv, NEW r \in Request, Busy(r), Written(r) = {}, NEW event,
         \/ txn[r].kind = "logout" /\ event = "logout"
         \/ txn[r].kind = "revoke" /\ event = "session_revoked",
         Flush(r, Over(Revoked(txn[r].arg), Set(Audit(r), {event})), "commit")
  PROVE  IInv'
<1> DEFINE k == txn[r].arg
           gone == [table[k] EXCEPT !.revoked = TRUE]
           rows == Over(Set(k, gone), Set(Audit(r), {event}))
<1>1. Flush(r, rows, "commit") /\ r \in Maker
  BY Facts DEF Revoked
<1>2. k \in SessionKeys /\ gone \in SessionRow
  BY Presented
<1>3. k # Audit(r) /\ Audit(r) \notin SessionKeys
  BY <1>1, <1>2, KeySets
<1> HIDE DEF k, gone
<1>4. /\ DOMAIN rows = {k, Audit(r)} /\ rows[Audit(r)] = {event}
      /\ rows[k] = gone
  BY <1>3 DEF Set, Over
<1> HIDE DEF rows
<1>5. /\ \A x \in DOMAIN rows \cap SessionKeys : rows[x] \in SessionRow
      /\ DOMAIN rows \subseteq {Audit(r)} \cup SessionKeys
      /\ Audit(r) \in DOMAIN rows
  BY <1>2, <1>3, <1>4
<1> QED
  BY <1>1, <1>4, <1>5, SessionsStep

LEMMA LogoutStep ==
  ASSUME IInv, NEW r \in Request, Logout(r) PROVE IInv'
BY EmptyHanded, RevokeOne DEF Logout, Is

LEMMA RevokeSessionStep ==
  ASSUME IInv, NEW r \in Request, RevokeSession(r) PROVE IInv'
<1>1. txn[r].kind = "revoke" /\ Busy(r) /\ Written(r) = {}
  BY EmptyHanded DEF RevokeSession, Is
<1>2. CASE table[txn[r].arg].revoked
  <2>1. Flush(r, NoWrites, "commit")
    BY <1>2 DEF RevokeSession
  <2> QED
    BY <1>1, <2>1, NoWritesEmpty, SessionsStep
<1>3. CASE ~ table[txn[r].arg].revoked
  BY <1>1, <1>3, RevokeOne DEF RevokeSession
<1> QED
  BY <1>2, <1>3

-----------------------------------------------------------------------------
(* The second factor.                                                      *)

(* A method that is set up or disabled, and its audit row.                 *)
LEMMA MethodStep ==
  ASSUME IInv, NEW r \in Request, Busy(r), Written(r) = {}, NEW rows,
         NEW event, Free(r, {Method}),
         \/ txn[r].kind = "setup" /\ event = "mfa_setup_started"
         \/ txn[r].kind = "disable" /\ event = "mfa_disabled",
         Flush(r, rows, "commit"),
         DOMAIN rows \subseteq {Method, Audit(r)}, Audit(r) \in DOMAIN rows,
         rows[Audit(r)] = {event},
         Method \in DOMAIN rows =>
           rows[Method] \in MethodRow \cup {NoRow} /\ ~ Active(rows[Method])
  PROVE  IInv'
<1>1. /\ Types /\ txn[r] \in Txn /\ Mine(r, txn[r], writes[r]) /\ r \in Maker
      /\ table[Audit(r)] = NoRow /\ table[Code(r)] = NoRow
  BY Facts, NothingYet
<1>2. "commit" \in Place /\ {event} \in AuditRow
  BY DEF Place, AuditRow, Event
<1>3. \A k \in DOMAIN rows : MayBe(k, rows[k])
  <2>1. MayBe(Audit(r), {event})
    BY <1>1, <1>2, RowsMayBe
  <2>2. Method \in DOMAIN rows => MayBe(Method, rows[Method])
    BY RowsMayBe
  <2> QED
    BY <2>1, <2>2
<1>4. DOMAIN rows \subseteq Key
  BY <1>1, KeySets
<1>5. /\ Moves(r) /\ UNCHANGED <<role, table, alone, mailed>>
      /\ txn'[r].pc = "commit" /\ txn'[r].kind = txn[r].kind
      /\ txn'[r].arg = txn[r].arg
      /\ DOMAIN writes'[r] = DOMAIN rows
      /\ writes'[r][Audit(r)] = {event}
      /\ Method \in DOMAIN rows => writes'[r][Method] = rows[Method]
  <2>1. Flushed(r, rows, "commit")
    BY <1>2, <1>3, <1>4, FlushMoves
  <2> QED
    BY <2>1 DEF Flushed
<1>6. /\ Fits(txn[r])' /\ Found(txn[r], writes[r])'
      /\ Holds(r, txn[r], writes[r])'
  BY <1>1, <1>5 DEF Mine, Fits, Found, Holds
<1>7. Creates(r, txn[r], writes[r])' /\ Mails(r, txn[r], writes[r])'
  BY <1>1, <1>5, KeySets DEF Creates, Mails
<1>8. Recovers(r, txn[r], writes[r])' /\ Told(r, txn[r], writes[r])'
  <2>1. table' = table /\ event \in writes'[r][Audit(r)]
    BY <1>5
  <2>2. Method \in DOMAIN writes'[r] => ~ Active(writes'[r][Method])
    BY <1>5
  <2>3. Active(writes[r][Method])' <=> Active(writes'[r][Method])
    BY DEF Active
  <2>4. Recovers(r, txn[r], writes[r])'
    BY <1>1, <1>5, <2>1, <2>2, <2>3 DEF Recovers
  <2>5. Told(r, txn[r], writes[r])'
    BY <1>1, <1>5, <2>1 DEF Told
  <2> QED
    BY <2>4, <2>5
<1>9. \A q \in Request \ {r} : \A k \in DOMAIN writes'[r] \cap Written(q) :
        k \notin {User, Method} \cup CodeKeys
  BY <1>1, <1>5, FreeRow, KeySets
<1> QED
  BY <1>5, <1>6, <1>7, <1>8, <1>9, StepKeeps DEF Mine

LEMMA StartSetupStep ==
  ASSUME IInv, NEW r \in Request, StartSetup(r) PROVE IInv'
<1> DEFINE method == [id |-> r, verified |-> FALSE]
           rows == Over(Set(Method, method), Set(Audit(r), {"mfa_setup_started"}))
<1>1. /\ txn[r].kind = "setup" /\ Busy(r) /\ Written(r) = {}
      /\ r \in Maker /\ Free(r, {Method})
  BY Facts, EmptyHanded DEF StartSetup, Is
<1>2. CASE Error(r)
  BY <1>1, <1>2, ErrorStep
<1>3. CASE Flush(r, rows, "commit")
  <2>1. method \in MethodRow /\ ~ Active(method)
    BY <1>1 DEF MethodRow, Active
  <2> HIDE DEF method
  <2>2. /\ DOMAIN rows = {Method, Audit(r)}
        /\ rows[Audit(r)] = {"mfa_setup_started"} /\ rows[Method] = method
    BY KeysDiffer DEF Set, Over
  <2> HIDE DEF rows
  <2> QED
    BY <1>1, <1>3, <2>1, <2>2, MethodStep
<1> QED
  BY <1>2, <1>3 DEF StartSetup

LEMMA DisableStep ==
  ASSUME IInv, NEW r \in Request, Disable(r) PROVE IInv'
<1> DEFINE gone == IF StillThere(r) THEN Set(Method, NoRow) ELSE NoWrites
           rows == Over(gone, Set(Audit(r), {"mfa_disabled"}))
<1>1. /\ txn[r].kind = "disable" /\ Busy(r) /\ Written(r) = {}
      /\ r \in Maker /\ Free(r, {Method}) /\ Flush(r, rows, "commit")
  BY Facts, EmptyHanded DEF Disable, Is
<1>2. /\ DOMAIN gone \subseteq {Method}
      /\ Method \in DOMAIN gone => gone[Method] = NoRow
  BY SetRow, NoWritesEmpty
<1>3. ~ Active(NoRow) /\ Audit(r) # Method
  BY KeysDiffer DEF Active
<1> HIDE DEF gone
<1>4. /\ DOMAIN rows = DOMAIN gone \cup {Audit(r)}
      /\ rows[Audit(r)] = {"mfa_disabled"}
      /\ Method \in DOMAIN gone => rows[Method] = NoRow
  BY <1>2, <1>3 DEF Set, Over
<1> HIDE DEF rows
<1>5. /\ DOMAIN rows \subseteq {Method, Audit(r)} /\ Audit(r) \in DOMAIN rows
      /\ Method \in DOMAIN rows =>
           rows[Method] \in MethodRow \cup {NoRow} /\ ~ Active(rows[Method])
  BY <1>2, <1>3, <1>4
<1> QED
  BY <1>1, <1>4, <1>5, MethodStep

LEMMA ConfirmSetupStep ==
  ASSUME IInv, NEW r \in Request, ConfirmSetup(r) PROVE IInv'
<1> DEFINE method == [table[Method] EXCEPT !.verified = TRUE]
           told == {"mfa_setup_completed"}
           dropped == {Code(c) : c \in Codes}
           gone == [k \in dropped |-> NoRow]
           rows == Over(Set(Method, method),
                        Over(Set(Code(r), FALSE), Over(Set(Audit(r), told), gone)))
<1>1. /\ Types /\ txn[r] \in Txn /\ Mine(r, txn[r], writes[r])
      /\ txn[r].kind = "confirm" /\ txn[r].pc = "looked"
      /\ Written(r) = {} /\ Busy(r) /\ r \in Maker
      /\ table[Audit(r)] = NoRow /\ table[Code(r)] = NoRow
      /\ Free(r, {Method} \cup dropped)
  BY Facts, EmptyHanded, NothingYet DEF ConfirmSetup, Is, CodesToDrop
<1>2. CASE ~ StillThere(r)
  BY <1>1, <1>2, ErrorStep DEF ConfirmSetup
<1>3. CASE StillThere(r)
  <2>1. Flush(r, rows, "commit")
    BY <1>3 DEF ConfirmSetup, CodesToDrop
  <2>2. told \in AuditRow /\ "commit" \in Place /\ "mfa_setup_completed" \in told
    BY DEF AuditRow, Event, Place
  <2>3. method \in MethodRow
    <3>1. table[Method] \in MethodRow
      BY <1>1, <1>3, RowsOfTable DEF StillThere
    <3> QED
      BY <3>1 DEF MethodRow
  <2>4. /\ dropped \subseteq CodeKeys
        /\ \A c \in Maker : Code(c) \in dropped <=> table[Code(c)] # NoRow
        /\ Code(r) \notin dropped
    BY <1>1, KeysAreOne, KeySets DEF Codes
  <2>5. DOMAIN gone = dropped /\ \A k \in dropped : gone[k] = NoRow
    OBVIOUS
  <2>6. Method \notin dropped /\ Audit(r) \notin dropped
    BY <1>1, <2>4, KeySets
  <2> HIDE DEF method, told, dropped, gone
  <2>7. /\ DOMAIN rows = {Method, Code(r), Audit(r)} \cup dropped
        /\ rows[Method] = method /\ rows[Audit(r)] = told
        /\ rows[Code(r)] = FALSE
        /\ \A k \in dropped : rows[k] = NoRow
    BY <2>4, <2>5, <2>6, KeysDiffer DEF Set, Over
  <2> HIDE DEF rows
  <2>8. DOMAIN rows \subseteq Key /\ \A k \in DOMAIN rows : MayBe(k, rows[k])
    <3>1. /\ MayBe(Method, method) /\ MayBe(Audit(r), told)
          /\ MayBe(Code(r), FALSE)
      BY <1>1, <2>2, <2>3, RowsMayBe, KeySets
    <3>2. \A k \in dropped : MayBe(k, NoRow)
      BY <2>4, RowsMayBe
    <3>3. DOMAIN rows \subseteq Key
      BY <1>1, <2>4, <2>7, KeySets
    <3>4. \A k \in DOMAIN rows : MayBe(k, rows[k])
      <4>1. /\ MayBe(Method, rows[Method]) /\ MayBe(Audit(r), rows[Audit(r)])
            /\ MayBe(Code(r), rows[Code(r)])
        BY <2>7, <3>1
      <4>2. \A k \in dropped : MayBe(k, rows[k])
        BY <2>7, <3>2
      <4> QED
        BY <2>7, <4>1, <4>2, Zenon
    <3> QED
      BY <3>3, <3>4
  <2>9. /\ Moves(r) /\ UNCHANGED <<role, table, alone, mailed>>
        /\ txn'[r].pc = "commit" /\ txn'[r].kind = "confirm"
        /\ DOMAIN writes'[r] = {Method, Code(r), Audit(r)} \cup dropped
        /\ writes'[r][Audit(r)] = told /\ writes'[r][Code(r)] = FALSE
        /\ \A k \in dropped : writes'[r][k] = NoRow
    <3>1. Flushed(r, rows, "commit")
      BY <1>1, <2>1, <2>2, <2>7, <2>8, FlushMoves
    <3> QED
      BY <1>1, <2>1, <2>2, <2>7, <2>8, <3>1 DEF Flushed
  <2>10. /\ Fits(txn[r])' /\ Found(txn[r], writes[r])'
         /\ Holds(r, txn[r], writes[r])'
    BY <1>1, <2>4, <2>9, KeySets DEF Fits, Found, Holds
  <2>11. /\ Creates(r, txn[r], writes[r])' /\ Mails(r, txn[r], writes[r])'
         /\ Told(r, txn[r], writes[r])'
    BY <1>1, <2>2, <2>4, <2>9, KeySets DEF Creates, Mails, Told
  <2>12. Recovers(r, txn[r], writes[r])'
    <3>1. NoRow # FALSE /\ table' = table
      BY <2>9, NoRowIsNoRow
    <3>2. ASSUME NEW c \in Maker \ {r}
          PROVE  /\ table[Code(c)] # NoRow => Code(c) \in DOMAIN writes'[r]
                 /\ Code(c) \in DOMAIN writes'[r] => writes'[r][Code(c)] = NoRow
      BY <1>1, <2>4, <2>9, KeySets, KeysAreOne
    <3>3. writes'[r][Code(r)] # NoRow
      BY <2>9, <3>1
    <3> QED
      BY <1>1, <2>9, <3>1, <3>2, <3>3 DEF Recovers
  <2>13. \A q \in Request \ {r} : \A k \in DOMAIN writes'[r] \cap Written(q) :
           k \notin {User, Method} \cup CodeKeys
    <3>1. ASSUME NEW q \in Request \ {r} PROVE Code(r) \notin Written(q)
      <4>1. SUFFICES ASSUME Code(r) \in Written(q) PROVE FALSE
        OBVIOUS
      <4>2. txn[q].kind = "mfa" \/ txn[q].kind = "confirm"
        BY <1>1, <4>1, Facts, KeySets DEF Mine, Holds, Fits, Txn, Kind
      <4>3. txn[q].kind = "confirm" => Method \in Written(q)
        BY <4>1, Facts DEF Mine, Holds, Recovers, Fits
      <4>4. txn[q].kind = "mfa" => table[Code(r)] # NoRow
        BY <1>1, <4>1, Facts, KeySets DEF Mine, Recovers
      <4> QED
        BY <1>1, <4>2, <4>3, <4>4, FreeRow
    <3> QED
      BY <1>1, <2>9, <3>1, FreeRow, KeySets
  <2> QED
    BY <2>9, <2>10, <2>11, <2>12, <2>13, StepKeeps DEF Mine
<1> QED
  BY <1>2, <1>3

-----------------------------------------------------------------------------
(* Commits.                                                                *)

(* Which requests write which rows.                                        *)
LEMMA WhoWrites ==
  ASSUME IInv, NEW r \in Request
  PROVE  /\ User \in Written(r) =>
              txn[r].kind \in {"register", "sso", "verify", "reset"}
         /\ Method \in Written(r) =>
              txn[r].kind \in {"setup", "confirm", "disable"}
         /\ \A k \in Written(r) \cap Workspaces :
              k = Workspace(r) /\ txn[r].kind \in {"register", "sso"}
         /\ \A k \in Written(r) \cap (Verifies \cup Resets) :
              \/ txn[r].kind \in {"register", "verify", "reset"}
              \/ txn[r].kind = "forgot" /\ k = Reset(r)
         /\ \A k \in Written(r) \cap SessionKeys :
              \/ txn[r].kind \in {"reset", "mfa", "refresh", "logout", "revoke"}
              \/ txn[r].kind \in {"login", "sso"} /\ k = Session(r)
         /\ \A k \in Written(r) \cap CodeKeys :
              txn[r].kind \in {"mfa", "confirm"}
         /\ \A k \in Written(r) \cap Audits : k = Audit(r)
<1> DEFINE t == txn[r]
<1>1. /\ t.kind \in Kind /\ Fits(t) /\ Holds(r, t, writes[r])
      /\ r \in Maker /\ Written(r) = DOMAIN writes[r]
  BY Facts DEF Mine, Txn
<1> HIDE DEF t
<1>2. CASE t.kind \in {"register", "verify", "forgot", "reset"}
  BY <1>1, <1>2, KeySets DEF Fits, Holds, t
<1>3. CASE t.kind \in {"login", "sso", "mfa"}
  BY <1>1, <1>3, KeySets DEF Fits, Holds, t
<1>4. CASE t.kind \in {"refresh", "logout", "revoke"}
  BY <1>1, <1>4, KeySets DEF Fits, Holds, t
<1>5. CASE t.kind \in {"setup", "confirm", "disable"}
  BY <1>1, <1>5, KeySets DEF Fits, Holds, t
<1> QED
  BY <1>1, <1>2, <1>3, <1>4, <1>5 DEF Kind

(* What a commit does to the tables, and to the request.                   *)
LEMMA CommitMoves ==
  ASSUME IInv, NEW r \in Request, Commit(r)
  PROVE  /\ txn[r].pc \in {"commit", "challenge"}
         /\ txn' \in [Request -> Txn]
         /\ \A q \in Request \ {r} : txn'[q] = txn[q]
         /\ txn'[r].pc = IF txn[r].pc = "commit" THEN "done" ELSE "challenged"
         /\ txn'[r].kind = txn[r].kind /\ txn'[r].arg = txn[r].arg
         /\ DOMAIN writes' = Request /\ writes' = [q \in Request |-> writes'[q]]
         /\ \A q \in Request \ {r} : writes'[q] = writes[q]
         /\ DOMAIN writes'[r] = {}
         /\ UNCHANGED <<role, mailed>>
         /\ Key \subseteq DOMAIN table'
         /\ \A k \in Written(r) : table'[k] = writes[r][k]
         /\ \A k \in Key \ Written(r) : table'[k] = table[k]
<1> DEFINE p == IF txn[r].pc = "commit" THEN "done" ELSE "challenged"
<1>1. /\ Types /\ txn[r].pc \in {"commit", "challenge"} /\ Goto(r, p)
      /\ p \in Place /\ DropWrites(r) /\ table' = Over(writes[r], table)
      /\ UNCHANGED <<role, mailed>>
  BY DEF IInv, Commit, CommitWrites, DropWrites, Place
<1> HIDE DEF p
<1>2. /\ txn' = [txn EXCEPT ![r] = txn'[r]] /\ txn'[r] \in Txn
      /\ txn'[r].pc = p /\ txn'[r].kind = txn[r].kind
      /\ txn'[r].arg = txn[r].arg
  BY <1>1, GotoPlace
<1>3. /\ txn' \in [Request -> Txn]
      /\ \A q \in Request \ {r} : txn'[q] = txn[q]
  BY <1>1, <1>2 DEF Types
<1>4. /\ DOMAIN writes' = Request /\ writes' = [q \in Request |-> writes'[q]]
      /\ \A q \in Request \ {r} : writes'[q] = writes[q]
      /\ DOMAIN writes'[r] = {}
  BY <1>1, DropRows
<1>5. Key \subseteq DOMAIN table /\ Written(r) \subseteq Key
  BY <1>1 DEF Types
<1>6. /\ Key \subseteq DOMAIN table'
      /\ \A k \in Written(r) : table'[k] = writes[r][k]
      /\ \A k \in Key \ Written(r) : table'[k] = table[k]
  BY <1>1, <1>5 DEF Over, Written
<1> QED
  BY <1>1, <1>2, <1>3, <1>4, <1>6 DEF p

(* Rows other than the method and the recovery codes are never deleted.    *)
LEMMA RowsStay ==
  ASSUME IInv, NEW r \in Request, Commit(r),
         NEW k \in Key, k \notin {Method} \cup CodeKeys
  PROVE  table'[k] # NoRow <=> table[k] # NoRow \/ k \in Written(r)
<1>1. k \in Written(r) => IsRow(k, writes[r][k])
  BY DEF IInv, Types, MayBe
<1>2. k \in Written(r) => table'[k] # NoRow
  BY <1>1, CommitMoves, RowsAreRows
<1> QED
  BY <1>2, CommitMoves

LEMMA CommitTypes ==
  ASSUME IInv, NEW r \in Request, Commit(r) PROVE Types'
<1>1. Types
  BY DEF IInv
<1>2. \A k \in Key : table'[k] = NoRow \/ IsRow(k, table'[k])
  BY <1>1, CommitMoves DEF Types, MayBe
<1>3. \A q \in Request :
        /\ Written(q)' \subseteq Key
        /\ \A k \in Written(q)' : MayBe(k, writes'[q][k])
  <2>1. DOMAIN writes'[r] = {}
    BY CommitMoves
  <2>2. \A q \in Request \ {r} : writes'[q] = writes[q]
    BY CommitMoves
  <2> QED
    BY <1>1, <2>1, <2>2 DEF Types, Written
<1> QED
  BY <1>1, <1>2, <1>3, CommitMoves DEF Types

(* The codes a commit leaves: those a login used stay, a confirmation      *)
(* leaves its own.                                                         *)
LEMMA CommitCodes ==
  ASSUME IInv, NEW r \in Request, Commit(r)
  PROVE  /\ txn[r].kind # "confirm" =>
              \A c \in Maker :
                table'[Code(c)] # NoRow <=> table[Code(c)] # NoRow
         /\ txn[r].kind = "confirm" =>
              /\ Method \in Written(r)
              /\ \A c \in Maker : table'[Code(c)] # NoRow <=> c = r
<1>1. /\ txn[r].pc \in {"commit", "challenge"} /\ r \in Maker
      /\ Fits(txn[r]) /\ Recovers(r, txn[r], writes[r])
      /\ Written(r) = DOMAIN writes[r]
  BY Facts, CommitMoves DEF Mine
<1>2. \A c \in Maker : Code(c) \in CodeKeys /\ Code(c) \in Key
  BY KeySets
<1>3. ASSUME txn[r].kind # "confirm", NEW c \in Maker
      PROVE  table'[Code(c)] # NoRow <=> table[Code(c)] # NoRow
  <2>1. CASE Code(c) \in Written(r)
    <3>1. txn[r].kind = "mfa"
      BY <1>2, <1>3, <2>1, WhoWrites
    <3> QED
      BY <1>1, <1>2, <2>1, <3>1, CommitMoves DEF Recovers
  <2>2. CASE Code(c) \notin Written(r)
    BY <1>2, <2>2, CommitMoves
  <2> QED
    BY <2>1, <2>2
<1>4. ASSUME txn[r].kind = "confirm"
      PROVE  /\ Method \in Written(r) /\ table'[Code(r)] # NoRow
             /\ \A c \in Maker \ {r} : table'[Code(c)] = NoRow
  <2>1. /\ Method \in Written(r) /\ Code(r) \in Written(r)
        /\ writes[r][Code(r)] # NoRow
        /\ \A c \in Maker \ {r} :
             /\ table[Code(c)] # NoRow => Code(c) \in Written(r)
             /\ Code(c) \in Written(r) => writes[r][Code(c)] = NoRow
    BY <1>1, <1>4 DEF Fits, Recovers
  <2> QED
    BY <1>2, <2>1, CommitMoves
<1> QED
  BY <1>1, <1>3, <1>4

(* The others find what they found, and nothing they write has changed.    *)
LEMMA CommitOthers ==
  ASSUME IInv, NEW r \in Request, Commit(r), NEW q \in Request \ {r}
  PROVE  Mine(q, txn[q], writes[q])'
<1>1. /\ Mine(q, txn[q], writes[q]) /\ txn[q] \in Txn /\ q \in Maker
      /\ Written(q) = DOMAIN writes[q] /\ Written(q) \subseteq Key
  BY Facts DEF Types
<1>2. txn'[q] = txn[q] /\ writes'[q] = writes[q] /\ mailed' = mailed
  BY CommitMoves
<1>3. \A k \in Written(q) : k \in {User, Method} \cup CodeKeys =>
        k \notin Written(r) /\ table'[k] = table[k]
  BY <1>1, CommitMoves DEF IInv, Exclusive
<1>4. \A k \in {User} \cup Verifies \cup Resets \cup SessionKeys :
        table[k] # NoRow => table'[k] # NoRow
  BY KeySets, RowsStay
<1>5. Fits(txn[q])' /\ Holds(q, txn[q], writes[q])'
  BY <1>1, <1>2 DEF Mine, Fits, Holds
<1>6. Found(txn[q], writes[q])'
  <2>1. /\ txn[q].kind \in {"refresh", "logout", "revoke"} =>
             table[txn[q].arg] # NoRow /\ txn[q].arg \in SessionKeys
        /\ txn[q].kind \in {"verify", "reset"} =>
             txn[q].arg \in Verifies \cup Resets
        /\ txn[q].pc \in {"revoking", "reuse"} =>
             \A s \in txn[q].seen : Session(s) \in SessionKeys
    BY <1>1, KeySets DEF Mine, Fits, Found, Txn
  <2>2. Found(txn[q], writes[q])
    BY <1>1 DEF Mine
  <2> QED
    BY <1>2, <1>4, <2>1, <2>2 DEF Found
<1>7. Creates(q, txn[q], writes[q])'
  BY <1>1, <1>2, <1>3, <1>4 DEF Mine, Creates
<1>8. Mails(q, txn[q], writes[q])'
  BY <1>1, <1>2 DEF Mine, Mails
<1>9. Recovers(q, txn[q], writes[q])'
  <2>1. Recovers(q, txn[q], writes[q])
    BY <1>1 DEF Mine
  <2>2. ASSUME txn[q].kind = "mfa"
        PROVE  \A k \in Written(q) \cap CodeKeys :
                 writes[q][k] # NoRow /\ table'[k] # NoRow
    BY <1>1, <1>3, <2>1, <2>2 DEF Recovers
  <2>3. ASSUME txn[q].kind = "confirm", txn[q].pc = "commit",
               NEW c \in Maker \ {q}, table'[Code(c)] # NoRow
        PROVE  Code(c) \in Written(q)
    <3>1. Method \in Written(q) /\ (table[Code(c)] # NoRow => Code(c) \in Written(q))
      BY <1>1, <2>1, <2>3 DEF Recovers
    <3>2. txn[r].kind # "confirm"
      BY <1>3, <3>1, CommitCodes
    <3> QED
      BY <2>3, <3>1, <3>2, CommitCodes
  <2>4. table'[Code(q)] # NoRow => txn[q].pc = "done"
    BY <1>1, <2>1, CommitCodes DEF Recovers
  <2>5. (~ Active(writes[q][Method]))' <=> ~ Active(writes[q][Method])
    BY <1>2 DEF Active
  <2> QED
    BY <1>1, <1>2, <2>1, <2>2, <2>3, <2>4, <2>5 DEF Recovers
<1>10. Told(q, txn[q], writes[q])'
  <2>1. Told(q, txn[q], writes[q]) /\ Audit(q) \in Audits /\ Audit(q) \in Key
    BY <1>1, KeySets DEF Mine
  <2>2. Audit(q) \notin Written(r)
    BY <2>1, WhoWrites, KeysAreOne
  <2>3. table'[Audit(q)] = table[Audit(q)]
    BY <2>1, <2>2, CommitMoves
  <2> QED
    BY <1>2, <2>1, <2>3 DEF Told
<1> QED
  BY <1>5, <1>6, <1>7, <1>8, <1>9, <1>10 DEF Mine

(* The request itself has nothing left to do.                              *)
LEMMA CommitMine ==
  ASSUME IInv, NEW r \in Request, Commit(r)
  PROVE  Mine(r, txn[r], writes[r])'
<1>1. /\ Mine(r, txn[r], writes[r]) /\ txn[r] \in Txn /\ r \in Maker
      /\ Written(r) = DOMAIN writes[r] /\ DOMAIN writes'[r] = {}
      /\ txn[r].pc \in {"commit", "challenge"}
      /\ txn'[r].pc = IF txn[r].pc = "commit" THEN "done" ELSE "challenged"
      /\ txn'[r].kind = txn[r].kind /\ txn'[r].arg = txn[r].arg
  BY Facts, CommitMoves
<1>2. Fits(txn[r])'
  BY <1>1 DEF Mine, Fits
<1>3. Found(txn[r], writes[r])'
  <2>1. \A k \in {User} \cup SessionKeys : table[k] # NoRow => table'[k] # NoRow
    BY KeySets, RowsStay
  <2>2. User \in Written(r) => table'[User] # NoRow
    BY KeySets, RowsStay
  <2>3. /\ txn[r].kind \in {"refresh", "logout", "revoke"} =>
             table[txn[r].arg] # NoRow /\ txn[r].arg \in SessionKeys
        /\ txn[r].kind = "mfa" => table[User] # NoRow
        /\ txn[r].pc = "challenge" => User \in Written(r) \/ table[User] # NoRow
    BY <1>1 DEF Mine, Fits, Found
  <2> QED
    BY <1>1, <2>1, <2>2, <2>3 DEF Found
<1>4. Holds(r, txn[r], writes[r])' /\ Creates(r, txn[r], writes[r])'
  BY <1>1 DEF Mine, Holds, Creates
<1>5. Mails(r, txn[r], writes[r])'
  BY <1>1 DEF Mails
<1>6. Recovers(r, txn[r], writes[r])'
  <2>1. table'[Code(r)] # NoRow => txn'[r].pc = "done"
    BY <1>1, CommitCodes DEF Mine, Fits, Recovers
  <2> QED
    BY <1>1, <2>1 DEF Recovers
<1>7. Told(r, txn[r], writes[r])'
  BY <1>1 DEF Told
<1> QED
  BY <1>2, <1>3, <1>4, <1>5, <1>6, <1>7 DEF Mine

LEMMA CommitCommitted ==
  ASSUME IInv, NEW r \in Request, Commit(r) PROVE Committed'
<1>1. /\ Mine(r, txn[r], writes[r]) /\ txn[r] \in Txn /\ r \in Maker
      /\ Written(r) = DOMAIN writes[r] /\ Committed
      /\ txn[r].pc \in {"commit", "challenge"} /\ mailed' = mailed
  BY Facts, CommitMoves
<1>2. \A k \in {User} \cup Workspaces \cup Verifies \cup Resets \cup SessionKeys :
        table'[k] # NoRow <=> table[k] # NoRow \/ k \in Written(r)
  BY KeySets, RowsStay
<1>3. /\ User \in Written(r) /\ txn[r].kind \in {"register", "sso"} =>
           table[User] = NoRow /\ Workspace(r) \in Written(r)
      /\ Workspace(r) \in Written(r) => User \in Written(r)
      /\ \A k \in Written(r) \cap Workspaces : k = Workspace(r)
      /\ txn[r].kind \in {"verify", "reset", "mfa", "refresh", "logout", "revoke"} =>
           table[User] # NoRow
      /\ txn[r].kind = "register" => User \in Written(r)
      /\ txn[r].kind \in {"login", "sso"} =>
           User \in Written(r) \/ table[User] # NoRow
  <2>1. Workspace(r) \in Written(r) => txn[r].kind \in {"register", "sso"}
    BY <1>1, WhoWrites, KeySets
  <2>2. txn[r].kind \in {"refresh", "logout", "revoke"} => table[User] # NoRow
    BY <1>1 DEF Mine, Fits, Found, Committed
  <2>3. txn[r].kind \in {"verify", "reset"} => txn[r].pc = "commit"
    BY <1>1 DEF Mine, Fits
  <2>4. txn[r].kind = "register" => txn[r].pc = "commit"
    BY <1>1 DEF Mine, Fits
  <2>5. \A k \in Written(r) \cap Workspaces : k = Workspace(r)
    BY WhoWrites
  <2> QED
    BY <1>1, <2>1, <2>2, <2>3, <2>4, <2>5 DEF Mine, Found, Creates
<1>4. \A k \in Verifies \cup Resets :
        table'[k] # NoRow => k \in mailed /\ table'[User] # NoRow
  <2>1. ASSUME NEW k \in Verifies \cup Resets, k \in Written(r)
        PROVE  k \in mailed /\ table'[User] # NoRow
    <3>1. k \in mailed
      BY <1>1, <2>1 DEF Mine, Mails
    <3>2. txn[r].kind = "forgot" => table[User] # NoRow
      BY <1>1, <2>1, WhoWrites DEF Mine, Creates
    <3>3. txn[r].kind \in {"register", "verify", "reset", "forgot"}
      BY <2>1, WhoWrites
    <3> QED
      BY <1>2, <1>3, <3>1, <3>2, <3>3
  <2> QED
    BY <1>1, <1>2, <2>1 DEF Committed
<1>5. \A k \in SessionKeys : table'[k] # NoRow => table'[User] # NoRow
  <2>1. ASSUME NEW k \in SessionKeys, k \in Written(r)
        PROVE  table'[User] # NoRow
    BY <1>2, <1>3, <2>1, WhoWrites
  <2> QED
    BY <1>1, <1>2, <2>1 DEF Committed
<1>6. \A q \in Maker : Workspace(q) \in Workspaces
  BY KeySets
<1>7. table'[User] = NoRow => \A q \in Maker : table'[Workspace(q)] = NoRow
  BY <1>1, <1>2, <1>3, <1>6 DEF Committed
<1>8. table'[User] # NoRow =>
        \E q \in Maker : \A x \in Maker : table'[Workspace(x)] # NoRow <=> x = q
  <2>1. CASE table[User] # NoRow
    <3>1. \A x \in Maker : Workspace(x) \notin Written(r)
      <4>1. SUFFICES ASSUME NEW x \in Maker, Workspace(x) \in Written(r)
                     PROVE  FALSE
        OBVIOUS
      <4>2. /\ Workspace(x) = Workspace(r) /\ User \in Written(r)
            /\ txn[r].kind \in {"register", "sso"}
        BY <1>3, <1>6, <4>1, WhoWrites
      <4> QED
        BY <1>3, <2>1, <4>2
    <3> QED
      BY <1>1, <1>2, <1>6, <2>1, <3>1 DEF Committed
  <2>2. CASE table[User] = NoRow
    <3>1. SUFFICES ASSUME table'[User] # NoRow
                   PROVE  \A x \in Maker : table'[Workspace(x)] # NoRow <=> x = r
      BY <1>1
    <3>2. User \in Written(r)
      BY <1>2, <2>2, <3>1
    <3>3. Workspace(r) \in Written(r)
      BY <1>3, <2>2, <3>2, WhoWrites
    <3>4. \A x \in Maker : table[Workspace(x)] = NoRow
      BY <1>1, <2>2 DEF Committed
    <3> QED
      BY <1>1, <1>2, <1>3, <1>6, <3>3, <3>4, KeysAreOne
  <2> QED
    BY <2>1, <2>2
<1>9. \A c, d \in Maker :
        table'[Code(c)] # NoRow /\ table'[Code(d)] # NoRow => c = d
  BY <1>1, CommitCodes DEF Committed
<1>10. Active(table[Method])' => \E c \in Maker : table'[Code(c)] # NoRow
  <2>1. CASE txn[r].kind = "confirm"
    BY <1>1, <2>1, CommitCodes
  <2>2. CASE txn[r].kind # "confirm"
    <3>1. Method \in Written(r) => ~ Active(writes[r][Method])
      BY <1>1, <2>2 DEF Mine, Recovers
    <3>2. /\ Method \in Written(r) => table'[Method] = writes[r][Method]
          /\ Method \notin Written(r) => table'[Method] = table[Method]
      BY CommitMoves, KeySets
    <3>3. Active(table[Method])' => Active(table[Method])
      BY <3>1, <3>2 DEF Active
    <3> QED
      BY <1>1, <2>2, <3>3, CommitCodes DEF Committed
  <2> QED
    BY <2>1, <2>2
<1> QED
  BY <1>1, <1>4, <1>5, <1>7, <1>8, <1>9, <1>10 DEF Committed

LEMMA CommitStep ==
  ASSUME IInv, NEW r \in Request, Commit(r) PROVE IInv'
<1>1. \A q \in Request : Mine(q, txn[q], writes[q])'
  BY CommitMine, CommitOthers
<1>2. Exclusive'
  BY CommitMoves DEF IInv, Exclusive, Written
<1> QED
  BY <1>1, <1>2, CommitTypes, CommitCommitted DEF IInv

-----------------------------------------------------------------------------
(* Requests begin.                                                         *)

LEMMA LinksAreOfAKind ==
  \A k \in Key : /\ k[1] = Verify(0)[1] => k \in Verifies
                 /\ k[1] = Reset(0)[1] => k \in Resets
<1>1. /\ User[1] = "users" /\ Method[1] = "mfa_methods"
      /\ \A r : Workspace(r)[1] = "tenants" /\ Session(r)[1] = "refresh_tokens"
      /\ \A r : Verify(r)[1] = "auth_tokens: email_verify"
      /\ \A r : Reset(r)[1] = "auth_tokens: password_reset"
      /\ \A r : Code(r)[1] = "mfa_recovery_codes" /\ Audit(r)[1] = "audit_log"
  BY DEF User, Method, Workspace, Verify, Reset, Session, Code, Audit
<1>2. \A k \in Key \ (Verifies \cup Resets) :
        k[1] # "auth_tokens: email_verify" /\ k[1] # "auth_tokens: password_reset"
  BY <1>1, KeysDiffer DEF Workspaces, SessionKeys, CodeKeys, Audits
<1>3. /\ \A k \in Verifies : k[1] = "auth_tokens: email_verify"
      /\ \A k \in Resets : k[1] = "auth_tokens: password_reset"
  BY <1>1 DEF Verifies, Resets
<1> QED
  BY <1>1, <1>2, <1>3

(* What a client presents is there.                                        *)
LEMMA ArgumentsAreThere ==
  ASSUME IInv, NEW kind \in Kind, Entitled(kind), NEW arg \in Argument(kind)
  PROVE  /\ arg \in Key \cup {NoArg}
         /\ kind = "verify" => arg \in Verifies
         /\ kind = "reset" => arg \in Resets
         /\ kind \in {"refresh", "logout", "revoke"} =>
              arg \in SessionKeys /\ table[arg] # NoRow
         /\ kind = "mfa" => arg \in CodeKeys \cup {NoArg} /\ table[User] # NoRow
<1>1. CASE kind = "verify"
  <2>1. arg \in mailed /\ arg[1] = Verify(0)[1]
    BY <1>1 DEF Argument
  <2> QED
    BY <1>1, <2>1, LinksAreOfAKind DEF IInv, Types
<1>2. CASE kind = "reset"
  <2>1. arg \in mailed /\ arg[1] = Reset(0)[1]
    BY <1>2 DEF Argument
  <2> QED
    BY <1>2, <2>1, LinksAreOfAKind DEF IInv, Types
<1>3. CASE kind \in {"refresh", "logout", "revoke"}
  <2>1. arg \in {Session(s) : s \in Sessions}
    BY <1>3 DEF Argument
  <2> QED
    BY <1>3, <2>1, KeySets DEF Sessions
<1>4. CASE kind = "mfa"
  <2>1. arg \in {NoArg} \cup {Code(c) : c \in Codes}
    BY <1>4 DEF Argument
  <2>2. table[User] # NoRow
    BY <1>4 DEF Entitled, IInv, Mine, Found
  <2> QED
    BY <1>4, <2>1, <2>2, KeySets DEF Codes
<1>5. CASE kind \notin {"verify", "reset", "refresh", "logout", "revoke", "mfa"}
  BY <1>5 DEF Argument
<1> QED
  BY <1>1, <1>2, <1>3, <1>4, <1>5

LEMMA BeginStep ==
  ASSUME IInv, NEW r \in Request, Begin(r) PROVE IInv'
<1>1. PICK kind \in Kind :
        /\ Entitled(kind)
        /\ \E arg \in Argument(kind) :
             txn' = [txn EXCEPT ![r] = [pc |-> "received", kind |-> kind,
                                        arg |-> arg, seen |-> {}]]
  BY DEF Begin
<1>2. PICK arg \in Argument(kind) :
        txn' = [txn EXCEPT ![r] = [pc |-> "received", kind |-> kind,
                                   arg |-> arg, seen |-> {}]]
  BY <1>1
<1>3. /\ arg \in Key \cup {NoArg}
      /\ kind = "verify" => arg \in Verifies
      /\ kind = "reset" => arg \in Resets
      /\ kind \in {"refresh", "logout", "revoke"} =>
           arg \in SessionKeys /\ table[arg] # NoRow
      /\ kind = "mfa" => arg \in CodeKeys \cup {NoArg} /\ table[User] # NoRow
  BY <1>1, ArgumentsAreThere
<1>4. /\ Types /\ txn[r] \in Txn /\ Mine(r, txn[r], writes[r])
      /\ txn[r].pc = "waiting" /\ Written(r) = DOMAIN writes[r]
      /\ UNCHANGED <<role, table, writes, mailed>>
  BY Facts DEF Begin
<1>5. DOMAIN writes[r] = {}
  BY <1>4 DEF Mine, Holds
<1> DEFINE t == [pc |-> "received", kind |-> kind, arg |-> arg, seen |-> {}]
<1>6. t \in Txn
  BY <1>3 DEF Txn, Place
<1>7. txn'[r] = t /\ txn' = [txn EXCEPT ![r] = txn'[r]]
  BY <1>2, <1>4 DEF Types
<1>8. t.pc = "received" /\ t.kind = kind /\ t.arg = arg
  OBVIOUS
<1> HIDE DEF t
<1>9. Moves(r)
  BY <1>4, <1>5, <1>6, <1>7 DEF Moves, Types
<1>10. Fits(txn[r])' /\ Found(txn[r], writes[r])'
  BY <1>3, <1>4, <1>7, <1>8 DEF Fits, Found
<1>11. /\ Holds(r, txn[r], writes[r])' /\ Creates(r, txn[r], writes[r])'
       /\ Mails(r, txn[r], writes[r])'
  BY <1>4, <1>5, <1>7, <1>8 DEF Holds, Creates, Mails
<1>12. Recovers(r, txn[r], writes[r])' /\ Told(r, txn[r], writes[r])'
  BY <1>4, <1>5, <1>7, <1>8 DEF Mine, Recovers, Told
<1> QED
  BY <1>4, <1>5, <1>9, <1>10, <1>11, <1>12, StepKeeps DEF Mine

-----------------------------------------------------------------------------
(* The invariant.                                                          *)

LEMMA InitTables ==
  ASSUME Init
  PROVE  /\ \A k \in Key : table[k] = NoRow \/ IsRow(k, table[k])
         /\ Key \subseteq DOMAIN table
         /\ \A q \in Maker : table[Code(q)] # NoRow => q = 0
         /\ \A q \in Maker : table[Audit(q)] # NoRow => q = 0
         /\ \A q \in Maker : table[Session(q)] # NoRow => q = 0
         /\ \A k \in Verifies \cup Resets : table[k] # NoRow => k \in mailed
         /\ mailed \subseteq Key
         /\ Committed
<1>1. /\ 0 \in Maker /\ User \in Key /\ Method \in Key /\ User # Method
      /\ Workspace(0) \in Workspaces /\ Verify(0) \in Verifies
      /\ Session(0) \in SessionKeys /\ Code(0) \in CodeKeys
      /\ Audit(0) \in Audits
  BY RequestsAreMakers, KeySets
<1>2. CASE table = NoRows
  <2>1. (\A k \in Key : table[k] = NoRow) /\ Key = DOMAIN table /\ mailed = {}
    BY <1>2 DEF NoRows, Init
  <2>2. \A q \in Maker :
          /\ Workspace(q) \in Key /\ Session(q) \in Key /\ Code(q) \in Key
          /\ Audit(q) \in Key
    BY KeySets
  <2> QED
    BY <1>1, <2>1, <2>2, KeySets DEF Committed, Active
<1> DEFINE user == [password |-> 0, verified |-> TRUE]
           session == [under |-> 0, from |-> NoRow, spent |-> NoRow,
                       revoked |-> FALSE]
           told == {"register", "email_verified", "login_success"}
           method == [id |-> 0, verified |-> TRUE]
<1>3. /\ user \in UserRow /\ session \in SessionRow /\ told \in AuditRow
      /\ method \in MethodRow
  BY <1>1 DEF UserRow, SessionRow, AuditRow, Event, MethodRow
<1>4. /\ NoRow # user /\ NoRow # session /\ NoRow # told /\ NoRow # method
      /\ NoRow # "row" /\ NoRow # FALSE /\ NoRow # {0}
  BY <1>1, <1>3, NoRowIsNoRow
<1> HIDE DEF user, session, told, method
<1>5. CASE table \in {SignedIn, Protected}
  <2>1. /\ DOMAIN table = Key
        /\ table[User] = user /\ table[Workspace(0)] = "row"
        /\ table[Verify(0)] = {0} /\ table[Session(0)] = session
        /\ table[Audit(0)] = told
        /\ \/ table[Method] = NoRow /\ table[Code(0)] = NoRow
           \/ table[Method] = method /\ table[Code(0)] = FALSE
        /\ \A k \in Key \ {User, Method, Workspace(0), Verify(0), Session(0),
                           Code(0), Audit(0)} : table[k] = NoRow
    <3>1. /\ DOMAIN SignedIn = Key
          /\ SignedIn[User] = user /\ SignedIn[Workspace(0)] = "row"
          /\ SignedIn[Verify(0)] = {0} /\ SignedIn[Session(0)] = session
          /\ SignedIn[Audit(0)] = told
          /\ \A k \in Key \ {User, Workspace(0), Verify(0), Session(0),
                             Audit(0)} : SignedIn[k] = NoRow
      BY <1>1, KeysDiffer, KeySets
         DEF SignedIn, NoRows, user, session, told
    <3>2. CASE table = SignedIn
      BY <1>1, <3>1, <3>2, KeySets
    <3>3. CASE table = Protected
      BY <1>1, <3>1, <3>3, KeySets DEF Protected, method
    <3> QED
      BY <1>5, <3>2, <3>3
  <2>2. mailed = {Verify(0)}
    <3>1. NoRows[User] = NoRow
      BY <1>1 DEF NoRows
    <3> QED
      BY <1>4, <2>1, <3>1 DEF Init
  <2>3. \A k \in Key : table[k] = NoRow \/ IsRow(k, table[k])
    <3>1. /\ IsRow(User, user) /\ IsRow(Method, method)
          /\ IsRow(Workspace(0), "row") /\ IsRow(Verify(0), {0})
          /\ IsRow(Session(0), session) /\ IsRow(Code(0), FALSE)
          /\ IsRow(Audit(0), told)
      BY <1>1, <1>3, KeySets DEF IsRow
    <3> QED
      BY <2>1, <3>1
  <2>4. \A q \in Maker : /\ table[Code(q)] # NoRow => q = 0
                         /\ table[Audit(q)] # NoRow => q = 0
                         /\ table[Session(q)] # NoRow => q = 0
                         /\ table[Workspace(q)] # NoRow <=> q = 0
    BY <1>1, <1>4, <2>1, KeySets, KeysAreOne
  <2>5. \A k \in Verifies \cup Resets : table[k] # NoRow => k = Verify(0)
    BY <1>1, <2>1, KeySets
  <2>6. table[User] # NoRow
    BY <1>4, <2>1
  <2>7. Active(table[Method]) => table[Code(0)] # NoRow
    BY <1>4, <2>1 DEF Active
  <2>8. Committed
    BY <1>1, <2>2, <2>4, <2>5, <2>6, <2>7 DEF Committed
  <2> QED
    BY <1>1, <2>1, <2>2, <2>3, <2>4, <2>5, <2>8, KeySets
<1> QED
  BY <1>2, <1>5 DEF Init

LEMMA InitInvariant == Init => IInv
<1> SUFFICES ASSUME Init PROVE IInv
  OBVIOUS
<1>1. /\ role \in Role /\ writes = [r \in Request |-> NoWrites]
      /\ txn = [r \in Request |-> Waiting]
  BY DEF Init
<1>2. \A r \in Request : /\ DOMAIN writes[r] = {} /\ Written(r) = {}
                         /\ txn[r] = Waiting
  BY <1>1, NoWritesEmpty DEF Written
<1>3. /\ Waiting \in Txn /\ Waiting.pc = "waiting" /\ Waiting.kind = "login"
  BY DEF Waiting, Txn, Place, Kind
<1>4. Types
  BY <1>1, <1>2, <1>3, InitTables DEF Types
<1>5. ASSUME NEW r \in Request PROVE Mine(r, txn[r], writes[r])
  <2>1. table[Code(r)] = NoRow /\ table[Audit(r)] = NoRow
    BY InitTables, RequestsAreMakers
  <2>2. Fits(txn[r]) /\ Found(txn[r], writes[r]) /\ Holds(r, txn[r], writes[r])
    BY <1>2, <1>3 DEF Fits, Found, Holds
  <2>3. Creates(r, txn[r], writes[r]) /\ Mails(r, txn[r], writes[r])
    BY <1>2, <1>3 DEF Creates, Mails
  <2>4. Recovers(r, txn[r], writes[r]) /\ Told(r, txn[r], writes[r])
    BY <1>2, <1>3, <2>1 DEF Recovers, Told
  <2> QED
    BY <2>2, <2>3, <2>4 DEF Mine
<1>6. Exclusive
  BY <1>2 DEF Exclusive
<1> QED
  BY <1>4, <1>5, <1>6, InitTables DEF IInv

LEMMA StutterKeeps == IInv /\ UNCHANGED vars => IInv'
<1> SUFFICES ASSUME IInv, UNCHANGED vars PROVE IInv'
  OBVIOUS
<1>1. UNCHANGED <<role, table, writes, txn, mailed>>
  BY DEF vars
<1>2. Types'
  BY <1>1 DEF IInv, Types, Written
<1>3. \A r \in Request : Mine(r, txn[r], writes[r])'
  BY <1>1, MineStays DEF IInv
<1>4. Committed' /\ Exclusive'
  BY <1>1 DEF IInv, Committed, Exclusive, Active, Written
<1> QED
  BY <1>2, <1>3, <1>4 DEF IInv

LEMMA NextInvariant == IInv /\ [Next]_vars => IInv'
<1> SUFFICES ASSUME IInv, Next PROVE IInv'
  BY StutterKeeps
<1>1. PICK r \in Request : Begin(r) \/ Advance(r) \/ Crash(r)
  BY DEF Next
<1>2. CASE Begin(r)
  BY <1>2, BeginStep
<1>3. CASE Crash(r)
  BY <1>3, CrashStep
<1>4. CASE Advance(r)
  <2>1. CASE \/ LookUpEmail(r) \/ Register(r) \/ SendMail(r) \/ FindAuthToken(r)
             \/ VerifyEmail(r) \/ ForgetUnknown(r) \/ Forget(r)
    BY <2>1, LookUpEmailStep, RegisterStep, SendMailStep, FindAuthTokenStep,
       VerifyEmailStep, ForgetUnknownStep, ForgetStep
  <2>2. CASE \/ ResetPassword(r) \/ RevokeSessions(r) \/ FindUser(r)
             \/ FindVouchedUser(r) \/ Provision(r) \/ SignIn(r)
             \/ FindMethod(r) \/ SignInWithSecondFactor(r)
    BY <2>2, ResetPasswordStep, RevokeSessionsStep, FindUserStep,
       FindVouchedUserStep, ProvisionStep, SignInStep, FindMethodStep,
       SignInWithSecondFactorStep
  <2>3. CASE \/ FindSession(r) \/ DetectReuse(r) \/ RaiseReuse(r) \/ Rotate(r)
             \/ Logout(r) \/ RevokeSession(r) \/ FindPending(r)
    BY <2>3, FindSessionStep, DetectReuseStep, RaiseReuseStep, RotateStep,
       LogoutStep, RevokeSessionStep, FindPendingStep
  <2>4. CASE \/ StartSetup(r) \/ ConfirmSetup(r) \/ Disable(r) \/ Commit(r)
             \/ Refuse(r)
    BY <2>4, StartSetupStep, ConfirmSetupStep, DisableStep, CommitStep,
       RefuseStep
  <2> QED
    BY <1>4, <2>1, <2>2, <2>3, <2>4 DEF Advance
<1> QED
  BY <1>1, <1>2, <1>3, <1>4

(* The inductive invariant holds in every reachable state.                 *)
THEOREM InvariantHolds == Spec => []IInv
BY InitInvariant, NextInvariant, PTL DEF Spec

-----------------------------------------------------------------------------
(* Theorems.                                                               *)

(* Rows keep their shape, requests their places, and only rows that may    *)
(* exist are mailed about.                                                 *)
THEOREM TypeCorrect == Spec => []TypeOK
<1>1. IInv => TypeOK
  <2> SUFFICES ASSUME IInv PROVE TypeOK
    OBVIOUS
  <2>1. Types
    BY DEF IInv
  <2>2. /\ table[User] \in UserRow \cup {NoRow}
        /\ table[Method] \in MethodRow \cup {NoRow}
    BY <2>1, RowsOfTable
  <2>3. \A s \in Sessions : table[Session(s)] \in SessionRow
    BY <2>1, RowsOfTable, KeySets DEF Sessions
  <2>4. \A c \in Codes : table[Code(c)] \in BOOLEAN
    BY <2>1, KeySets DEF Codes, Types, IsRow
  <2> QED
    BY <2>1, <2>2, <2>3, <2>4 DEF Types, TypeOK, Txn
<1> QED
  BY <1>1, InvariantHolds, PTL

(* However registrations and provisionings race for one e-mail, fail or    *)
(* crash, there is no workspace without its owner and never a second one.  *)
THEOREM RegistrationAlwaysWhole == Spec => []RegistrationIsWhole
<1>1. IInv => RegistrationIsWhole
  <2> SUFFICES ASSUME IInv PROVE RegistrationIsWhole
    OBVIOUS
  <2> DEFINE owned == {q \in Maker : table[Workspace(q)] # NoRow}
  <2>1. Committed
    BY DEF IInv
  <2>2. CASE table[User] = NoRow
    <3>1. owned = {}
      BY <2>1, <2>2 DEF Committed
    <3> QED
      BY <2>2, <3>1, FS_EmptySet DEF RegistrationIsWhole
  <2>3. CASE table[User] # NoRow
    <3>1. PICK q \in Maker :
            \A x \in Maker : table[Workspace(x)] # NoRow <=> x = q
      BY <2>1, <2>3 DEF Committed
    <3>2. owned = {q}
      BY <3>1
    <3> QED
      BY <2>3, <3>2, FS_Singleton DEF RegistrationIsWhole
  <2> QED
    BY <2>2, <2>3
<1> QED
  BY <1>1, InvariantHolds, PTL

(* No committed token is unknown to the mailbox, whatever crashes between  *)
(* the insert, the mail and the commit.                                    *)
THEOREM TokensAlwaysMailed == Spec => []TokensWereMailed
<1>1. IInv => TokensWereMailed
  BY DEF IInv, Committed, TokensWereMailed, Verifies, Resets
<1> QED
  BY <1>1, InvariantHolds, PTL

(* However setups, confirmations, logins and disabling interleave, two     *)
(* sets of recovery codes never stand side by side, and an active second   *)
(* factor has one.                                                         *)
THEOREM OneSetOfCodesHolds == Spec => []OneSetOfCodes
<1>1. IInv => OneSetOfCodes
  <2> SUFFICES ASSUME IInv PROVE OneSetOfCodes
    OBVIOUS
  <2>1. Committed
    BY DEF IInv
  <2>2. Cardinality(Codes) <= 1
    <3>1. CASE Codes = {}
      BY <3>1, FS_EmptySet
    <3>2. CASE Codes # {}
      <4>1. PICK c \in Codes : TRUE
        BY <3>2
      <4>2. Codes = {c}
        BY <2>1, <4>1 DEF Committed, Codes
      <4> QED
        BY <4>2, FS_Singleton
    <3> QED
      BY <3>1, <3>2
  <2>3. Active(table[Method]) => Codes # {}
    BY <2>1 DEF Committed, Codes
  <2> QED
    BY <2>2, <2>3 DEF OneSetOfCodes
<1> QED
  BY <1>1, InvariantHolds, PTL

-----------------------------------------------------------------------------
(* Only a commit changes what is committed.                                *)

LEMMA AdvanceKeepsTable ==
  ASSUME NEW r, Advance(r), ~ Commit(r) PROVE UNCHANGED table
<1>1. CASE \/ LookUpEmail(r) \/ SendMail(r) \/ FindAuthToken(r) \/ FindUser(r)
           \/ FindVouchedUser(r) \/ FindMethod(r) \/ FindSession(r)
           \/ DetectReuse(r) \/ RaiseReuse(r) \/ FindPending(r) \/ Refuse(r)
  BY <1>1 DEF LookUpEmail, SendMail, FindAuthToken, FindUser, FindVouchedUser,
     FindMethod, FindSession, DetectReuse, RaiseReuse, FindPending, Refuse, Read
<1>2. CASE \/ Register(r) \/ VerifyEmail(r) \/ ForgetUnknown(r) \/ Forget(r)
           \/ ResetPassword(r) \/ RevokeSessions(r) \/ Provision(r)
  BY <1>2 DEF Register, VerifyEmail, ForgetUnknown, Forget, ResetPassword,
     RevokeSessions, Provision, CreateAccount, Flush, Error
<1>3. CASE \/ SignIn(r) \/ SignInWithSecondFactor(r) \/ Rotate(r) \/ Logout(r)
           \/ RevokeSession(r) \/ StartSetup(r) \/ ConfirmSetup(r) \/ Disable(r)
  BY <1>3 DEF SignIn, SignInWithSecondFactor, Rotate, Logout, RevokeSession,
     StartSetup, ConfirmSetup, Disable, Flush, Error
<1> QED
  BY <1>1, <1>2, <1>3 DEF Advance

LEMMA OnlyCommitsChange ==
  ASSUME IInv, Next
  PROVE  UNCHANGED table \/ \E r \in Request : Commit(r)
<1>1. PICK r \in Request : Begin(r) \/ Advance(r) \/ Crash(r)
  BY DEF Next
<1>2. CASE Begin(r) \/ Crash(r)
  BY <1>2 DEF Begin, Crash
<1>3. CASE Advance(r)
  BY <1>3, AdvanceKeepsTable
<1> QED
  BY <1>1, <1>2, <1>3

(* What a request that wrote anything says in its audit row.               *)
LEMMA CommitTells ==
  ASSUME IInv, NEW r \in Request, Commit(r), Written(r) # {}, NEW event,
         event \in writes[r][Audit(r)]
  PROVE  /\ table[Audit(r)] = NoRow /\ table'[Audit(r)] # NoRow
         /\ event \in table'[Audit(r)]
<1>1. /\ txn[r].pc \in {"commit", "challenge"} /\ Mine(r, txn[r], writes[r])
      /\ Written(r) = DOMAIN writes[r] /\ r \in Maker
  BY Facts, CommitMoves
<1>2. Audit(r) \in Written(r) /\ table[Audit(r)] = NoRow
  BY <1>1 DEF Mine, Told
<1>3. table'[Audit(r)] # NoRow
  BY <1>1, <1>2, RowsStay, KeySets
<1> QED
  BY <1>2, <1>3, CommitMoves

(* Whoever commits and whatever it raced with, what it changes is said in  *)
(* an audit row that appears with it.                                      *)
THEOREM ChangesAlwaysAudited == Spec => ChangesAreAudited
<1> DEFINE Audited(r) ==
        /\ Changes({Session(s) : s \in Maker}) =>
             Says(r, {"login_success", "refresh", "logout", "session_revoked",
                      "password_reset_completed"})
        /\ Changes({User}) =>
             Says(r, {"register", "email_verified", "password_reset_completed"})
        /\ Changes({Method} \cup {Code(c) : c \in Maker}) =>
             Says(r, {"mfa_setup_started", "mfa_setup_completed",
                      "mfa_disabled", "mfa_success"})
<1>1. ASSUME IInv, [Next]_vars PROVE \E r \in Request : Audited(r)
  <2>1. CASE UNCHANGED table
    BY <2>1, RequestsAreMakers DEF Changes
  <2>2. ASSUME NEW r \in Request, Commit(r) PROVE Audited(r)
    <3>1. /\ Written(r) = DOMAIN writes[r] /\ r \in Maker
          /\ txn[r].pc \in {"commit", "challenge"}
          /\ Told(r, txn[r], writes[r]) /\ Creates(r, txn[r], writes[r])
      BY <1>1, <2>2, Facts, CommitMoves DEF Mine
    <3>2. \A k \in Key : table'[k] # table[k] => k \in Written(r)
      BY <1>1, <2>2, CommitMoves
    <3>3. ASSUME Changes({Session(s) : s \in Maker})
          PROVE  Says(r, {"login_success", "refresh", "logout",
                          "session_revoked", "password_reset_completed"})
      <4>1. PICK k \in SessionKeys : k \in Written(r)
        BY <3>2, <3>3, KeySets DEF Changes, SessionKeys
      <4>2. \/ txn[r].kind \in {"reset", "mfa", "refresh", "logout", "revoke"}
            \/ txn[r].kind \in {"login", "sso"} /\ k = Session(r)
        BY <1>1, <4>1, WhoWrites
      <4>3. \E event \in {"login_success", "refresh", "logout",
                          "session_revoked", "password_reset_completed"} :
              event \in writes[r][Audit(r)]
        BY <3>1, <4>1, <4>2 DEF Told
      <4> QED
        BY <1>1, <2>2, <4>1, <4>3, CommitTells DEF Says
    <3>4. ASSUME Changes({User})
          PROVE  Says(r, {"register", "email_verified",
                          "password_reset_completed"})
      <4>1. User \in Written(r)
        BY <3>2, <3>4, KeySets DEF Changes
      <4>2. txn[r].kind \in {"register", "sso", "verify", "reset"}
        BY <1>1, <4>1, WhoWrites
      <4>3. \E event \in {"register", "email_verified",
                          "password_reset_completed"} :
              event \in writes[r][Audit(r)]
        BY <3>1, <4>1, <4>2 DEF Told
      <4> QED
        BY <1>1, <2>2, <4>1, <4>3, CommitTells DEF Says
    <3>5. ASSUME Changes({Method} \cup {Code(c) : c \in Maker})
          PROVE  Says(r, {"mfa_setup_started", "mfa_setup_completed",
                          "mfa_disabled", "mfa_success"})
      <4>1. PICK k \in {Method} \cup CodeKeys : k \in Written(r)
        BY <3>2, <3>5, KeySets DEF Changes, CodeKeys
      <4>2. txn[r].kind \in {"setup", "confirm", "disable", "mfa"}
        BY <1>1, <4>1, WhoWrites
      <4>3. \E event \in {"mfa_setup_started", "mfa_setup_completed",
                          "mfa_disabled", "mfa_success"} :
              event \in writes[r][Audit(r)]
        BY <3>1, <4>1, <4>2 DEF Told
      <4> QED
        BY <1>1, <2>2, <4>1, <4>3, CommitTells DEF Says
    <3> QED
      BY <3>3, <3>4, <3>5
  <2> QED
    BY <1>1, <2>1, <2>2, OnlyCommitsChange DEF vars
<1>2. IInv /\ [Next]_vars => [\E r \in Request : Audited(r)]_vars
  BY <1>1
<1> QED
  BY <1>2, InvariantHolds, PTL DEF Spec, ChangesAreAudited

-----------------------------------------------------------------------------
(* What a request for a reset link comes to under each role.               *)

(* Request r alone moves, and remains of its kind.                         *)
Proceeds(r) ==
  /\ \A q \in Request \ {r} : txn'[q] = txn[q]
  /\ txn'[r].kind = txn[r].kind
  /\ role' = role

LEMMA GotoProceeds ==
  ASSUME IInv, NEW r \in Request, NEW p, Goto(r, p), role' = role
  PROVE  Proceeds(r)
BY Facts DEF Goto, Proceeds, Types, Txn, IInv

LEMMA RememberProceeds ==
  ASSUME IInv, NEW r \in Request, NEW p, NEW seen, Remember(r, p, seen),
         role' = role
  PROVE  Proceeds(r)
BY Facts DEF Remember, Proceeds, Types, Txn, IInv

LEMMA FlushProceeds ==
  ASSUME IInv, NEW r \in Request, NEW rows, NEW p, Flush(r, rows, p)
  PROVE  Proceeds(r)
BY GotoProceeds DEF Flush

LEMMA ErrorProceeds ==
  ASSUME IInv, NEW r \in Request, Error(r)
  PROVE  Proceeds(r)
BY GotoProceeds DEF Error

LEMMA AdvanceProceeds ==
  ASSUME IInv, NEW r \in Request, Advance(r) \/ Crash(r)
  PROVE  Proceeds(r)
<1>1. CASE \/ LookUpEmail(r) \/ SendMail(r) \/ FindAuthToken(r) \/ FindUser(r)
           \/ FindVouchedUser(r) \/ FindMethod(r) \/ FindSession(r)
           \/ RaiseReuse(r) \/ Refuse(r) \/ Commit(r) \/ Crash(r)
  <2>1. role' = role /\ \E p : Goto(r, p)
    BY <1>1 DEF LookUpEmail, SendMail, FindAuthToken, FindUser,
       FindVouchedUser, FindMethod, FindSession, RaiseReuse, Refuse, Commit,
       Crash, Read
  <2> QED
    BY <2>1, GotoProceeds
<1>2. CASE DetectReuse(r) \/ FindPending(r) \/ ResetPassword(r)
  <2>1. role' = role /\ \E p : \E seen : Remember(r, p, seen)
    BY <1>2 DEF DetectReuse, FindPending, ResetPassword, Read
  <2> QED
    BY <2>1, RememberProceeds
<1>3. CASE \/ Register(r) \/ VerifyEmail(r) \/ ForgetUnknown(r) \/ Forget(r)
           \/ RevokeSessions(r) \/ Provision(r)
  <2>1. Error(r) \/ \E rows : \E p : Flush(r, rows, p)
    BY <1>3 DEF Register, VerifyEmail, ForgetUnknown, Forget, RevokeSessions,
       Provision, CreateAccount
  <2> QED
    BY <2>1, FlushProceeds, ErrorProceeds
<1>4. CASE \/ SignIn(r) \/ SignInWithSecondFactor(r) \/ Rotate(r) \/ Logout(r)
           \/ RevokeSession(r) \/ StartSetup(r) \/ ConfirmSetup(r) \/ Disable(r)
  <2>1. Error(r) \/ \E rows : \E p : Flush(r, rows, p)
    BY <1>4 DEF SignIn, SignInWithSecondFactor, Rotate, Logout, RevokeSession,
       StartSetup, ConfirmSetup, Disable
  <2> QED
    BY <2>1, FlushProceeds, ErrorProceeds
<1> QED
  BY <1>1, <1>2, <1>3, <1>4 DEF Advance

(* What a request for a link can do, and one that presents a verification. *)
LEMMA ForgotSteps ==
  ASSUME IInv, NEW r \in Request, Advance(r), txn[r].kind = "forgot"
  PROVE  \/ SendMail(r) \/ ForgetUnknown(r) \/ Forget(r) \/ Commit(r)
         \/ Refuse(r)
<1>1. Fits(txn[r])
  BY Facts DEF Mine
<1>2. /\ txn[r].pc \notin {"unknown", "looked", "revoking", "reuse", "raise"}
      /\ txn[r].kind = "forgot"
  BY <1>1 DEF Fits
<1>3. ~ (\/ LookUpEmail(r) \/ Register(r) \/ FindAuthToken(r) \/ VerifyEmail(r)
         \/ ResetPassword(r) \/ RevokeSessions(r) \/ FindUser(r)
         \/ FindVouchedUser(r) \/ Provision(r) \/ SignIn(r))
  BY <1>2 DEF Is, LookUpEmail, Register, FindAuthToken, VerifyEmail,
     ResetPassword, RevokeSessions, FindUser, FindVouchedUser, Provision, SignIn
<1>4. ~ (\/ FindMethod(r) \/ SignInWithSecondFactor(r) \/ FindSession(r)
         \/ DetectReuse(r) \/ RaiseReuse(r) \/ Rotate(r) \/ Logout(r)
         \/ RevokeSession(r) \/ FindPending(r) \/ StartSetup(r)
         \/ ConfirmSetup(r) \/ Disable(r))
  BY <1>2 DEF Is, FindMethod, SignInWithSecondFactor, FindSession, DetectReuse,
     RaiseReuse, Rotate, Logout, RevokeSession, FindPending, StartSetup,
     ConfirmSetup, Disable
<1> QED
  BY <1>3, <1>4 DEF Advance

LEMMA VerifySteps ==
  ASSUME IInv, NEW r \in Request, Advance(r), txn[r].kind = "verify"
  PROVE  FindAuthToken(r) \/ VerifyEmail(r) \/ Commit(r) \/ Refuse(r)
<1>1. Fits(txn[r])
  BY Facts DEF Mine
<1>2. /\ txn[r].pc \notin {"unknown", "unsent", "revoking", "reuse", "raise"}
      /\ txn[r].kind = "verify"
  BY <1>1 DEF Fits
<1>3. ~ (\/ LookUpEmail(r) \/ Register(r) \/ SendMail(r) \/ ForgetUnknown(r)
         \/ Forget(r) \/ ResetPassword(r) \/ RevokeSessions(r) \/ FindUser(r)
         \/ FindVouchedUser(r) \/ Provision(r) \/ SignIn(r))
  BY <1>2 DEF Is, LookUpEmail, Register, SendMail, ForgetUnknown, Forget,
     ResetPassword, RevokeSessions, FindUser, FindVouchedUser, Provision, SignIn
<1>4. ~ (\/ FindMethod(r) \/ SignInWithSecondFactor(r) \/ FindSession(r)
         \/ DetectReuse(r) \/ RaiseReuse(r) \/ Rotate(r) \/ Logout(r)
         \/ RevokeSession(r) \/ FindPending(r) \/ StartSetup(r)
         \/ ConfirmSetup(r) \/ Disable(r))
  BY <1>2 DEF Is, FindMethod, SignInWithSecondFactor, FindSession, DetectReuse,
     RaiseReuse, Rotate, Logout, RevokeSession, FindPending, StartSetup,
     ConfirmSetup, Disable
<1> QED
  BY <1>3, <1>4 DEF Advance

(* The writes of r change, or nobody's do.                                 *)
LEMMA AdvanceKeepsOthers ==
  ASSUME IInv, NEW r \in Request, Advance(r) \/ Crash(r),
         NEW q \in Request \ {r}
  PROVE  writes'[q] = writes[q]
<1>1. Types
  BY DEF IInv
<1>2. CASE UNCHANGED writes
  BY <1>2
<1>3. CASE DropWrites(r)
  BY <1>1, <1>3, DropRows
<1>4. CASE \E rows : Write(r, rows)
  BY <1>1, <1>4, WriteRows
<1>5. CASE \/ LookUpEmail(r) \/ SendMail(r) \/ FindAuthToken(r) \/ FindUser(r)
           \/ FindVouchedUser(r) \/ FindMethod(r) \/ FindSession(r)
           \/ DetectReuse(r) \/ FindPending(r) \/ Refuse(r)
  BY <1>2, <1>5 DEF LookUpEmail, SendMail, FindAuthToken, FindUser,
     FindVouchedUser, FindMethod, FindSession, DetectReuse, FindPending, Refuse,
     Read
<1>6. CASE RaiseReuse(r) \/ Crash(r) \/ Commit(r)
  BY <1>3, <1>6 DEF RaiseReuse, Crash, Commit, CommitWrites, DropWrites
<1>7. CASE \/ Register(r) \/ VerifyEmail(r) \/ ForgetUnknown(r) \/ Forget(r)
           \/ ResetPassword(r) \/ RevokeSessions(r) \/ Provision(r)
  <2>1. DropWrites(r) \/ \E rows : Write(r, rows)
    BY <1>7 DEF Register, VerifyEmail, ForgetUnknown, Forget, ResetPassword,
       RevokeSessions, Provision, CreateAccount, Flush, Error
  <2> QED
    BY <1>3, <1>4, <2>1
<1>8. CASE \/ SignIn(r) \/ SignInWithSecondFactor(r) \/ Rotate(r) \/ Logout(r)
           \/ RevokeSession(r) \/ StartSetup(r) \/ ConfirmSetup(r) \/ Disable(r)
  <2>1. DropWrites(r) \/ \E rows : Write(r, rows)
    BY <1>8 DEF SignIn, SignInWithSecondFactor, Rotate, Logout, RevokeSession,
       StartSetup, ConfirmSetup, Disable, Flush, Error
  <2> QED
    BY <1>3, <1>4, <2>1
<1> QED
  BY <1>5, <1>6, <1>7, <1>8 DEF Advance

(* Under a role that bypasses the policies, a registered user's request    *)
(* for a reset link never ends in an error: what reset_link shows is the   *)
(* policy's doing alone (request_password_reset, audit_log_insert).        *)
THEOREM OwnersLinkIsSent == Spec => [](role = "dataprep" => ResetLinkIsSent)
<1> DEFINE J == role = "dataprep" => ResetLinkIsSent
<1>1. Init => J
  <2> SUFFICES ASSUME Init PROVE ResetLinkIsSent
    OBVIOUS
  <2>1. \A r \in Request : txn[r].kind = "login"
    BY DEF Init, Waiting
  <2> QED
    BY <2>1 DEF ResetLinkIsSent
<1>2. IInv /\ J /\ [Next]_vars => J'
  <2> SUFFICES ASSUME IInv, J, [Next]_vars, role' = "dataprep",
                      NEW q \in Request, txn'[q].kind = "forgot"
               PROVE  txn'[q].pc # "error"
    BY DEF ResetLinkIsSent
  <2>1. CASE UNCHANGED vars
    BY <2>1 DEF vars, ResetLinkIsSent
  <2>2. ASSUME NEW r \in Request, Begin(r) PROVE txn'[q].pc # "error"
    <3>1. /\ role' = role
          /\ \E kind \in Kind : \E arg \in Argument(kind) :
               txn' = [txn EXCEPT ![r] = [pc |-> "received", kind |-> kind,
                                          arg |-> arg, seen |-> {}]]
      BY <2>2 DEF Begin
    <3> QED
      BY <3>1 DEF ResetLinkIsSent, IInv, Types
  <2>3. ASSUME NEW r \in Request, Advance(r) \/ Crash(r)
        PROVE  txn'[q].pc # "error"
    <3>1. Proceeds(r)
      BY <2>3, AdvanceProceeds
    <3>2. role = "dataprep" /\ txn[q].kind = "forgot" /\ txn[q].pc # "error"
      BY <3>1 DEF Proceeds, ResetLinkIsSent
    <3>3. CASE q # r
      BY <3>1, <3>2, <3>3 DEF Proceeds
    <3>4. CASE q = r
      <4>1. \E p \in {"unsent", "commit", "done", "challenged", "refused"} :
              Goto(r, p)
        <5>1. CASE Crash(r)
          BY <5>1 DEF Crash
        <5>2. CASE SendMail(r) \/ Commit(r) \/ Refuse(r)
          BY <5>2 DEF SendMail, Commit, Refuse
        <5>3. CASE ForgetUnknown(r) \/ Forget(r)
          BY <3>2, <5>3 DEF ForgetUnknown, Forget, Permitted, Flush
        <5> QED
          BY <2>3, <3>2, <3>4, <5>1, <5>2, <5>3, ForgotSteps
      <4> QED
        BY <3>4, <4>1 DEF Goto, IInv, Types, Txn
    <3> QED
      BY <3>3, <3>4
  <2> QED
    BY <2>1, <2>2, <2>3 DEF Next
<1> HIDE DEF J
<1>3. Spec => []J
  BY <1>1, <1>2, InvariantHolds, PTL DEF Spec
<1> QED
  BY <1>3 DEF J

(* Under the runtime role no link is mailed for a reset, none is presented,*)
(* and a verification writes the password it read.                         *)
NoResets ==
  role = "dataprep_app" =>
    /\ mailed \cap Resets = {}
    /\ \A r \in Request : /\ txn[r].kind # "reset"
                          /\ txn[r].kind = "forgot" => txn[r].pc # "unsent"

VerifyingKeepsPassword ==
  \A r \in Request : txn[r].kind = "verify" /\ User \in Written(r) =>
    writes[r][User].password = table[User].password

LEMMA InitNoResets == Init => NoResets /\ VerifyingKeepsPassword
<1> SUFFICES ASSUME Init PROVE NoResets /\ VerifyingKeepsPassword
  OBVIOUS
<1>1. /\ \A r \in Request : txn[r].kind = "login"
      /\ mailed \subseteq {Verify(0)}
  BY DEF Init, Waiting
<1>2. Verify(0) \notin Resets
  BY RequestsAreMakers, KeySets
<1> QED
  BY <1>1, <1>2 DEF NoResets, VerifyingKeepsPassword

LEMMA NoResetsStep ==
  ASSUME IInv, NoResets, [Next]_vars PROVE NoResets'
<1>1. CASE UNCHANGED vars
  BY <1>1 DEF vars, NoResets
<1>2. ASSUME NEW r \in Request, Begin(r) PROVE NoResets'
  <2>1. PICK kind \in Kind : \E arg \in Argument(kind) :
          txn' = [txn EXCEPT ![r] = [pc |-> "received", kind |-> kind,
                                     arg |-> arg, seen |-> {}]]
    BY <1>2 DEF Begin
  <2>2. UNCHANGED <<role, mailed>> /\ txn \in [Request -> Txn]
        /\ mailed \subseteq Key
    BY <1>2 DEF Begin, IInv, Types
  <2>3. role = "dataprep_app" => kind # "reset"
    BY <2>1, <2>2, LinksAreOfAKind DEF NoResets, Argument
  <2>4. /\ \A q \in Request \ {r} : txn'[q] = txn[q]
        /\ txn'[r].kind = kind /\ txn'[r].pc = "received"
    BY <2>1, <2>2
  <2> QED
    BY <2>2, <2>3, <2>4 DEF NoResets
<1>3. ASSUME NEW r \in Request, Advance(r) \/ Crash(r), role' = "dataprep_app"
      PROVE  /\ mailed' \cap Resets = {}
             /\ \A q \in Request : /\ txn'[q].kind # "reset"
                                   /\ txn'[q].kind = "forgot" =>
                                        txn'[q].pc # "unsent"
  <2>1. Proceeds(r) /\ role = "dataprep_app"
    BY <1>3, AdvanceProceeds DEF Proceeds
  <2>2. /\ mailed \cap Resets = {}
        /\ \A q \in Request : /\ txn[q].kind # "reset"
                              /\ txn[q].kind = "forgot" => txn[q].pc # "unsent"
    BY <2>1 DEF NoResets
  <2>3. mailed' \cap Resets = {}
    <3>1. CASE SendMail(r)
      <4>1. txn[r].pc = "unsent" /\ Fits(txn[r])
        BY <3>1, Facts DEF SendMail, Mine
      <4>2. txn[r].kind = "register"
        BY <2>2, <4>1 DEF Fits
      <4>3. mailed' = mailed \cup {Verify(r)} /\ r \in Maker
        BY <3>1, <4>2, RequestsAreMakers DEF SendMail
      <4> QED
        BY <2>2, <4>3, KeySets
    <3>2. CASE UNCHANGED mailed
      BY <2>2, <3>2
    <3>3. SendMail(r) \/ UNCHANGED mailed
      <4>1. CASE \/ LookUpEmail(r) \/ FindAuthToken(r) \/ FindUser(r)
                 \/ FindVouchedUser(r) \/ FindMethod(r) \/ FindSession(r)
                 \/ DetectReuse(r) \/ FindPending(r) \/ Refuse(r)
        BY <4>1 DEF LookUpEmail, FindAuthToken, FindUser, FindVouchedUser,
           FindMethod, FindSession, DetectReuse, FindPending, Refuse, Read
      <4>2. CASE \/ Register(r) \/ VerifyEmail(r) \/ ForgetUnknown(r)
                 \/ Forget(r) \/ ResetPassword(r) \/ RevokeSessions(r)
                 \/ Provision(r) \/ RaiseReuse(r) \/ Commit(r) \/ Crash(r)
        BY <4>2 DEF Register, VerifyEmail, ForgetUnknown, Forget, ResetPassword,
           RevokeSessions, Provision, CreateAccount, Flush, Error, RaiseReuse,
           Commit, Crash
      <4>3. CASE \/ SignIn(r) \/ SignInWithSecondFactor(r) \/ Rotate(r)
                 \/ Logout(r) \/ RevokeSession(r) \/ StartSetup(r)
                 \/ ConfirmSetup(r) \/ Disable(r)
        BY <4>3 DEF SignIn, SignInWithSecondFactor, Rotate, Logout,
           RevokeSession, StartSetup, ConfirmSetup, Disable, Flush, Error
      <4> QED
        BY <1>3, <4>1, <4>2, <4>3 DEF Advance
    <3> QED
      BY <3>1, <3>2, <3>3
  <2>4. ASSUME txn[r].kind = "forgot" PROVE txn'[r].pc # "unsent"
    <3>1. \E p \in {"commit", "error", "done", "challenged", "refused"} :
            Goto(r, p)
      <4>1. CASE Crash(r)
        BY <4>1 DEF Crash
      <4>2. CASE SendMail(r) \/ Commit(r) \/ Refuse(r)
        BY <4>2 DEF SendMail, Commit, Refuse
      <4>3. CASE ForgetUnknown(r)
        BY <4>3 DEF ForgetUnknown, Flush
      <4>4. CASE Forget(r)
        <5>1. ~ Permitted({"user"}, {})
          BY <2>1 DEF Permitted
        <5> QED
          BY <4>4, <5>1 DEF Forget, Error
      <4> QED
        BY <1>3, <2>4, <4>1, <4>2, <4>3, <4>4, ForgotSteps
    <3> QED
      BY <3>1 DEF Goto, IInv, Types, Txn
  <2> QED
    BY <2>1, <2>2, <2>3, <2>4 DEF Proceeds
<1> QED
  BY <1>1, <1>2, <1>3 DEF Next, NoResets

LEMMA VerifyingStep ==
  ASSUME IInv, VerifyingKeepsPassword, [Next]_vars
  PROVE  VerifyingKeepsPassword'
<1> SUFFICES ASSUME NEW q \in Request, txn'[q].kind = "verify",
                    User \in DOMAIN writes'[q]
             PROVE  writes'[q][User].password = table'[User].password
  BY DEF VerifyingKeepsPassword, Written
<1>1. CASE UNCHANGED vars
  BY <1>1 DEF vars, VerifyingKeepsPassword, Written
<1>2. ASSUME NEW r \in Request, Begin(r)
      PROVE  writes'[q][User].password = table'[User].password
  <2>1. UNCHANGED <<table, writes>> /\ Types
        /\ \E kind \in Kind : \E arg \in Argument(kind) :
             txn' = [txn EXCEPT ![r] = [pc |-> "received", kind |-> kind,
                                        arg |-> arg, seen |-> {}]]
    BY <1>2 DEF Begin, IInv
  <2>2. CASE q = r
    <3>1. txn[r].pc = "waiting" /\ Holds(r, txn[r], writes[r])
      BY <1>2, Facts DEF Begin, Mine
    <3>2. DOMAIN writes[r] = {}
      BY <3>1 DEF Holds
    <3> QED
      BY <2>1, <2>2, <3>2
  <2>3. CASE q # r
    <3>1. txn'[q] = txn[q]
      BY <2>1, <2>3 DEF Types
    <3> QED
      BY <2>1, <3>1 DEF VerifyingKeepsPassword, Written
  <2> QED
    BY <2>2, <2>3
<1>3. ASSUME NEW r \in Request, Commit(r)
      PROVE  writes'[q][User].password = table'[User].password
  <2>1. /\ txn'[r].kind = txn[r].kind /\ DOMAIN writes'[r] = {}
        /\ \A x \in Request \ {r} : txn'[x] = txn[x] /\ writes'[x] = writes[x]
        /\ User \notin Written(r) => table'[User] = table[User]
    BY <1>3, CommitMoves, KeySets
  <2>2. q # r /\ User \in Written(q)
    BY <2>1 DEF Written
  <2>3. User \notin Written(r)
    BY <2>2 DEF IInv, Exclusive
  <2> QED
    BY <2>1, <2>2, <2>3 DEF VerifyingKeepsPassword
<1>4. ASSUME NEW r \in Request, Advance(r) \/ Crash(r), ~ Commit(r)
      PROVE  writes'[q][User].password = table'[User].password
  <2>1. Proceeds(r) /\ UNCHANGED table
    <3>1. CASE Crash(r)
      BY <3>1, AdvanceProceeds DEF Crash
    <3>2. CASE Advance(r)
      BY <1>4, <3>2, AdvanceProceeds, AdvanceKeepsTable
    <3> QED
      BY <1>4, <3>1, <3>2
  <2>2. /\ txn[q].kind = "verify"
        /\ User \in Written(q) =>
             writes[q][User].password = table[User].password
    BY <2>1 DEF Proceeds, VerifyingKeepsPassword
  <2>3. CASE writes'[q] = writes[q]
    BY <2>1, <2>2, <2>3 DEF Written
  <2>4. CASE q # r
    <3>1. writes'[q] = writes[q]
      BY <1>4, <2>4, AdvanceKeepsOthers
    <3> QED
      BY <2>3, <3>1
  <2>5. CASE q = r
    <3>1. CASE Crash(r)
      <4>1. DropWrites(r) /\ Types
        BY <3>1 DEF Crash, IInv
      <4> QED
        BY <2>5, <4>1, DropRows
    <3>2. CASE FindAuthToken(r) \/ Refuse(r)
      BY <2>3, <3>2 DEF FindAuthToken, Refuse, Read
    <3>3. CASE VerifyEmail(r)
      <4> DEFINE u == [table[User] EXCEPT !.verified = TRUE]
                 rows == Over(Consumed(r),
                              Over(Set(User, u),
                                   Set(Audit(r), {"email_verified"})))
      <4>1. /\ Types /\ txn[r].kind = "verify" /\ txn[r].pc = "looked"
            /\ Fits(txn[r]) /\ Found(txn[r], writes[r])
            /\ Write(r, rows)
        BY <3>3, Facts DEF VerifyEmail, Is, Flush, Mine
      <4>2. txn[r].arg \in Verifies /\ table[User] # NoRow
        BY <4>1 DEF Fits, Found
      <4>3. table[User] \in UserRow
        BY <4>1, <4>2, RowsOfTable
      <4>4. u.password = table[User].password
        BY <4>3 DEF UserRow
      <4>5. txn[r].arg # User
        BY <4>2, KeySets
      <4> HIDE DEF u
      <4>6. User \in DOMAIN rows /\ rows[User] = u
        BY <4>5 DEF Consumed, Set, Over
      <4> HIDE DEF rows
      <4>7. writes'[r][User] = u
        BY <4>1, <4>6, WriteRows
      <4> QED
        BY <2>1, <2>5, <4>4, <4>7
    <3> QED
      BY <1>4, <2>2, <2>5, <3>1, <3>2, <3>3, VerifySteps
  <2> QED
    BY <2>4, <2>5
<1> QED
  BY <1>1, <1>2, <1>3, <1>4 DEF Next, Advance

(* Under the runtime role nobody's password is ever replaced, however      *)
(* requests overlap: no reset link exists that could be presented          *)
(* (request_password_reset, reset_password).                               *)
THEOREM NoPasswordIsReset ==
  Spec => [][ role = "dataprep_app" /\ table[User] # NoRow =>
                /\ table'[User] # NoRow
                /\ table'[User].password = table[User].password ]_vars
<1> DEFINE Kept == role = "dataprep_app" /\ table[User] # NoRow =>
                     /\ table'[User] # NoRow
                     /\ table'[User].password = table[User].password
<1>1. ASSUME IInv, NoResets, VerifyingKeepsPassword, [Next]_vars,
             role = "dataprep_app", table[User] # NoRow
      PROVE  /\ table'[User] # NoRow
             /\ table'[User].password = table[User].password
  <2>1. CASE UNCHANGED table
    BY <1>1, <2>1
  <2>2. ASSUME NEW r \in Request, Commit(r)
        PROVE  /\ table'[User] # NoRow
               /\ table'[User].password = table[User].password
    <3>1. table'[User] # NoRow
      BY <1>1, <2>2, RowsStay, KeySets
    <3>2. CASE User \notin Written(r)
      BY <1>1, <2>2, <3>1, <3>2, CommitMoves, KeySets
    <3>3. CASE User \in Written(r)
      <4>1. txn[r].kind \in {"register", "sso", "verify", "reset"}
        BY <1>1, <3>3, WhoWrites
      <4>2. Creates(r, txn[r], writes[r]) /\ Written(r) = DOMAIN writes[r]
        BY <1>1, Facts DEF Mine
      <4>3. txn[r].kind = "verify"
        BY <1>1, <3>3, <4>1, <4>2 DEF Creates, NoResets
      <4>4. table'[User] = writes[r][User]
        BY <1>1, <2>2, <3>3, CommitMoves
      <4> QED
        BY <1>1, <3>1, <3>3, <4>3, <4>4 DEF VerifyingKeepsPassword
    <3> QED
      BY <3>2, <3>3
  <2> QED
    BY <1>1, <2>1, <2>2, OnlyCommitsChange DEF vars
<1>2. IInv /\ NoResets /\ VerifyingKeepsPassword /\ [Next]_vars => [Kept]_vars
  BY <1>1
<1>3. Init => NoResets /\ VerifyingKeepsPassword
  BY InitNoResets
<1>4. /\ IInv /\ NoResets /\ [Next]_vars => NoResets'
      /\ IInv /\ VerifyingKeepsPassword /\ [Next]_vars
           => VerifyingKeepsPassword'
  BY NoResetsStep, VerifyingStep
<1> HIDE DEF Kept
<1>5. Spec => [][Kept]_vars
  BY <1>2, <1>3, <1>4, InvariantHolds, PTL DEF Spec
<1> QED
  BY <1>5 DEF Kept
=============================================================================

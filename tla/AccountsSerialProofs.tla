------------------------ MODULE AccountsSerialProofs ------------------------
(***************************************************************************)
(* Theorems about what Accounts keeps as long as no two requests have      *)
(* overlapped, for any number of requests.                                 *)
(*                                                                         *)
(* Alone, a request still sees at its commit what it read (Fresh), so the  *)
(* rows it leaves follow from it: which token or code is used up (Uses),   *)
(* which session begins or is revoked (Opens), what becomes of the         *)
(* sessions of a password that is replaced (Renews).                       *)
(***************************************************************************)
EXTENDS AccountsProofs

Tokens == Verifies \cup Resets

(* The rows that a request makes exist when it is done.                    *)
Made(r, t) ==
  /\ table[Session(r)] # NoRow => t.pc = "done"
  /\ \A k \in SessionKeys :
       table[k] # NoRow /\ table[k].spent = Code(r) => t.pc = "done"

(* What a request has read is still so.                                    *)
Fresh(t) ==
  /\ t.kind \in {"verify", "reset"} /\ t.pc \in {"looked", "revoking", "commit"} =>
       table[t.arg] = {}
  /\ t.kind = "refresh" /\ t.pc \in {"looked", "commit"} => ~ table[t.arg].revoked
  /\ t.kind = "mfa" /\ t.pc \in {"looked", "commit"} /\ t.arg # NoArg =>
       table[t.arg] = FALSE
  /\ t.kind \in {"setup", "confirm"} /\ t.pc \in {"looked", "commit"} =>
       ~ Active(table[Method])

(* What is good for one use is used up by the transaction that uses it.    *)
Uses(r, t, w) ==
  /\ \A k \in DOMAIN w \cap Tokens : w[k] = {} \/ w[k] = {r}
  /\ t.kind = "refresh" /\ t.pc = "commit" => t.arg \in DOMAIN w
  /\ t.kind = "mfa" /\ t.pc = "commit" /\ t.arg # NoArg =>
       t.arg \in DOMAIN w /\ w[t.arg] = TRUE

(* The session that begins, and those that end.                            *)
Begins(r, t, w) ==
  LET new == w[Session(r)]
      user == IF User \in DOMAIN w THEN w[User] ELSE table[User]
  IN  /\ t.kind \in {"login", "sso", "mfa", "refresh"}
      /\ t.kind \in {"login", "sso"} => ~ Active(table[Method])
      /\ new.from = IF t.kind = "refresh" THEN t.arg ELSE NoRow
      /\ new.spent = IF t.kind = "mfa" /\ t.arg # NoArg THEN t.arg ELSE NoRow
      /\ new.under = user.password

Ends(k, w) ==
  /\ table[k] # NoRow
  /\ w[k].revoked
  /\ w[k].from = table[k].from /\ w[k].spent = table[k].spent
  /\ w[k].under = table[k].under

Opens(r, t, w) ==
  \A k \in DOMAIN w \cap SessionKeys :
    IF k = Session(r) THEN Begins(r, t, w) ELSE Ends(k, w)

(* A password that is replaced takes its sessions with it.                 *)
Renews(t, w) ==
  /\ t.kind = "verify" /\ User \in DOMAIN w =>
       w[User].password = table[User].password
  /\ t.kind = "reset" /\ t.pc \in {"revoking", "commit"} =>
       \A s \in Maker :
         \/ table[Session(s)] = NoRow \/ table[Session(s)].revoked
         \/ t.pc = "revoking" /\ s \in t.seen
         \/ t.pc = "commit" /\ Session(s) \in DOMAIN w

Lone(r, t, w) ==
  /\ Made(r, t)
  /\ Fresh(t)
  /\ Uses(r, t, w)
  /\ Opens(r, t, w)
  /\ Renews(t, w)

(* What is committed.                                                      *)
TokensUsed ==
  \A k \in Tokens :
    table[k] # NoRow => table[k] = {} \/ \E q \in Maker : table[k] = {q}

SessionsFollow ==
  /\ \A s \in SessionKeys :
       table[s] # NoRow /\ table[s].from # NoRow =>
         /\ table[s].from \in SessionKeys
         /\ table[table[s].from] # NoRow /\ table[table[s].from].revoked
  /\ \A s, t \in SessionKeys :
       /\ table[s] # NoRow /\ table[t] # NoRow
       /\ table[s].from = table[t].from /\ table[s].from # NoRow
       => s = t

CodesSpent ==
  /\ \A s \in SessionKeys :
       table[s] # NoRow /\ table[s].spent # NoRow =>
         /\ table[s].spent \in CodeKeys
         /\ table[table[s].spent] \in {NoRow, TRUE}
  /\ \A s, t \in SessionKeys :
       /\ table[s] # NoRow /\ table[t] # NoRow
       /\ table[s].spent = table[t].spent /\ table[s].spent # NoRow
       => s = t

UnderPassword ==
  \A s \in SessionKeys :
    table[s] # NoRow =>
      table[s].revoked \/ table[s].under = table[User].password

Serial ==
  /\ \A q, r \in Request : Busy(q) /\ Busy(r) => q = r
  /\ \A r \in Request : Lone(r, txn[r], writes[r])
  /\ TokensUsed
  /\ SessionsFollow
  /\ CodesSpent
  /\ UnderPassword

SInv == IInv /\ (alone => Serial)

-----------------------------------------------------------------------------
(* Steps that commit nothing.                                              *)

(* What else is committed, and the others, stay.                           *)
LEMMA LoneStays ==
  ASSUME NEW r \in Request, Lone(r, txn[r], writes[r]),
         txn'[r] = txn[r], writes'[r] = writes[r], table' = table
  PROVE  Lone(r, txn[r], writes[r])'
<1>1. Made(r, txn[r])' /\ Fresh(txn[r])'
  BY DEF Lone, Made, Fresh, Active
<1>2. Uses(r, txn[r], writes[r])' /\ Renews(txn[r], writes[r])'
  BY DEF Lone, Uses, Renews
<1>3. Opens(r, txn[r], writes[r])'
  BY DEF Lone, Opens, Begins, Ends, Active
<1> QED
  BY <1>1, <1>2, <1>3 DEF Lone

LEMMA CommittedStays ==
  ASSUME TokensUsed, SessionsFollow, CodesSpent, UnderPassword, table' = table
  PROVE  TokensUsed' /\ SessionsFollow' /\ CodesSpent' /\ UnderPassword'
<1>1. TokensUsed' /\ UnderPassword'
  BY DEF TokensUsed, UnderPassword
<1>2. SessionsFollow' /\ CodesSpent'
  BY DEF SessionsFollow, CodesSpent
<1> QED
  BY <1>1, <1>2

(* Request r alone moves.                                                  *)
AloneMoves(r) ==
  /\ txn' = [txn EXCEPT ![r] = txn'[r]]
  /\ \A q \in Request \ {r} : writes'[q] = writes[q]

(* What is left to show of a step of r that commits nothing.               *)
LEMMA LoneStep ==
  ASSUME SInv, IInv', NEW r \in Request, AloneMoves(r), UNCHANGED table,
         alone' => alone,
         alone' => \A q \in Request \ {r} : ~ Busy(q),
         alone' => Lone(r, txn[r], writes[r])'
  PROVE  SInv'
<1>1. CASE ~ alone'
  BY <1>1 DEF SInv
<1>2. CASE alone'
  <2>1. Serial /\ table' = table /\ txn \in [Request -> Txn]
    BY <1>2 DEF SInv, IInv, Types
  <2>2. \A q \in Request \ {r} : txn'[q] = txn[q] /\ writes'[q] = writes[q]
    BY <2>1 DEF AloneMoves
  <2>3. \A q \in Request : Lone(q, txn[q], writes[q])'
    BY <1>2, <2>1, <2>2, LoneStays DEF Serial
  <2>4. \A q \in Request \ {r} : ~ Busy(q)'
    BY <1>2, <2>2 DEF Busy, Ended
  <2>5. TokensUsed' /\ SessionsFollow' /\ CodesSpent' /\ UnderPassword'
    BY <2>1, CommittedStays DEF Serial
  <2> QED
    BY <2>3, <2>4, <2>5 DEF SInv, Serial
<1> QED
  BY <1>1, <1>2

(* A request under way, alone: nobody else is, and it has made nothing.    *)
LEMMA LoneFacts ==
  ASSUME SInv, NEW r \in Request, Busy(r), alone
  PROVE  /\ IInv /\ Serial /\ Lone(r, txn[r], writes[r])
         /\ \A q \in Request \ {r} : ~ Busy(q)
         /\ txn[r].pc # "done" /\ table[Session(r)] = NoRow
         /\ \A k \in SessionKeys :
              table[k] # NoRow => table[k].spent # Code(r)
<1>1. Serial /\ Lone(r, txn[r], writes[r])
  BY DEF SInv, Serial
<1>2. \A q \in Request \ {r} : ~ Busy(q)
  BY <1>1 DEF Serial
<1>3. txn[r].pc # "done"
  BY DEF Busy, Ended
<1> QED
  BY <1>1, <1>2, <1>3 DEF SInv, Lone, Made

(* A step of a request under way that leaves alone as it is.               *)
LEMMA BusyStep ==
  ASSUME SInv, IInv', NEW r \in Request, Busy(r), AloneMoves(r),
         UNCHANGED <<table, alone>>,
         alone => Lone(r, txn[r], writes[r])'
  PROVE  SInv'
<1>1. alone' = alone /\ table' = table
  OBVIOUS
<1>2. alone => \A q \in Request \ {r} : ~ Busy(q)
  BY LoneFacts
<1> QED
  BY <1>1, <1>2, LoneStep

(* Reads and exceptions: nothing is written.                               *)
LEMMA LoneEmpty ==
  ASSUME NEW r \in Request, table' = table,
         txn'[r].kind = txn[r].kind, txn'[r].arg = txn[r].arg,
         DOMAIN writes'[r] = {},
         txn'[r].pc \notin {"revoking", "commit"},
         table[Session(r)] = NoRow,
         \A k \in SessionKeys : table[k] # NoRow => table[k].spent # Code(r),
         txn'[r].pc = "looked" =>
           /\ txn[r].kind \in {"verify", "reset"} => table[txn[r].arg] = {}
           /\ txn[r].kind = "refresh" => ~ table[txn[r].arg].revoked
           /\ txn[r].kind = "mfa" /\ txn[r].arg # NoArg =>
                table[txn[r].arg] = FALSE
           /\ txn[r].kind \in {"setup", "confirm"} => ~ Active(table[Method])
  PROVE  Lone(r, txn[r], writes[r])'
<1>1. Made(r, txn[r])'
  BY DEF Made
<1>2. Fresh(txn[r])'
  BY DEF Fresh, Active
<1>3. Uses(r, txn[r], writes[r])' /\ Renews(txn[r], writes[r])'
  BY DEF Uses, Renews
<1>4. Opens(r, txn[r], writes[r])'
  BY DEF Opens
<1> QED
  BY <1>1, <1>2, <1>3, <1>4 DEF Lone

-----------------------------------------------------------------------------
(* Commits.                                                                *)

(* What a commit leaves of sessions: the one it begins, and those there    *)
(* were, some of them revoked.                                             *)
LEMMA CommitSessions ==
  ASSUME SInv, alone, NEW r \in Request, Commit(r)
  PROVE  \A k \in SessionKeys : table'[k] # NoRow =>
           IF table[k] = NoRow
             THEN /\ k = Session(r) /\ k \in Written(r)
                  /\ table'[k] = writes[r][k] /\ Begins(r, txn[r], writes[r])
             ELSE /\ k # Session(r)
                  /\ table'[k].from = table[k].from
                  /\ table'[k].spent = table[k].spent
                  /\ table'[k].under = table[k].under
                  /\ table[k].revoked \/ k \in Written(r) => table'[k].revoked
                  /\ k \notin Written(r) => table'[k] = table[k]
<1>1. /\ IInv /\ Opens(r, txn[r], writes[r]) /\ table[Session(r)] = NoRow
      /\ Written(r) = DOMAIN writes[r]
  BY LoneFacts, CommitMoves DEF SInv, Lone, Busy, Ended, Written
<1>2. ASSUME NEW k \in SessionKeys, table'[k] # NoRow, k \in Written(r)
      PROVE  /\ table'[k] = writes[r][k]
             /\ k = Session(r) => Begins(r, txn[r], writes[r])
             /\ k # Session(r) => Ends(k, writes[r])
  BY <1>1, <1>2, CommitMoves DEF Opens
<1>3. ASSUME NEW k \in SessionKeys, table'[k] # NoRow, k \notin Written(r)
      PROVE  table'[k] = table[k]
  BY <1>1, <1>3, CommitMoves, KeySets
<1> QED
  BY <1>1, <1>2, <1>3 DEF Ends

LEMMA CommitTokens ==
  ASSUME SInv, alone, NEW r \in Request, Commit(r) PROVE TokensUsed'
<1>1. /\ IInv /\ Uses(r, txn[r], writes[r]) /\ Serial /\ r \in Maker
      /\ Written(r) = DOMAIN writes[r]
  BY LoneFacts, CommitMoves, RequestsAreMakers
     DEF SInv, Lone, Busy, Ended, Written
<1>2. ASSUME NEW k \in Tokens, k \in Written(r)
      PROVE  table'[k] = {} \/ table'[k] = {r}
  BY <1>1, <1>2, CommitMoves DEF Uses
<1>3. ASSUME NEW k \in Tokens, k \notin Written(r)
      PROVE  table'[k] = table[k]
  BY <1>1, <1>3, CommitMoves, KeySets DEF Tokens
<1> QED
  BY <1>1, <1>2, <1>3 DEF Serial, TokensUsed

LEMMA CommitFollows ==
  ASSUME SInv, alone, NEW r \in Request, Commit(r) PROVE SessionsFollow'
<1>1. /\ IInv /\ Serial /\ Lone(r, txn[r], writes[r]) /\ Fits(txn[r])
      /\ Found(txn[r], writes[r])
      /\ txn[r].pc \in {"commit", "challenge"}
      /\ Written(r) = DOMAIN writes[r] /\ SessionsFollow
  BY LoneFacts, CommitMoves, Facts DEF SInv, Mine, Busy, Ended, Serial
<1>2. \A k \in SessionKeys : table[k] # NoRow => table'[k] # NoRow
  BY <1>1, RowsStay, KeySets
<1>3. ASSUME NEW s \in SessionKeys, table[s] = NoRow, table'[s] # NoRow,
             table'[s].from # NoRow
      PROVE  /\ table'[s].from = txn[r].arg /\ txn[r].arg \in SessionKeys
             /\ table[txn[r].arg] # NoRow /\ ~ table[txn[r].arg].revoked
             /\ txn[r].arg \in Written(r)
  <2>1. Begins(r, txn[r], writes[r]) /\ s = Session(r) /\ table'[s] = writes[r][s]
    BY <1>3, CommitSessions
  <2>2. txn[r].kind = "refresh" /\ table'[s].from = txn[r].arg
    BY <1>3, <2>1 DEF Begins
  <2>3. txn[r].pc = "commit"
    BY <1>1, <2>2 DEF Fits
  <2> QED
    BY <1>1, <2>2, <2>3 DEF Lone, Fits, Found, Fresh, Uses
<1>4. ASSUME NEW s \in SessionKeys, table'[s] # NoRow, table'[s].from # NoRow
      PROVE  /\ table'[s].from \in SessionKeys
             /\ table'[table'[s].from] # NoRow /\ table'[table'[s].from].revoked
  <2>1. CASE table[s] = NoRow
    BY <1>2, <1>3, <1>4, <2>1, CommitSessions
  <2>2. CASE table[s] # NoRow
    <3>1. table'[s].from = table[s].from
      BY <1>4, <2>2, CommitSessions
    <3>2. /\ table[s].from \in SessionKeys
          /\ table[table[s].from] # NoRow /\ table[table[s].from].revoked
      BY <1>1, <1>4, <2>2, <3>1 DEF SessionsFollow
    <3> QED
      BY <1>2, <3>1, <3>2, CommitSessions
  <2> QED
    BY <2>1, <2>2
<1>5. ASSUME NEW s \in SessionKeys, NEW t \in SessionKeys,
             table'[s] # NoRow, table'[t] # NoRow,
             table'[s].from = table'[t].from, table'[s].from # NoRow
      PROVE  s = t
  <2>1. CASE table[s] = NoRow /\ table[t] = NoRow
    BY <1>5, <2>1, CommitSessions
  <2>2. CASE table[s] # NoRow /\ table[t] # NoRow
    BY <1>1, <1>5, <2>2, CommitSessions DEF SessionsFollow
  <2>3. CASE table[s] = NoRow /\ table[t] # NoRow
    <3>1. /\ table'[s].from = txn[r].arg /\ ~ table[txn[r].arg].revoked
      BY <1>3, <1>5, <2>3
    <3>2. table[t].from = txn[r].arg /\ table[t].from # NoRow
      BY <1>5, <2>3, <3>1, CommitSessions
    <3> QED
      BY <1>1, <2>3, <3>1, <3>2 DEF SessionsFollow
  <2>4. CASE table[s] # NoRow /\ table[t] = NoRow
    <3>1. /\ table'[t].from = txn[r].arg /\ ~ table[txn[r].arg].revoked
      BY <1>3, <1>5, <2>4
    <3>2. table[s].from = txn[r].arg /\ table[s].from # NoRow
      BY <1>5, <2>4, <3>1, CommitSessions
    <3> QED
      BY <1>1, <2>4, <3>1, <3>2 DEF SessionsFollow
  <2> QED
    BY <2>1, <2>2, <2>3, <2>4
<1> QED
  BY <1>4, <1>5 DEF SessionsFollow

(* The code a new session has cost was unspent.                            *)
LEMMA CommitCost ==
  ASSUME SInv, alone, NEW r \in Request, Commit(r), NEW s \in SessionKeys,
         table[s] = NoRow, table'[s] # NoRow, table'[s].spent # NoRow
  PROVE  /\ table'[s].spent = txn[r].arg /\ txn[r].arg \in CodeKeys
         /\ table[txn[r].arg] = FALSE /\ table'[txn[r].arg] = TRUE
<1>1. /\ IInv /\ Lone(r, txn[r], writes[r]) /\ Fits(txn[r])
      /\ txn[r].pc \in {"commit", "challenge"} /\ Written(r) = DOMAIN writes[r]
  BY LoneFacts, CommitMoves, Facts DEF SInv, Mine, Busy, Ended
<1>2. Begins(r, txn[r], writes[r]) /\ s = Session(r) /\ table'[s] = writes[r][s]
  BY CommitSessions
<1>3. /\ txn[r].kind = "mfa" /\ txn[r].arg # NoArg
      /\ table'[s].spent = txn[r].arg
  BY <1>2 DEF Begins
<1>4. txn[r].pc = "commit" /\ txn[r].arg \in CodeKeys
  BY <1>1, <1>3 DEF Fits
<1>5. /\ table[txn[r].arg] = FALSE /\ txn[r].arg \in Written(r)
      /\ writes[r][txn[r].arg] = TRUE
  BY <1>1, <1>3, <1>4 DEF Lone, Fresh, Uses
<1> QED
  BY <1>1, <1>3, <1>4, <1>5, CommitMoves

LEMMA CommitSpent ==
  ASSUME SInv, alone, NEW r \in Request, Commit(r) PROVE CodesSpent'
<1>1. /\ IInv /\ Lone(r, txn[r], writes[r]) /\ CodesSpent /\ r \in Maker
      /\ Mine(r, txn[r], writes[r]) /\ Written(r) = DOMAIN writes[r]
      /\ txn[r].pc \in {"commit", "challenge"}
      /\ \A k \in SessionKeys : table[k] # NoRow => table[k].spent # Code(r)
  BY LoneFacts, CommitMoves, Facts DEF SInv, Busy, Ended, Serial
<1>2. NoRow # FALSE /\ TRUE # FALSE
  BY NoRowIsNoRow
<1>3. ASSUME NEW s \in SessionKeys, table'[s] # NoRow, table'[s].spent # NoRow
      PROVE  /\ table'[s].spent \in CodeKeys
             /\ table'[table'[s].spent] \in {NoRow, TRUE}
  <2>1. CASE table[s] = NoRow
    BY <1>3, <2>1, CommitCost
  <2>2. CASE table[s] # NoRow
    <3> DEFINE k == table[s].spent
    <3>1. table'[s].spent = k /\ k # NoRow
      BY <1>3, <2>2, CommitSessions
    <3>2. k \in CodeKeys /\ table[k] \in {NoRow, TRUE} /\ k # Code(r) /\ k \in Key
      BY <1>1, <2>2, <3>1, KeySets DEF CodesSpent
    <3> HIDE DEF k
    <3>3. CASE k \notin Written(r)
      BY <1>1, <3>1, <3>2, <3>3, CommitMoves
    <3>4. CASE k \in Written(r)
      <4>1. txn[r].kind \in {"mfa", "confirm"}
        BY <1>1, <3>2, <3>4, WhoWrites
      <4>2. CASE txn[r].kind = "mfa"
        <5>1. k = txn[r].arg
          BY <1>1, <3>2, <3>4, <4>2, KeySets DEF Mine, Holds
        <5>2. txn[r].pc = "commit" /\ txn[r].arg # NoArg
          BY <1>1, <3>2, <4>2, <5>1, KeysDiffer DEF Mine, Fits
        <5>3. writes[r][k] = TRUE
          BY <1>1, <4>2, <5>1, <5>2 DEF Lone, Uses
        <5> QED
          BY <1>1, <3>1, <3>2, <3>4, <5>3, CommitMoves
      <4>3. CASE txn[r].kind = "confirm"
        <5>1. PICK c \in Maker : k = Code(c)
          BY <3>2 DEF CodeKeys
        <5>2. txn[r].pc = "commit" /\ c # r
          BY <1>1, <3>2, <4>3, <5>1 DEF Mine, Fits
        <5>3. writes[r][k] = NoRow
          BY <1>1, <3>4, <4>3, <5>1, <5>2 DEF Mine, Recovers
        <5> QED
          BY <1>1, <3>1, <3>2, <3>4, <5>3, CommitMoves
      <4> QED
        BY <4>1, <4>2, <4>3
    <3> QED
      BY <3>3, <3>4
  <2> QED
    BY <2>1, <2>2
<1>4. ASSUME NEW s \in SessionKeys, NEW t \in SessionKeys,
             table'[s] # NoRow, table'[t] # NoRow,
             table'[s].spent = table'[t].spent, table'[s].spent # NoRow
      PROVE  s = t
  <2>1. CASE table[s] = NoRow /\ table[t] = NoRow
    BY <1>4, <2>1, CommitSessions
  <2>2. CASE table[s] # NoRow /\ table[t] # NoRow
    BY <1>1, <1>4, <2>2, CommitSessions DEF CodesSpent
  <2>3. CASE table[s] = NoRow /\ table[t] # NoRow
    <3>1. table'[s].spent = txn[r].arg /\ table[txn[r].arg] = FALSE
      BY <1>4, <2>3, CommitCost
    <3>2. table[t].spent = txn[r].arg /\ table[t].spent # NoRow
      BY <1>4, <2>3, <3>1, CommitSessions
    <3> QED
      BY <1>1, <1>2, <2>3, <3>1, <3>2 DEF CodesSpent
  <2>4. CASE table[s] # NoRow /\ table[t] = NoRow
    <3>1. table'[t].spent = txn[r].arg /\ table[txn[r].arg] = FALSE
      BY <1>4, <2>4, CommitCost
    <3>2. table[s].spent = txn[r].arg /\ table[s].spent # NoRow
      BY <1>4, <2>4, <3>1, CommitSessions
    <3> QED
      BY <1>1, <1>2, <2>4, <3>1, <3>2 DEF CodesSpent
  <2> QED
    BY <2>1, <2>2, <2>3, <2>4
<1> QED
  BY <1>3, <1>4 DEF CodesSpent

LEMMA CommitPassword ==
  ASSUME SInv, alone, NEW r \in Request, Commit(r) PROVE UnderPassword'
<1>1. /\ IInv /\ Lone(r, txn[r], writes[r]) /\ UnderPassword /\ r \in Maker
      /\ Mine(r, txn[r], writes[r]) /\ Written(r) = DOMAIN writes[r]
      /\ txn[r].pc \in {"commit", "challenge"} /\ Committed /\ User \in Key
  BY LoneFacts, CommitMoves, Facts, KeySets DEF SInv, Busy, Ended, Serial
<1> DEFINE user == IF User \in Written(r) THEN writes[r][User] ELSE table[User]
<1>2. table'[User] = user
  BY <1>1, CommitMoves
<1>3. ASSUME NEW s \in SessionKeys, table[s] = NoRow, table'[s] # NoRow
      PROVE  table'[s].under = user.password
  BY <1>1, <1>3, CommitSessions DEF Begins
<1>4. ASSUME NEW s \in SessionKeys, table[s] # NoRow, table'[s] # NoRow,
             ~ table'[s].revoked
      PROVE  table'[s].under = user.password
  <2>1. /\ table'[s].under = table[s].under /\ s \notin Written(r)
        /\ ~ table[s].revoked
    BY <1>4, CommitSessions
  <2>2. table[s].under = table[User].password /\ table[User] # NoRow
    BY <1>1, <1>4, <2>1 DEF UnderPassword, Committed
  <2>3. CASE User \notin Written(r)
    BY <2>1, <2>2, <2>3
  <2>4. CASE User \in Written(r)
    <3>1. txn[r].kind \in {"register", "sso", "verify", "reset"}
      BY <1>1, <2>4, WhoWrites
    <3>2. txn[r].kind \notin {"register", "sso"}
      BY <1>1, <2>2, <2>4 DEF Mine, Creates
    <3>3. txn[r].kind # "reset"
      <4>1. SUFFICES ASSUME txn[r].kind = "reset" PROVE FALSE
        OBVIOUS
      <4>2. PICK c \in Maker : s = Session(c)
        BY DEF SessionKeys
      <4>3. txn[r].pc = "commit"
        BY <1>1, <4>1 DEF Mine, Fits
      <4> QED
        BY <1>1, <1>4, <2>1, <4>1, <4>2, <4>3 DEF Lone, Renews
    <3>4. writes[r][User].password = table[User].password
      BY <1>1, <2>4, <3>1, <3>2, <3>3 DEF Lone, Renews
    <3> QED
      BY <2>1, <2>2, <2>4, <3>4
  <2> QED
    BY <2>3, <2>4
<1> HIDE DEF user
<1> QED
  BY <1>2, <1>3, <1>4 DEF UnderPassword

LEMMA CommitLone ==
  ASSUME SInv, alone, NEW r \in Request, Commit(r), NEW q \in Request
  PROVE  Lone(q, txn[q], writes[q])'
<1>1. /\ IInv /\ Lone(q, txn[q], writes[q]) /\ q \in Maker /\ r \in Maker
      /\ Mine(q, txn[q], writes[q]) /\ Mine(r, txn[r], writes[r])
      /\ txn[r].pc \in {"commit", "challenge"}
      /\ Written(r) = DOMAIN writes[r] /\ Written(q) = DOMAIN writes[q]
      /\ Session(q) \in SessionKeys
  BY LoneFacts, CommitMoves, Facts, KeySets DEF SInv, Serial
<1>2. CASE q = r
  <2>1. /\ DOMAIN writes'[q] = {} /\ txn'[q].kind = txn[q].kind
        /\ txn'[q].pc = IF txn[q].pc = "commit" THEN "done" ELSE "challenged"
    BY <1>1, <1>2, CommitMoves
  <2>2. Made(q, txn[q])'
    <3>1. SUFFICES ASSUME txn[q].pc = "challenge"
                   PROVE  /\ table'[Session(q)] = NoRow
                          /\ \A k \in SessionKeys :
                               table'[k] # NoRow => table'[k].spent # Code(q)
      BY <1>1, <1>2, <2>1 DEF Made
    <3>2. Session(q) \notin Written(q) /\ table[Session(q)] = NoRow
      BY <1>1, <1>2, <3>1 DEF Mine, Fits, Holds, Lone, Made
    <3>3. \A k \in SessionKeys : table[k] # NoRow => table[k].spent # Code(q)
      BY <1>1, <3>1 DEF Lone, Made
    <3> QED
      BY <1>1, <1>2, <3>2, <3>3, CommitSessions
  <2>3. Fresh(txn[q])'
    BY <2>1 DEF Fresh
  <2>4. Uses(q, txn[q], writes[q])' /\ Renews(txn[q], writes[q])'
    BY <2>1 DEF Uses, Renews
  <2>5. Opens(q, txn[q], writes[q])'
    BY <2>1 DEF Opens
  <2> QED
    BY <2>2, <2>3, <2>4, <2>5 DEF Lone
<1>3. CASE q # r
  <2>1. txn'[q] = txn[q] /\ writes'[q] = writes[q]
    BY <1>1, <1>3, CommitMoves
  <2>2. ~ Busy(q)
    BY <1>1, <1>3 DEF SInv, Serial, Busy, Ended
  <2>3. txn[q].pc \in {"waiting", "done", "challenged", "refused", "error"}
    BY <2>2 DEF Busy, Ended
  <2>4. DOMAIN writes[q] = {}
    BY <1>1, <2>3 DEF Mine, Holds
  <2>5. Made(q, txn[q])'
    <3>1. table'[Session(q)] # NoRow => table[Session(q)] # NoRow
      BY <1>1, <1>3, CommitSessions, KeysAreOne
    <3>2. ASSUME NEW k \in SessionKeys, table'[k] # NoRow,
                 table'[k].spent = Code(q)
          PROVE  txn[q].pc = "done"
      <4>1. CASE table[k] # NoRow
        BY <1>1, <3>2, <4>1, CommitSessions DEF Lone, Made
      <4>2. CASE table[k] = NoRow
        <5>1. Code(q) # NoRow
          BY <1>1, NoRowIsNoRow, KeySets
        <5>2. table[Code(q)] = FALSE
          BY <3>2, <4>2, <5>1, CommitCost
        <5> QED
          BY <1>1, <5>2, NoRowIsNoRow DEF Mine, Recovers
      <4> QED
        BY <4>1, <4>2
    <3> QED
      BY <1>1, <2>1, <3>1, <3>2 DEF Lone, Made
  <2>6. Fresh(txn[q])'
    BY <2>1, <2>3 DEF Fresh
  <2>7. Uses(q, txn[q], writes[q])' /\ Renews(txn[q], writes[q])'
    BY <2>1, <2>3, <2>4 DEF Uses, Renews
  <2>8. Opens(q, txn[q], writes[q])'
    BY <2>1, <2>4 DEF Opens
  <2> QED
    BY <2>5, <2>6, <2>7, <2>8 DEF Lone
<1> QED
  BY <1>2, <1>3

LEMMA LoneCommit ==
  ASSUME SInv, IInv', NEW r \in Request, Commit(r) PROVE SInv'
<1>1. alone' = alone
  BY DEF Commit
<1>2. CASE ~ alone
  BY <1>1, <1>2 DEF SInv
<1>3. CASE alone
  <2>1. /\ TokensUsed' /\ SessionsFollow' /\ CodesSpent' /\ UnderPassword'
    BY <1>3, CommitTokens, CommitFollows, CommitSpent, CommitPassword
  <2>2. \A q \in Request : Lone(q, txn[q], writes[q])'
    BY <1>3, CommitLone
  <2>3. /\ \A q \in Request \ {r} : txn'[q] = txn[q]
        /\ txn'[r].pc \in {"done", "challenged"} /\ Busy(r)
        /\ \A q \in Request \ {r} : ~ Busy(q)
    BY <1>3, CommitMoves DEF SInv, Serial, Busy, Ended
  <2>4. \A q \in Request : ~ Busy(q)'
    BY <2>3 DEF Busy, Ended
  <2> QED
    BY <2>1, <2>2, <2>4 DEF SInv, Serial
<1> QED
  BY <1>2, <1>3

-----------------------------------------------------------------------------
(* Requests begin, read and fail.                                          *)

LEMMA LoneBegin ==
  ASSUME SInv, IInv', NEW r \in Request, Begin(r) PROVE SInv'
<1>1. /\ IInv /\ Mine(r, txn[r], writes[r]) /\ txn \in [Request -> Txn]
      /\ txn[r].pc = "waiting" /\ UNCHANGED <<table, writes>>
      /\ alone' = (alone /\ \A q \in Request : ~ Busy(q))
  BY Facts DEF SInv, Begin, Types
<1>2. DOMAIN writes'[r] = {}
  BY <1>1 DEF Mine, Holds
<1>3. /\ txn' = [txn EXCEPT ![r] = txn'[r]] /\ txn'[r].pc = "received"
  BY <1>1 DEF Begin
<1>4. AloneMoves(r)
  BY <1>1, <1>3 DEF AloneMoves
<1>5. ASSUME alone' PROVE Lone(r, txn[r], writes[r])'
  <2>1. Made(r, txn[r])
    BY <1>1, <1>5 DEF SInv, Serial, Lone
  <2>2. table' = table
    BY <1>1
  <2>3. Made(r, txn[r])'
    BY <1>1, <2>1, <2>2 DEF Made
  <2>4. Fresh(txn[r])'
    BY <1>3 DEF Fresh
  <2>5. Uses(r, txn[r], writes[r])' /\ Renews(txn[r], writes[r])'
    BY <1>2, <1>3 DEF Uses, Renews
  <2>6. Opens(r, txn[r], writes[r])'
    BY <1>2 DEF Opens
  <2> QED
    BY <2>3, <2>4, <2>5, <2>6 DEF Lone
<1>6. /\ alone' => alone
      /\ alone' => \A q \in Request \ {r} : ~ Busy(q)
  BY <1>1
<1> QED
  BY <1>1, <1>4, <1>5, <1>6, LoneStep

(* Nothing is written before or after, and what was read is right.         *)
LEMMA LoneNothing ==
  ASSUME SInv, IInv', NEW r \in Request, Busy(r), AloneMoves(r),
         UNCHANGED <<table, alone>>, DOMAIN writes'[r] = {},
         txn'[r].kind = txn[r].kind, txn'[r].arg = txn[r].arg,
         txn'[r].pc \notin {"revoking", "commit"},
         txn'[r].pc = "looked" =>
           /\ txn[r].kind \in {"verify", "reset"} => table[txn[r].arg] = {}
           /\ txn[r].kind = "refresh" => ~ table[txn[r].arg].revoked
           /\ txn[r].kind = "mfa" /\ txn[r].arg # NoArg =>
                table[txn[r].arg] = FALSE
           /\ txn[r].kind \in {"setup", "confirm"} => ~ Active(table[Method])
  PROVE  SInv'
<1>1. table' = table
  OBVIOUS
<1>2. ASSUME alone PROVE Lone(r, txn[r], writes[r])'
  <2>1. /\ table[Session(r)] = NoRow
        /\ \A k \in SessionKeys : table[k] # NoRow => table[k].spent # Code(r)
    BY <1>2, LoneFacts
  <2> QED
    BY <1>1, <2>1, LoneEmpty
<1> QED
  BY <1>2, BusyStep

LEMMA LoneRead ==
  ASSUME SInv, IInv', NEW r \in Request, txn[r].pc = "received", Read,
         NEW p \in Place \ {"revoking", "commit"}, Goto(r, p),
         p = "looked" =>
           /\ txn[r].kind \in {"verify", "reset"} => table[txn[r].arg] = {}
           /\ txn[r].kind = "refresh" => ~ table[txn[r].arg].revoked
           /\ txn[r].kind = "mfa" /\ txn[r].arg # NoArg =>
                table[txn[r].arg] = FALSE
           /\ txn[r].kind \notin {"setup", "confirm"}
  PROVE  SInv'
<1>1. IInv /\ Types /\ Busy(r) /\ Written(r) = {}
  BY EmptyHanded DEF SInv, IInv
<1>2. /\ txn' = [txn EXCEPT ![r] = txn'[r]] /\ txn'[r].pc = p
      /\ txn'[r].kind = txn[r].kind /\ txn'[r].arg = txn[r].arg
  BY <1>1, GotoPlace
<1>3. writes' = writes /\ DOMAIN writes'[r] = {} /\ UNCHANGED <<table, alone>>
  BY <1>1 DEF Read, Written
<1>4. AloneMoves(r)
  BY <1>2, <1>3 DEF AloneMoves
<1> QED
  BY <1>1, <1>2, <1>3, <1>4, LoneNothing

LEMMA LoneReads ==
  ASSUME SInv, IInv', NEW r \in Request,
         \/ LookUpEmail(r) \/ FindAuthToken(r) \/ FindUser(r)
         \/ FindVouchedUser(r) \/ FindMethod(r) \/ FindSession(r) \/ Refuse(r)
  PROVE  SInv'
<1>1. txn[r].pc = "received" => \A k : Seen(r, k) = table[k]
  BY EmptyHanded, SeesCommitted DEF SInv
<1>2. {"unknown", "looked", "refused"} \subseteq Place \ {"revoking", "commit"}
  BY DEF Place
<1>3. CASE LookUpEmail(r)
  BY <1>2, <1>3, LoneRead DEF LookUpEmail, Is
<1>4. CASE FindAuthToken(r)
  <2>1. /\ txn[r].pc = "received" /\ txn[r].kind \in {"verify", "reset"}
        /\ table[txn[r].arg] = {} /\ Goto(r, "looked") /\ Read
    BY <1>1, <1>4 DEF FindAuthToken
  <2> QED
    BY <1>2, <2>1, LoneRead
<1>5. CASE FindUser(r)
  BY <1>2, <1>5, LoneRead DEF FindUser, Is
<1>6. CASE FindVouchedUser(r)
  <2> DEFINE p == IF Seen(r, User) = NoRow THEN "unknown" ELSE "looked"
  <2>1. /\ txn[r].pc = "received" /\ txn[r].kind = "sso" /\ Goto(r, p) /\ Read
    BY <1>6 DEF FindVouchedUser, Is
  <2>2. p \in Place \ {"revoking", "commit"}
    BY <1>2
  <2> HIDE DEF p
  <2> QED
    BY <2>1, <2>2, LoneRead
<1>7. CASE FindMethod(r)
  <2>1. /\ txn[r].pc = "received" /\ txn[r].kind = "mfa"
        /\ txn[r].arg # NoArg => table[txn[r].arg] = FALSE
        /\ Goto(r, "looked") /\ Read
    BY <1>1, <1>7 DEF FindMethod, Is, UnspentCode
  <2> QED
    BY <1>2, <2>1, LoneRead
<1>8. CASE FindSession(r)
  <2>1. /\ txn[r].pc = "received" /\ txn[r].kind = "refresh"
        /\ ~ table[txn[r].arg].revoked /\ Goto(r, "looked") /\ Read
    BY <1>1, <1>8 DEF FindSession, Is
  <2> QED
    BY <1>2, <2>1, LoneRead
<1>9. CASE Refuse(r)
  BY <1>2, <1>9, LoneRead DEF Refuse
<1> QED
  BY <1>3, <1>4, <1>5, <1>6, <1>7, <1>8, <1>9

LEMMA LoneRemembers ==
  ASSUME SInv, IInv', NEW r \in Request, DetectReuse(r) \/ FindPending(r)
  PROVE  SInv'
<1>1. /\ IInv /\ Types /\ Busy(r) /\ Written(r) = {} /\ Read
      /\ txn[r].pc = "received" /\ \A k : Seen(r, k) = table[k]
  BY EmptyHanded, SeesCommitted DEF SInv, IInv, DetectReuse, FindPending, Is
<1>2. writes' = writes /\ DOMAIN writes'[r] = {} /\ UNCHANGED <<table, alone>>
  BY <1>1 DEF Read, Written
<1>3. CASE DetectReuse(r)
  <2>1. Remember(r, "reuse", SessionsToRevoke) /\ "reuse" \in Place
    BY <1>3 DEF DetectReuse, Place
  <2>2. /\ txn' = [txn EXCEPT ![r] = txn'[r]] /\ txn'[r].pc = "reuse"
        /\ txn'[r].kind = txn[r].kind /\ txn'[r].arg = txn[r].arg
    BY <1>1, <2>1, SessionsAreMakers, RememberPlace
  <2>3. AloneMoves(r)
    BY <1>2, <2>2 DEF AloneMoves
  <2> QED
    BY <1>1, <1>2, <2>2, <2>3, LoneNothing
<1>4. CASE FindPending(r)
  <2> DEFINE seen == IF table[Method] = NoRow THEN {} ELSE {table[Method].id}
  <2>1. /\ Remember(r, "looked", seen) /\ "looked" \in Place
        /\ txn[r].kind \in {"setup", "confirm", "disable"}
        /\ txn[r].kind \in {"setup", "confirm"} => ~ Active(table[Method])
    BY <1>1, <1>4 DEF FindPending, Is, Place
  <2>2. seen \in SUBSET Maker
    BY <1>1, KeySets DEF Types, IsRow, MethodRow
  <2>3. /\ txn' = [txn EXCEPT ![r] = txn'[r]] /\ txn'[r].pc = "looked"
        /\ txn'[r].kind = txn[r].kind /\ txn'[r].arg = txn[r].arg
    BY <1>1, <2>1, <2>2, RememberPlace
  <2>4. AloneMoves(r)
    BY <1>2, <2>3 DEF AloneMoves
  <2> QED
    BY <1>1, <1>2, <2>1, <2>3, <2>4, LoneNothing
<1> QED
  BY <1>3, <1>4

LEMMA LoneDrop ==
  ASSUME SInv, IInv', NEW r \in Request, NEW p \in {"refused", "error"},
         Busy(r), DropWrites(r), Goto(r, p), UNCHANGED <<table, alone>>
  PROVE  SInv'
<1>1. IInv /\ Types /\ p \in Place
  BY DEF SInv, IInv, Place
<1>2. /\ txn' = [txn EXCEPT ![r] = txn'[r]] /\ txn'[r].pc = p
      /\ txn'[r].kind = txn[r].kind /\ txn'[r].arg = txn[r].arg
  BY <1>1, GotoPlace
<1>3. /\ \A q \in Request \ {r} : writes'[q] = writes[q]
      /\ DOMAIN writes'[r] = {}
  BY <1>1, DropRows
<1>4. AloneMoves(r)
  BY <1>2, <1>3 DEF AloneMoves
<1> QED
  BY <1>2, <1>3, <1>4, LoneNothing

LEMMA LoneError ==
  ASSUME SInv, IInv', NEW r \in Request, Busy(r), Error(r) PROVE SInv'
BY LoneDrop DEF Error

LEMMA LoneFails ==
  ASSUME SInv, IInv', NEW r \in Request, Crash(r) \/ RaiseReuse(r) PROVE SInv'
BY LoneDrop DEF Crash, RaiseReuse, Busy, Ended

-----------------------------------------------------------------------------
(* Requests write.                                                         *)

Wrote(r, rows, p) ==
  /\ AloneMoves(r) /\ UNCHANGED <<table, alone>>
  /\ txn'[r].pc = p /\ txn'[r].kind = txn[r].kind /\ txn'[r].arg = txn[r].arg
  /\ DOMAIN writes'[r] = DOMAIN rows \cup Written(r)
  /\ \A k \in DOMAIN rows : writes'[r][k] = rows[k]
  /\ \A k \in Written(r) \ DOMAIN rows : writes'[r][k] = writes[r][k]

LEMMA FlushWrote ==
  ASSUME IInv, NEW r \in Request, NEW rows, NEW p \in Place, Flush(r, rows, p)
  PROVE  Wrote(r, rows, p)
<1>1. /\ Types /\ Goto(r, p) /\ Write(r, rows) /\ UNCHANGED <<table, alone>>
  BY DEF IInv, Flush
<1>2. /\ txn' = [txn EXCEPT ![r] = txn'[r]] /\ txn'[r].pc = p
      /\ txn'[r].kind = txn[r].kind /\ txn'[r].arg = txn[r].arg
  BY <1>1, GotoPlace
<1>3. /\ \A q \in Request \ {r} : writes'[q] = writes[q]
      /\ DOMAIN writes'[r] = DOMAIN rows \cup Written(r)
      /\ \A k \in DOMAIN rows : writes'[r][k] = rows[k]
      /\ \A k \in Written(r) \ DOMAIN rows : writes'[r][k] = writes[r][k]
  BY <1>1, WriteRows
<1> QED
  BY <1>1, <1>2, <1>3 DEF Wrote, AloneMoves

LEMMA MadeStays ==
  ASSUME SInv, alone, NEW r \in Request, Busy(r), table' = table
  PROVE  Made(r, txn[r])'
<1>1. /\ table[Session(r)] = NoRow
      /\ \A k \in SessionKeys : table[k] # NoRow => table[k].spent # Code(r)
  BY LoneFacts
<1> QED
  BY <1>1 DEF Made

(* Writes that use nothing up and touch no session.                        *)
LEMMA LoneQuiet ==
  ASSUME SInv, IInv', NEW r \in Request, Busy(r), NEW rows, NEW p \in Place,
         Flush(r, rows, p),
         txn[r].kind \in {"register", "forgot", "login", "sso", "setup",
                          "confirm", "disable"},
         Written(r) \cap (Tokens \cup SessionKeys) = {},
         DOMAIN rows \cap SessionKeys = {},
         \A k \in DOMAIN rows \cap Tokens : rows[k] = {},
         alone /\ txn[r].kind \in {"setup", "confirm"} => ~ Active(table[Method])
  PROVE  SInv'
<1>1. IInv /\ Wrote(r, rows, p)
  BY FlushWrote DEF SInv
<1>2. /\ AloneMoves(r) /\ UNCHANGED <<table, alone>> /\ table' = table
      /\ txn'[r].kind = txn[r].kind
      /\ DOMAIN writes'[r] = DOMAIN rows \cup Written(r)
      /\ \A k \in DOMAIN rows : writes'[r][k] = rows[k]
  BY <1>1 DEF Wrote
<1>3. ASSUME alone PROVE Lone(r, txn[r], writes[r])'
  <2>1. Made(r, txn[r])'
    BY <1>2, <1>3, MadeStays
  <2>2. Fresh(txn[r])'
    BY <1>2, <1>3 DEF Fresh, Active
  <2>3. \A k \in DOMAIN writes'[r] \cap Tokens : writes'[r][k] = {}
    BY <1>2
  <2>4. Uses(r, txn[r], writes[r])'
    BY <1>2, <2>3 DEF Uses
  <2>5. DOMAIN writes'[r] \cap SessionKeys = {}
    BY <1>2
  <2>6. Opens(r, txn[r], writes[r])'
    BY <2>5 DEF Opens
  <2>7. Renews(txn[r], writes[r])'
    BY <1>2 DEF Renews
  <2> QED
    BY <2>1, <2>2, <2>4, <2>6, <2>7 DEF Lone
<1> QED
  BY <1>2, <1>3, BusyStep

LEMMA LoneRegister ==
  ASSUME SInv, IInv', NEW r \in Request, Register(r) PROVE SInv'
<1> DEFINE u == [password |-> r, verified |-> FALSE]
           account == Over(Set(User, u),
                           Over(Set(Verify(r), {}), Set(Audit(r), {"register"})))
           rows == Over(Set(Workspace(r), "row"), account)
<1>1. /\ txn[r].kind = "register" /\ Written(r) = {} /\ Busy(r) /\ r \in Maker
      /\ CreateAccount(r, account, "unsent") /\ "unsent" \in Place
  BY EmptyHanded, RequestsAreMakers DEF SInv, Register, Is, Place
<1>2. CASE Error(r)
  BY <1>1, <1>2, LoneError
<1>3. CASE Flush(r, rows, "unsent")
  <2> HIDE DEF u
  <2>1. DOMAIN rows = {Workspace(r), User, Verify(r), Audit(r)}
        /\ rows[Verify(r)] = {}
    BY KeysDiffer DEF Set, Over
  <2> HIDE DEF rows
  <2>2. /\ DOMAIN rows \cap SessionKeys = {}
        /\ \A k \in DOMAIN rows \cap Tokens : rows[k] = {}
    BY <1>1, <2>1, KeySets DEF Tokens
  <2> QED
    BY <1>1, <1>3, <2>2, LoneQuiet
<1> QED
  BY <1>1, <1>2, <1>3 DEF CreateAccount

LEMMA LoneProvision ==
  ASSUME SInv, IInv', NEW r \in Request, Provision(r) PROVE SInv'
<1> DEFINE u == [password |-> r, verified |-> TRUE]
           account == Over(Set(User, u), Set(Audit(r), {"register"}))
           rows == Over(Set(Workspace(r), "row"), account)
<1>1. /\ txn[r].kind = "sso" /\ Written(r) = {} /\ Busy(r) /\ r \in Maker
      /\ CreateAccount(r, account, "looked") /\ "looked" \in Place
  BY EmptyHanded, RequestsAreMakers DEF SInv, Provision, Is, Place
<1>2. CASE Error(r)
  BY <1>1, <1>2, LoneError
<1>3. CASE Flush(r, rows, "looked")
  <2> HIDE DEF u
  <2>1. DOMAIN rows = {Workspace(r), User, Audit(r)}
    BY KeysDiffer DEF Set, Over
  <2> HIDE DEF rows
  <2>2. DOMAIN rows \cap (SessionKeys \cup Tokens) = {}
    BY <1>1, <2>1, KeySets DEF Tokens
  <2> QED
    BY <1>1, <1>3, <2>2, LoneQuiet
<1> QED
  BY <1>1, <1>2, <1>3 DEF CreateAccount

LEMMA LoneForget ==
  ASSUME SInv, IInv', NEW r \in Request, ForgetUnknown(r) \/ Forget(r)
  PROVE  SInv'
<1>1. /\ txn[r].kind = "forgot" /\ Written(r) = {} /\ Busy(r) /\ r \in Maker
      /\ {"commit", "unsent"} \subseteq Place
  BY EmptyHanded, RequestsAreMakers DEF SInv, ForgetUnknown, Forget, Is, Place
<1>2. CASE Error(r)
  BY <1>1, <1>2, LoneError
<1>3. CASE Flush(r, Set(Audit(r), {"password_reset_requested"}), "commit")
  <2> DEFINE rows == Set(Audit(r), {"password_reset_requested"})
  <2>1. DOMAIN rows = {Audit(r)}
    BY DEF Set
  <2> HIDE DEF rows
  <2>2. DOMAIN rows \cap (SessionKeys \cup Tokens) = {}
    BY <1>1, <2>1, KeySets DEF Tokens
  <2> QED
    BY <1>1, <1>3, <2>2, LoneQuiet DEF rows
<1>4. CASE Flush(r, Over(Set(Reset(r), {}),
                         Set(Audit(r), {"password_reset_requested"})), "unsent")
  <2> DEFINE rows == Over(Set(Reset(r), {}),
                          Set(Audit(r), {"password_reset_requested"}))
  <2>1. DOMAIN rows = {Reset(r), Audit(r)} /\ rows[Reset(r)] = {}
    BY KeysDiffer DEF Set, Over
  <2> HIDE DEF rows
  <2>2. /\ DOMAIN rows \cap SessionKeys = {}
        /\ \A k \in DOMAIN rows \cap Tokens : rows[k] = {}
    BY <1>1, <2>1, KeySets DEF Tokens
  <2> QED
    BY <1>1, <1>4, <2>2, LoneQuiet DEF rows
<1> QED
  BY <1>2, <1>3, <1>4 DEF ForgetUnknown, Forget

LEMMA LoneSendMail ==
  ASSUME SInv, IInv', NEW r \in Request, SendMail(r) PROVE SInv'
<1>1. /\ IInv /\ Types /\ Busy(r) /\ Fits(txn[r]) /\ txn[r].pc = "unsent"
      /\ Goto(r, "commit") /\ "commit" \in Place
      /\ UNCHANGED <<table, alone, writes>>
  BY Facts DEF SInv, IInv, Mine, SendMail, Busy, Ended, Place
<1>2. /\ txn' = [txn EXCEPT ![r] = txn'[r]] /\ txn'[r].pc = "commit"
      /\ txn'[r].kind = txn[r].kind /\ txn'[r].arg = txn[r].arg
      /\ txn[r].kind \in {"register", "forgot"}
  BY <1>1, GotoPlace DEF Fits
<1>3. AloneMoves(r) /\ table' = table /\ writes' = writes
  BY <1>1, <1>2 DEF AloneMoves
<1>4. ASSUME alone PROVE Lone(r, txn[r], writes[r])'
  <2>1. Lone(r, txn[r], writes[r])
    BY <1>1, <1>4, LoneFacts
  <2>2. Made(r, txn[r])'
    BY <1>1, <1>3, <1>4, MadeStays
  <2>3. Fresh(txn[r])' /\ Renews(txn[r], writes[r])'
    BY <1>2 DEF Fresh, Renews
  <2>4. Uses(r, txn[r], writes[r])'
    BY <1>2, <1>3, <2>1 DEF Lone, Uses
  <2>5. DOMAIN writes[r] \cap SessionKeys = {}
    BY <1>1, <1>2, WhoWrites DEF Written
  <2>6. Opens(r, txn[r], writes[r])'
    BY <1>3, <2>5 DEF Opens
  <2> QED
    BY <2>2, <2>3, <2>4, <2>6 DEF Lone
<1> QED
  BY <1>1, <1>3, <1>4, BusyStep

LEMMA LoneMethods ==
  ASSUME SInv, IInv', NEW r \in Request,
         StartSetup(r) \/ ConfirmSetup(r) \/ Disable(r)
  PROVE  SInv'
<1>1. /\ txn[r].kind \in {"setup", "confirm", "disable"} /\ txn[r].pc = "looked"
      /\ Written(r) = {} /\ Busy(r) /\ r \in Maker /\ "commit" \in Place
  BY EmptyHanded, RequestsAreMakers
     DEF SInv, StartSetup, ConfirmSetup, Disable, Is, Place
<1>2. alone /\ txn[r].kind \in {"setup", "confirm"} => ~ Active(table[Method])
  BY <1>1, LoneFacts DEF Lone, Fresh
<1>3. CASE Error(r)
  BY <1>1, <1>3, LoneError
<1>4. ASSUME ~ Error(r)
      PROVE  \E rows : /\ Flush(r, rows, "commit")
                       /\ DOMAIN rows \subseteq {Method, Audit(r)} \cup CodeKeys
  <2>1. CASE StartSetup(r)
    <3> DEFINE rows == Over(Set(Method, [id |-> r, verified |-> FALSE]),
                            Set(Audit(r), {"mfa_setup_started"}))
    <3>1. Flush(r, rows, "commit")
      BY <1>4, <2>1 DEF StartSetup
    <3>2. DOMAIN rows = {Method, Audit(r)}
      BY DEF Set, Over
    <3> QED
      BY <3>1, <3>2
  <2>2. CASE ConfirmSetup(r)
    <3> DEFINE dropped == {Code(c) : c \in CodesToDrop}
               gone == [k \in dropped |-> NoRow]
               rows == Over(Set(Method, [table[Method] EXCEPT !.verified = TRUE]),
                            Over(Set(Code(r), FALSE),
                                 Over(Set(Audit(r), {"mfa_setup_completed"}),
                                      gone)))
    <3>1. Flush(r, rows, "commit")
      BY <1>4, <2>2 DEF ConfirmSetup
    <3>2. dropped \subseteq CodeKeys /\ Code(r) \in CodeKeys
      BY <1>1, KeySets DEF CodesToDrop, Codes
    <3>3. DOMAIN gone = dropped
      OBVIOUS
    <3> HIDE DEF dropped, gone
    <3>4. DOMAIN rows = {Method, Code(r), Audit(r)} \cup dropped
      BY <3>3 DEF Set, Over
    <3> QED
      BY <3>1, <3>2, <3>4
  <2>3. CASE Disable(r)
    <3> DEFINE gone == IF StillThere(r) THEN Set(Method, NoRow) ELSE NoWrites
               rows == Over(gone, Set(Audit(r), {"mfa_disabled"}))
    <3>1. Flush(r, rows, "commit")
      BY <2>3 DEF Disable
    <3>2. DOMAIN gone \subseteq {Method}
      BY SetRow, NoWritesEmpty
    <3> HIDE DEF gone
    <3>3. DOMAIN rows = DOMAIN gone \cup {Audit(r)}
      BY DEF Set, Over
    <3> QED
      BY <3>1, <3>2, <3>3
  <2> QED
    BY <2>1, <2>2, <2>3
<1>5. CASE ~ Error(r)
  <2>1. PICK rows : /\ Flush(r, rows, "commit")
                    /\ DOMAIN rows \subseteq {Method, Audit(r)} \cup CodeKeys
    BY <1>4, <1>5
  <2>2. DOMAIN rows \cap (SessionKeys \cup Tokens) = {}
    BY <1>1, <2>1, KeySets DEF Tokens
  <2> QED
    BY <1>1, <1>2, <2>1, <2>2, LoneQuiet
<1> QED
  BY <1>3, <1>5

-----------------------------------------------------------------------------
(* Links.                                                                  *)

(* What a request with a link has before it writes.                        *)
LEMMA LinkUnused ==
  ASSUME SInv, NEW r \in Request,
         txn[r].kind \in {"verify", "reset"}, txn[r].pc = "looked"
  PROVE  /\ IInv /\ Types /\ Busy(r) /\ r \in Maker
         /\ Written(r) = {} /\ Written(r) = DOMAIN writes[r]
         /\ txn[r].arg \in Tokens /\ txn[r].arg \in Key
         /\ txn[r].arg # User /\ txn[r].arg # Audit(r)
         /\ txn[r].arg \notin SessionKeys
         /\ table[User] \in UserRow
         /\ alone => table[txn[r].arg] = {}
<1>1. IInv /\ Types /\ Busy(r) /\ r \in Maker /\ Written(r) = {}
      /\ Mine(r, txn[r], writes[r]) /\ Written(r) = DOMAIN writes[r]
  BY Facts, EmptyHanded DEF SInv
<1>2. txn[r].arg \in Tokens /\ table[User] # NoRow
  BY <1>1 DEF Mine, Fits, Found, Tokens
<1>3. table[User] \in UserRow
  BY <1>1, <1>2, RowsOfTable
<1>4. alone => table[txn[r].arg] = {}
  BY <1>1, LoneFacts DEF Lone, Fresh
<1> QED
  BY <1>1, <1>2, <1>3, <1>4, KeySets DEF Tokens

LEMMA LoneVerifyEmail ==
  ASSUME SInv, IInv', NEW r \in Request, VerifyEmail(r) PROVE SInv'
<1> DEFINE k == txn[r].arg
           used == table[k] \cup {r}
           u == [table[User] EXCEPT !.verified = TRUE]
           rows == Over(Set(k, used),
                        Over(Set(User, u), Set(Audit(r), {"email_verified"})))
<1>1. /\ txn[r].kind = "verify" /\ txn[r].pc = "looked"
      /\ Flush(r, rows, "commit") /\ "commit" \in Place
  BY DEF VerifyEmail, Is, Consumed, Place
<1>2. /\ IInv /\ Busy(r) /\ r \in Maker /\ Written(r) = {}
      /\ k \in Tokens /\ k # User /\ k # Audit(r) /\ k \notin SessionKeys
      /\ k = txn[r].arg
  BY <1>1, LinkUnused
<1>3. u.password = table[User].password
  BY <1>1, LinkUnused DEF UserRow
<1>4. alone => table[k] = {} /\ used = {r}
  BY <1>1, LinkUnused
<1> HIDE DEF k, used, u
<1>5. /\ DOMAIN rows = {k, User, Audit(r)} /\ rows[k] = used
      /\ rows[User] = u
  BY <1>2, KeysDiffer DEF Set, Over
<1> HIDE DEF rows
<1>6. Wrote(r, rows, "commit")
  BY <1>1, <1>2, FlushWrote
<1>7. /\ AloneMoves(r) /\ UNCHANGED <<table, alone>> /\ table' = table
      /\ txn'[r].pc = "commit" /\ txn'[r].kind = "verify" /\ txn'[r].arg = k
      /\ DOMAIN writes'[r] = {k, User, Audit(r)} /\ writes'[r][k] = used
      /\ writes'[r][User] = u
  BY <1>1, <1>2, <1>5, <1>6 DEF Wrote
<1>8. /\ User \notin Tokens \cup SessionKeys
      /\ Audit(r) \notin Tokens \cup SessionKeys
  BY <1>2, KeySets DEF Tokens
<1>9. ASSUME alone PROVE Lone(r, txn[r], writes[r])'
  <2>1. Made(r, txn[r])'
    BY <1>2, <1>7, <1>9, MadeStays
  <2>2. Fresh(txn[r])'
    BY <1>4, <1>7, <1>9 DEF Fresh
  <2>3. Uses(r, txn[r], writes[r])'
    BY <1>4, <1>7, <1>8, <1>9 DEF Uses
  <2>4. Opens(r, txn[r], writes[r])'
    BY <1>2, <1>7, <1>8 DEF Opens
  <2>5. Renews(txn[r], writes[r])'
    BY <1>3, <1>7 DEF Renews
  <2> QED
    BY <2>1, <2>2, <2>3, <2>4, <2>5 DEF Lone
<1> QED
  BY <1>2, <1>7, <1>9, BusyStep

LEMMA LoneResetPassword ==
  ASSUME SInv, IInv', NEW r \in Request, ResetPassword(r) PROVE SInv'
<1> DEFINE k == txn[r].arg
           used == table[k] \cup {r}
           u == [table[User] EXCEPT !.password = r]
           rows == Over(Set(k, used), Set(User, u))
<1>1. /\ txn[r].kind = "reset" /\ txn[r].pc = "looked" /\ Write(r, rows)
      /\ Remember(r, "revoking", SessionsToRevoke) /\ "revoking" \in Place
      /\ UNCHANGED <<table, alone>> /\ table' = table
  BY DEF ResetPassword, Is, Consumed, Place
<1>2. /\ IInv /\ Types /\ Busy(r) /\ r \in Maker /\ Written(r) = {}
      /\ k \in Tokens /\ k # User /\ k \notin SessionKeys
      /\ k = txn[r].arg
  BY <1>1, LinkUnused
<1>3. alone => table[k] = {} /\ used = {r}
  BY <1>1, LinkUnused
<1>4. /\ txn' = [txn EXCEPT ![r] = txn'[r]] /\ txn'[r].pc = "revoking"
      /\ txn'[r].kind = txn[r].kind /\ txn'[r].arg = txn[r].arg
      /\ txn'[r].seen = SessionsToRevoke
  BY <1>1, <1>2, SessionsAreMakers, RememberPlace
<1> HIDE DEF k, used, u
<1>5. DOMAIN rows = {k, User} /\ rows[k] = used
  BY <1>2 DEF Set, Over
<1> HIDE DEF rows
<1>6. /\ \A q \in Request \ {r} : writes'[q] = writes[q]
      /\ DOMAIN writes'[r] = {k, User} /\ writes'[r][k] = used
  BY <1>1, <1>2, <1>5, WriteRows
<1>7. AloneMoves(r)
  BY <1>4, <1>6 DEF AloneMoves
<1>8. User \notin Tokens \cup SessionKeys
  BY KeySets DEF Tokens
<1>9. ASSUME alone PROVE Lone(r, txn[r], writes[r])'
  <2>1. Made(r, txn[r])'
    BY <1>1, <1>2, <1>9, MadeStays
  <2>2. Fresh(txn[r])'
    BY <1>1, <1>2, <1>3, <1>4, <1>9 DEF Fresh
  <2>3. Uses(r, txn[r], writes[r])'
    BY <1>1, <1>3, <1>4, <1>6, <1>8, <1>9 DEF Uses
  <2>4. Opens(r, txn[r], writes[r])'
    BY <1>2, <1>6, <1>8 DEF Opens
  <2>5. Renews(txn[r], writes[r])'
    BY <1>1, <1>4 DEF Renews, SessionsToRevoke, Sessions
  <2> QED
    BY <2>1, <2>2, <2>3, <2>4, <2>5 DEF Lone
<1> QED
  BY <1>1, <1>2, <1>7, <1>9, BusyStep

(* Sessions that a request revokes end, and keep what they were.           *)
LEMMA RevokedEnds ==
  ASSUME NEW k, NEW w, table[k] \in SessionRow, table[k] # NoRow,
         w[k] = [table[k] EXCEPT !.revoked = TRUE]
  PROVE  Ends(k, w)
BY DEF Ends, SessionRow

LEMMA LoneRevokeSessions ==
  ASSUME SInv, IInv', NEW r \in Request, RevokeSessions(r) PROVE SInv'
<1> DEFINE told == IF txn[r].pc = "reuse" THEN {"refresh_token_reuse_detected"}
                                          ELSE {"password_reset_completed"}
           p == IF txn[r].pc = "reuse" THEN "raise" ELSE "commit"
           keys == {Session(s) : s \in txn[r].seen}
           revoked == [k \in keys |-> [table[k] EXCEPT !.revoked = TRUE]]
           rows == Over(Set(Audit(r), told), revoked)
<1>1. /\ IInv /\ Types /\ Mine(r, txn[r], writes[r]) /\ txn[r] \in Txn
      /\ Written(r) = DOMAIN writes[r] /\ r \in Maker
      /\ txn[r].pc \in {"revoking", "reuse"} /\ Busy(r)
  BY Facts DEF SInv, RevokeSessions, Busy, Ended
<1>2. CASE Error(r)
  BY <1>1, <1>2, LoneError
<1>3. CASE Flush(r, rows, p)
  <2>1. /\ p \in Place /\ (p = "raise" <=> txn[r].pc = "reuse")
        /\ p \in {"raise", "commit"}
    BY DEF Place
  <2>2. /\ \A s \in txn[r].seen : s \in Maker /\ table[Session(s)] # NoRow
        /\ keys \subseteq SessionKeys
        /\ \A k \in keys : table[k] # NoRow
        /\ \A s \in txn[r].seen : Session(s) \in keys
    BY <1>1, KeySets DEF Mine, Found, Txn
  <2>3. \A k \in keys : table[k] \in SessionRow
    BY <1>1, <2>2, RowsOfTable
  <2>4. /\ DOMAIN revoked = keys /\ Audit(r) \notin SessionKeys \cup Tokens
        /\ \A k \in keys : revoked[k] = [table[k] EXCEPT !.revoked = TRUE]
    BY <1>1, KeySets DEF Tokens
  <2> HIDE DEF told, keys, revoked, p
  <2>5. DOMAIN rows = {Audit(r)} \cup keys /\ \A k \in keys : rows[k] = revoked[k]
    BY <2>2, <2>4 DEF Set, Over
  <2> HIDE DEF rows
  <2>6. Wrote(r, rows, p)
    BY <1>1, <1>3, <2>1, FlushWrote
  <2>7. /\ AloneMoves(r) /\ UNCHANGED <<table, alone>> /\ table' = table
        /\ txn'[r].pc = p /\ txn'[r].kind = txn[r].kind
        /\ txn'[r].arg = txn[r].arg
        /\ DOMAIN writes'[r] = {Audit(r)} \cup keys \cup Written(r)
        /\ \A k \in keys : writes'[r][k] = revoked[k]
        /\ \A k \in Written(r) \ ({Audit(r)} \cup keys) :
             writes'[r][k] = writes[r][k]
    BY <2>5, <2>6 DEF Wrote
  <2>8. /\ txn[r].pc = "reuse" => txn[r].kind = "refresh" /\ Written(r) = {}
        /\ txn[r].pc = "revoking" => txn[r].kind = "reset"
    BY <1>1 DEF Mine, Fits, Holds
  <2>9. ASSUME alone PROVE Lone(r, txn[r], writes[r])'
    <3>1. Lone(r, txn[r], writes[r]) /\ table[Session(r)] = NoRow
      BY <1>1, <2>9, LoneFacts
    <3>2. Made(r, txn[r])'
      BY <1>1, <2>7, <2>9, MadeStays
    <3>3. Fresh(txn[r])'
      BY <1>1, <2>1, <2>7, <2>8, <3>1 DEF Lone, Fresh
    <3>4. Uses(r, txn[r], writes[r])'
      <4>1. \A k \in DOMAIN writes'[r] \cap Tokens :
              writes'[r][k] = {} \/ writes'[r][k] = {r}
        <5>1. keys \cap Tokens = {}
          BY <2>2, KeySets DEF Tokens
        <5> QED
          BY <1>1, <2>4, <2>7, <3>1, <5>1 DEF Lone, Uses
      <4> QED
        BY <1>1, <2>1, <2>7, <2>8, <4>1 DEF Uses
    <3>5. Opens(r, txn[r], writes[r])'
      <4>1. \A k \in keys : Ends(k, writes'[r]) /\ k # Session(r)
        BY <2>2, <2>3, <2>4, <2>7, <3>1, RevokedEnds
      <4>2. \A k \in (Written(r) \cap SessionKeys) \ keys :
              k # Session(r) /\ Ends(k, writes[r])
        BY <1>1, <2>8, <3>1 DEF Lone, Opens, Begins
      <4>3. \A k \in (Written(r) \cap SessionKeys) \ keys : Ends(k, writes'[r])
        BY <2>4, <2>7, <4>2 DEF Ends
      <4>4. \A k \in DOMAIN writes'[r] \cap SessionKeys :
              k # Session(r) /\ Ends(k, writes'[r])
        BY <2>4, <2>7, <4>1, <4>2, <4>3
      <4>5. \A k \in DOMAIN writes'[r] \cap SessionKeys :
              k # Session(r) /\ Ends(k, writes[r])'
        BY <2>7, <4>4 DEF Ends
      <4> QED
        BY <4>5 DEF Opens
    <3>6. Renews(txn[r], writes[r])'
      BY <1>1, <2>1, <2>2, <2>7, <2>8, <3>1 DEF Lone, Renews
    <3> QED
      BY <3>2, <3>3, <3>4, <3>5, <3>6 DEF Lone
  <2> QED
    BY <1>1, <2>7, <2>9, BusyStep
<1> QED
  BY <1>1, <1>2, <1>3 DEF RevokeSessions

-----------------------------------------------------------------------------
(* Sessions begin and end.                                                 *)

(* A session that begins with a password, a provider or a second factor.   *)
LEMMA LoneSession ==
  ASSUME SInv, IInv', NEW r \in Request, Busy(r), NEW rows, NEW spent,
         Flush(r, rows, "commit"),
         txn[r].kind \in {"login", "sso", "mfa"},
         Written(r) \cap (Tokens \cup SessionKeys) = {},
         DOMAIN rows \cap Tokens = {}, User \notin DOMAIN rows,
         DOMAIN rows \cap SessionKeys = {Session(r)},
         rows[Session(r)].under = Seen(r, User).password,
         rows[Session(r)].from = NoRow, rows[Session(r)].spent = spent,
         txn[r].kind \in {"login", "sso"} => ~ Active(table[Method]),
         spent = IF txn[r].kind = "mfa" /\ txn[r].arg # NoArg THEN txn[r].arg
                                                              ELSE NoRow,
         txn[r].kind = "mfa" /\ txn[r].arg # NoArg =>
           /\ txn[r].arg \in DOMAIN rows /\ rows[txn[r].arg] = TRUE
           /\ alone => table[txn[r].arg] = FALSE
  PROVE  SInv'
<1>1. IInv /\ Wrote(r, rows, "commit")
  BY FlushWrote DEF SInv, Place
<1>2. /\ AloneMoves(r) /\ UNCHANGED <<table, alone>> /\ table' = table
      /\ txn'[r].pc = "commit" /\ txn'[r].kind = txn[r].kind
      /\ txn'[r].arg = txn[r].arg
      /\ DOMAIN writes'[r] = DOMAIN rows \cup Written(r)
      /\ \A k \in DOMAIN rows : writes'[r][k] = rows[k]
      /\ \A k \in Written(r) \ DOMAIN rows : writes'[r][k] = writes[r][k]
  BY <1>1 DEF Wrote
<1>3. ASSUME alone PROVE Lone(r, txn[r], writes[r])'
  <2>1. Made(r, txn[r])'
    BY <1>2, <1>3, MadeStays
  <2>2. Fresh(txn[r])'
    BY <1>2, <1>3 DEF Fresh
  <2>3. Uses(r, txn[r], writes[r])'
    BY <1>2 DEF Uses
  <2>4. Begins(r, txn[r], writes[r])'
    <3>1. writes'[r][Session(r)] = rows[Session(r)]
      BY <1>2
    <3>2. Seen(r, User) = IF User \in DOMAIN writes'[r] THEN writes'[r][User]
                                                        ELSE table[User]
      BY <1>2 DEF Seen, Written
    <3> QED
      BY <1>2, <3>1, <3>2 DEF Begins, Active
  <2>5. DOMAIN writes'[r] \cap SessionKeys = {Session(r)}
    BY <1>2
  <2>6. Opens(r, txn[r], writes[r])'
    BY <2>4, <2>5 DEF Opens
  <2>7. Renews(txn[r], writes[r])'
    BY <1>2 DEF Renews
  <2> QED
    BY <2>1, <2>2, <2>3, <2>6, <2>7 DEF Lone
<1> QED
  BY <1>2, <1>3, BusyStep

LEMMA LoneSignIn ==
  ASSUME SInv, IInv', NEW r \in Request, SignIn(r) PROVE SInv'
<1> DEFINE audited == IF Audit(r) \in DOMAIN writes[r]
                        THEN writes[r][Audit(r)] ELSE {}
<1>1. /\ IInv /\ Mine(r, txn[r], writes[r]) /\ Written(r) = DOMAIN writes[r]
      /\ txn[r].kind \in {"login", "sso"} /\ txn[r].pc = "looked"
      /\ Busy(r) /\ r \in Maker /\ {"challenge", "commit"} \subseteq Place
  BY Facts DEF SInv, SignIn, Busy, Ended, Place
<1>2. Written(r) \subseteq {User, Workspace(r), Audit(r)}
  BY <1>1 DEF Mine, Holds
<1>3. /\ Written(r) \cap (Tokens \cup SessionKeys) = {}
      /\ Method \notin Written(r) /\ Audit(r) \notin Tokens \cup SessionKeys
      /\ Session(r) \notin Tokens /\ User # Session(r) /\ User # Audit(r)
      /\ Session(r) \in SessionKeys
  BY <1>1, <1>2, KeySets DEF Tokens
<1>4. CASE AsksSecondFactor(r)
  <2> DEFINE rows == Set(Audit(r), audited \cup {"mfa_required"})
  <2>1. Flush(r, rows, "challenge")
    BY <1>4 DEF SignIn
  <2>2. DOMAIN rows = {Audit(r)}
    BY DEF Set
  <2> HIDE DEF rows
  <2> QED
    BY <1>1, <1>3, <2>1, <2>2, LoneQuiet
<1>5. CASE ~ AsksSecondFactor(r)
  <2> DEFINE told == audited \cup {"login_success"}
             session == [under |-> Seen(r, User).password, from |-> NoRow,
                         spent |-> NoRow, revoked |-> FALSE]
             rows == Over(Set(Session(r), session), Set(Audit(r), told))
  <2>1. Flush(r, rows, "commit")
    BY <1>5 DEF SignIn, NewSession
  <2>2. ~ Active(table[Method])
    BY <1>1, <1>3, <1>5 DEF AsksSecondFactor, Seen
  <2>3. /\ session.under = Seen(r, User).password
        /\ session.from = NoRow /\ session.spent = NoRow
    OBVIOUS
  <2> HIDE DEF told, session
  <2>4. DOMAIN rows = {Session(r), Audit(r)} /\ rows[Session(r)] = session
    BY KeysDiffer DEF Set, Over
  <2> HIDE DEF rows
  <2>5. /\ DOMAIN rows \cap Tokens = {} /\ User \notin DOMAIN rows
        /\ DOMAIN rows \cap SessionKeys = {Session(r)}
    BY <1>3, <2>4
  <2>6. /\ rows[Session(r)].under = Seen(r, User).password
        /\ rows[Session(r)].from = NoRow /\ rows[Session(r)].spent = NoRow
    BY <2>3, <2>4
  <2> QED
    BY <1>1, <1>3, <2>1, <2>2, <2>5, <2>6, LoneSession
<1> QED
  BY <1>4, <1>5

LEMMA LoneSecondFactor ==
  ASSUME SInv, IInv', NEW r \in Request, SignInWithSecondFactor(r) PROVE SInv'
<1> DEFINE code == txn[r].arg
           told == {"mfa_success", "login_success"}
           spent == IF code = NoArg THEN NoRow ELSE code
           session == [under |-> Seen(r, User).password, from |-> NoRow,
                       spent |-> spent, revoked |-> FALSE]
<1>1. /\ IInv /\ Mine(r, txn[r], writes[r]) /\ Written(r) = {}
      /\ txn[r].kind = "mfa" /\ txn[r].pc = "looked"
      /\ Busy(r) /\ r \in Maker /\ code = txn[r].arg
  BY Facts, EmptyHanded DEF SInv, SignInWithSecondFactor, Is
<1>2. /\ Written(r) \cap (Tokens \cup SessionKeys) = {}
      /\ Audit(r) \notin Tokens \cup SessionKeys
      /\ Session(r) \notin Tokens /\ User # Session(r) /\ User # Audit(r)
      /\ Session(r) \in SessionKeys
  BY <1>1, KeySets DEF Tokens
<1>3. /\ spent = IF code # NoArg THEN code ELSE NoRow
      /\ session.under = Seen(r, User).password
      /\ session.from = NoRow /\ session.spent = spent
  OBVIOUS
<1>4. code # NoArg =>
        /\ code \notin Tokens \cup SessionKeys
        /\ code # User /\ code # Audit(r) /\ code # Session(r)
  BY <1>1, KeySets DEF Mine, Fits, Tokens
<1>5. alone /\ code # NoArg => table[code] = FALSE
  BY <1>1, LoneFacts DEF Lone, Fresh
<1>6. CASE code = NoArg
  <2> DEFINE rows == Over(Set(Session(r), session), Set(Audit(r), told))
  <2>1. Flush(r, rows, "commit")
    BY <1>6 DEF SignInWithSecondFactor, NewSession
  <2> HIDE DEF told, session, spent, code
  <2>2. DOMAIN rows = {Session(r), Audit(r)} /\ rows[Session(r)] = session
    BY KeysDiffer DEF Set, Over
  <2> HIDE DEF rows
  <2>3. /\ DOMAIN rows \cap Tokens = {} /\ User \notin DOMAIN rows
        /\ DOMAIN rows \cap SessionKeys = {Session(r)}
    BY <1>2, <2>2
  <2>4. /\ rows[Session(r)].under = Seen(r, User).password
        /\ rows[Session(r)].from = NoRow /\ rows[Session(r)].spent = spent
    BY <1>3, <2>2
  <2> QED
    BY <1>1, <1>2, <1>3, <1>6, <2>1, <2>3, <2>4, LoneSession
<1>7. CASE code # NoArg /\ table[code] = NoRow
  BY <1>1, <1>7, LoneError DEF SignInWithSecondFactor
<1>8. CASE code # NoArg /\ table[code] # NoRow
  <2> DEFINE rows == Over(Set(code, TRUE),
                          Over(Set(Session(r), session), Set(Audit(r), told)))
  <2>1. Flush(r, rows, "commit")
    BY <1>8 DEF SignInWithSecondFactor, NewSession
  <2> HIDE DEF told, session, spent, code
  <2>2. /\ DOMAIN rows = {code, Session(r), Audit(r)}
        /\ rows[Session(r)] = session /\ rows[code] = TRUE
    BY <1>4, <1>8, KeysDiffer DEF Set, Over
  <2> HIDE DEF rows
  <2>3. /\ DOMAIN rows \cap Tokens = {} /\ User \notin DOMAIN rows
        /\ DOMAIN rows \cap SessionKeys = {Session(r)}
    BY <1>2, <1>4, <1>8, <2>2
  <2>4. /\ rows[Session(r)].under = Seen(r, User).password
        /\ rows[Session(r)].from = NoRow /\ rows[Session(r)].spent = spent
    BY <1>3, <2>2
  <2> QED
    BY <1>1, <1>2, <1>3, <1>5, <1>8, <2>1, <2>2, <2>3, <2>4, LoneSession
<1> QED
  BY <1>6, <1>7, <1>8

LEMMA LoneRotate ==
  ASSUME SInv, IInv', NEW r \in Request, Rotate(r) PROVE SInv'
<1> DEFINE old == txn[r].arg
           gone == [table[old] EXCEPT !.revoked = TRUE]
           new == [table[old] EXCEPT !.from = old, !.spent = NoRow,
                                     !.revoked = FALSE]
           rows == Over(Set(old, gone),
                        Over(Set(Session(r), new), Set(Audit(r), {"refresh"})))
<1>1. /\ IInv /\ txn[r].kind = "refresh" /\ txn[r].pc = "looked"
      /\ Busy(r) /\ Written(r) = {} /\ r \in Maker /\ Flush(r, rows, "commit")
      /\ "commit" \in Place
  BY Facts, EmptyHanded DEF SInv, Rotate, Is, Revoked, Place
<1>2. /\ old \in SessionKeys /\ old \in Key /\ table[old] \in SessionRow
      /\ old = txn[r].arg /\ table[old] # NoRow
  BY <1>1, Presented, NoRowIsNoRow
<1>3. gone = [table[old] EXCEPT !.revoked = TRUE]
  OBVIOUS
<1>4. new.from = old /\ new.spent = NoRow /\ new.under = table[old].under
  BY <1>2 DEF SessionRow
<1>5. /\ old # Audit(r) /\ old # User /\ Session(r) # User /\ Audit(r) # User
      /\ Audit(r) \notin SessionKeys \cup Tokens
      /\ SessionKeys \cap Tokens = {} /\ Session(r) \in SessionKeys
  BY <1>1, <1>2, KeySets DEF Tokens
<1> HIDE DEF old, gone, new
<1>6. /\ DOMAIN rows = {old, Session(r), Audit(r)} /\ rows[old] = gone
      /\ rows[Session(r)] = new \/ Session(r) = old
  BY <1>5, KeysDiffer DEF Set, Over
<1> HIDE DEF rows
<1>7. Wrote(r, rows, "commit")
  BY <1>1, FlushWrote
<1>8. /\ AloneMoves(r) /\ UNCHANGED <<table, alone>> /\ table' = table
      /\ txn'[r].pc = "commit" /\ txn'[r].kind = "refresh" /\ txn'[r].arg = old
      /\ DOMAIN writes'[r] = {old, Session(r), Audit(r)}
      /\ writes'[r][old] = gone
      /\ writes'[r][Session(r)] = new \/ Session(r) = old
  BY <1>1, <1>2, <1>6, <1>7 DEF Wrote
<1>9. ASSUME alone PROVE Lone(r, txn[r], writes[r])'
  <2>1. /\ table[Session(r)] = NoRow /\ ~ table[old].revoked /\ UnderPassword
    BY <1>1, <1>2, <1>9, LoneFacts DEF Lone, Fresh, Serial
  <2>2. old # Session(r) /\ table[old].under = table[User].password
    BY <1>2, <2>1 DEF UnderPassword
  <2>3. Made(r, txn[r])'
    BY <1>1, <1>8, <1>9, MadeStays
  <2>4. Fresh(txn[r])'
    BY <1>8, <2>1 DEF Fresh
  <2>5. Uses(r, txn[r], writes[r])'
    BY <1>2, <1>5, <1>8 DEF Uses
  <2>6. Begins(r, txn[r], writes[r])'
    BY <1>4, <1>5, <1>8, <2>2 DEF Begins
  <2>7. Ends(old, writes'[r])
    BY <1>2, <1>3, <1>8, RevokedEnds
  <2>8. \A k : k = old => Ends(k, writes[r])'
    BY <1>8, <2>7 DEF Ends
  <2>9. Opens(r, txn[r], writes[r])'
    <3>1. DOMAIN writes'[r] \cap SessionKeys = {old, Session(r)}
      BY <1>2, <1>5, <1>8
    <3>2. \A k \in {old, Session(r)} :
            IF k = Session(r) THEN Begins(r, txn[r], writes[r])'
                              ELSE Ends(k, writes[r])'
      BY <2>2, <2>6, <2>8
    <3> QED
      BY <3>1, <3>2 DEF Opens
  <2>10. Renews(txn[r], writes[r])'
    BY <1>8 DEF Renews
  <2> QED
    BY <2>3, <2>4, <2>5, <2>9, <2>10 DEF Lone
<1> QED
  BY <1>1, <1>8, <1>9, BusyStep

(* A session that is revoked by its owner.                                 *)
LEMMA LoneRevokeOne ==
  ASSUME SInv, IInv', NEW r \in Request, Busy(r), Written(r) = {}, NEW event,
         \/ txn[r].kind = "logout" /\ event = "logout"
         \/ txn[r].kind = "revoke" /\ event = "session_revoked",
         Flush(r, Over(Revoked(txn[r].arg), Set(Audit(r), {event})), "commit")
  PROVE  SInv'
<1> DEFINE k == txn[r].arg
           gone == [table[k] EXCEPT !.revoked = TRUE]
           rows == Over(Set(k, gone), Set(Audit(r), {event}))
<1>1. IInv /\ Flush(r, rows, "commit") /\ r \in Maker /\ "commit" \in Place
  BY Facts DEF SInv, Revoked, Place
<1>2. /\ k \in SessionKeys /\ table[k] \in SessionRow /\ table[k] # NoRow
  BY <1>1, Presented, NoRowIsNoRow
<1>3. gone = [table[k] EXCEPT !.revoked = TRUE]
  OBVIOUS
<1>4. /\ k # Audit(r) /\ Audit(r) \notin SessionKeys \cup Tokens
      /\ SessionKeys \cap Tokens = {}
  BY <1>1, <1>2, KeySets DEF Tokens
<1> HIDE DEF k, gone
<1>5. DOMAIN rows = {k, Audit(r)} /\ rows[k] = gone
  BY <1>4 DEF Set, Over
<1> HIDE DEF rows
<1>6. Wrote(r, rows, "commit")
  BY <1>1, FlushWrote
<1>7. /\ AloneMoves(r) /\ UNCHANGED <<table, alone>> /\ table' = table
      /\ txn'[r].kind = txn[r].kind
      /\ DOMAIN writes'[r] = {k, Audit(r)} /\ writes'[r][k] = gone
  BY <1>5, <1>6 DEF Wrote
<1>8. ASSUME alone PROVE Lone(r, txn[r], writes[r])'
  <2>1. k # Session(r)
    BY <1>2, <1>8, LoneFacts
  <2>2. Made(r, txn[r])'
    BY <1>7, <1>8, MadeStays
  <2>3. Fresh(txn[r])' /\ Renews(txn[r], writes[r])'
    BY <1>7 DEF Fresh, Renews
  <2>4. Uses(r, txn[r], writes[r])'
    BY <1>2, <1>4, <1>7 DEF Uses
  <2>5. Ends(k, writes'[r])
    BY <1>2, <1>3, <1>7, RevokedEnds
  <2>6. \A x : x = k => Ends(x, writes[r])'
    BY <1>7, <2>5 DEF Ends
  <2>7. DOMAIN writes'[r] \cap SessionKeys = {k}
    BY <1>2, <1>4, <1>7
  <2>8. Opens(r, txn[r], writes[r])'
    BY <2>1, <2>6, <2>7 DEF Opens
  <2> QED
    BY <2>2, <2>3, <2>4, <2>8 DEF Lone
<1> QED
  BY <1>7, <1>8, BusyStep

LEMMA LoneLogout ==
  ASSUME SInv, IInv', NEW r \in Request, Logout(r) PROVE SInv'
BY EmptyHanded, LoneRevokeOne DEF SInv, Logout, Is

LEMMA LoneRevokeSession ==
  ASSUME SInv, IInv', NEW r \in Request, RevokeSession(r) PROVE SInv'
<1>1. /\ IInv /\ txn[r].kind = "revoke" /\ Busy(r) /\ Written(r) = {}
      /\ "commit" \in Place
  BY EmptyHanded DEF SInv, RevokeSession, Is, Place
<1>2. CASE table[txn[r].arg].revoked
  <2>1. Flush(r, NoWrites, "commit")
    BY <1>2 DEF RevokeSession
  <2>2. Wrote(r, NoWrites, "commit")
    BY <1>1, <2>1, FlushWrote
  <2>3. /\ AloneMoves(r) /\ UNCHANGED <<table, alone>> /\ table' = table
        /\ txn'[r].kind = "revoke" /\ DOMAIN writes'[r] = {}
    BY <1>1, <2>2, NoWritesEmpty DEF Wrote
  <2>4. ASSUME alone PROVE Lone(r, txn[r], writes[r])'
    <3>1. Made(r, txn[r])'
      BY <1>1, <2>3, <2>4, MadeStays
    <3>2. Fresh(txn[r])' /\ Renews(txn[r], writes[r])'
      BY <2>3 DEF Fresh, Renews
    <3>3. Uses(r, txn[r], writes[r])' /\ Opens(r, txn[r], writes[r])'
      BY <2>3 DEF Uses, Opens
    <3> QED
      BY <3>1, <3>2, <3>3 DEF Lone
  <2> QED
    BY <1>1, <2>3, <2>4, BusyStep
<1>3. CASE ~ table[txn[r].arg].revoked
  BY <1>1, <1>3, LoneRevokeOne DEF RevokeSession
<1> QED
  BY <1>2, <1>3

-----------------------------------------------------------------------------
(* The invariant.                                                          *)

(* What came before: one session at most, begun under the password.        *)
LEMMA InitSessions ==
  ASSUME Init
  PROVE  /\ \A k \in SessionKeys : table[k] # NoRow =>
              /\ table[k].from = NoRow /\ table[k].spent = NoRow
              /\ table[k].under = table[User].password
         /\ \A k \in Tokens : table[k] # NoRow => table[k] = {0}
<1>1. /\ User \in Key /\ Session(0) \in SessionKeys /\ Verify(0) \in Verifies
      /\ Workspace(0) \in Workspaces /\ Code(0) \in CodeKeys
      /\ Audit(0) \in Audits
  BY RequestsAreMakers, KeySets
<1>2. CASE table = NoRows
  BY <1>2, KeySets DEF NoRows, Tokens
<1> DEFINE user == [password |-> 0, verified |-> TRUE]
           session == [under |-> 0, from |-> NoRow, spent |-> NoRow,
                       revoked |-> FALSE]
<1>3. /\ user.password = 0 /\ session.under = 0
      /\ session.from = NoRow /\ session.spent = NoRow
  OBVIOUS
<1> HIDE DEF user, session
<1>4. CASE table \in {SignedIn, Protected}
  <2>1. /\ DOMAIN SignedIn = Key
        /\ SignedIn[User] = user /\ SignedIn[Verify(0)] = {0}
        /\ SignedIn[Session(0)] = session
        /\ \A k \in Key \ {User, Workspace(0), Verify(0), Session(0),
                           Audit(0)} : SignedIn[k] = NoRow
    BY <1>1, KeysDiffer, KeySets DEF SignedIn, NoRows, user, session
  <2>2. \A k \in Key \ {Method, Code(0)} : table[k] = SignedIn[k]
    BY <1>4, <2>1 DEF Protected
  <2>3. /\ table[User] = user /\ table[Verify(0)] = {0}
        /\ table[Session(0)] = session
        /\ \A k \in SessionKeys : table[k] # NoRow => k = Session(0)
        /\ \A k \in Tokens : table[k] # NoRow => k = Verify(0)
    BY <1>1, <2>1, <2>2, KeySets DEF Tokens
  <2> QED
    BY <1>3, <2>3
<1> QED
  BY <1>2, <1>4 DEF Init

LEMMA SInit == Init => SInv
<1> SUFFICES ASSUME Init PROVE SInv
  OBVIOUS
<1>1. /\ writes = [r \in Request |-> NoWrites]
      /\ txn = [r \in Request |-> Waiting]
  BY DEF Init
<1>2. \A r \in Request : DOMAIN writes[r] = {} /\ txn[r].pc = "waiting"
  BY <1>1, NoWritesEmpty DEF Waiting
<1>3. ASSUME NEW r \in Request PROVE Lone(r, txn[r], writes[r])
  <2>1. r \in Maker /\ r # 0 /\ Code(r) # NoRow
    BY RequestsAreMakers, KeySets, NoRowIsNoRow
  <2>2. /\ table[Session(r)] = NoRow
        /\ \A k \in SessionKeys : table[k] # NoRow => table[k].spent # Code(r)
    BY <2>1, InitTables, InitSessions
  <2>3. Made(r, txn[r]) /\ Fresh(txn[r])
    BY <1>2, <2>2 DEF Made, Fresh
  <2>4. Uses(r, txn[r], writes[r]) /\ Opens(r, txn[r], writes[r])
    BY <1>2 DEF Uses, Opens
  <2>5. Renews(txn[r], writes[r])
    BY <1>2 DEF Renews
  <2> QED
    BY <2>3, <2>4, <2>5 DEF Lone
<1>4. TokensUsed /\ UnderPassword
  BY InitSessions, RequestsAreMakers DEF TokensUsed, UnderPassword
<1>5. SessionsFollow /\ CodesSpent
  BY InitSessions DEF SessionsFollow, CodesSpent
<1>6. \A r \in Request : ~ Busy(r)
  BY <1>2 DEF Busy
<1> QED
  BY <1>3, <1>4, <1>5, <1>6, InitInvariant DEF SInv, Serial

LEMMA SStutter == SInv /\ UNCHANGED vars => SInv'
<1> SUFFICES ASSUME SInv, UNCHANGED vars PROVE SInv'
  OBVIOUS
<1>1. UNCHANGED <<table, writes, txn, alone>> /\ IInv'
  BY StutterKeeps DEF vars, SInv
<1>2. ASSUME alone' PROVE Serial'
  <2>1. Serial /\ table' = table
    BY <1>1, <1>2 DEF SInv
  <2>2. \A r \in Request : Lone(r, txn[r], writes[r])'
    BY <1>1, <2>1, LoneStays DEF Serial
  <2>3. TokensUsed' /\ SessionsFollow' /\ CodesSpent' /\ UnderPassword'
    BY <2>1, CommittedStays DEF Serial
  <2>4. \A q, r \in Request : (Busy(q) /\ Busy(r) => q = r)'
    BY <1>1, <2>1 DEF Serial, Busy, Ended
  <2> QED
    BY <2>2, <2>3, <2>4 DEF Serial
<1> QED
  BY <1>1, <1>2 DEF SInv

LEMMA SNext == SInv /\ [Next]_vars => SInv'
<1> SUFFICES ASSUME SInv, Next PROVE SInv'
  BY SStutter
<1>1. IInv'
  BY NextInvariant DEF SInv
<1>2. PICK r \in Request : Begin(r) \/ Advance(r) \/ Crash(r)
  BY DEF Next
<1>3. CASE Begin(r)
  BY <1>1, <1>3, LoneBegin
<1>4. CASE Crash(r)
  BY <1>1, <1>4, LoneFails
<1>5. CASE Advance(r)
  <2>1. CASE \/ LookUpEmail(r) \/ FindAuthToken(r) \/ FindUser(r)
             \/ FindVouchedUser(r) \/ FindMethod(r) \/ FindSession(r)
             \/ Refuse(r) \/ DetectReuse(r) \/ FindPending(r)
    BY <1>1, <2>1, LoneReads, LoneRemembers
  <2>2. CASE \/ Register(r) \/ Provision(r) \/ SendMail(r) \/ VerifyEmail(r)
             \/ ForgetUnknown(r) \/ Forget(r) \/ ResetPassword(r)
             \/ RevokeSessions(r)
    BY <1>1, <2>2, LoneRegister, LoneProvision, LoneSendMail, LoneVerifyEmail,
       LoneForget, LoneResetPassword, LoneRevokeSessions
  <2>3. CASE \/ SignIn(r) \/ SignInWithSecondFactor(r) \/ Rotate(r) \/ Logout(r)
             \/ RevokeSession(r) \/ RaiseReuse(r)
    BY <1>1, <2>3, LoneSignIn, LoneSecondFactor, LoneRotate, LoneLogout,
       LoneRevokeSession, LoneFails
  <2>4. CASE StartSetup(r) \/ ConfirmSetup(r) \/ Disable(r) \/ Commit(r)
    BY <1>1, <2>4, LoneMethods, LoneCommit
  <2> QED
    BY <1>5, <2>1, <2>2, <2>3, <2>4 DEF Advance
<1> QED
  BY <1>2, <1>3, <1>4, <1>5

(* The invariant of requests that do not overlap holds in every reachable  *)
(* state.                                                                  *)
THEOREM SerialInvariantHolds == Spec => []SInv
BY SInit, SNext, PTL DEF Spec

-----------------------------------------------------------------------------
(* Theorems.                                                               *)

(* Requests one after another use a mailed link, a refresh token and a     *)
(* recovery code once each.                                                *)
THEOREM CredentialsAlwaysSingleUse == Spec => []CredentialsAreSingleUse
<1>1. SInv => CredentialsAreSingleUse
  <2> SUFFICES ASSUME SInv, alone PROVE CredentialsAreSingleUse
    BY DEF CredentialsAreSingleUse
  <2>1. TokensUsed /\ SessionsFollow /\ CodesSpent
    BY DEF SInv, Serial
  <2>2. ASSUME NEW r \in Maker PROVE UsedOnce(Verify(r)) /\ UsedOnce(Reset(r))
    <3>1. Verify(r) \in Tokens /\ Reset(r) \in Tokens
      BY KeySets DEF Tokens
    <3>2. \A k \in Tokens : table[k] # NoRow =>
            table[k] = {} \/ \E q \in Maker : table[k] = {q}
      BY <2>1 DEF TokensUsed
    <3>3. ASSUME NEW k \in Tokens, table[k] # NoRow
          PROVE  Cardinality(table[k]) <= 1
      <4>1. CASE table[k] = {}
        BY <4>1, FS_EmptySet
      <4>2. ASSUME NEW q \in Maker, table[k] = {q}
            PROVE  Cardinality(table[k]) <= 1
        BY <4>2, FS_Singleton
      <4> QED
        BY <3>2, <3>3, <4>1, <4>2
    <3> QED
      BY <3>1, <3>3 DEF UsedOnce
  <2>3. ASSUME NEW s \in Sessions, NEW t \in Sessions, s # t,
               NEW credential \in {"from", "spent"},
               table[Session(s)][credential] = table[Session(t)][credential]
        PROVE  table[Session(s)][credential] = NoRow
    <3>1. /\ Session(s) \in SessionKeys /\ table[Session(s)] # NoRow
          /\ Session(t) \in SessionKeys /\ table[Session(t)] # NoRow
          /\ Session(s) # Session(t)
      BY <2>3, KeySets, KeysAreOne DEF Sessions
    <3>2. CASE credential = "from"
      BY <2>1, <2>3, <3>1, <3>2 DEF SessionsFollow
    <3>3. CASE credential = "spent"
      BY <2>1, <2>3, <3>1, <3>3 DEF CodesSpent
    <3> QED
      BY <3>2, <3>3
  <2> QED
    BY <2>2, <2>3 DEF CredentialsAreSingleUse
<1> QED
  BY <1>1, SerialInvariantHolds, PTL

(* After a reset, requests one after another, no session is active that    *)
(* began under an earlier password.                                        *)
THEOREM ResetAlwaysEndsSessions == Spec => []ResetEndsSessions
<1>1. SInv => ResetEndsSessions
  BY KeySets DEF SInv, Serial, UnderPassword, ResetEndsSessions, Sessions
<1> QED
  BY <1>1, SerialInvariantHolds, PTL

(* Requests one after another, no password and no provider opens a session *)
(* past an active second factor.                                           *)
THEOREM SecondFactorAlwaysAsked == Spec => SecondFactorIsAsked
<1> DEFINE Asked(r) ==
        /\ alone
        /\ txn[r].kind \in {"login", "sso"}
        /\ table[Session(r)] = NoRow /\ table'[Session(r)] # NoRow
        => ~ Active(table[Method])
<1>1. ASSUME SInv, Next PROVE \A r \in Request : Asked(r)
  <2>1. CASE UNCHANGED table
    BY <2>1
  <2>2. ASSUME NEW q \in Request, Commit(q), NEW r \in Request, alone,
               txn[r].kind \in {"login", "sso"},
               table[Session(r)] = NoRow, table'[Session(r)] # NoRow
        PROVE  ~ Active(table[Method])
    <3>1. Session(r) \in SessionKeys
      BY RequestsAreMakers, KeySets
    <3>2. Session(r) = Session(q) /\ Begins(q, txn[q], writes[q])
      BY <1>1, <2>2, <3>1, CommitSessions
    <3> QED
      BY <2>2, <3>2, KeysAreOne DEF Begins
  <2>3. UNCHANGED table \/ \E q \in Request : Commit(q)
    BY <1>1, OnlyCommitsChange DEF SInv
  <2> QED
    BY <2>1, <2>2, <2>3
<1>2. SInv /\ [Next]_vars => [\A r \in Request : Asked(r)]_vars
  BY <1>1
<1> QED
  BY <1>2, SerialInvariantHolds, PTL DEF Spec, SecondFactorIsAsked

(* Requests one after another, an active second factor goes only when it   *)
(* is disabled.                                                            *)
THEOREM ActiveMethodAlwaysKept == Spec => ActiveMethodIsKept
<1> DEFINE Kept ==
        alone /\ Active(table[Method]) /\ table'[Method] # table[Method] =>
          \E r \in Request : /\ txn[r].kind = "disable"
                             /\ txn[r].pc # "done" /\ txn'[r].pc = "done"
<1>1. ASSUME SInv, Next PROVE Kept
  <2>1. CASE UNCHANGED table
    BY <2>1
  <2>2. ASSUME NEW r \in Request, Commit(r), alone, Active(table[Method]),
               table'[Method] # table[Method]
        PROVE  /\ txn[r].kind = "disable"
               /\ txn[r].pc # "done" /\ txn'[r].pc = "done"
    <3>1. /\ IInv /\ Method \in Written(r) /\ Lone(r, txn[r], writes[r])
          /\ txn[r].pc \in {"commit", "challenge"}
          /\ txn'[r].pc = IF txn[r].pc = "commit" THEN "done" ELSE "challenged"
          /\ Fits(txn[r])
      BY <1>1, <2>2, CommitMoves, LoneFacts, KeySets, Facts
         DEF SInv, Busy, Ended, Mine
    <3>2. txn[r].kind \in {"setup", "confirm", "disable"}
      BY <3>1, WhoWrites
    <3>3. txn[r].pc = "commit"
      BY <3>1, <3>2 DEF Fits
    <3>4. txn[r].kind \notin {"setup", "confirm"}
      BY <2>2, <3>1, <3>3 DEF Lone, Fresh
    <3> QED
      BY <3>1, <3>2, <3>3, <3>4
  <2>3. UNCHANGED table \/ \E r \in Request : Commit(r)
    BY <1>1, OnlyCommitsChange DEF SInv
  <2> QED
    BY <2>1, <2>2, <2>3
<1>2. SInv /\ [Next]_vars => [Kept]_vars
  BY <1>1
<1> QED
  BY <1>2, SerialInvariantHolds, PTL DEF Spec, ActiveMethodIsKept
=============================================================================

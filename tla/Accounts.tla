----------------------------- MODULE Accounts ------------------------------
(***************************************************************************)
(* The account of one person (app/auth): registration and verification,    *)
(* password login, single sign-on and the second factor, the sessions and  *)
(* their refresh tokens, password reset.                                   *)
(*                                                                         *)
(* Every request is one transaction (module ReadCommitted) that its route  *)
(* commits at the end.  A route that raises does not commit, so a refusal  *)
(* leaves nothing behind, its audit row included.                          *)
(*                                                                         *)
(* Passwords, secrets, codes and tokens are named after the request that   *)
(* made them, hashing and signing are left out, and whether a token has    *)
(* expired or a password, code or cookie is right is left to chance: each  *)
(* is a reason to refuse.  A set of recovery codes stands for one of them. *)
(* Access tokens are not revocable and not modelled.                       *)
(***************************************************************************)
EXTENDS Naturals, FiniteSets

CONSTANTS
  MaxRequests,  \* bound on the requests of a behaviour
  MaxOverlap,   \* bound on the requests in progress at a time
  Role,         \* the database roles DATABASE_URL may name
  NoRow

ASSUME BoundsArePositive ==
  MaxRequests \in Nat \ {0} /\ MaxOverlap \in Nat \ {0}

ASSUME RolesAreKnown == Role \subseteq {"dataprep_app", "dataprep"}

(* Requests are numbered as they arrive; number 0 is what came before.     *)
Request == 1..MaxRequests
Maker == 0..MaxRequests

VARIABLES
  role,    \* the role the process connects as
  table,   \* the committed rows
  writes,  \* the rows each transaction has written
  txn,     \* the progress of each request
  mailed,  \* the links that were mailed
  alone    \* no two requests have overlapped so far

vars == <<role, table, writes, txn, mailed, alone>>

INSTANCE ReadCommitted

User == <<"users", 0>>
Method == <<"mfa_methods", 0>>
Workspace(r) == <<"tenants", r>>
Verify(r) == <<"auth_tokens: email_verify", r>>
Reset(r) == <<"auth_tokens: password_reset", r>>
Session(r) == <<"refresh_tokens", r>>
Code(r) == <<"mfa_recovery_codes", r>>
Audit(r) == <<"audit_log", r>>

Key == {User, Method}
  \cup {Workspace(r) : r \in Maker} \cup {Verify(r) : r \in Maker}
  \cup {Reset(r) : r \in Maker} \cup {Session(r) : r \in Maker}
  \cup {Code(r) : r \in Maker} \cup {Audit(r) : r \in Maker}

Kind == {"register", "verify", "forgot", "reset", "login", "sso", "mfa",
         "refresh", "logout", "revoke", "setup", "confirm", "disable"}

(* Where a request stands:                                                 *)
(*   received   nothing is read yet                                        *)
(*   unknown    single sign-on found no such user                          *)
(*   looked     the rows it depends on are read                            *)
(*   revoking   all sessions in .seen are to be revoked                    *)
(*   reuse      the same, before RefreshTokenReuseError is raised          *)
(*   raise      the sessions are revoked, the exception is next            *)
(*   unsent     the token is inserted, its mail is next                    *)
(*   challenge  all that is left is to commit and ask for a second factor  *)
(*   commit     all that is left is to commit                              *)
(*   refused    an exception the route translates, or a crash              *)
(*   error      an exception it does not: a constraint, a policy, a row    *)
(*              that is gone                                               *)
Place == {"waiting", "received", "unknown", "looked", "revoking", "reuse",
          "raise", "unsent", "challenge", "commit", "done", "challenged",
          "refused", "error"}

NoArg == <<"none", 0>>

Waiting == [pc |-> "waiting", kind |-> "login", arg |-> NoArg, seen |-> {}]

Ended(r) == txn[r].pc \in {"done", "challenged", "refused", "error"}

Busy(r) == txn[r].pc # "waiting" /\ ~ Ended(r)

-----------------------------------------------------------------------------
(* The rows.                                                               *)

UserRow == [password : Maker, verified : BOOLEAN]
MethodRow == [id : Maker, verified : BOOLEAN]
SessionRow == [under : Maker, from : Key \cup {NoRow}, spent : Key \cup {NoRow},
               revoked : BOOLEAN]

Event == {"register", "email_verified", "password_reset_requested",
          "password_reset_completed", "login_success", "refresh", "logout",
          "session_revoked", "refresh_token_reuse_detected", "mfa_required",
          "mfa_success", "mfa_setup_started", "mfa_setup_completed",
          "mfa_disabled"}

AuditRow == SUBSET Event

ASSUME NoRowIsNoRow ==
  /\ NoRow \notin UserRow \cup MethodRow \cup SessionRow
  /\ NoRow # "row" /\ NoRow \notin BOOLEAN /\ NoRow \notin Key
  /\ \A row \in AuditRow \cup SUBSET Maker : row # NoRow

(* A session nobody's password opened.                                     *)
NewSessionOfNobody(r, from, spent) ==
  Set(Session(r), [under |-> NoRow, from |-> from, spent |-> spent,
                   revoked |-> FALSE])

(* A session: the password when it began, what it was refreshed from, the  *)
(* recovery code it cost.                                                  *)
NewSession(r, from, spent) ==
  Set(Session(r), [under |-> Seen(r, User).password, from |-> from,
                   spent |-> spent, revoked |-> FALSE])

Revoked(k) == Set(k, [table[k] EXCEPT !.revoked = TRUE])

Active(row) == row # NoRow /\ row.verified

Sessions == {s \in Maker : table[Session(s)] # NoRow}

Codes == {c \in Maker : table[Code(c)] # NoRow}

NoRows == [k \in Key |-> NoRow]

(* A registered, verified and signed in user, without and with a second    *)
(* factor.                                                                 *)
SignedIn ==
  [NoRows EXCEPT
     ![User] = [password |-> 0, verified |-> TRUE],
     ![Workspace(0)] = "row",
     ![Verify(0)] = {0},
     ![Session(0)] = [under |-> 0, from |-> NoRow, spent |-> NoRow,
                      revoked |-> FALSE],
     ![Audit(0)] = {"register", "email_verified", "login_success"}]

Protected ==
  [SignedIn EXCEPT ![Method] = [id |-> 0, verified |-> TRUE],
                   ![Code(0)] = FALSE]

Init ==
  /\ role \in Role
  /\ table \in {NoRows, SignedIn, Protected}
  /\ writes = [r \in Request |-> NoWrites]
  /\ txn = [r \in Request |-> Waiting]
  /\ mailed = IF table = NoRows THEN {} ELSE {Verify(0)}
  /\ alone = TRUE

Goto(r, pc) == txn' = [txn EXCEPT ![r].pc = pc]

Remember(r, pc, seen) ==
  txn' = [txn EXCEPT ![r] = [@ EXCEPT !.pc = pc, !.seen = seen]]

(* Flush the rows and go on.                                               *)
Flush(r, rows, pc) ==
  /\ Write(r, rows)
  /\ Goto(r, pc)
  /\ UNCHANGED <<role, table, mailed, alone>>

(* A read and nothing else.                                                *)
Read == UNCHANGED <<role, table, writes, mailed, alone>>

(* An exception that the route does not translate: the session closes.     *)
Error(r) ==
  /\ DropWrites(r)
  /\ Goto(r, "error")
  /\ UNCHANGED <<role, table, mailed, alone>>

(* audit_log_insert: the row's tenant and user are those the transaction   *)
(* has bound.  A superuser bypasses every policy.                          *)
Permitted(attributed, bound) == role = "dataprep" \/ attributed \subseteq bound

Is(r, kind, pc) == txn[r].kind = kind /\ txn[r].pc = pc

-----------------------------------------------------------------------------
(* Registration and verification.                                          *)

LookUpEmail(r) ==
  /\ Is(r, "register", "received")
  /\ Seen(r, User) = NoRow
  /\ Goto(r, "unknown")
  /\ Read

(* Leaving the workspace behind when the e-mail turns out to be taken.     *)
CreateAccountInTwo(r, rows, pc) ==
  /\ Free(r, {User})
  /\ IF Seen(r, User) # NoRow
       THEN Flush(r, Set(Workspace(r), "row"), pc)
       ELSE Flush(r, Over(Set(Workspace(r), "row"), rows), pc)

(* The workspace, its owner and the rows that come with them.  The INSERT  *)
(* waits for a rival's, then users.email is unique.                        *)
CreateAccount(r, rows, pc) ==
  /\ Free(r, {User})
  /\ IF Seen(r, User) # NoRow
       THEN Error(r)
       ELSE Flush(r, Over(Set(Workspace(r), "row"), rows), pc)

Register(r) ==
  /\ Is(r, "register", "unknown")
  /\ CreateAccount(r, Over(Set(User, [password |-> r, verified |-> FALSE]),
                           Over(Set(Verify(r), {}),
                                Set(Audit(r), {"register"}))),
                   "unsent")

(* Committing first and mailing afterwards.                                *)
SendMailLast(r) ==
  /\ txn[r].pc = "unsent"
  /\ Goto(r, "commit")
  /\ UNCHANGED <<role, table, writes, mailed, alone>>

(* The mail leaves before the route commits.                               *)
SendMail(r) ==
  /\ txn[r].pc = "unsent"
  /\ mailed' = mailed \cup
       {IF txn[r].kind = "register" THEN Verify(r) ELSE Reset(r)}
  /\ Goto(r, "commit")
  /\ UNCHANGED <<role, table, writes, alone>>

(* An auth token's row keeps the requests that used it.                    *)
FindAuthToken(r) ==
  /\ txn[r].kind \in {"verify", "reset"}
  /\ txn[r].pc = "received"
  /\ Seen(r, txn[r].arg) = {}
  /\ Goto(r, "looked")
  /\ Read

(* used_at is written by primary key: a rival's is overwritten.            *)
Consumed(r) == Set(txn[r].arg, table[txn[r].arg] \cup {r})

VerifyEmail(r) ==
  /\ Is(r, "verify", "looked")
  /\ Free(r, {txn[r].arg, User})
  /\ Flush(r, Over(Consumed(r),
                   Over(Set(User, [table[User] EXCEPT !.verified = TRUE]),
                        Set(Audit(r), {"email_verified"}))), "commit")

-----------------------------------------------------------------------------
(* Password reset.                                                         *)

(* No policy objects to the audit row of an unknown e-mail.                *)
ForgetUnknown(r) ==
  /\ Is(r, "forgot", "received")
  /\ Seen(r, User) = NoRow
  /\ Flush(r, Set(Audit(r), {"password_reset_requested"}), "commit")

(* The audit row names the user and nothing has bound app.current_user.    *)
Forget(r) ==
  /\ Is(r, "forgot", "received")
  /\ Seen(r, User) # NoRow
  /\ IF Permitted({"user"}, {})
       THEN Flush(r, Over(Set(Reset(r), {}),
                          Set(Audit(r), {"password_reset_requested"})),
                  "unsent")
       ELSE Error(r)

(* Leaving the sessions there are.                                         *)
NoSessions == {}

(* The sessions an UPDATE of all unrevoked ones starts with: those of      *)
(* transactions in progress are not among them.                            *)
SessionsToRevoke == {s \in Sessions : ~ table[Session(s)].revoked}

ResetPassword(r) ==
  /\ Is(r, "reset", "looked")
  /\ Free(r, {txn[r].arg, User})
  /\ Write(r, Over(Consumed(r), Set(User, [table[User] EXCEPT !.password = r])))
  /\ Remember(r, "revoking", SessionsToRevoke)
  /\ UNCHANGED <<role, table, mailed, alone>>

(* The UPDATE waits for each of them, and the audit row is refused as in   *)
(* Forget: nothing has bound the user, or the reuse branch binds both.     *)
RevokeSessions(r) ==
  LET revoked == [k \in {Session(s) : s \in txn[r].seen} |->
                    [table[k] EXCEPT !.revoked = TRUE]]
  IN  /\ txn[r].pc \in {"revoking", "reuse"}
      /\ Free(r, DOMAIN revoked)
      /\ IF txn[r].pc = "reuse"
           THEN Flush(r, Over(Set(Audit(r), {"refresh_token_reuse_detected"}),
                              revoked), "raise")
           ELSE IF Permitted({"user"}, {})
             THEN Flush(r, Over(Set(Audit(r), {"password_reset_completed"}),
                                revoked), "commit")
             ELSE Error(r)

-----------------------------------------------------------------------------
(* Signing in.                                                             *)

FindUser(r) ==
  /\ Is(r, "login", "received")
  /\ Active(Seen(r, User))
  /\ Goto(r, "looked")
  /\ Read

(* The provider vouches for the e-mail.  A new user is verified.           *)
FindVouchedUser(r) ==
  /\ Is(r, "sso", "received")
  /\ Goto(r, IF Seen(r, User) = NoRow THEN "unknown" ELSE "looked")
  /\ Read

Provision(r) ==
  /\ Is(r, "sso", "unknown")
  /\ CreateAccount(r, Over(Set(User, [password |-> r, verified |-> TRUE]),
                           Set(Audit(r), {"register"})), "looked")

(* Only a password login asks for the second factor.                       *)
AsksSecondFactorOfPasswords(r) ==
  txn[r].kind = "login" /\ Active(Seen(r, Method))

AsksSecondFactor(r) == Active(Seen(r, Method))

(* A second factor that is not confirmed yet is not asked for.             *)
SignIn(r) ==
  LET audited == IF Audit(r) \in DOMAIN writes[r] THEN writes[r][Audit(r)]
                                                  ELSE {}
  IN  /\ txn[r].kind \in {"login", "sso"}
      /\ txn[r].pc = "looked"
      /\ IF AsksSecondFactor(r)
           THEN Flush(r, Set(Audit(r), audited \cup {"mfa_required"}),
                      "challenge")
           ELSE Flush(r, Over(NewSession(r, NoRow, NoRow),
                              Set(Audit(r), audited \cup {"login_success"})),
                      "commit")

(* A recovery code, unless the TOTP code was given.                        *)
UnspentCode(r) == txn[r].arg # NoArg => Seen(r, txn[r].arg) = FALSE

FindMethod(r) ==
  /\ Is(r, "mfa", "received")
  /\ Active(Seen(r, Method))
  /\ UnspentCode(r)
  /\ Goto(r, "looked")
  /\ Read

(* used_at of the code is written by primary key.  A confirmation may have *)
(* replaced the codes since they were read.                                *)
SignInWithSecondFactor(r) ==
  LET code == txn[r].arg
      spent == IF code = NoArg THEN NoRow ELSE code
      audited == Set(Audit(r), {"mfa_success", "login_success"})
  IN  /\ Is(r, "mfa", "looked")
      /\ code # NoArg => Free(r, {code})
      /\ IF code = NoArg
           THEN Flush(r, Over(NewSession(r, NoRow, NoRow), audited), "commit")
           ELSE IF table[code] = NoRow
             THEN Error(r)
             ELSE Flush(r, Over(Set(code, TRUE),
                                Over(NewSession(r, NoRow, spent), audited)),
                        "commit")

-----------------------------------------------------------------------------
(* Sessions.                                                               *)

FindSession(r) ==
  /\ Is(r, "refresh", "received")
  /\ ~ Seen(r, txn[r].arg).revoked
  /\ Goto(r, "looked")
  /\ Read

(* A refresh token that was revoked before: somebody holds a copy.         *)
DetectReuse(r) ==
  /\ Is(r, "refresh", "received")
  /\ Seen(r, txn[r].arg).revoked
  /\ Remember(r, "reuse", SessionsToRevoke)
  /\ Read

(* The route does not commit the revocation.                               *)
RaiseReuse(r) ==
  /\ txn[r].pc = "raise"
  /\ DropWrites(r)
  /\ Goto(r, "refused")
  /\ UNCHANGED <<role, table, mailed, alone>>

(* Leaving the old row as it is.                                           *)
RotateWithoutRevoking(r) ==
  /\ Is(r, "refresh", "looked")
  /\ Free(r, {txn[r].arg})
  /\ Flush(r, Over(NewSession(r, txn[r].arg, NoRow),
                   Set(Audit(r), {"refresh"})), "commit")

(* revoked_at is written by primary key, whatever happened since it was    *)
(* read.  The new row belongs to the password of the old one.              *)
Rotate(r) ==
  LET old == txn[r].arg
      new == [table[old] EXCEPT !.from = old, !.spent = NoRow, !.revoked = FALSE]
  IN  /\ Is(r, "refresh", "looked")
      /\ Free(r, {old})
      /\ Flush(r, Over(Revoked(old), Over(Set(Session(r), new),
                                           Set(Audit(r), {"refresh"}))),
               "commit")

Logout(r) ==
  /\ Is(r, "logout", "received")
  /\ Free(r, {txn[r].arg})
  /\ Flush(r, Over(Revoked(txn[r].arg), Set(Audit(r), {"logout"})), "commit")

(* Auditing what was not found.                                            *)
RevokeSessionAuditedOtherwise(r) ==
  LET found == ~ table[txn[r].arg].revoked IN
    /\ Is(r, "revoke", "received")
    /\ Free(r, {txn[r].arg})
    /\ Flush(r, IF found THEN Revoked(txn[r].arg)
                         ELSE Set(Audit(r), {"session_revoked"}), "commit")

(* A session that was revoked already is not found, and not audited.       *)
RevokeSession(r) ==
  LET found == ~ table[txn[r].arg].revoked IN
    /\ Is(r, "revoke", "received")
    /\ Free(r, {txn[r].arg})
    /\ Flush(r, IF found
                  THEN Over(Revoked(txn[r].arg),
                            Set(Audit(r), {"session_revoked"}))
                  ELSE NoWrites, "commit")

-----------------------------------------------------------------------------
(* The second factor.                                                      *)

(* Setting up replaces a setup that was never confirmed.                   *)
FindPending(r) ==
  LET method == Seen(r, Method) IN
    /\ \/ Is(r, "setup", "received") /\ ~ Active(method)
       \/ Is(r, "confirm", "received") /\ method # NoRow /\ ~ Active(method)
       \/ Is(r, "disable", "received") /\ Active(method)
    /\ Remember(r, "looked", IF method = NoRow THEN {} ELSE {method.id})
    /\ Read

(* The row that was read is still there, confirmed meanwhile or not.       *)
StillThere(r) == table[Method] # NoRow /\ table[Method].id \in txn[r].seen

(* The DELETE is by primary key; a user has one TOTP method at most.       *)
StartSetup(r) ==
  /\ Is(r, "setup", "looked")
  /\ Free(r, {Method})
  /\ IF table[Method] = NoRow \/ StillThere(r)
       THEN Flush(r, Over(Set(Method, [id |-> r, verified |-> FALSE]),
                          Set(Audit(r), {"mfa_setup_started"})), "commit")
       ELSE Error(r)

(* Trusting them to have gone with the method they belonged to.            *)
NoCodes == {}

(* Used or not, all recovery codes are dropped.                            *)
CodesToDrop == Codes

(* verified_at is written before the codes are replaced; a row that is     *)
(* gone is an error.                                                       *)
ConfirmSetup(r) ==
  LET dropped == {Code(c) : c \in CodesToDrop}
      confirmed == [table[Method] EXCEPT !.verified = TRUE]
  IN
    /\ Is(r, "confirm", "looked")
    /\ Free(r, {Method} \cup dropped)
    /\ IF StillThere(r)
         THEN Flush(r, Over(Set(Method, confirmed),
                            Over(Set(Code(r), FALSE),
                                 Over(Set(Audit(r), {"mfa_setup_completed"}),
                                      [k \in dropped |-> NoRow]))), "commit")
         ELSE Error(r)

(* The recovery codes stay.  A DELETE of a row that is gone is no error.   *)
Disable(r) ==
  /\ Is(r, "disable", "looked")
  /\ Free(r, {Method})
  /\ Flush(r, Over(IF StillThere(r) THEN Set(Method, NoRow) ELSE NoWrites,
                   Set(Audit(r), {"mfa_disabled"})), "commit")

-----------------------------------------------------------------------------
(* How requests begin and end.                                             *)

Commit(r) ==
  /\ txn[r].pc \in {"commit", "challenge"}
  /\ CommitWrites(r)
  /\ Goto(r, IF txn[r].pc = "commit" THEN "done" ELSE "challenged")
  /\ UNCHANGED <<role, mailed, alone>>

(* A wrong password, code or cookie, a weak password, an expired token, an *)
(* account or a row in the wrong state.                                    *)
Refuse(r) ==
  /\ txn[r].pc = "received"
  /\ Goto(r, "refused")
  /\ Read

(* A session that is not closed keeps its locks.                           *)
CrashAndLeak(r) ==
  /\ Busy(r)
  /\ Goto(r, "refused")
  /\ Read

(* A cancelled request, a mail that is not sent, a crash of the process.   *)
Crash(r) ==
  /\ Busy(r)
  /\ DropWrites(r)
  /\ Goto(r, "refused")
  /\ UNCHANGED <<role, table, mailed, alone>>

(* What a client can present: a link from its mail, a cookie it was given, *)
(* a session of its list, a recovery code it was shown.                    *)
Argument(kind) ==
  CASE kind = "verify" -> {l \in mailed : l[1] = Verify(0)[1]}
    [] kind = "reset" -> {l \in mailed : l[1] = Reset(0)[1]}
    [] kind \in {"refresh", "logout", "revoke"} -> {Session(s) : s \in Sessions}
    [] kind = "mfa" -> {NoArg} \cup {Code(c) : c \in Codes}
    [] OTHER -> {NoArg}

(* An access token is proof of a session, an mfa token of a challenge.     *)
Entitled(kind) ==
  CASE kind \in {"setup", "confirm", "disable"} -> Sessions # {}
    [] kind = "mfa" -> \E q \in Request : txn[q].pc = "challenged"
    [] OTHER -> TRUE

Begin(r) ==
  /\ txn[r].pc = "waiting"
  /\ \A q \in 1..(r - 1) : txn[q].pc # "waiting"
  /\ Cardinality({q \in Request : Busy(q)}) < MaxOverlap
  /\ \E kind \in Kind :
       /\ Entitled(kind)
       /\ \E arg \in Argument(kind) :
            txn' = [txn EXCEPT ![r] = [pc |-> "received", kind |-> kind,
                                       arg |-> arg, seen |-> {}]]
  /\ alone' = (alone /\ \A q \in Request : ~ Busy(q))
  /\ UNCHANGED <<role, table, writes, mailed>>

Advance(r) ==
  \/ LookUpEmail(r)
  \/ Register(r)
  \/ SendMail(r)
  \/ FindAuthToken(r)
  \/ VerifyEmail(r)
  \/ ForgetUnknown(r)
  \/ Forget(r)
  \/ ResetPassword(r)
  \/ RevokeSessions(r)
  \/ FindUser(r)
  \/ FindVouchedUser(r)
  \/ Provision(r)
  \/ SignIn(r)
  \/ FindMethod(r)
  \/ SignInWithSecondFactor(r)
  \/ FindSession(r)
  \/ DetectReuse(r)
  \/ RaiseReuse(r)
  \/ Rotate(r)
  \/ Logout(r)
  \/ RevokeSession(r)
  \/ FindPending(r)
  \/ StartSetup(r)
  \/ ConfirmSetup(r)
  \/ Disable(r)
  \/ Commit(r)
  \/ Refuse(r)

Next == \E r \in Request : Begin(r) \/ Advance(r) \/ Crash(r)

(* A received request keeps going.                                         *)
Fairness == \A r \in Request : WF_vars(Advance(r))

Spec == Init /\ [][Next]_vars /\ Fairness

-----------------------------------------------------------------------------
(* Properties.                                                             *)

TypeOK ==
  /\ role \in Role
  /\ table[User] \in UserRow \cup {NoRow}
  /\ table[Method] \in MethodRow \cup {NoRow}
  /\ \A s \in Sessions : table[Session(s)] \in SessionRow
  /\ \A c \in Codes : table[Code(c)] \in BOOLEAN
  /\ txn \in [Request -> [pc : Place, kind : Kind, arg : Key \cup {NoArg},
                          seen : SUBSET Maker]]
  /\ mailed \subseteq Key

(* A workspace never exists without the user who owns it, nor two for one  *)
(* e-mail: a registration or a provisioning that loses the race for the    *)
(* e-mail leaves nothing behind (register, _provision_new_user).           *)
RegistrationIsWhole ==
  Cardinality({r \in Maker : table[Workspace(r)] # NoRow}) =
    (IF table[User] = NoRow THEN 0 ELSE 1)

(* Every token in the database was mailed: a crash cannot leave a user     *)
(* with a token nobody has (register, request_password_reset).             *)
TokensWereMailed ==
  \A k \in {Verify(r) : r \in Maker} \cup {Reset(r) : r \in Maker} :
    table[k] # NoRow => k \in mailed

(* When requests do not overlap what is good for one use is used once: a   *)
(* mailed link (_consume_auth_token), a refresh token, which has one       *)
(* successor, so a copy of it is noticed (refresh), and a recovery code    *)
(* (verify_during_login).                                                  *)
UsedOnce(k) == table[k] # NoRow => Cardinality(table[k]) <= 1

CredentialsAreSingleUse ==
  alone =>
    /\ \A r \in Maker : UsedOnce(Verify(r)) /\ UsedOnce(Reset(r))
    /\ \A s, t \in Sessions : s # t =>
         \A credential \in {"from", "spent"} :
           table[Session(s)][credential] = table[Session(t)][credential] =>
             table[Session(s)][credential] = NoRow

(* When requests do not overlap a reset ends every session there was: an   *)
(* active one, refreshed or not, began under the current password          *)
(* (reset_password, _revoke_all_refresh_tokens).                           *)
ResetEndsSessions ==
  alone => \A s \in Sessions :
    table[Session(s)].revoked \/ table[Session(s)].under = table[User].password

(* At most one set of recovery codes exists, and one does when the second  *)
(* factor is active, however setups, confirmations and logins interleave   *)
(* (confirm_setup, _replace_recovery_codes).                               *)
OneSetOfCodes ==
  /\ Cardinality(Codes) <= 1
  /\ Active(table[Method]) => Codes # {}

(* When requests do not overlap no password and no provider opens a        *)
(* session by itself while the second factor is active (login,             *)
(* login_or_provision).                                                    *)
SecondFactorIsAsked ==
  [][ \A r \in Request :
        /\ alone
        /\ txn[r].kind \in {"login", "sso"}
        /\ table[Session(r)] = NoRow /\ table'[Session(r)] # NoRow
        => ~ Active(table[Method]) ]_vars

(* When requests do not overlap an active second factor goes only by being *)
(* disabled, with the password and a code (start_setup, disable).          *)
ActiveMethodIsKept ==
  [][ alone /\ Active(table[Method]) /\ table'[Method] # table[Method] =>
        \E r \in Request : /\ txn[r].kind = "disable"
                           /\ txn[r].pc # "done" /\ txn'[r].pc = "done" ]_vars

(* What a commit changes, its audit row says, and it commits with it: the  *)
(* session that begins, the sessions revoked, the user's row, the second   *)
(* factor (log_event, "so a crash between mutation and audit write is      *)
(* impossible").                                                           *)
Changes(keys) == \E k \in keys : table'[k] # table[k]

Says(r, events) ==
  table[Audit(r)] = NoRow /\ table'[Audit(r)] # NoRow
    /\ table'[Audit(r)] \cap events # {}

ChangesAreAudited ==
  [][ \E r \in Request :
        /\ Changes({Session(s) : s \in Maker}) =>
             Says(r, {"login_success", "refresh", "logout", "session_revoked",
                      "password_reset_completed"})
        /\ Changes({User}) =>
             Says(r, {"register", "email_verified", "password_reset_completed"})
        /\ Changes({Method} \cup {Code(c) : c \in Maker}) =>
             Says(r, {"mfa_setup_started", "mfa_setup_completed",
                      "mfa_disabled", "mfa_success"}) ]_vars

(* Every request received ends, the waits for row locks included.          *)
RequestsEnd == []<>(\A r \in Request : ~ Busy(r))

(* "If that email is registered, a password reset link has been sent."     *)
(* (routes.py, password_forgot): the request of a registered user does not *)
(* end in an error of the server.                                          *)
ResetLinkIsSent ==
  \A r \in Request : txn[r].kind = "forgot" => txn[r].pc # "error"

(* "We revoke every active session for the user and raise." (refresh): the *)
(* request that is answered with the reuse of a refresh token leaves the   *)
(* sessions it found active revoked.                                       *)
ReuseEndsSessions ==
  [][ \A r \in Request :
        RaiseReuse(r) => \A s \in txn[r].seen : table'[Session(s)].revoked ]_vars
=============================================================================

------------------------------- MODULE Sharing ------------------------------
(***************************************************************************)
(* What the people of a workspace share: a dataset (its visibility and     *)
(* grants, app/data), a credential for language models (its key, access    *)
(* and grants, app/llm) and the conversations that use both (app/agent).   *)
(*                                                                         *)
(* A request is one transaction (module ReadCommitted) on behalf of the    *)
(* person its transaction has bound; the policies of migrations 0002 to    *)
(* 0004 decide what its statements see and may write.  The process         *)
(* connects as dataprep_app, the role they apply to.                       *)
(*                                                                         *)
(* There is one dataset, whose source is visible to its creator and the    *)
(* owner only, and one nickname for credentials.  Keys and credentials are *)
(* named after the request that made them.                                 *)
(***************************************************************************)
EXTENDS Naturals, FiniteSets

CONSTANTS
  MaxRequests,  \* bound on the requests of a behaviour
  MaxOverlap,   \* bound on the requests in progress at a time
  Person,       \* the members of the workspace
  RoleOf,       \* their roles
  Creator,      \* who created the dataset
  NoRow

ASSUME BoundsArePositive ==
  MaxRequests \in Nat \ {0} /\ MaxOverlap \in Nat \ {0}

ASSUME PeopleHaveRoles ==
  Creator \in Person /\ RoleOf \in [Person -> {"owner", "admin", "member"}]

(* Requests are numbered as they arrive; number 0 is what came before.     *)
Request == 1..MaxRequests
Maker == 0..MaxRequests

VARIABLES
  table,   \* the committed rows
  writes,  \* the rows each transaction has written
  txn,     \* the progress of each request
  legible  \* the keys its person could read at a time since it was received

vars == <<table, writes, txn, legible>>

INSTANCE ReadCommitted

Dataset == <<"datasets", 0>>
Grant(p) == <<"dataset_grants", p>>
Credential == <<"llm_credentials", 0>>
Access(p) == <<"llm_credential_grants", p>>
Conversation(r) == <<"agent_conversations", r>>

Grants == {Grant(p) : p \in Person}
Accesses == {Access(p) : p \in Person}
Conversations == {Conversation(r) : r \in Maker}

Key == {Dataset, Credential} \cup Grants \cup Accesses \cup Conversations

Visibility == {"private", "shared_workspace", "shared_specific"}
MemberAccess == {"admins_only", "all_members", "specific_members"}

CredentialRow == [id : Maker, key : Maker, access : MemberAccess,
                  tested : Maker \cup {NoRow}]
ConversationRow == [by : Person, credential : Maker]

ASSUME NoRowIsNoRow ==
  NoRow \notin CredentialRow \cup ConversationRow \cup {"row"}

Kind == {"list", "visibility", "share", "unshare", "create", "update", "rotate",
         "delete", "test", "grant", "revoke", "open", "kickoff", "send"}

(* Where a request stands:                                                 *)
(*   received  nothing is read yet                                         *)
(*   verified  a conversation is to be opened and the dataset is visible   *)
(*   looked    the rows it depends on are read                             *)
(*   refetch   a grant was there already, and is to be read                *)
(*   loading   a turn begins: its dataset and source are next              *)
(*   keyed     and its credential is next                                  *)
(*   testing   the key is read, the provider is next                       *)
(*   calling   the same, for a turn                                        *)
(*   stamping  the provider has answered                                   *)
(*   commit    all that is left is to commit                               *)
(*   refused   an exception the route translates                           *)
(*   error     one it does not                                             *)
Place == {"waiting", "received", "verified", "looked", "refetch", "loading",
          "keyed", "testing", "calling", "stamping", "commit", "done",
          "refused", "error"}

NoArg == "none"

(* A request: whose it is, what it is to set or for whom, the credential   *)
(* it names, the access and the key it has read, and whether its           *)
(* transaction has bound the person.                                       *)
Waiting == [pc |-> "waiting", kind |-> "list", by |-> Creator, arg |-> NoArg,
            id |-> NoRow, loaded |-> NoArg, key |-> NoRow, shown |-> FALSE,
            bound |-> FALSE]

Ended(r) == txn[r].pc \in {"done", "refused", "error"}

Busy(r) == txn[r].pc # "waiting" /\ ~ Ended(r)

-----------------------------------------------------------------------------
(* The policies.                                                           *)

(* Creator and owner: data_sources_select, datasets_update,                *)
(* app_user_admins_dataset.                                                *)
Manages(p) == p = Creator \/ RoleOf[p] = "owner"

(* datasets_select, given the row and the grant.                           *)
SelectsDataset(p, visibility, grant) ==
  \/ visibility = "shared_workspace"
  \/ visibility = "shared_specific" /\ grant # NoRow
  \/ Manages(p)

(* app_is_workspace_admin.                                                 *)
Administers(p) == RoleOf[p] \in {"owner", "admin"}

(* llm_credentials_select, given the row and the grant.                    *)
SelectsCredential(p, credential, grant) ==
  /\ credential # NoRow
  /\ \/ Administers(p)
     \/ credential.access = "all_members"
     \/ credential.access = "specific_members" /\ grant # NoRow

SeesDataset(r) ==
  LET p == txn[r].by IN SelectsDataset(p, Seen(r, Dataset), Seen(r, Grant(p)))

SeesCredential(r, id) ==
  LET p == txn[r].by IN
    /\ SelectsCredential(p, Seen(r, Credential), Seen(r, Access(p)))
    /\ Seen(r, Credential).id = id

(* The keys p can read in these rows.                                      *)
Legible(p, rows) ==
  IF SelectsCredential(p, rows[Credential], rows[Access(p)])
    THEN {rows[Credential].key} ELSE {}

-----------------------------------------------------------------------------

NoRows == [k \in Key |-> NoRow]

Private == [NoRows EXCEPT ![Dataset] = "private"]

(* Shared with everyone, and a credential nobody has used.                 *)
Open ==
  [NoRows EXCEPT
     ![Dataset] = "shared_workspace",
     ![Credential] = [id |-> 0, key |-> 0, access |-> "all_members",
                      tested |-> 0]]

(* Both shared by grants, and a conversation of the creator.               *)
Granted ==
  [[k \in Key |-> IF k \in Grants THEN "row" ELSE NoRow] EXCEPT
     ![Dataset] = "shared_specific",
     ![Credential] = [id |-> 0, key |-> 0, access |-> "specific_members",
                      tested |-> NoRow],
     ![Access(Creator)] = "row",
     ![Conversation(0)] = [by |-> Creator, credential |-> 0]]

Init ==
  /\ table \in {Private, Open, Granted}
  /\ writes = [r \in Request |-> NoWrites]
  /\ txn = [r \in Request |-> Waiting]
  /\ legible = [r \in Request |-> {}]

Goto(r, pc) == txn' = [txn EXCEPT ![r].pc = pc]

Flush(r, rows, pc) ==
  /\ Write(r, rows)
  /\ Goto(r, pc)
  /\ UNCHANGED table

(* A read and nothing else.                                                *)
Read == UNCHANGED <<table, writes>>

Close(r, pc) ==
  /\ DropWrites(r)
  /\ Goto(r, pc)
  /\ UNCHANGED table

(* An exception that the route does not translate: the session closes.     *)
Error(r) == Close(r, "error")

Is(r, kinds, pc) == txn[r].kind \in kinds /\ txn[r].pc = pc

-----------------------------------------------------------------------------
(* The dataset.                                                            *)

(* The list joins each dataset with its source.                            *)
ListDatasets(r) ==
  /\ Is(r, {"list"}, "received")
  /\ txn' = [txn EXCEPT ![r].pc = "commit",
                        ![r].shown = SeesDataset(r) /\ Manages(txn[r].by)]
  /\ Read

(* The same join finds the row whose visibility is to change.              *)
FindDataset(r) ==
  /\ Is(r, {"visibility"}, "received")
  /\ SeesDataset(r) /\ Manages(txn[r].by)
  /\ txn' = [txn EXCEPT ![r].pc = "looked", ![r].loaded = Seen(r, Dataset)]
  /\ Read

(* What equals the value that was read is not written.                     *)
UpdateVisibility(r) ==
  /\ Is(r, {"visibility"}, "looked")
  /\ IF txn[r].arg = txn[r].loaded
       THEN Goto(r, "commit") /\ Read
       ELSE Free(r, {Dataset}) /\ Flush(r, Set(Dataset, txn[r].arg), "commit")

(* A policy that admits any member of the workspace.                       *)
AddDatasetGrantOfAnyone(r) ==
  LET grant == Grant(txn[r].arg) IN
    /\ Is(r, {"share"}, "received")
    /\ Free(r, {grant})
    /\ IF Seen(r, grant) # NoRow THEN Close(r, "refused")
                                 ELSE Flush(r, Set(grant, "row"), "commit")

(* dataset_grants_insert comes first, then the unique constraint: 409.     *)
AddDatasetGrant(r) ==
  LET grant == Grant(txn[r].arg) IN
    /\ Is(r, {"share"}, "received")
    /\ IF ~ Manages(txn[r].by)
         THEN Error(r)
         ELSE /\ Free(r, {grant})
              /\ IF Seen(r, grant) # NoRow
                   THEN Close(r, "refused")
                   ELSE Flush(r, Set(grant, "row"), "commit")

(* dataset_grants_delete: what the policy hides is not deleted, which is   *)
(* no error.  A grant not committed yet is not among the rows.             *)
RemoveDatasetGrant(r) ==
  LET grant == Grant(txn[r].arg)
      found == Manages(txn[r].by) /\ table[grant] # NoRow
  IN  /\ Is(r, {"unshare"}, "received")
      /\ found => Free(r, {grant})
      /\ Flush(r, IF found THEN Set(grant, NoRow) ELSE NoWrites, "commit")

-----------------------------------------------------------------------------
(* The credential.  Its routes are for administrators.                     *)

CreateCredential(r) ==
  LET row == [id |-> r, key |-> r, access |-> txn[r].arg, tested |-> NoRow] IN
    /\ Is(r, {"create"}, "received")
    /\ Administers(txn[r].by)
    /\ Free(r, {Credential})
    /\ IF Seen(r, Credential) # NoRow
         THEN Close(r, "refused")
         ELSE Flush(r, Set(Credential, row), "commit")

FindCredential(r) ==
  /\ Is(r, {"update", "rotate", "delete", "test"}, "received")
  /\ Administers(txn[r].by)
  /\ SeesCredential(r, txn[r].id)
  /\ txn' = [txn EXCEPT
               ![r].pc = IF txn[r].kind = "test" THEN "testing" ELSE "looked",
               ![r].loaded = Seen(r, Credential).access,
               ![r].key = IF txn[r].kind = "test"
                            THEN Seen(r, Credential).key ELSE NoRow]
  /\ Read

(* The row that was read is still there.                                   *)
StillThere(r) == table[Credential] # NoRow /\ table[Credential].id = txn[r].id

(* An UPDATE by primary key of the columns in row; no row is an error.     *)
UpdateRow(r, row) ==
  /\ Free(r, {Credential})
  /\ IF StillThere(r) THEN Flush(r, Set(Credential, row), "commit") ELSE Error(r)

(* An omitted key blanks the one that is there.                            *)
UpdateCredentialAndBlank(r) ==
  /\ Is(r, {"update", "rotate"}, "looked")
  /\ UpdateRow(r, IF txn[r].kind = "rotate"
                    THEN [table[Credential] EXCEPT !.key = r]
                    ELSE [table[Credential] EXCEPT !.access = txn[r].arg,
                                                   !.key = NoRow])

(* The test's result stays when the key changes.                           *)
UpdateCredential(r) ==
  /\ Is(r, {"update", "rotate"}, "looked")
  /\ IF txn[r].kind = "rotate"
       THEN UpdateRow(r, [table[Credential] EXCEPT !.key = r])
       ELSE IF txn[r].arg = txn[r].loaded
         THEN Goto(r, "commit") /\ Read
         ELSE UpdateRow(r, [table[Credential] EXCEPT !.access = txn[r].arg])

(* Conversations on the credential that exist or are being inserted.       *)
InUse == \E k \in Conversations : table[k] # NoRow

(* Letting go of the conversations.                                        *)
DeleteCredentialInUse(r) ==
  /\ Is(r, {"delete"}, "looked")
  /\ Free(r, {Credential} \cup Accesses)
  /\ Flush(r, [k \in {Credential} \cup Accesses |-> NoRow], "commit")

(* ON DELETE RESTRICT of conversations, CASCADE of grants: the DELETE      *)
(* waits for those who insert either.  A row that is gone is no error.     *)
DeleteCredential(r) ==
  /\ Is(r, {"delete"}, "looked")
  /\ Free(r, {Credential} \cup Accesses \cup Conversations)
  /\ IF ~ StillThere(r)
       THEN Goto(r, "commit") /\ Read
       ELSE IF InUse
         THEN Error(r)
         ELSE Flush(r, [k \in {Credential} \cup Accesses |-> NoRow],
                    "commit")

AskProvider(r) ==
  /\ txn[r].pc = "testing"
  /\ Goto(r, "stamping")
  /\ Read

StampResult(r) ==
  /\ txn[r].pc = "stamping"
  /\ UpdateRow(r, [table[Credential] EXCEPT !.tested = txn[r].key])

(* A deletion of the credential that is not committed yet: an INSERT that  *)
(* refers to it waits.                                                     *)
BeingDeleted(r) ==
  \E q \in Request \ {r} :
    Credential \in DOMAIN writes[q] /\ writes[q][Credential] = NoRow

(* A foreign key or unique violation: the rollback unbinds the person.     *)
AddGrant(r) ==
  LET grant == Access(txn[r].arg) IN
    /\ Is(r, {"grant"}, "received")
    /\ Administers(txn[r].by)
    /\ Free(r, {grant})
    /\ ~ BeingDeleted(r)
    /\ IF StillThere(r) /\ Seen(r, grant) = NoRow
         THEN Flush(r, Set(grant, "row"), "commit")
         ELSE /\ DropWrites(r)
              /\ txn' = [txn EXCEPT ![r].pc = "refetch", ![r].bound = FALSE]
              /\ UNCHANGED table

(* Inserting again until the grant is the one inserted.                    *)
RetryGrant(r) ==
  /\ txn[r].pc = "refetch"
  /\ Goto(r, "received")
  /\ Read

(* llm_credential_grants_select hides the grant from nobody in particular, *)
(* and the violation is raised again.                                      *)
RefetchGrant(r) ==
  /\ txn[r].pc = "refetch"
  /\ IF txn[r].bound /\ Seen(r, Access(txn[r].arg)) # NoRow
       THEN Goto(r, "commit") /\ Read
       ELSE Error(r)

(* A grant that is not there is no error.                                  *)
RemoveGrant(r) ==
  LET grant == Access(txn[r].arg)
      found == table[grant] # NoRow
  IN  /\ Is(r, {"revoke"}, "received")
      /\ Administers(txn[r].by)
      /\ found => Free(r, {grant})
      /\ Flush(r, IF found THEN Set(grant, NoRow) ELSE NoWrites, "commit")

-----------------------------------------------------------------------------
(* Conversations.                                                          *)

VerifyDataset(r) ==
  /\ Is(r, {"open", "kickoff"}, "received")
  /\ SeesDataset(r)
  /\ Goto(r, "verified")
  /\ Read

VerifyCredential(r) ==
  /\ txn[r].pc = "verified"
  /\ Goto(r, IF SeesCredential(r, txn[r].id) THEN "looked" ELSE "refused")
  /\ Read

InsertConversation(r) ==
  LET row == [by |-> txn[r].by, credential |-> txn[r].id] IN
    /\ Is(r, {"open", "kickoff"}, "looked")
    /\ ~ BeingDeleted(r)
    /\ IF StillThere(r)
         THEN Flush(r, Set(Conversation(r), row),
                    IF txn[r].kind = "open" THEN "commit" ELSE "loading")
         ELSE Error(r)

StartTurn(r) ==
  /\ Is(r, {"send"}, "received")
  /\ Goto(r, "loading")
  /\ Read

(* DatasetNotVisibleError, which the route of a kickoff translates and     *)
(* that of a message does not.                                             *)
LoadDataset(r) ==
  /\ txn[r].pc = "loading"
  /\ IF SeesDataset(r) /\ Manages(txn[r].by)
       THEN Goto(r, "keyed") /\ Read
       ELSE Close(r, IF txn[r].kind = "kickoff" THEN "refused" ELSE "error")

(* Having checked when the conversation was opened.                        *)
LoadKeyOfConversation(r) ==
  /\ txn[r].pc = "keyed"
  /\ IF StillThere(r)
       THEN /\ txn' = [txn EXCEPT ![r].pc = "calling",
                                  ![r].key = table[Credential].key]
            /\ Read
       ELSE Close(r, "refused")

(* Each turn reads the credential again, as the person who asks.           *)
LoadKey(r) ==
  /\ txn[r].pc = "keyed"
  /\ IF SeesCredential(r, txn[r].id)
       THEN /\ txn' = [txn EXCEPT ![r].pc = "calling",
                                  ![r].key = Seen(r, Credential).key]
            /\ Read
       ELSE Close(r, "refused")

Call(r) ==
  /\ txn[r].pc = "calling"
  /\ Goto(r, "commit")
  /\ Read

-----------------------------------------------------------------------------
(* How requests begin and end.                                             *)

Commit(r) ==
  /\ txn[r].pc = "commit"
  /\ CommitWrites(r)
  /\ Goto(r, "done")

(* Not an administrator, nothing of that name that the person can see.     *)
Refuse(r) ==
  /\ txn[r].pc = "received"
  /\ Goto(r, "refused")
  /\ Read

(* A crash, a cancelled request, a provider that fails.                    *)
Fail(r) == Busy(r) /\ Error(r)

(* What a request sets, or for whom.                                       *)
Argument(kind) ==
  CASE kind = "visibility" -> Visibility
    [] kind \in {"create", "update"} -> MemberAccess
    [] kind \in {"share", "unshare", "grant", "revoke"} ->
         {p \in Person : RoleOf[p] = "member"}
    [] OTHER -> {NoArg}

(* A conversation is its creator's and the workspace owner's.              *)
SelectsConversation(p, k) ==
  table[k] # NoRow /\ (p = table[k].by \/ RoleOf[p] = "owner")

(* The credential a request names: one that its person has seen, or that   *)
(* of a conversation that its person can read.                             *)
Named(kind, p) ==
  CASE kind = "send" ->
         {table[k].credential :
            k \in {k \in Conversations : SelectsConversation(p, k)}}
    [] kind \in {"update", "rotate", "delete", "test", "grant", "revoke",
                 "open", "kickoff"} ->
         IF table[Credential] = NoRow THEN {} ELSE {table[Credential].id}
    [] OTHER -> {NoRow}

Begin(r) ==
  /\ txn[r].pc = "waiting"
  /\ \A q \in 1..(r - 1) : txn[q].pc # "waiting"
  /\ Cardinality({q \in Request : Busy(q)}) < MaxOverlap
  /\ \E kind \in Kind, p \in Person :
       \E arg \in Argument(kind), id \in Named(kind, p) :
         txn' = [txn EXCEPT ![r] =
                   [pc |-> "received", kind |-> kind, by |-> p, arg |-> arg,
                    id |-> id, loaded |-> NoArg, key |-> NoRow,
                    shown |-> FALSE, bound |-> TRUE]]
  /\ Read

Advance(r) ==
  \/ ListDatasets(r)
  \/ FindDataset(r)
  \/ UpdateVisibility(r)
  \/ AddDatasetGrant(r)
  \/ RemoveDatasetGrant(r)
  \/ CreateCredential(r)
  \/ FindCredential(r)
  \/ UpdateCredential(r)
  \/ DeleteCredential(r)
  \/ AskProvider(r)
  \/ StampResult(r)
  \/ AddGrant(r)
  \/ RefetchGrant(r)
  \/ RemoveGrant(r)
  \/ VerifyDataset(r)
  \/ VerifyCredential(r)
  \/ InsertConversation(r)
  \/ StartTurn(r)
  \/ LoadDataset(r)
  \/ LoadKey(r)
  \/ Call(r)
  \/ Commit(r)
  \/ Refuse(r)

(* The keys legible to a request's person while it is in progress.         *)
Reads(r) ==
  IF Busy(r)'
    THEN legible[r] \cup Legible(txn'[r].by, table) \cup Legible(txn'[r].by, table')
    ELSE {}

Next ==
  /\ \E r \in Request : Begin(r) \/ Advance(r) \/ Fail(r)
  /\ legible' = [r \in Request |-> Reads(r)]

(* A received request keeps going: external calls have time limits.        *)
Fairness ==
  \A r \in Request :
    WF_vars(Advance(r) /\ legible' = [q \in Request |-> Reads(q)])

Spec == Init /\ [][Next]_vars /\ Fairness

-----------------------------------------------------------------------------
(* Properties.                                                             *)

TypeOK ==
  /\ table[Dataset] \in Visibility
  /\ table[Credential] \in CredentialRow \cup {NoRow}
  /\ \A k \in Grants \cup Accesses : table[k] \in {"row", NoRow}
  /\ \A k \in Conversations : table[k] \in ConversationRow \cup {NoRow}
  /\ \A r \in Request :
       /\ txn[r].pc \in Place
       /\ txn[r].kind \in Kind
       /\ txn[r].by \in Person
       /\ txn[r].key \in Maker \cup {NoRow}
       /\ legible[r] \subseteq Maker

(* A conversation's credential and a credential's grants never outlive it  *)
(* or join it too late, whoever deletes, grants and opens conversations at *)
(* the same time (delete_credential, add_grant, create_conversation).      *)
ReferencesHold ==
  /\ \A k \in Conversations :
       table[k] # NoRow => /\ table[Credential] # NoRow
                           /\ table[Credential].id = table[k].credential
  /\ \A k \in Accesses : table[k] # NoRow => table[Credential] # NoRow

(* Who shares is entitled to, at the commit: the creator or the owner      *)
(* changes a dataset's visibility and grants, an administrator a           *)
(* credential's ("even if a route forgot the check, the database would     *)
(* refuse the write", llm/routes.py).                                      *)
OnlyManagersShare ==
  [][ \E r \in Request :
        LET changed == {k \in Key : table'[k] # table[k]} IN
          /\ changed \cap (Grants \cup {Dataset}) # {} =>
               Manages(txn[r].by) /\ txn'[r].pc # txn[r].pc
          /\ changed \cap (Accesses \cup {Credential}) # {} =>
               Administers(txn[r].by) /\ txn'[r].pc # txn[r].pc ]_vars

(* The key a turn or a test sends to the provider is one that its person   *)
(* could read at some time since the request was received: neither the     *)
(* conversation nor a leftover grant keeps a key or an access that was     *)
(* withdrawn before (_load_conversation_context, test_saved_credential).   *)
KeysAreLegible ==
  \A r \in Request :
    txn[r].pc \in {"testing", "calling"} => txn[r].key \in legible[r]

(* Every request received ends, the waits for row locks included.          *)
RequestsEnd == []<>(\A r \in Request : ~ Busy(r))

(* A dataset that is shared is of use to nobody it is shared with: the     *)
(* policy of its source hides the join of the two, in the list of datasets *)
(* and at the start of every turn (list_datasets and                       *)
(* _load_conversation_context, data_sources_select).                       *)
SharedIsOutOfReach ==
  \A r \in Request :
    txn[r].shown \/ txn[r].pc \in {"keyed", "calling"} => Manages(txn[r].by)
=============================================================================

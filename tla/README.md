# A verification project for D_Engine

D_Engine is a multi-tenant service that lets a user load a table, talk about it
with an AI agent, and clean it through operations the agent calls. A FastAPI
backend keeps everything in PostgreSQL, with row-level security per tenant and
user, and keeps data files on a local disk; a Next.js frontend sits on top.
This directory holds TLA+ models of the backend, the TLC configurations that
check them, and TLAPS proofs. Every definition is translated from the code in
`src/backend/app`; `PROJECT.json` gives the lines of each.

Tools: `tlc -config X.cfg M` checks a run, `tlapm M.tla` checks a proof module.

## 1. Inventory

| Component | State | Operations | What is hard | What makes it correct |
|---|---|---|---|---|
| **Working copies** (`transforms/service.py`, `routes.py`) | one row per dataset and user pointing at a parquet snapshot; a journal of operations with before and after paths and `undone_at`; the files | snapshot of the source on first use, inspect, mutate, undo from an operation on, reset, export | an agent turn keeps its transaction open while it awaits the model; nothing locks the row at its SELECT; files do not roll back | the pointer and journal name only files on record; an operation is undone once; the row shows the last applied operation; one copy per user |
| **Conversations and agent loop** (`agent/service.py`, `routes.py`) | conversation row; append-only messages ordered by `created_at`; the list in memory that goes to the model | create (with or without opening turn), send, the loop (call the model, run tools, up to 12 times), delete | turns overlap; the provider fails in mid-turn; deletion during a turn; retries | turns are all or nothing; calls and results stay paired; memory and rows agree but for the words of a silent reply; nothing empty is sent; deletion is complete |
| **Operations** (`transforms/ops`, `dispatcher.py`) | none | dedupe, fillna, normalise text and numbers, parse dates, inspect | edge cases of data | the frame and the summary agree |
| **Provider clients** (`agent/clients.py`) | none | four vendors' chat APIs | timeouts, id conventions | normalised calls and results |
| **Tools and prompt** (`agent/tools.py`) | none | static schemas | - | - |
| **Uploads, sources, datasets** (`data/service.py`, `routes.py`) | source and dataset rows, uploaded files | upload, connect, import tables | the file is written before the rows; compensation covers some failures | no dataset without its file; an import is all or nothing |
| **Profile runs** (`data/service.py`, `profiling.py`) | runs: running, completed, failed; the dataset's row count | run, read the latest | three transactions per run, crash between them, two runs at once | a run ends; the count is the latest run's |
| **Sharing** (`data/routes.py`) | visibility, grants | patch, add, remove | uniqueness | a grant exists once |
| **Storage** (`data/storage.py`) | files under uuid names | save, delete | partial writes | no partial file remains |
| **Parsers and probes** (`data/parsers`, `data/probes`) | none | schema inference | external formats and databases | - |
| **LLM credentials** (`llm/service.py`, `routes.py`) | credentials with last test result; grants | create, rotate, delete, test, grant | the test awaits the provider; recovery from a unique violation ends the transaction and its settings | a test result belongs to the key it tested |
| **Login, tokens, sessions** (`auth/service.py`, `routes.py`) | users, tenants, memberships, single-use tokens, refresh tokens | register, verify, reset, login, refresh, logout, revoke | two requests with one token; errors that roll back what they report | a token is used once; a rotation has one successor; a revocation lasts |
| **Second factor, SSO, audit** (`auth/mfa_service.py`, `sso.py`, `audit.py`) | methods, recovery codes, audit rows | setup, confirm, verify, disable; callback; log | two requests at once | a code is used once; the audit row commits with what it records |
| **Database sessions and RLS** (`db`, `auth/dependencies.py`) | a session per request; settings local to a transaction | open, bind, close | settings end with the transaction | every query runs under its user |
| **Core, middleware, migrations, frontend** | configuration | crypto, headers, schema, pages | - | - |

How they interact: a route opens one session (`get_authenticated_session`),
calls a service and commits; an exception closes the session and the
transaction rolls back. The agent's loop calls the transforms service in the
turn's own transaction, so the working copy, the journal and the messages of a
turn commit together. The prompt reads the dataset and its latest profile. A
conversation refers to a credential with RESTRICT and its messages cascade.

The hazards, each at its line, are in `PROJECT.json` with the properties that
guard them, or the reason why none does.

## 2. Modules

| Module | What it is |
|---|---|
| `LinearHistory` | abstract: a straight-line history of versions that requests extend, roll back or start over |
| `WorkingCopy` | the working copy of one dataset and user: row, journal, files, requests |
| `MCWorkingCopy` | its TLC instance |
| `WorkingCopyProofs` | theorems about every overlap of requests |
| `WorkingCopySerialProofs` | theorems about changes that do not overlap; the refinement of `LinearHistory` |
| `Transcript` | abstract: a transcript that grows by whole turns until it is deleted |
| `AgentConversation` | one conversation: opening, sends, loop, deletion |
| `AgentProviders` | what the four clients put on the wire of the list the loop sends |
| `MCAgentConversation` | the TLC instance of both |
| `AgentConversationProofs` | theorems about every overlap of messages and deletions |
| `AgentConversationSerialProofs` | theorems about turns that do not write at the same time, down to the wire; the refinement of `Transcript` |
| `ReadCommitted` | the tables, row locks and transactions the next three share |
| `Accounts` | one person's account: registration, login, sessions, second factor, reset |
| `AccountsProofs` | theorems about every overlap of requests about an account |
| `AccountsSerialProofs` | theorems about requests about an account that do not overlap |
| `Datasets` | one user's sources, files, datasets, imports and profile runs |
| `DatasetsProofs` | theorems about every overlap of uploads, imports and profile runs |
| `Sharing` | a workspace's dataset, language-model credential and conversations, under the policies |
| `SharingProofs` | theorems about every overlap of requests in a workspace |
| `MCAccounts`, `MCDatasets`, `MCSharing` | their TLC instances |

### Transactions

Each request is one PostgreSQL transaction at READ COMMITTED. A SELECT sees what
is committed when it runs and the session's own writes (`Seen`). An UPDATE waits
for the row's lock and writes only the columns in which the object differs from
what the session loaded (`Changed`, `UpdateRow`): a stale read is not detected,
and an assignment of the loaded value sends nothing. A commit is atomic;
`Rollback` stands for a provider error, any other exception, a cancelled request
and a crash, and may happen at any point of a request.

### WorkingCopy

| Variable | Code |
|---|---|
| `row`, `original` | the committed `dataset_working_copies` row (path and row_count) and the path it was created with |
| `committed`, `undone` | committed `dataset_operations` rows; those with `undone_at` |
| `restamped` | history: the rows whose `undone_at` a commit has written over |
| `written`, `height`, `before` | snapshot files; rows in each; `snapshot_before_path` of the operation that wrote it |
| `txn` | each request's transaction: what it loaded, wrote, inserted and is about to stamp |

A file's number is also the id of the journal row it was written for and its
place in `created_at` order: the path is a fresh uuid4, the row is inserted
right after the file is written, and the clock is taken not to step back.

`StartTurn`, `SnapshotSource`, `CreateRow`, `InspectTool` and `MutateTool` are
`send_message` with the tools its loop runs; `CreateRow` waits for a rival that
has inserted, and fails the whole turn when the rival commits (unique
constraint). `StartUndo`, `SelectTarget` and `SelectLater` are the SELECTs of
`undo_operation`; `StartReset` and `SelectActive` those of `reset_working_copy`;
`StampOperations` and `UpdateRow` are their flush, in the order the ORM writes
the two tables; then `Commit`. The UPDATE that stamps an operation names it by
its primary key only, so it takes a row that a rival has undone since the SELECT
and writes over its `undone_at` (`WrittenOver`). Left out: column_count,
rows_before, titles, the operations' data (any height in `Rows`, or a failure).

### AgentConversation

| Variable | Code |
|---|---|
| `convo` | the committed `agent_conversations` row: none, live, deleted |
| `turn` | the `agent_messages` rows each request has inserted |
| `order` | all those rows in `created_at` order, committed or not |
| `txn` | each request's place in the code, iteration, calls answered, and `working_messages` |

`Create` and `Kickoff` are the route with and without the opening turn; `Load`,
`Refuse`, `Post` and `BuildHistory` the preamble of `send_message`; `Answer`,
`CallTools`, `RunTool` and `GiveUp` the loop's branches; `Delete` the route's
SELECT-then-DELETE with the cascade, which waits for transactions that hold the
foreign key's lock on the conversation (`LocksConversation`). A message is its
role, whether it has a text, and a number that pairs calls with results by
position: ids need not be unique, since one provider client uses the function's
name. A reply may be silent (`Said`): its text is empty, or nothing but the
suggestions the loop takes out. Its row holds the placeholder (`AsStored`),
while the list in memory goes on with the reply as it was (`CallTools`, `Told`).
So a replay of a silent call of tools tells words the model never said, where
the comment on `AgentMessageRole` says that the rows "let us replay a thread
exactly"; `ReplayIsFaithful` says where the two differ, and that they differ
nowhere else. `Shown` and `History` are two SELECTs on the same rows: the
visible ones that are not system rows, and all the visible ones as a replay
tells them (`AsTold`), both in `created_at` order (`Selected`). Each request
happens at most once; a retry after a lost response is another send.

The branch for actions that wait for approval cannot be reached
(`PENDING_ACTION_TOOLS` is the empty set) and is not modelled. An operation that
fails inside a tool becomes a result row like any other. The two modules meet in
a turn's transaction: `WorkingCopy` has the turn's tools, `AgentConversation`
its messages, and both have the same commit and rollback.

### AgentProviders

No state of its own: `ChatMessages` is the list of a reachable state of
`AgentConversation` with an id and a tool for each call, `Wire` what a provider
is sent of it, one `...Turn` operator per `_build_..._messages` function.
`CallId` is what parsing a reply makes of a call's id: Anthropic and OpenAI give
one, Google's client takes the function's name, older Ollama builds get an index.

### ReadCommitted

`table` holds the committed rows by key (a table's name and what identifies the
row), `writes` what each open transaction has written, by key too: what it sees
first (`Seen`), and what it has locked (`Free`). A module that instantiates it
gives each request one transaction, with `txn` for its place in the code.

Rules kept in all three modules: an ORM UPDATE of a row that was read goes by
primary key after the wait for its lock, without a version check, and fails when
the row is gone; a DELETE of a row that is gone does not; a bulk UPDATE writes
the rows its statement chose; what `set_config(..., true)` binds ends with the
transaction; a route that raises does not commit. Requests, and what they make,
are numbered in the order they arrive; 0 made what was there before. `Fail` or
`Crash` ends a request at any point and is never fair; `Refuse` ends one for
what it was given (wrong password, expired token, invalid input).

### Accounts

Thirteen kinds of request about one e-mail address; `mailed` is the set of
links the person has. The process connects as `dataprep_app`, which the policies
bind, or as the owner of the schema, which bypasses them: `audit_log_insert`
(`Permitted`) is the policy that matters here. `FindUser`, `FindAuthToken`,
`FindSession`, `FindPending`, ... are the first SELECT of a handler, the actions
after them what it writes from what it read: the two reads of a token by rivals,
a refresh beside a reset, two confirmations of one setup. `DetectReuse`,
`RevokeSessions` and `RaiseReuse` are the branch of `refresh` for a token that
was revoked before. The opening states are an empty database, a signed-in user,
and one with a second factor.

`disable` says it removes the recovery codes with the method (CASCADE), but they
refer to the user and not to the method, so they stay until the next confirmation
replaces them (`Disable`): `OneSetOfCodes` allows codes without a method.
`regenerate_recovery_codes` is called by no route and is not modelled.

`alone` is a history variable: no two requests have overlapped so far. What the
code only keeps without overlap is stated under it, so that one run checks both.

### Datasets

`files` is the stored file of each upload: none, partial, whole. An upload saves
it (`StartSaving`, `FinishSaving`, `FailSaving`), reads its schema, inserts source
and dataset, commits; `RejectFile` and `DuplicateName` are the compensation of
the route. An import flushes a dataset per table in one transaction, waits for a
rival's insert of the same name (`ImportTable`, `EndDeadlock`), and `LoseCommit`
is a commit that takes effect and raises. A profile run commits three times
(`OpenRun`, `CloseRun`, `Commit`), its user bound again after each (`bound`).

### Sharing

Four people: the owner, an administrator, the member who created the dataset,
and another member. A message is sent in a conversation its person can read
(`SelectsConversation`): the creator's own, and any for the owner. `Manages`,
`SelectsDataset`, `Administers` and `SelectsCredential` are the policies of
migrations 0002 to 0004; every SELECT and write goes through them. Conversations
refer to the credential with RESTRICT, grants with CASCADE, and an INSERT that
refers to a row waits for its deletion (`BeingDeleted`) and the other way round
(`DeleteCredential`). `legible` is a history variable: the keys a request's
person could read at some time since the request was received.

Three things the module shows in passing. `add_grant` means to treat a repeated
grant as done, but the rollback has unbound the person, so the SELECT after it
finds nothing and the violation is raised again (`RefetchGrant`). And
`DatasetNotVisibleError` in the opening turn, which the route of
`create_conversation` handles as nearly impossible, is what everybody gets whom
the dataset is shared with, since the source's policy hides the join
(`LoadDataset`). The list of datasets joins the same way (`ListDatasets`), so a
dataset shared with the whole workspace is in no other member's list, where
`data/models.py:97` says of that visibility "every member of the tenant":
`SharedIsOutOfReach`, a theorem, says that sharing gives nobody a listing or a turn.
One thing is left out: titles. Only its creator may update a
conversation's row, so the owner's first message in another's untitled
conversation flushes a title, finds no row to update and loses the turn; in the
model that is a `Fail`.

## 3. Runs

| Run | What it asks | Bounds | Answer |
|---|---|---|---|
| `wc_sessions` | what holds of the record however two requests overlap | 2 sessions, 4 files, 2 tool calls | holds |
| `wc_serial` | are changes that do not overlap, beside turns that only look, a straight-line history, and is an operation undone once | 2 sessions, heights {1,2}, 5 files, 3 calls | holds |
| `wc_double_undo` | is an operation undone once, when undos overlap | 3 files, else as `wc_sessions` | violated |
| `wc_export` | is the snapshot exported the result of all applied operations, under overlap | as `wc_sessions`, heights {1,2} | violated |
| `conv_sessions` | are committed turns whole and each in its order, deletions complete, and does every request end, under overlap | opening, 2 sends, 2 deletes, 2 iterations, 1 tool, no silent reply | holds |
| `conv_serial` | with one writer at a time, is the conversation a transcript, each list sent one that providers accept and every client sends with its results in place, and a replay what was told | opening, 2 sends, 1 delete, 2 iterations, 2 tools, 1 silent reply | holds |
| `conv_replay` | can what is stored be replayed, under overlap | 2 iterations, 1 tool | violated |
| `accounts` | what holds of an account, under overlap and without it | 3 requests, 2 at a time, both roles, 3 opening states | holds |
| `reset_link` | does a registered user get a reset link, under the runtime role | as `accounts` | violated |
| `refresh_reuse` | does the reuse of a refresh token end the sessions | 2 requests, one at a time | violated |
| `datasets` | do rows, files, imports and runs agree | 3 requests, 2 at a time, 1 source name, 2 dataset names, 4 lists of tables | holds |
| `sharing` | do references survive, do only managers share, who uses a key | 4 people, 2 requests at a time, 3 opening states | holds |

Properties under overlap: `CommittedReferences` (committed pointers name
committed files), `TurnIsChain` (a turn's operations follow from each other),
`OneWorkingCopy`, `TurnsAreWhole`, `TurnsKeepTheirOrder`,
`NothingOutlivesDeletion`, `RegistrationIsWhole`, `TokensWereMailed`,
`OneSetOfCodes`, `ChangesAreAudited`, `SourcesHaveTheirFiles`,
`RefusedUploadsLeaveNoFile`, `ImportsAreWhole`, `AnsweredRunsAreOver`,
`ReferencesHold`, `KeysAreLegible`, `OnlyManagersShare`, and `RequestsEnd` of each
module. Without overlap: `ShowsActiveOperations`, `UndoneOnce`,
`RowCountMatchesSnapshot`,
`HistorySpec`, `SentIsAnswerable`, `NothingEmptyIsSent`, `ReplayIsFaithful`,
`ResultsReachTheirCalls`, `TranscriptSpec`, `CredentialsAreSingleUse`,
`ResetEndsSessions`, `SecondFactorIsAsked`, `CountIsOfLastRun`.

"Without overlap" is no more than the property needs. In `WorkingCopy` only
changes may not overlap (`OneAtATime`, of `Changes`): a turn counts from its
first new file on, undo and reset from their SELECT of the row, and turns that
have only looked run beside them. In `AgentConversation` only one request at a
time may have messages that are not committed (`LocksConversation`): others may
have selected the conversation, and deletions come at any moment. Two of these
need less, which the theorems say: for `UndoneOnce` only two requests that both
hold operations to stamp must be kept apart (`OneUndoAtATime`, `UndoSpec`:
`later` is empty unless the session `Changes`), and `NothingEmptyIsSent` holds
under any overlap. So the two modules also say where a lock would have to begin
for the violated properties below to hold: at the SELECT of the row, at that of
the operations to undo, and at the INSERT of the first message of a turn, where
the key-share lock of the foreign key would have to exclude that of another
turn. The other modules ask that no two requests have overlapped (`alone`).

The bounds. Two sessions, or two requests at a time, are enough for every hazard
listed: each is a race of two. Four files are an original and three operations,
so that two turns can overlap with an undo's range above and below; the serial
run has one more, and two heights so that a wrong row_count shows. A double undo
needs an original and one operation. Two sends and the opening turn give a
history, a turn that replays it and one that overlaps; two iterations take the
loop through tools, tools again and the fallback; two tools in one completion
are needed to tell the order of results, and are in `conv_serial`. One silent
reply (`MaxSilent` bounds those on record at a time) is enough for what is asked
of them, since each is told, stored and replayed by itself; `conv_sessions` has
none, because the text enters no guard. Two deletions that race are in
`conv_sessions`, where deletions are asked about; `conv_serial` has one. Three
requests about an account are a race of two and what it leaves for a third (a
reset, then a refresh; a setup, two confirmations); the opening states stand for
longer histories: a sign-in, a second factor. Three data requests are a source,
its import and a rival, and four lists of tables have one, two in either order,
and one twice. Two requests of `Sharing` from three opening workspaces are every
race of two about rows that other requests may have left. `MaxFiles` bounds the
files, `MaxCalls` and `MaxIterations` stand for `_MAX_TOOL_ITERATIONS` (12),
`MaxRequests` bounds the requests of a behaviour and `MaxOverlap` those in
progress. All runs but those of `WorkingCopy` switch the deadlock check off
because a finite set of requests really does come to an end; `RequestsEnd`
checks that nothing is left hanging. Symmetry (of sessions; of sends) is used in
`wc_serial` and `conv_serial` only, which check no liveness.

Fairness. `WorkingCopy` has strong fairness on what a started request does next,
the others weak fairness: provider calls, probes and mail have time limits
(`_CHAT_TIMEOUT`, 120 s), PostgreSQL grants a row lock to those that wait in turn
and ends one of two transactions that wait for each other. Nothing is assumed
about users sending requests, nor about failures.

### What the violated runs show

* **wc_export.** Two overlapping turns: the second to finish had selected the
  row before the first committed, and its UPDATE overwrites the pointer. Both
  operations are listed as applied; the exported snapshot lacks one.
  A reset fails the same property another way: it selects the row, then the
  active operations; when the first operation commits between the two, the path
  assigned equals the one loaded, so no pointer is written, and the operation is
  undone with its result still shown.
* **wc_double_undo.** Two undos of one operation both find it active. The second
  waits for its row, writes over the `undone_at` the first has committed, and
  answers that it has undone it: when the operation was undone, and with which
  others, is lost.
* **conv_replay.** Two messages sent at once: their rows interleave by
  `created_at`, so a tool call is separated from its result in every replay from
  then on, and each turn is whole only by itself. Interleaving is all that overlap
  does: `TurnsKeepTheirOrder` says that no row of a turn is lost, repeated or moved
  before an earlier one, and with one writer at a time `ReplayIsPaired` is a theorem.

* **reset_link.** The request for a reset link inserts an audit row about a user
  that nothing in its transaction has bound; under the runtime role the policy
  refuses it, and every registered user's request ends in a server error. As
  theorems: under a role that bypasses policies no such request ends in an error,
  and under the runtime role no password is ever replaced.
* **refresh_reuse.** A refresh token is used, then presented again. The service
  revokes all sessions and raises; the route answers without a commit, and the
  session that descends from the stolen token stays active.
## 4. Proofs

Those about `WorkingCopy` hold for any set of sessions, any `Rows` of naturals and
any bounds, under `RowsAssumption` and `BoundAssumption` alone; those about
`AgentConversation` for any sets of sends and deletes and any bounds, under
`RequestsAreDistinct` and `BoundsAreNatural`; those about `Datasets` for any names,
lists of tables and bounds, under `NamesExist`, `ListsNameDatasets` and
`BoundsArePositive`; those about `Sharing` for any people, roles, creator and bounds,
under `PeopleHaveRoles` and `BoundsArePositive`; those about `Accounts` for any number of
requests, at any overlap, under either role, with `BoundsArePositive`. The last
three assume `NoRowIsNoRow` besides: the value of an absent row is not that of a row.

`WorkingCopyProofs`, about `Spec`, any number of overlapping requests:
`TypeCorrect`, `CommittedReferencesHold`, `TurnIsChainHolds`,
`OneWorkingCopyHolds`, and, about `UndoSpec`, `UndoneOnceHolds`. The properties
are not inductive: that a committed pointer names a committed file depends on
what a transaction holds before it commits. The invariant `IInv` adds, for each
transaction, that its pointer and the before-paths of its insertions refer to
the original, to something committed, or to its own insertions (`Refers`); that
its insertions follow one another (`Follows`); that the committed rows are
closed and name only files already written (`RecordInv`); and that at most one
session holds a working copy it has inserted and not committed (`OneCreator`).
There is one step per action; the action property follows from `IInv` and the
same case split. For `UndoneOnce`, `UndoInv` says that what an open transaction
is about to stamp is not undone yet: it was selected among the active operations
(`LaterSteps`), and only the commit of another undo or reset, which `UndoSpec`
keeps away, adds to `undone` (`UndoStep`).

`WorkingCopySerialProofs`, about `SerialSpec`: `ShowsActiveOperationsHolds`,
`RowCountMatchesSnapshotHolds`, and `ImplementsLinearHistory`, the refinement of
`LinearHistory` step by step. `SerialInv` adds that the journal is straight (each
active operation's before-path is its predecessor among the active ones, or the
original) and that what each open transaction has loaded is aligned with what is
committed. The one that changes the working copy carries the line its commit will
make. One that does not has nothing of its own (`HasOnlyLooked`), so it stays
aligned with whatever is committed under it (`LooksAligned`); from its first tool
that writes on it is the one that changes.

`AgentConversationProofs`, about `Spec`: `NothingOutlivesDeletionHolds`,
`TurnsAreWholeHolds`, `TypeOKHolds`, `TurnsKeepTheirOrderHolds` and
`NothingEmptyIsSentHolds`. `IInv` says, for each place in the code, what the rows of a
turn look like so far (`Fits`): paired and without an answer while the model is
awaited, the first calls of the last message answered while tools run (`Pending`),
whole from then on. The lemmas about lists say what an appended message does to
pairing. That a turn which may still store messages has stored one, and so holds
the conversation's lock, is what makes the deletion safe; that the conversation
exists only once its opening has committed (`OpeningFirst`) is the rest. For
the types, `TypeInv` adds that every place in `created_at` order is that of a row
its request has inserted and not taken back (`PlacesMatch`): a rollback takes a
turn's places out of the middle of the order, and a replay reads rows through what
is left. `Selected` is a recursive function, and what it returns needs induction
over its argument's length. The library's induction theorems cannot be used
here, but that the naturals are well founded can (`InductionTo`): the least length
at which a lemma failed would have a predecessor at which it held. By it,
`SelectedType` says that what is selected comes from what is asked for, and
`SelectedInterval` that adjacent elements come out as they stood, and
`SelectedEmbeds` where in its argument each element stood, which is what a rollback
needs to leave the other turns in their order (`RollbackOrdered`); a new row is its
turn's last and comes last (`InsertOrdered`). For `NothingEmptyIsSent`, `TextInv`
adds that every row stored has a text (`RowsHaveText`), so that a replay has, and
that each message in memory has a text or calls.

`AgentConversationSerialProofs`, about `SerialSpec`: `ReplayIsFaithfulHolds`,
`ReplayIsPairedHolds`, `SentIsAnswerableHolds`, `ResultsReachTheirCallsHold`,
and `TranscriptSpecHolds`, the refinement of `Transcript` step by step.
`SerialInv` adds to `IInv` and `TypeInv` where the rows stand: those of
committed requests first, then those of the request that writes, its first to
its last (`Behind`), or only committed ones when there is none. A request that
has stored nothing takes nothing with it when it fails (`NothingToTake`), and a
deletion finds nobody writing because whoever is holds the conversation
(`DeleteStep`). A replay is then the committed list with that request's own rows
behind it (`TellBehind`), so storing a row appends to the replay what comes back
of the message `Told` appends to the list in memory (`GrowKeeps`,
`ReplaysOneMore`), a rollback takes away only the end (`RollbackKeeps`), and a
commit appends `Wording(turn[r])`, which `IInv` says is a whole turn
(`CommitsWhole`). Two facts about the opening are needed besides: nothing else
happens before it commits (`NothingBeforeOpening`), which is why an opening
turn's list starts with the trigger and nothing behind it, and without an
opening turn it stores nothing (`SilentOpening`). That a list of paired messages
behind another is paired (`ConcatPaired`) carries the pairing from turns to the
conversation and to what is sent. For the wire, `WireCarries` says that each
client sends the list in its order behind at most one system turn, each call
with the reference its reply gave it, and each result with that of the call it
stands behind; `IdsTellToolsApart` that within one reply no two tools share a
reference. `conv_replay` is the other side of these theorems: with two writers
`Behind` fails, and with it `ReplayIsPaired`.

`DatasetsProofs`, about `Spec`: `TypeCorrect`, `SourcesAlwaysHaveTheirFiles`,
`RefusedUploadsNeverLeaveFiles`, `ImportsAreAlwaysWhole`, `AnsweredRunsAreAlwaysOver`
and `CountIsAlwaysOfLastRun`. The invariant says of each request (`Mine`) which rows
its transaction has written at its place in the code (`Holds`, `Pending`), how its
file (`Stored`), its profile run (`Profiled`) and the datasets it has committed
(`Gained`) fit that place. An import that is all-or-nothing is one whose written rows
are those of the list up to where the loop is, and whose committed rows are none
until it commits. Across requests: no two transactions have written the same row
(`Exclusive`), a committed dataset has its source (`Committed`), and, for the row
count, requests without overlap end in the order in which they arrive (`InOrder`,
`OneAtATime`). What does not commit keeps the invariant by one lemma (`StepKeeps`);
the four places that do, by another (`CommitKeeps`).

`SharingProofs`, about `Spec`: `TypeCorrect`, `ReferencesAlwaysHold`,
`KeysAreAlwaysLegible`, `OnlyManagersEverShare` and `SharedIsAlwaysOutOfReach`.
What is committed says nothing of what is about to be, so the invariant speaks
of open transactions. `Local` says what one may have written at its place in the
code and that its person was entitled to it; `References` that at most one of
them holds the credential's row, that one which is to delete it holds every
grant too and leaves no conversation behind, and that a conversation or a grant
about to be committed finds its credential and nobody deleting it. A step is
either a commit (`CommitStep`) or changes nothing that is committed (`Step`):
every action but `Commit` has a lemma that says so and that the key it reads, if
it reads one, is legible to its person (`KeyIsRead`).

`AccountsProofs`, about `Spec`: `TypeCorrect`, `RegistrationAlwaysWhole`,
`TokensAlwaysMailed`, `OneSetOfCodesHolds` and `ChangesAlwaysAudited`. The invariant
says of each request what it has found (`Found`), which rows it has written at its
place in the code (`Holds`), and what ties them to each other and to what is
committed: a workspace is written with its owner and only while there is none
(`Creates`), a token has been mailed before its commit (`Mails`), a confirmation is
about to drop every code but its own while a login keeps the one it used
(`Recovers`), an audit row that names the change comes with it (`Told`). `User`, the
method and each code have one writer at a time (`Exclusive`), which is what keeps
the first and the third true when another request commits (`CommitOthers`).
`StepKeeps` serves the actions that do not commit; `CommitMine`, `CommitOthers` and
`CommitCommitted` are the commit. Two more theorems bound the finding `reset_link`.
`OwnersLinkIsSent`: under the role `dataprep` a request for a link never ends in an
error. `NoPasswordIsReset`: under `dataprep_app` the password of a user is never
replaced, since no link for a reset is ever mailed, hence none presented
(`NoResets`), and a verification, the one other writer of a user's row there is,
writes the password it read and holds the row's lock until it commits
(`VerifyingKeepsPassword`).

`AccountsSerialProofs`, about `Spec` while no two requests have overlapped:
`CredentialsAlwaysSingleUse`, `ResetAlwaysEndsSessions`, `SecondFactorAlwaysAsked`
and `ActiveMethodAlwaysKept`. `SInv` adds to the invariant above what overlap would
break. What a request has read is still so when it commits (`Fresh`): its link is
unused, its session unrevoked, its recovery code unspent, no second factor active.
So the rows it is about to commit follow from what is committed: the link has been
used by this request alone and the old token or the code is written with the new
session (`Uses`); each session written is the new one, under the current password,
or an old one revoked and otherwise as it was (`Opens`); a replaced password has
every unrevoked session among the rows (`Renews`). What is committed then is that
a session that was refreshed is revoked and has one successor (`SessionsFollow`),
a code that opened a session opened one (`CodesSpent`), and an unrevoked session
began under the password there is (`UnderPassword`), which a rotated session
inherits.

Model-checked only: liveness (`RequestsEnd`) and the violations. Every other
property of a run that holds is a theorem, and three that overlap violates,
`ShowsActiveOperations`, `UndoneOnce` and `ReplayIsPaired`, are theorems without it.
Taken from outside the code: READ COMMITTED and its row locks, the ORM's flush order and
column tracking, a clock that does not step back.

## 5. Not modelled

The other components in section 1, with the reason in `PROJECT.json`. In short:
external I/O (parsers, probes, the HTTP exchange with providers, email, SSO),
libraries (crypto, TOTP), static data (tools, prompt), and the frontend. The
operations on frames are thin functions over polars: what they compute is the
library's semantics, and what the system relies on is only that they return a
frame or raise. One workspace and one person's account are modelled at a time;
policies that keep tenants apart compare a bound setting with a column and are
left to the database. Expiry is chance, not time.

## 6. Plan

1. Larger instances: three requests of `Sharing`, a second source in `Datasets`.
2. A theorem for each of the other findings that says how far it reaches, as
   `NoPasswordIsReset` does for `reset_link` and `UndoneOnceHolds` for `wc_double_undo`.
3. The theorems of `Accounts` and `Datasets` that assume no overlap at all, under
   the weakest condition on overlap that keeps them, as for the other two modules.

------------------------- MODULE AgentConversation -------------------------
(***************************************************************************)
(* One conversation with the data agent (app/agent): the request that      *)
(* opens it, with or without the agent's opening turn, the messages sent   *)
(* to it, each answered by a loop of model calls and tool runs, and its    *)
(* deletion.                                                               *)
(*                                                                         *)
(* Every request is one database transaction (PostgreSQL, READ COMMITTED), *)
(* open while the model is awaited.  A message row takes the time of its   *)
(* INSERT as created_at, committed or not, and the next turn replays the   *)
(* rows it can see in created_at order.                                    *)
(*                                                                         *)
(* A row keeps its role; for pairing calls with results, a number: how     *)
(* many tools an assistant row calls, which of them a system row answers;  *)
(* and of its text, whether there is any.  A reply that only calls tools   *)
(* has none, and its row holds a placeholder instead.  Suggestions,        *)
(* charts, titles and token counts are left out.  What the tools do to the *)
(* data is module WorkingCopy.  No tool waits for approval:                *)
(* PENDING_ACTION_TOOLS is empty.                                          *)
(***************************************************************************)
EXTENDS Naturals, Sequences, FiniteSets

CONSTANTS
  Opening,        \* the request that creates the conversation
  Sends,          \* the requests that send it a message, retries included
  Deletes,        \* the requests that delete it
  MaxIterations,  \* _MAX_TOOL_ITERATIONS
  MaxTools,       \* bound on the tools one completion calls
  MaxSilent       \* bound on the stored replies without text

ASSUME RequestsAreDistinct ==
  /\ Opening \notin Sends
  /\ Opening \notin Deletes
  /\ Sends \cap Deletes = {}

ASSUME BoundsAreNatural ==
  MaxIterations \in Nat /\ MaxTools \in Nat /\ MaxSilent \in Nat

Request == {Opening} \cup Sends \cup Deletes

VARIABLES
  convo,  \* the committed agent_conversations row
  order,  \* whose each agent_messages row is and which of theirs, oldest first
  turn,   \* the rows each request has inserted, oldest first
  txn     \* the progress of each request

vars == <<convo, order, turn, txn>>

(* Where a request stands:                                                 *)
(*   waiting  not received yet                                             *)
(*   created  the conversation row is inserted, the opening turn is next   *)
(*   loaded   the conversation has been selected                           *)
(*   posted   the user's message is inserted                               *)
(*   chat     the model is to be called with .working                      *)
(*   tools    .asked tools were called, .answered of them have run         *)
(*   commit   all that is left is to commit                                *)
Place == {"waiting", "created", "loaded", "posted", "chat", "tools",
          "commit", "done", "failed"}

(* A text with words, none, or "(respuesta vacía del modelo)".             *)
Text == {"words", "empty", "placeholder"}

AgentMessage == [role : {"user", "assistant", "system"}, number : 0..MaxTools,
                 text : Text]
ChatMessage == [role : {"user", "assistant", "tool"}, number : 0..MaxTools,
                text : Text]

Txn == [pc : Place, iteration : 0..MaxIterations, asked : 0..MaxTools,
        answered : 0..MaxTools, working : Seq(ChatMessage)]

Received == [pc |-> "waiting", iteration |-> 0, asked |-> 0, answered |-> 0,
             working |-> <<>>]

(* What the user, a tool or the program itself says has words.             *)
Row(role, number) == [role |-> role, number |-> number, text |-> "words"]

(* What the model says may have none, once the suggestions are taken out.  *)
Reply(calls, said) == [role |-> "assistant", number |-> calls, text |-> said]

(* Storing the text as it is.                                              *)
StoredAsSaid(reply) == reply

(* The row a reply goes to.                                                *)
AsStored(reply) ==
  [reply EXCEPT !.text = IF @ = "empty" THEN "placeholder" ELSE @]

Init ==
  /\ convo = "none"
  /\ order = <<>>
  /\ turn = [r \in Request |-> <<>>]
  /\ txn = [r \in Request |-> Received]

Ended(r) == txn[r].pc \in {"done", "failed"}

Busy(r) == txn[r].pc # "waiting" /\ ~ Ended(r)

Committed == {r \in Request : txn[r].pc = "done"}

(* What a SELECT of request r sees.                                        *)
Seen(r) == Committed \cup {r}

(* A key-share lock taken when the conversation is selected.               *)
LocksWhenLoaded(r) == Busy(r)

(* No lock at all.                                                         *)
NeverLocks(r) == FALSE

(* An uncommitted row of r keeps the conversation's row from deletion.     *)
LocksConversation(r) == Busy(r) /\ turn[r] # <<>>

-----------------------------------------------------------------------------
(* The elements of s at the indices in I, in their order.                  *)
Selected(s, I) ==
  LET kept[n \in 0..Len(s)] ==
        IF n = 0 THEN <<>>
        ELSE IF n \in I THEN Append(kept[n - 1], s[n]) ELSE kept[n - 1]
  IN  kept[Len(s)]

(* The row at place i, and as the model is told of it: a system row is the *)
(* result of a tool.                                                       *)
StoredRow(i) == turn[order[i].by][order[i].nth]

AsTold(row) ==
  IF row.role = "system" THEN Row("tool", row.number) ELSE row

(* What the model may say next: nothing, as often as the bound allows.     *)
Said ==
  LET silent == {i \in DOMAIN order : StoredRow(i).text # "words"}
  IN  IF Cardinality(silent) < MaxSilent THEN {"words", "empty"} ELSE {"words"}

(* The places of the rows of the requests in R.                            *)
Visible(R) == {i \in DOMAIN order : order[i].by \in R}

(* What the user is shown: not the system rows.                            *)
Shown(R) ==
  Selected([i \in DOMAIN order |-> StoredRow(i)],
           {i \in Visible(R) : StoredRow(i).role # "system"})

(* What the model is told of the rows of R, in created_at order.           *)
History(R) ==
  Selected([i \in DOMAIN order |-> AsTold(StoredRow(i))], Visible(R))

(* Storing only what the user is shown.                                    *)
InsertShown(r, m) ==
  IF m.role = "system"
    THEN UNCHANGED <<order, turn>>
    ELSE /\ turn' = [turn EXCEPT ![r] = Append(@, m)]
         /\ order' = Append(order, [by |-> r, nth |-> Len(turn[r]) + 1])

(* The transaction's time as created_at, the column's server_default: the  *)
(* rows of a turn tie and come in any order.                               *)
InsertTied(r, m) ==
  /\ turn' = [turn EXCEPT ![r] = Append(@, m)]
  /\ order' = <<[by |-> r, nth |-> Len(turn[r]) + 1]>> \o order

(* A row of r is flushed.                                                  *)
Insert(r, m) ==
  /\ turn' = [turn EXCEPT ![r] = Append(@, m)]
  /\ order' = Append(order, [by |-> r, nth |-> Len(turn[r]) + 1])

-----------------------------------------------------------------------------
(* Opening the conversation.                                               *)

(* The new row is not visible to others before the commit.                 *)
Create ==
  /\ txn[Opening].pc = "waiting"
  /\ \E kickoff \in BOOLEAN :
       txn' = [txn EXCEPT ![Opening].pc = IF kickoff THEN "created"
                                                     ELSE "commit"]
  /\ UNCHANGED <<convo, order, turn>>

(* The trigger is told to the model and never stored.                      *)
Kickoff ==
  /\ txn[Opening].pc = "created"
  /\ txn' = [txn EXCEPT ![Opening].pc = "chat",
                        ![Opening].working = <<Row("user", 0)>>]
  /\ UNCHANGED <<convo, order, turn>>

-----------------------------------------------------------------------------
(* Sending a message.                                                      *)

Load(r) ==
  /\ r \in Sends \cup Deletes
  /\ txn[r].pc = "waiting"
  /\ convo = "live"
  /\ txn' = [txn EXCEPT ![r].pc = "loaded"]
  /\ UNCHANGED <<convo, order, turn>>

(* A deleted conversation is not found, or the foreign key refuses the row.*)
Refuse(r) ==
  /\ \/ r \in Sends /\ txn[r].pc \in {"waiting", "loaded"}
     \/ r \in Deletes /\ txn[r].pc = "waiting"
  /\ convo = "deleted"
  /\ txn' = [txn EXCEPT ![r].pc = "failed"]
  /\ UNCHANGED <<convo, order, turn>>

Post(r) ==
  /\ r \in Sends
  /\ txn[r].pc = "loaded"
  /\ convo = "live"
  /\ Insert(r, Row("user", 0))
  /\ txn' = [txn EXCEPT ![r].pc = "posted"]
  /\ UNCHANGED convo

BuildHistory(r) ==
  /\ txn[r].pc = "posted"
  /\ txn' = [txn EXCEPT ![r].pc = "chat", ![r].working = History(Seen(r))]
  /\ UNCHANGED <<convo, order, turn>>

-----------------------------------------------------------------------------
(* The agent loop.                                                         *)

(* One iteration too many.                                                 *)
IterationsLeftInclusive(r) == txn[r].iteration <= MaxIterations

IterationsLeft(r) == txn[r].iteration < MaxIterations

(* Telling the model the results without the message that called the tools.*)
ToldResults(r, m) ==
  IF m.role = "assistant" THEN txn[r].working
                          ELSE Append(txn[r].working, m)

Told(r, m) == Append(txn[r].working, m)

(* A completion without tool calls is the answer.                          *)
Answer(r, said) ==
  /\ txn[r].pc = "chat"
  /\ IterationsLeft(r)
  /\ Insert(r, AsStored(Reply(0, said)))
  /\ txn' = [txn EXCEPT ![r].pc = "commit", ![r].iteration = @ + 1]
  /\ UNCHANGED convo

(* The row is stored with a text; the list goes on with the reply's own.   *)
CallTools(r, calls, said) ==
  /\ txn[r].pc = "chat"
  /\ IterationsLeft(r)
  /\ Insert(r, AsStored(Reply(calls, said)))
  /\ txn' = [txn EXCEPT ![r] =
               [pc |-> "tools", iteration |-> txn[r].iteration + 1,
                asked |-> calls, answered |-> 0,
                working |-> Told(r, Reply(calls, said))]]
  /\ UNCHANGED convo

(* A tool's result, or its OperationError as text.                         *)
RunTool(r) ==
  LET ran == txn[r].answered + 1 IN
    /\ txn[r].pc = "tools"
    /\ Insert(r, Row("system", ran))
    /\ txn' = [txn EXCEPT ![r] =
                 [pc |-> IF ran = txn[r].asked THEN "chat" ELSE "tools",
                  iteration |-> txn[r].iteration,
                  asked |-> txn[r].asked, answered |-> ran,
                  working |-> Told(r, Row("tool", ran))]]
    /\ UNCHANGED convo

(* The iterations are used up: the fallback message ends the turn.         *)
GiveUp(r) ==
  /\ txn[r].pc = "chat"
  /\ ~ IterationsLeft(r)
  /\ Insert(r, Row("assistant", 0))
  /\ txn' = [txn EXCEPT ![r].pc = "commit"]
  /\ UNCHANGED convo

-----------------------------------------------------------------------------
(* How requests end.                                                       *)

Commit(r) ==
  /\ txn[r].pc = "commit"
  /\ txn' = [txn EXCEPT ![r].pc = "done"]
  /\ convo' = IF r = Opening THEN "live" ELSE convo
  /\ UNCHANGED <<order, turn>>

(* ProviderError, any other exception, a cancelled request or a crash.     *)
Rollback(r) ==
  /\ Busy(r)
  /\ turn' = [turn EXCEPT ![r] = <<>>]
  /\ order' = Selected(order, {i \in DOMAIN order : order[i].by # r})
  /\ txn' = [txn EXCEPT ![r].pc = "failed"]
  /\ UNCHANGED convo

(* A foreign key without ON DELETE CASCADE.                                *)
KeepMessages == UNCHANGED <<order, turn>>

(* ON DELETE CASCADE.                                                      *)
DeleteMessages ==
  /\ order' = <<>>
  /\ turn' = [r \in Request |-> <<>>]

(* The DELETE waits for the transactions that have inserted messages.  It  *)
(* finds no row when a rival was first.                                    *)
Delete(r) ==
  /\ r \in Deletes
  /\ txn[r].pc = "loaded"
  /\ \A q \in Request \ {r} : ~ LocksConversation(q)
  /\ txn' = [txn EXCEPT ![r].pc = "done"]
  /\ convo' = "deleted"
  /\ DeleteMessages

-----------------------------------------------------------------------------
Begin(r) == (r = Opening /\ Create) \/ Load(r)

Advance(r) ==
  \/ r = Opening /\ Kickoff
  \/ Refuse(r)
  \/ Post(r)
  \/ BuildHistory(r)
  \/ \E said \in Said :
       \/ Answer(r, said)
       \/ \E calls \in 1..MaxTools : CallTools(r, calls, said)
  \/ RunTool(r)
  \/ GiveUp(r)
  \/ Commit(r)
  \/ Delete(r)

Next == \E r \in Request : Begin(r) \/ Advance(r) \/ Rollback(r)

(* A received request keeps going: provider calls time out.                *)
Fairness == \A r \in Request : WF_vars(Advance(r))

Spec == Init /\ [][Next]_vars /\ Fairness

(* The same program when one request at a time has messages that are not   *)
(* committed, as if the first INSERT locked out that of another.           *)
OneAtATime ==
  \A q, r \in Request : LocksConversation(q) /\ LocksConversation(r) => q = r

SerialNext == Next /\ OneAtATime'

SerialSpec == Init /\ [][SerialNext]_vars

-----------------------------------------------------------------------------
(* Properties.                                                             *)

TypeOK ==
  /\ convo \in {"none", "live", "deleted"}
  /\ order \in Seq([by : Request, nth : Nat])
  /\ turn \in [Request -> Seq(AgentMessage)]
  /\ txn \in [Request -> Txn]

(* When one writes at a time the conversation is an abstract transcript:   *)
(* each commit appends a whole turn, a failed request leaves no trace, and *)
(* a deletion takes everything (send_message, create_conversation and      *)
(* delete_conversation with all they flush).                               *)
Abstract == INSTANCE Transcript
  WITH shown <- History(Committed), gone <- (convo = "deleted")

TranscriptSpec == Abstract!Spec

(* A turn that commits is whole, however others interleave with it: it     *)
(* starts with the user's message, every tool call has its result, and a   *)
(* message without calls ends it.  An opening turn has no user message,    *)
(* and a conversation opened with one is never committed empty             *)
(* (create_conversation, "Commit semantics").                              *)
Messages(r) == [i \in DOMAIN turn[r] |-> AsTold(turn[r][i])]

TurnsAreWhole ==
  convo = "live" =>
    \A r \in Committed :
      /\ r \in Sends => /\ Abstract!WholeTurn(Messages(r))
                        /\ turn[r][1].role = "user"
      /\ r = Opening /\ txn[r].working # <<>> =>
           /\ Abstract!WholeTurn(Messages(r))
           /\ turn[r][1].role = "assistant"

(* However turns overlap, fail and are deleted, created_at order only      *)
(* interleaves them: the rows of each turn stand in the order in which it  *)
(* stored them, none twice and none missing, and nothing is left of a turn *)
(* that failed (_build_history_messages).                                  *)
TurnsKeepTheirOrder ==
  /\ \A j \in DOMAIN order : \A i \in 1..(j - 1) :
       order[i].by = order[j].by => order[i].nth < order[j].nth
  /\ {order[i] : i \in DOMAIN order} =
       UNION {{[by |-> r, nth |-> n] : n \in DOMAIN turn[r]} : r \in Request}

(* No message outlives its conversation, and no turn that has begun to     *)
(* store messages commits into a deleted one (delete_conversation).        *)
NothingOutlivesDeletion ==
  convo = "deleted" =>
    /\ \A r \in Request : turn[r] = <<>>
    /\ \A r \in Sends : txn[r].pc \notin {"posted", "chat", "tools", "commit"}

(* Every request that was received ends, although a deletion waits for the *)
(* turns in progress: no request is served twice, so time and again none   *)
(* is in progress.                                                         *)
RequestsEnd == []<>(\A r \in Request : ~ Busy(r))

(* The list sent to the model is one that providers accept: every tool     *)
(* call has its result right behind it, and the last word is not the       *)
(* model's own (_build_history_messages, _run_agent_loop).                 *)
SentIsAnswerable ==
  \A r \in Request : txn[r].pc = "chat" =>
    LET sent == txn[r].working IN
      /\ Abstract!Paired(sent)
      /\ sent[Len(sent)].role # "assistant"

(* No message without text or calls is ever sent, however turns overlap:   *)
(* an answer in which the model said nothing would otherwise come back     *)
(* empty in the list of every later turn, and providers refuse the whole   *)
(* list for it (the placeholder of _run_agent_loop).                       *)
NothingEmptyIsSent ==
  \A r \in Request : txn[r].pc = "chat" =>
    \A i \in 1..Len(txn[r].working) :
      LET m == txn[r].working[i] IN m.text # "empty" \/ m.number > 0

(* The opening turn's list starts with the trigger, which is not stored.   *)
Trigger(r) == IF r = Opening THEN <<Row("user", 0)>> ELSE <<>>

(* How a message comes back: as it was told, but for the placeholder where *)
(* a reply called tools and said nothing.                                  *)
ComesBackAs(told, replayed) ==
  /\ told.role = replayed.role
  /\ told.number = replayed.number
  /\ \/ told.text = replayed.text
     \/ told.text = "empty" /\ told.number > 0 /\ replayed.text = "placeholder"

Replays(told, replayed) ==
  /\ Len(told) = Len(replayed)
  /\ \A i \in 1..Len(told) : ComesBackAs(told[i], replayed[i])

(* What the model was told during a turn is what a later turn will replay  *)
(* of it, message by message: the list kept in memory and the rows, which  *)
(* separate statements write, do not drift apart by more than the          *)
(* placeholders (_run_agent_loop, _build_history_messages).                *)
ReplayIsFaithful ==
  \A r \in Request : txn[r].pc \in {"chat", "tools"} =>
    Replays(txn[r].working, Trigger(r) \o History(Seen(r)))

(* The stored conversation can be replayed: in created_at order every tool *)
(* call has its results right behind it.                                   *)
ReplayIsPaired == Abstract!Paired(History(Committed))
=============================================================================

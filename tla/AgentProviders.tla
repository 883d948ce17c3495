--------------------------- MODULE AgentProviders ---------------------------
(***************************************************************************)
(* The four clients of app/agent/clients.py: what each makes, on the wire, *)
(* of the message list the agent loop sends (module AgentConversation),    *)
(* and the ids it gives to the tool calls it reads in a reply.             *)
(*                                                                         *)
(* Of a message the wire keeps its role, the tool calls it makes and the   *)
(* one it answers.  Text, arguments, token counts and the request's other  *)
(* fields are left out, and a reply calls tools of the catalogue by name.  *)
(***************************************************************************)
EXTENDS AgentConversation

(* Two of the tools: one inspects, one transforms.                         *)
Tool == {"inspect_column", "dedupe"}

(* Builds of Ollama differ in whether their calls have ids.                *)
Provider == {"anthropic", "openai", "google", "ollama", "older ollama"}

NoCall == <<"none">>

-----------------------------------------------------------------------------
(* The id of the call at place nth of the reply that is message at.        *)

(* The provider's own.                                                     *)
GivenId(at, nth) == <<"id", at, nth>>

(* An id made from the index, for all calls.                               *)
GoogleIndexId(name, nth) == <<"call", nth>>

(* Google gives none: the function's name stands for it.                   *)
GoogleId(name, nth) == <<"name", name>>

OllamaId(provider, at, nth) ==
  IF provider = "ollama" THEN GivenId(at, nth) ELSE <<"call", nth>>

CallId(provider, at, nth, name) ==
  CASE provider \in {"anthropic", "openai"} -> GivenId(at, nth)
    [] provider = "google" -> GoogleId(name, nth)
    [] OTHER -> OllamaId(provider, at, nth)

-----------------------------------------------------------------------------
(* The loop's messages with the ids and names of their calls, behind the   *)
(* system prompt.  The names are those of the calls of any reply, by their *)
(* place in it.                                                            *)
ChatMessages(provider, working, names) ==
  LET Call(at, nth) == [id |-> CallId(provider, at, nth, names[nth]),
                        name |-> names[nth]]
      Message(i) ==
        LET m == working[i] IN
          [role |-> m.role,
           calls |-> IF m.role = "assistant"
                       THEN [nth \in 1..m.number |-> Call(i, nth)] ELSE <<>>,
           answers |-> IF m.role = "tool"
                         THEN Call(i - m.number, m.number).id ELSE NoCall]
  IN  <<[role |-> "system", calls |-> <<>>, answers |-> NoCall]>>
        \o [i \in DOMAIN working |-> Message(i)]

(* On the wire a call has what tells it from others, and its tool.         *)
ById(calls) ==
  [i \in DOMAIN calls |-> [ref |-> calls[i].id, tool |-> calls[i].name]]

(* A functionCall has no id.                                               *)
ByName(calls) ==
  [i \in DOMAIN calls |-> [ref |-> <<"name", calls[i].name>>,
                           tool |-> calls[i].name]]

Turn(role, calls, answers) ==
  [role |-> role, calls |-> calls, answers |-> answers]

AnthropicTurn(m) ==
  Turn(IF m.role = "tool" THEN "user" ELSE m.role, ById(m.calls), m.answers)

OpenAiTurn(m) == Turn(m.role, ById(m.calls), m.answers)

GoogleTurn(m) ==
  Turn(IF m.role = "assistant" THEN "model" ELSE "user",
       ByName(m.calls), m.answers)

OllamaTurn(m) == Turn(m.role, ById(m.calls), m.answers)

(* Anthropic and Google take the system prompt apart from the messages.    *)
Wire(provider, messages) ==
  LET talk == Selected(messages,
                       {i \in DOMAIN messages : messages[i].role # "system"})
  IN  CASE provider = "anthropic" -> [i \in DOMAIN talk |-> AnthropicTurn(talk[i])]
        [] provider = "google" -> [i \in DOMAIN talk |-> GoogleTurn(talk[i])]
        [] provider = "openai" -> [i \in DOMAIN messages |-> OpenAiTurn(messages[i])]
        [] OTHER -> [i \in DOMAIN messages |-> OllamaTurn(messages[i])]

-----------------------------------------------------------------------------
(* Properties.                                                             *)

(* The result at place nth behind a turn of calls stands for the nth call, *)
(* and for no call of another tool.                                        *)
Reaches(wire, i, nth) ==
  LET calls == wire[i].calls
      result == wire[i + nth].answers
  IN  /\ i + nth <= Len(wire)
      /\ result = calls[nth].ref
      /\ \A k \in DOMAIN calls :
           calls[k].ref = result => calls[k].tool = calls[nth].tool

(* Whatever the provider, each tool result in a list that is sent reaches  *)
(* the call that asked for it, although three kinds of ids are in use and  *)
(* two of them repeat from one reply to the next (the _build_*_messages    *)
(* functions together with the parsing of replies).                        *)
ResultsReachTheirCalls ==
  \A r \in Request : txn[r].pc = "chat" =>
    \A provider \in Provider, names \in [1..MaxTools -> Tool] :
      LET wire == Wire(provider, ChatMessages(provider, txn[r].working, names))
      IN  \A i \in DOMAIN wire :
            \A nth \in DOMAIN wire[i].calls : Reaches(wire, i, nth)
=============================================================================

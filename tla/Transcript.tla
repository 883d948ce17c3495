----------------------------- MODULE Transcript -----------------------------
(***************************************************************************)
(* What a conversation promises the model that resumes it: a transcript    *)
(* that grows by whole turns, each tool call next to its result, until     *)
(* the conversation is deleted.                                            *)
(*                                                                         *)
(* A message is a record with a role and a number: how many tools an       *)
(* assistant message calls, or which of the calls a tool message answers.  *)
(* Whatever else it holds does not matter here.                            *)
(***************************************************************************)
EXTENDS Naturals, Sequences

VARIABLES
  shown,  \* the committed messages, oldest first
  gone    \* the conversation has been deleted

vars == <<shown, gone>>

(* The calls of message i are answered right after it, in their order.     *)
AnsweredAt(m, i) ==
  \A j \in 1..m[i].number :
    i + j <= Len(m) /\ m[i + j].role = "tool" /\ m[i + j].number = j

(* The tool message i answers one of the calls it stands behind.           *)
AnswersAt(m, i) ==
  LET asked == i - m[i].number IN
    /\ asked >= 1
    /\ m[asked].role = "assistant"
    /\ m[i].number <= m[asked].number

Paired(m) ==
  \A i \in 1..Len(m) :
    /\ m[i].role = "assistant" => AnsweredAt(m, i)
    /\ m[i].role = "tool" => AnswersAt(m, i)

Final(msg) == msg.role = "assistant" /\ msg.number = 0

(* A turn is whole when its only message without tool calls ends it.       *)
WholeTurn(m) ==
  /\ Paired(m)
  /\ m # <<>>
  /\ \A i \in 1..Len(m) : Final(m[i]) <=> i = Len(m)
  /\ \A i \in 2..Len(m) : m[i].role # "user"

Init == shown = <<>> /\ gone = FALSE

(* What a step shows beyond what was shown.                                *)
Added == SubSeq(shown', Len(shown) + 1, Len(shown'))

AppendTurn ==
  /\ ~ gone
  /\ \E new \in {Added} : shown' = shown \o new /\ WholeTurn(new)
  /\ UNCHANGED gone

Delete ==
  /\ ~ gone
  /\ gone' = TRUE
  /\ shown' = <<>>

Next == AppendTurn \/ Delete

Spec == Init /\ [][Next]_vars
=============================================================================

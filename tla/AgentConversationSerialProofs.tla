-------------------- MODULE AgentConversationSerialProofs --------------------
(***************************************************************************)
(* Theorems about AgentConversation when one request at a time writes      *)
(* messages, as when one page of the user interface, which waits for each  *)
(* answer, sends them.  Requests that have selected the conversation and   *)
(* not yet written to it, deletions among them, may overlap with it.       *)
(*                                                                         *)
(* The list in memory is a replay of the rows, what is sent can be         *)
(* answered, its results reach their calls through every client, and the   *)
(* conversation is a transcript that grows by whole turns.                 *)
(*                                                                         *)
(* The inductive invariant adds to that of AgentConversationProofs where   *)
(* the rows stand in created_at order (Behind): those of the committed     *)
(* requests, then those of the request that writes, its first to its last. *)
(* A replay is then the committed list with that request's own rows behind *)
(* it, so appending a row appends to the replay, a commit appends a whole  *)
(* turn, and a rollback takes the end away.                                *)
(***************************************************************************)
EXTENDS AgentConversationProofs, AgentProviders

(* Told of the places o and the rows t, those of the requests R.           *)
ToldRow(o, t, i) == AsTold(t[o[i].by][o[i].nth])

Tell(o, t, R) ==
  Selected([i \in DOMAIN o |-> ToldRow(o, t, i)],
           {i \in DOMAIN o : o[i].by \in R})

(* Every place is that of a row.                                           *)
Kept(o, t) ==
  /\ o \in Seq(Written)
  /\ t \in [Request -> Seq(AgentMessage)]
  /\ \A i \in 1..Len(o) : o[i].nth \in 1..Len(t[o[i].by])

(* The rows of the requests C come first, and behind them all those of r.  *)
Behind(o, t, C, r) ==
  LET n == Len(o) - Len(t[r]) IN
    /\ n >= 0
    /\ \A i \in 1..n : o[i].by \in C
    /\ \A j \in 1..Len(t[r]) : o[n + j] = [by |-> r, nth |-> j]

(* What C has stored, told row by row, and what r has behind it.           *)
ToldInOrder(o, t, C, r) ==
  LET n == Len(o) - Len(t[r]) IN
    /\ Tell(o, t, C) \in Seq(ChatMessage)
    /\ Len(Tell(o, t, C)) = n
    /\ \A i \in 1..n : Tell(o, t, C)[i] = ToldRow(o, t, i)
    /\ Tell(o, t, C \cup {r}) = Tell(o, t, C) \o Wording(t[r])

AllBy(o, C) == \A i \in 1..Len(o) : o[i].by \in C

(* A request that is past the SELECT of the conversation.                  *)
Writes(r) == Busy(r) /\ txn[r].pc # "loaded"

OneWrites == \A q, r \in Request : Writes(q) /\ Writes(r) => q = r

(* Nobody else's rows are visible to the request that writes.              *)
InOrder ==
  /\ \A r \in Request : Writes(r) => Behind(order, turn, Committed, r)
  /\ (\A r \in Request : ~ Writes(r)) => AllBy(order, Committed)

(* A replay that is not empty ends with an answer.                         *)
Answered(m) == m # <<>> => Abstract!Final(m[Len(m)])

(* Without an opening turn the conversation opens empty.                   *)
SilentOpening ==
  txn[Opening].pc = "commit" /\ txn[Opening].working = <<>> =>
    turn[Opening] = <<>>

(* Nothing is done before the conversation exists.                         *)
NothingBeforeOpening ==
  convo = "none" => \A r \in Sends \cup Deletes : txn[r].pc = "waiting"

Replayable ==
  /\ InOrder
  /\ ReplayIsPaired
  /\ Answered(History(Committed))

SerialInv ==
  /\ IInv
  /\ TypeInv
  /\ OneWrites
  /\ Replayable
  /\ SilentOpening
  /\ NothingBeforeOpening
  /\ ReplayIsFaithful

-----------------------------------------------------------------------------
(* Lists of messages, one behind the other.                                *)

LEMMA ConcatIs ==
  ASSUME NEW X, NEW a \in Seq(X), NEW b \in Seq(X)
  PROVE  /\ a \o b \in Seq(X)
         /\ Len(a \o b) = Len(a) + Len(b) /\ Len(a) \in Nat /\ Len(b) \in Nat
         /\ \A i \in 1..Len(a) : (a \o b)[i] = a[i]
         /\ \A i \in 1..Len(b) : (a \o b)[Len(a) + i] = b[i]
OBVIOUS

LEMMA ConcatPaired ==
  ASSUME NEW a \in Seq(Messageish), NEW b \in Seq(Messageish),
         Abstract!Paired(a), Abstract!Paired(b)
  PROVE  Abstract!Paired(a \o b)
<1> DEFINE c == a \o b
<1>1. /\ c \in Seq(Messageish)
      /\ Len(c) = Len(a) + Len(b) /\ Len(a) \in Nat /\ Len(b) \in Nat
      /\ \A i \in 1..Len(a) : c[i] = a[i]
      /\ \A i \in 1..Len(b) : c[Len(a) + i] = b[i]
  BY ConcatIs
<1> HIDE DEF c
<1>2. ASSUME NEW i \in 1..Len(a)
      PROVE  /\ c[i].role = "assistant" => Abstract!AnsweredAt(c, i)
             /\ c[i].role = "tool" => Abstract!AnswersAt(c, i)
  <2>1. c[i] = a[i] /\ a[i] \in Messageish /\ i \in Nat /\ i >= 1
    BY <1>1
  <2>2. a[i].number \in Nat
    BY <2>1 DEF Messageish
  <2>3. ASSUME Abstract!AnsweredAt(a, i) PROVE Abstract!AnsweredAt(c, i)
    <3>1. ASSUME NEW j \in 1..c[i].number
          PROVE  i + j <= Len(c) /\ c[i + j].role = "tool" /\ c[i + j].number = j
      <4>1. j \in 1..a[i].number /\ j \in Nat /\ j >= 1
        BY <2>1, <2>2
      <4>2. i + j <= Len(a) /\ a[i + j].role = "tool" /\ a[i + j].number = j
        BY <2>3, <4>1 DEF Abstract!AnsweredAt
      <4>3. i + j \in 1..Len(a)
        BY <1>1, <2>1, <4>1, <4>2
      <4> QED
        BY <1>1, <4>2, <4>3
    <3> QED
      BY <3>1 DEF Abstract!AnsweredAt
  <2>4. ASSUME Abstract!AnswersAt(a, i) PROVE Abstract!AnswersAt(c, i)
    <3> DEFINE asked == i - a[i].number
    <3>1. /\ asked >= 1 /\ a[asked].role = "assistant"
          /\ a[i].number <= a[asked].number
      BY <2>4 DEF Abstract!AnswersAt
    <3>2. asked \in 1..Len(a)
      BY <1>1, <2>1, <2>2, <3>1
    <3>3. c[asked] = a[asked] /\ asked = i - c[i].number
      BY <1>1, <2>1, <3>2
    <3> QED
      BY <2>1, <3>1, <3>3 DEF Abstract!AnswersAt
  <2> QED
    BY <2>1, <2>3, <2>4 DEF Abstract!Paired
<1>3. ASSUME NEW k \in 1..Len(b)
      PROVE  /\ c[Len(a) + k].role = "assistant" =>
                  Abstract!AnsweredAt(c, Len(a) + k)
             /\ c[Len(a) + k].role = "tool" =>
                  Abstract!AnswersAt(c, Len(a) + k)
  <2>1. c[Len(a) + k] = b[k] /\ b[k] \in Messageish /\ k \in Nat /\ k >= 1
    BY <1>1
  <2>2. b[k].number \in Nat
    BY <2>1 DEF Messageish
  <2>3. ASSUME Abstract!AnsweredAt(b, k)
        PROVE  Abstract!AnsweredAt(c, Len(a) + k)
    <3>1. ASSUME NEW j \in 1..c[Len(a) + k].number
          PROVE  /\ Len(a) + k + j <= Len(c)
                 /\ c[Len(a) + k + j].role = "tool"
                 /\ c[Len(a) + k + j].number = j
      <4>1. j \in 1..b[k].number /\ j \in Nat /\ j >= 1
        BY <2>1, <2>2
      <4>2. k + j <= Len(b) /\ b[k + j].role = "tool" /\ b[k + j].number = j
        BY <2>3, <4>1 DEF Abstract!AnsweredAt
      <4>3. k + j \in 1..Len(b) /\ Len(a) + (k + j) = Len(a) + k + j
        BY <1>1, <2>1, <4>1, <4>2
      <4>4. c[Len(a) + (k + j)] = b[k + j]
        BY <1>1, <4>3
      <4> QED
        BY <1>1, <4>2, <4>3, <4>4
    <3> QED
      BY <3>1 DEF Abstract!AnsweredAt
  <2>4. ASSUME Abstract!AnswersAt(b, k)
        PROVE  Abstract!AnswersAt(c, Len(a) + k)
    <3> DEFINE asked == k - b[k].number
    <3>1. /\ asked >= 1 /\ b[asked].role = "assistant"
          /\ b[k].number <= b[asked].number
      BY <2>4 DEF Abstract!AnswersAt
    <3>2. asked \in 1..Len(b)
      BY <1>1, <2>1, <2>2, <3>1
    <3>3. /\ c[Len(a) + asked] = b[asked]
          /\ Len(a) + asked = Len(a) + k - c[Len(a) + k].number
          /\ Len(a) + asked >= 1
      <4>1. Len(a) + asked = Len(a) + k - c[Len(a) + k].number
        <5>1. c[Len(a) + k].number = b[k].number
          BY <2>1
        <5> QED
          BY <1>1, <2>1, <2>2, <5>1
      <4> HIDE DEF asked
      <4>2. c[Len(a) + asked] = b[asked] /\ Len(a) + asked >= 1
        BY <1>1, <3>2
      <4> QED
        BY <4>1, <4>2
    <3>4. /\ c[Len(a) + asked].role = "assistant"
          /\ c[Len(a) + k].number <= c[Len(a) + asked].number
      BY <2>1, <3>1, <3>3
    <3> DEFINE at == Len(a) + k
               from == Len(a) + asked
    <3>5. from = at - c[at].number
      <4>1. c[at].number = b[k].number
        BY <2>1
      <4> QED
        BY <1>1, <2>1, <2>2, <4>1
    <3> HIDE DEF asked
    <3>6. from >= 1
      BY <3>3
    <3>7. c[from].role = "assistant"
      BY <3>4
    <3>8. c[at].number <= c[from].number
      BY <3>4
    <3> HIDE DEF at, from
    <3>9. Abstract!AnswersAt(c, at)
      BY <3>5, <3>6, <3>7, <3>8 DEF Abstract!AnswersAt
    <3> QED
      BY <3>9 DEF at
  <2> QED
    BY <2>1, <2>3, <2>4 DEF Abstract!Paired
<1>4. ASSUME NEW i \in 1..Len(c)
      PROVE  /\ c[i].role = "assistant" => Abstract!AnsweredAt(c, i)
             /\ c[i].role = "tool" => Abstract!AnswersAt(c, i)
  <2>1. CASE i <= Len(a)
    BY <1>1, <1>2, <2>1
  <2>2. CASE i > Len(a)
    <3>1. i - Len(a) \in 1..Len(b) /\ Len(a) + (i - Len(a)) = i
      BY <1>1, <2>2
    <3> QED
      BY <1>3, <3>1
  <2> QED
    BY <1>1, <2>1, <2>2
<1> QED
  BY <1>4 DEF Abstract!Paired, c

(* Between calls of the model the last message is not the model's own.     *)
LEMMA LastIsNotTheModels ==
  ASSUME NEW m \in Seq(Messageish), m # <<>>, Abstract!Paired(m), GoesOn(m)
  PROVE  m[Len(m)].role # "assistant"
<1>1. Len(m) \in 1..Len(m) /\ m[Len(m)] \in Messageish /\ Len(m) \in Nat
  OBVIOUS
<1>2. m[Len(m)].number \in Nat
  BY <1>1 DEF Messageish
<1> SUFFICES ASSUME m[Len(m)].role = "assistant" PROVE FALSE
  OBVIOUS
<1>3. Abstract!AnsweredAt(m, Len(m))
  BY <1>1 DEF Abstract!Paired
<1>4. m[Len(m)].number # 0
  BY <1>1 DEF GoesOn, Abstract!Final
<1>5. 1 \in 1..m[Len(m)].number
  BY <1>2, <1>4
<1>6. Len(m) + 1 <= Len(m)
  BY <1>3, <1>5 DEF Abstract!AnsweredAt
<1> QED
  BY <1>1, <1>6

-----------------------------------------------------------------------------
(* What a replay tells when the rows are in order.                         *)

LEMMA HistoryTells == \A R : History(R) = Tell(order, turn, R)
BY DEF History, Tell, Visible, ToldRow, StoredRow

(* The rows of R are the first n.                                          *)
LEMMA TellFirst ==
  ASSUME NEW o, NEW t, Kept(o, t), NEW R, NEW n \in 0..Len(o),
         \A i \in 1..Len(o) : o[i].by \in R <=> i <= n
  PROVE  /\ Tell(o, t, R) \in Seq(ChatMessage)
         /\ Len(Tell(o, t, R)) = n
         /\ \A i \in 1..n : Tell(o, t, R)[i] = ToldRow(o, t, i)
<1> DEFINE s == [i \in DOMAIN o |-> ToldRow(o, t, i)]
           I == {i \in DOMAIN o : o[i].by \in R}
<1>1. /\ o \in Seq(Written) /\ Len(o) \in Nat
      /\ t \in [Request -> Seq(AgentMessage)]
  BY DEF Kept
<1>2. ASSUME NEW i \in 1..Len(o)
      PROVE  ToldRow(o, t, i) \in ChatMessage
  <2>1. o[i] \in Written /\ o[i].nth \in 1..Len(t[o[i].by])
    BY <1>1 DEF Kept
  <2>2. t[o[i].by] \in Seq(AgentMessage)
    BY <1>1, <2>1 DEF Written
  <2>3. t[o[i].by][o[i].nth] \in AgentMessage
    BY <2>1, <2>2
  <2> QED
    BY <2>3 DEF ToldRow, AsTold, Row, AgentMessage, ChatMessage, Text
<1>3. /\ s \in Seq(ChatMessage) /\ Len(s) = Len(o)
      /\ \A i \in 1..Len(o) : s[i] = ToldRow(o, t, i)
  BY <1>1, <1>2
<1>4. \A i \in 1..Len(s) : i \in I <=> 1 <= i /\ i <= n
  BY <1>1, <1>3
<1>5. Tell(o, t, R) = Selected(s, I)
  BY DEF Tell
<1>6. 1 \in 1..(Len(s) + 1) /\ n \in (1 - 1)..Len(s)
  BY <1>1, <1>3
<1> HIDE DEF s, I
<1>7. Selected(s, I) = [j \in 1..(n - 1 + 1) |-> s[1 + j - 1]]
  BY <1>3, <1>4, <1>6, SelectedInterval
<1>8. n - 1 + 1 = n /\ \A j \in 1..n : 1 + j - 1 = j /\ j \in 1..Len(s)
  BY <1>1, <1>3
<1>9. Selected(s, I) = [j \in 1..n |-> s[j]]
  BY <1>7, <1>8
<1>10. \A j \in 1..n : s[j] \in ChatMessage
  BY <1>3, <1>8
<1> QED
  BY <1>1, <1>3, <1>5, <1>8, <1>9, <1>10

(* What a request in progress sees is what is committed, then its own.     *)
LEMMA TellBehind ==
  ASSUME NEW o, NEW t, Kept(o, t), NEW C, NEW r \in Request, r \notin C,
         Behind(o, t, C, r)
  PROVE  ToldInOrder(o, t, C, r)
<1> DEFINE n == Len(o) - Len(t[r])
<1>1. /\ o \in Seq(Written) /\ Len(o) \in Nat
      /\ t[r] \in Seq(AgentMessage) /\ Len(t[r]) \in Nat
  BY DEF Kept
<1>2. /\ n \in 0..Len(o) /\ n + Len(t[r]) = Len(o)
      /\ \A i \in 1..n : o[i].by \in C
      /\ \A j \in 1..Len(t[r]) : o[n + j] = [by |-> r, nth |-> j]
  BY <1>1 DEF Behind
<1> HIDE DEF n
<1>3. ASSUME NEW i \in 1..Len(o), ~ (i <= n)
      PROVE  o[i] = [by |-> r, nth |-> i - n]
  <2>1. i - n \in 1..Len(t[r]) /\ n + (i - n) = i
    BY <1>1, <1>2, <1>3
  <2> QED
    BY <1>2, <2>1
<1>4. \A i \in 1..Len(o) : o[i].by \in C <=> i <= n
  <2> SUFFICES ASSUME NEW i \in 1..Len(o)
               PROVE  o[i].by \in C <=> i <= n
    OBVIOUS
  <2>1. CASE i <= n
    <3>1. i \in 1..n
      BY <1>1, <1>2, <2>1
    <3> QED
      BY <1>2, <2>1, <3>1
  <2>2. CASE ~ (i <= n)
    <3>1. o[i] = [by |-> r, nth |-> i - n]
      BY <1>3, <2>2
    <3>2. o[i].by = r
      BY <3>1
    <3> QED
      BY <2>2, <3>2
  <2> QED
    BY <2>1, <2>2
<1>5. /\ Tell(o, t, C) \in Seq(ChatMessage) /\ Len(Tell(o, t, C)) = n
      /\ \A i \in 1..n : Tell(o, t, C)[i] = ToldRow(o, t, i)
  BY <1>2, <1>4, TellFirst
<1>6. \A i \in 1..Len(o) : o[i].by \in C \cup {r} <=> i <= Len(o)
  <2> SUFFICES ASSUME NEW i \in 1..Len(o) PROVE o[i].by \in C \cup {r}
    BY <1>1
  <2>1. CASE i <= n
    <3>1. i \in 1..n
      BY <1>1, <1>2, <2>1
    <3> QED
      BY <1>2, <2>1, <3>1
  <2>2. CASE ~ (i <= n)
    <3>1. o[i] = [by |-> r, nth |-> i - n]
      BY <1>3, <2>2
    <3>2. o[i].by = r
      BY <3>1
    <3> QED
      BY <2>2, <3>2
  <2> QED
    BY <2>1, <2>2
<1> DEFINE all == Tell(o, t, C \cup {r})
<1>7. /\ all \in Seq(ChatMessage) /\ Len(all) = Len(o)
      /\ \A i \in 1..Len(o) : all[i] = ToldRow(o, t, i)
  <2>1. Len(o) \in 0..Len(o)
    BY <1>1
  <2> QED
    BY <1>6, <2>1, TellFirst
<1> HIDE DEF all
<1> DEFINE two == Tell(o, t, C) \o Wording(t[r])
<1>8. /\ Wording(t[r]) \in Seq(Messageish) /\ Len(Wording(t[r])) = Len(t[r])
      /\ \A j \in 1..Len(t[r]) : Wording(t[r])[j] = AsTold(t[r][j])
  BY <1>1, WordingOK
<1>9. Tell(o, t, C) \in Seq(Messageish) /\ all \in Seq(Messageish)
  BY <1>5, <1>7, ChatIsMessageish
<1>10. /\ two \in Seq(Messageish) /\ Len(two) = n + Len(t[r])
       /\ \A i \in 1..n : two[i] = Tell(o, t, C)[i]
       /\ \A j \in 1..Len(t[r]) : two[n + j] = Wording(t[r])[j]
  <2>1. Len(Tell(o, t, C)) = n
    BY <1>5
  <2> DEFINE h == Tell(o, t, C)
             w == Wording(t[r])
  <2>2. two = h \o w /\ h \in Seq(Messageish) /\ w \in Seq(Messageish)
    BY <1>8, <1>9
  <2> HIDE DEF two, h, w
  <2>3. /\ two \in Seq(Messageish) /\ Len(two) = Len(h) + Len(w)
        /\ \A i \in 1..Len(h) : two[i] = h[i]
        /\ \A j \in 1..Len(w) : two[Len(h) + j] = w[j]
    BY <2>2, ConcatIs
  <2> QED
    BY <1>8, <2>1, <2>3 DEF h, w
<1> HIDE DEF two
<1>11. ASSUME NEW i \in 1..Len(o) PROVE all[i] = two[i]
  <2>1. CASE i <= n
    BY <1>2, <1>5, <1>7, <1>10, <2>1
  <2>2. CASE ~ (i <= n)
    <3>1. i - n \in 1..Len(t[r]) /\ n + (i - n) = i
      BY <1>1, <1>2, <2>2
    <3>2. two[i] = AsTold(t[r][i - n])
      <4>1. two[n + (i - n)] = AsTold(t[r][i - n])
        BY <1>8, <1>10, <3>1
      <4> QED
        BY <3>1, <4>1
    <3>3. all[i] = AsTold(t[r][i - n])
      <4>1. o[i] = [by |-> r, nth |-> i - n]
        BY <1>3, <2>2
      <4>2. o[i].by = r /\ o[i].nth = i - n
        BY <4>1
      <4> QED
        BY <1>7, <4>2 DEF ToldRow
    <3> QED
      BY <3>2, <3>3
  <2> QED
    BY <2>1, <2>2
<1>12. all = two
  BY <1>2, <1>7, <1>9, <1>10, <1>11, SeqEqual
<1> QED
  BY <1>5, <1>12 DEF ToldInOrder, all, two, n

(* Nobody is in progress.                                                  *)
LEMMA TellAll ==
  ASSUME NEW o, NEW t, Kept(o, t), NEW C, AllBy(o, C)
  PROVE  /\ Tell(o, t, C) \in Seq(ChatMessage)
         /\ Len(Tell(o, t, C)) = Len(o)
         /\ \A i \in 1..Len(o) : Tell(o, t, C)[i] = ToldRow(o, t, i)
<1>1. Len(o) \in Nat
  BY DEF Kept
<1>2. Len(o) \in 0..Len(o) /\ \A i \in 1..Len(o) : o[i].by \in C <=> i <= Len(o)
  BY <1>1 DEF AllBy
<1> QED
  BY <1>2, TellFirst

-----------------------------------------------------------------------------
(* The rows and what they tell, step by step.                              *)

LEMMA RowsAreKept == TypeInv => Kept(order, turn)
BY DEF TypeInv, TypeOK, PlacesMatch, Kept, Written

LEMMA RowsAreKeptNext == TypeInv' => Kept(order', turn')
BY DEF TypeInv, TypeOK, PlacesMatch, Kept, Written

LEMMA BusyIsNotCommitted ==
  ASSUME NEW r \in Request, Busy(r) \/ Writes(r) PROVE r \notin Committed
BY DEF Writes, Busy, Ended, Committed

(* A step of r moves no other request, and r had not ended.                *)
LEMMA Actor ==
  ASSUME TypeInv, NEW r \in Request, Begin(r) \/ Advance(r) \/ Rollback(r)
  PROVE  /\ \A q \in Request \ {r} : txn'[q] = txn[q]
         /\ txn[r].pc \notin {"done", "failed"}
<1>1. txn \in [Request -> Txn]
  BY DEF TypeInv, TypeOK
<1>2. CASE Create /\ r = Opening
  BY <1>1, <1>2 DEF Create
<1>3. CASE r = Opening /\ Kickoff
  BY <1>1, <1>3 DEF Kickoff
<1>4. CASE Load(r) \/ Refuse(r) \/ Post(r) \/ BuildHistory(r)
  BY <1>1, <1>4 DEF Load, Refuse, Post, BuildHistory
<1>5. CASE (\E said \in Said : Answer(r, said)) \/ GiveUp(r) \/ Commit(r)
           \/ Delete(r)
  BY <1>1, <1>5 DEF Answer, GiveUp, Commit, Delete
<1>6. CASE \E said \in Said, calls \in 1..MaxTools :
             CallTools(r, calls, said)
  BY <1>1, <1>6 DEF CallTools
<1>7. CASE RunTool(r)
  BY <1>1, <1>7 DEF RunTool
<1>8. CASE Rollback(r)
  BY <1>1, <1>8 DEF Rollback, Busy, Ended
<1> QED
  BY <1>2, <1>3, <1>4, <1>5, <1>6, <1>7, <1>8 DEF Begin, Advance

(* A step of r that commits nothing.                                       *)
LEMMA SameCommitted ==
  ASSUME NEW r \in Request, \A q \in Request \ {r} : txn'[q] = txn[q],
         txn[r].pc # "done", txn'[r].pc # "done"
  PROVE  Committed' = Committed
BY DEF Committed

(* Who is past the SELECT has stored a message, but for the opening, which *)
(* nobody can overlap: the two ways to say that one writes agree.          *)
LEMMA OneWritesNext ==
  ASSUME IInv', TypeInv', NothingBeforeOpening', OneAtATime'
  PROVE  OneWrites'
<1> SUFFICES ASSUME NEW q \in Request, NEW r \in Request, Writes(q)',
                    Writes(r)', q # r
             PROVE  FALSE
  BY DEF OneWrites
<1>1. ASSUME NEW p \in Request, Writes(p)'
      PROVE  p = Opening \/ (p \in Sends /\ turn'[p] # <<>>)
  <2>1. /\ Fits(p, txn'[p], Wording(turn'[p]), convo' = "deleted")
        /\ txn'[p].pc \in Place
        /\ txn'[p].pc \notin {"waiting", "loaded", "done", "failed"}
    BY <1>1 DEF IInv, Shape, Shaped, Writes, Busy, Ended
  <2>2. p = Opening \/ p \in Sends
    BY <2>1 DEF Request, Fits, PlacesOf
  <2>3. ASSUME p \in Sends PROVE Wording(turn'[p]) # <<>>
    <3>1. txn'[p].pc \in {"posted", "chat", "tools", "commit"}
      BY <2>1, <2>3 DEF Fits, PlacesOf, Place
    <3>2. Begins(p, Wording(turn'[p]))
      BY <2>1, <2>3, <3>1 DEF Fits, Speaks, Whole
    <3> QED
      BY <3>2 DEF Begins
  <2> QED
    BY <2>2, <2>3, EmptyWording
<1>2. ASSUME NEW p \in Request, Busy(p)', p # Opening
      PROVE  ~ Writes(Opening)'
  <2>1. convo' # "none"
    BY <1>2 DEF NothingBeforeOpening, Busy, Request
  <2> QED
    BY <2>1 DEF IInv, OpeningFirst, Writes, Busy, Ended
<1>3. q # Opening /\ r # Opening
  BY <1>2 DEF Writes
<1>4. LocksConversation(q)' /\ LocksConversation(r)'
  BY <1>1, <1>3 DEF LocksConversation, Writes
<1> QED
  BY <1>4 DEF OneAtATime

(* Only r can write after a step of r that did, or now does.               *)
LEMMA OthersRest ==
  ASSUME OneWrites, OneWrites', NEW r \in Request,
         \A q \in Request \ {r} : txn'[q] = txn[q],
         Writes(r) \/ Writes(r)'
  PROVE  \A q \in Request \ {r} : ~ Writes(q) /\ ~ Writes(q)'
BY DEF OneWrites, Writes, Busy, Ended

(* A request that has stored nothing has nothing behind it.                *)
LEMMA BehindNothing ==
  ASSUME NEW o, NEW t, Kept(o, t), NEW C, NEW r \in Request, t[r] = <<>>
  PROVE  Behind(o, t, C, r) <=> AllBy(o, C)
<1>1. Len(o) \in Nat
  BY DEF Kept
<1>2. Len(t[r]) = 0 /\ Len(o) - 0 = Len(o)
  BY <1>1
<1> QED
  BY <1>1, <1>2 DEF Behind, AllBy

(* Between the SELECT and the first message, and before, r stores nothing. *)
LEMMA QuietTurn ==
  ASSUME IInv, TypeInv, NEW r \in Request,
         txn[r].pc \in {"waiting", "created", "loaded", "failed"}
  PROVE  turn[r] = <<>>
<1>1. Wording(turn[r]) = <<>> /\ turn[r] \in Seq(AgentMessage)
  BY DEF IInv, Fits, TypeInv, TypeOK
<1>2. Len(turn[r]) = 0
  BY <1>1, WordingOK
<1> QED
  BY <1>1, <1>2

(* A step that writes no row.                                              *)
LEMMA RestKeeps ==
  ASSUME SerialInv, OneWrites', NEW r \in Request,
         \A q \in Request \ {r} : txn'[q] = txn[q],
         txn[r].pc # "done", txn'[r].pc # "done",
         UNCHANGED <<order, turn>>,
         turn[r] = <<>> \/ (Writes(r) /\ Writes(r)')
  PROVE  /\ Replayable'
         /\ Committed' = Committed
         /\ \A R : History(R)' = History(R)
<1>1. Committed' = Committed
  BY SameCommitted
<1>2. \A R : History(R)' = History(R)
  BY DEF History, Visible, StoredRow
<1>3. History(Committed)' = History(Committed)
  BY <1>1 DEF History, Visible, StoredRow
<1>4. Kept(order, turn) /\ InOrder /\ OneWrites
  BY RowsAreKept DEF SerialInv, Replayable
<1>6. turn[r] = <<>> =>
        (Behind(order, turn, Committed, r) <=> AllBy(order, Committed))
  BY <1>4, BehindNothing
<1>7. ASSUME NEW q \in Request, Writes(q)'
      PROVE  Behind(order, turn, Committed, q)
  <2>1. CASE q # r
    BY <1>4, <1>7, <2>1 DEF InOrder, Writes, Busy, Ended
  <2>2. CASE q = r /\ Writes(r)
    BY <1>4, <2>2 DEF InOrder
  <2>3. CASE q = r /\ ~ Writes(r)
    <3>1. \A p \in Request : ~ Writes(p)
      BY <1>4, <1>7, <2>3, OthersRest
    <3> QED
      BY <1>4, <1>6, <2>3, <3>1 DEF InOrder
  <2> QED
    BY <2>1, <2>2, <2>3
<1>8. ASSUME \A q \in Request : ~ Writes(q)'
      PROVE  AllBy(order, Committed)
  <2>1. \A q \in Request \ {r} : ~ Writes(q)
    BY <1>8 DEF Writes, Busy, Ended
  <2>2. CASE Writes(r)
    BY <1>4, <1>6, <1>8, <2>2 DEF InOrder
  <2>3. CASE ~ Writes(r)
    BY <1>4, <2>1, <2>3 DEF InOrder
  <2> QED
    BY <2>2, <2>3
<1>9. InOrder'
  BY <1>1, <1>7, <1>8 DEF InOrder
<1>10. ReplayIsPaired' /\ Answered(History(Committed))'
  BY <1>3 DEF SerialInv, Replayable, ReplayIsPaired, Answered
<1> QED
  BY <1>1, <1>2, <1>9, <1>10 DEF Replayable

(* A step that writes a row.                                               *)
LEMMA GrowKeeps ==
  ASSUME SerialInv, TypeInv', OneWrites', NEW r \in Request,
         \A q \in Request \ {r} : txn'[q] = txn[q],
         Busy(r), Writes(r)', NEW x \in AgentMessage, Insert(r, x)
  PROVE  /\ Replayable'
         /\ History(Committed)' = History(Committed)
         /\ History(Seen(r))' = Append(History(Seen(r)), AsTold(x))
<1> DEFINE C == Committed
           n == Len(order) - Len(turn[r])
           h == History(Committed)
           h2 == Tell(order', turn', Committed)
<1>1. C' = C /\ r \notin C
  <2>1. txn[r].pc # "done" /\ txn'[r].pc # "done"
    BY DEF Writes, Busy, Ended
  <2> QED
    BY <2>1, SameCommitted, BusyIsNotCommitted
<1>2. Kept(order, turn) /\ Kept(order', turn') /\ Behind(order, turn, C, r)
  <2>1. Kept(order, turn) /\ Kept(order', turn') /\ InOrder /\ OneWrites
    BY RowsAreKept, RowsAreKeptNext DEF SerialInv, Replayable
  <2>2. CASE Writes(r)
    BY <2>1, <2>2 DEF InOrder
  <2>3. CASE ~ Writes(r)
    <3>1. turn[r] = <<>>
      BY <2>3, QuietTurn DEF SerialInv, Writes
    <3>2. AllBy(order, C)
      BY <2>1, <2>3, OthersRest DEF InOrder
    <3> QED
      BY <2>1, <3>1, <3>2, BehindNothing
  <2> QED
    BY <2>1, <2>2, <2>3
<1>3. /\ order \in Seq(Written) /\ Len(order) \in Nat
      /\ turn \in [Request -> Seq(AgentMessage)]
      /\ turn[r] \in Seq(AgentMessage) /\ Len(turn[r]) \in Nat
  BY <1>2 DEF Kept
<1>4. /\ turn' = [turn EXCEPT ![r] = Append(turn[r], x)]
      /\ order' = Append(order, [by |-> r, nth |-> Len(turn[r]) + 1])
  BY DEF Insert
<1>5. /\ turn'[r] = Append(turn[r], x) /\ Len(turn'[r]) = Len(turn[r]) + 1
      /\ \A q \in Request \ {r} : turn'[q] = turn[q]
  BY <1>3, <1>4
<1>6. [by |-> r, nth |-> Len(turn[r]) + 1] \in Written
  BY <1>3 DEF Written
<1>7. /\ Len(order') = Len(order) + 1
      /\ order'[Len(order) + 1] = [by |-> r, nth |-> Len(turn[r]) + 1]
      /\ \A i \in 1..Len(order) : order'[i] = order[i]
  BY <1>3, <1>4, <1>6
<1>8. /\ n \in 0..Len(order) /\ n + Len(turn[r]) = Len(order)
      /\ Len(order') - Len(turn'[r]) = n
      /\ \A i \in 1..n : i \in 1..Len(order) /\ order[i].by \in C
      /\ \A j \in 1..Len(turn[r]) : order[n + j] = [by |-> r, nth |-> j]
  BY <1>2, <1>3, <1>5, <1>7 DEF Behind
<1> HIDE DEF n
<1>9. Behind(order', turn', C, r)
  <2>1. \A i \in 1..n : order'[i].by \in C
    BY <1>7, <1>8
  <2>2. ASSUME NEW j \in 1..Len(turn'[r])
        PROVE  order'[n + j] = [by |-> r, nth |-> j]
    <3>1. CASE j = Len(turn[r]) + 1
      <4>1. n + j = Len(order) + 1
        BY <1>3, <1>8, <3>1
      <4> QED
        BY <1>7, <3>1, <4>1
    <3>2. CASE j # Len(turn[r]) + 1
      <4>1. j \in 1..Len(turn[r])
        BY <1>3, <1>5, <3>2
      <4>2. n + j \in 1..Len(order)
        BY <1>3, <1>8, <4>1
      <4> QED
        BY <1>7, <1>8, <4>1, <4>2
    <3> QED
      BY <3>1, <3>2
  <2> QED
    BY <1>8, <2>1, <2>2 DEF Behind
<1>10. /\ h \in Seq(ChatMessage) /\ Len(h) = n
       /\ \A i \in 1..n : h[i] = ToldRow(order, turn, i)
       /\ History(Seen(r)) = h \o Wording(turn[r])
  <2>1. ToldInOrder(order, turn, C, r)
    BY <1>1, <1>2, TellBehind
  <2>2. /\ h = Tell(order, turn, C)
        /\ History(Seen(r)) = Tell(order, turn, C \cup {r})
    BY HistoryTells DEF Seen
  <2> HIDE DEF h, C
  <2> QED
    BY <2>1, <2>2 DEF ToldInOrder, n
<1>11. /\ h2 \in Seq(ChatMessage) /\ Len(h2) = n
       /\ \A i \in 1..n : h2[i] = ToldRow(order', turn', i)
       /\ Tell(order', turn', C \cup {r}) = h2 \o Wording(turn'[r])
  <2>1. ToldInOrder(order', turn', C, r)
    BY <1>1, <1>2, <1>9, TellBehind
  <2> HIDE DEF C
  <2> QED
    BY <1>8, <2>1 DEF ToldInOrder, C
<1>12. History(Committed)' = h2
       /\ History(Seen(r))' = Tell(order', turn', C \cup {r})
  BY <1>1 DEF History, Tell, Visible, ToldRow, StoredRow, Seen
<1>13. h2 = h
  <2>1. ASSUME NEW i \in 1..n
        PROVE  ToldRow(order', turn', i) = ToldRow(order, turn, i)
    <3>1. order'[i] = order[i] /\ order[i].by \in C /\ order[i].by \in Request
      BY <1>7, <1>8 DEF Committed
    <3>2. turn'[order[i].by] = turn[order[i].by]
      BY <1>1, <1>5, <3>1
    <3> QED
      BY <3>1, <3>2 DEF ToldRow
  <2> HIDE DEF h, h2
  <2>2. \A i \in 1..Len(h) : h2[i] = h[i]
    BY <1>10, <1>11, <2>1
  <2> QED
    BY <1>10, <1>11, <2>2, SeqEqual
<1>14. History(Seen(r))' = Append(History(Seen(r)), AsTold(x))
  <2> DEFINE w == Wording(turn[r])
             a == AsTold(x)
  <2>1. w \in Seq(Messageish) /\ a \in Messageish
        /\ Wording(turn'[r]) = Append(w, a)
    BY <1>3, <1>5, WordingOK, WordingAppend, AsToldOK
  <2>2. h \in Seq(Messageish)
    BY <1>10, ChatIsMessageish
  <2>3. /\ History(Seen(r))' = h \o Append(w, a)
        /\ History(Seen(r)) = h \o w
    BY <1>10, <1>11, <1>12, <1>13, <2>1
  <2> HIDE DEF h, w, a
  <2>4. h \o Append(w, a) = Append(h \o w, a)
    BY <2>1, <2>2
  <2> QED
    BY <2>3, <2>4 DEF a
<1>15. \A q \in Request \ {r} : ~ Writes(q)'
  BY OthersRest DEF SerialInv
<1>16. InOrder'
  BY <1>1, <1>9, <1>15 DEF InOrder
<1>17. ReplayIsPaired' /\ Answered(History(Committed))'
  BY <1>12, <1>13 DEF SerialInv, Replayable, ReplayIsPaired, Answered
<1> QED
  BY <1>12, <1>13, <1>14, <1>16, <1>17 DEF Replayable

(* What r has stored when it commits, if anything, is a whole turn.        *)
LEMMA CommitsWhole ==
  ASSUME SerialInv, NEW r \in Request, Commit(r)
  PROVE  \/ turn[r] = <<>>
         \/ convo # "deleted" /\ Abstract!WholeTurn(Wording(turn[r]))
<1>1. txn[r].pc = "commit"
  BY DEF Commit
<1>2. /\ convo # "deleted" /\ Fits(r, txn[r], Wording(turn[r]), FALSE)
      /\ r # Opening => r \in Sends
  BY <1>1, InTurn DEF SerialInv
<1>3. CASE Speaks(r, txn[r])
  BY <1>1, <1>2, <1>3 DEF Fits, Whole
<1>4. CASE ~ Speaks(r, txn[r])
  BY <1>1, <1>2, <1>4 DEF Speaks, SerialInv, SilentOpening
<1> QED
  BY <1>3, <1>4

LEMMA CommitKeeps ==
  ASSUME SerialInv, OneWrites', NEW r \in Request, Commit(r)
  PROVE  /\ Replayable'
         /\ History(Committed)' = History(Committed) \o Wording(turn[r])
         /\ Committed' = Committed \cup {r}
<1> DEFINE h == History(Committed)
           w == Wording(turn[r])
<1>1. /\ txn[r].pc = "commit" /\ UNCHANGED <<order, turn>>
      /\ txn' = [txn EXCEPT ![r].pc = "done"] /\ Writes(r)
  BY DEF Commit, Writes, Busy, Ended
<1>2. txn \in [Request -> Txn]
  BY DEF SerialInv, TypeInv, TypeOK
<1>3. /\ \A q \in Request \ {r} : txn'[q] = txn[q]
      /\ txn'[r].pc = "done" /\ ~ Writes(r)'
  BY <1>1, <1>2 DEF Txn, Writes, Busy, Ended
<1>4. Committed' = Committed \cup {r} /\ r \notin Committed
  BY <1>1, <1>3 DEF Committed
<1>5. Kept(order, turn) /\ Behind(order, turn, Committed, r)
  BY <1>1, RowsAreKept DEF SerialInv, Replayable, InOrder
<1>6. /\ h \in Seq(ChatMessage)
      /\ Tell(order, turn, Committed \cup {r}) = h \o w
  <2>1. ToldInOrder(order, turn, Committed, r)
    BY <1>4, <1>5, TellBehind
  <2>2. h = Tell(order, turn, Committed)
    BY HistoryTells
  <2> HIDE DEF h, w
  <2> QED
    BY <2>1, <2>2 DEF ToldInOrder, w
<1>7. History(Committed)' = h \o w
  BY <1>1, <1>4, <1>6 DEF History, Tell, Visible, ToldRow, StoredRow
<1>8. AllBy(order, Committed \cup {r})
  <2> DEFINE n == Len(order) - Len(turn[r])
  <2>1. /\ Len(order) \in Nat /\ Len(turn[r]) \in Nat
        /\ n \in Nat /\ n + Len(turn[r]) = Len(order)
        /\ \A i \in 1..n : order[i].by \in Committed
        /\ \A j \in 1..Len(turn[r]) : order[n + j] = [by |-> r, nth |-> j]
    BY <1>5 DEF Kept, Behind
  <2> HIDE DEF n
  <2>2. ASSUME NEW i \in 1..Len(order) PROVE order[i].by \in Committed \cup {r}
    <3>1. CASE i <= n
      <4>1. i \in 1..n
        BY <2>1, <3>1
      <4> QED
        BY <2>1, <4>1
    <3>2. CASE ~ (i <= n)
      <4>1. i - n \in 1..Len(turn[r]) /\ n + (i - n) = i
        BY <2>1, <3>2
      <4>2. order[n + (i - n)] = [by |-> r, nth |-> i - n]
        BY <2>1, <4>1
      <4>3. order[i].by = r
        BY <4>1, <4>2
      <4> QED
        BY <4>3
    <3> QED
      BY <3>1, <3>2
  <2> QED
    BY <2>2 DEF AllBy
<1>9. \A q \in Request : ~ Writes(q)'
  BY <1>1, <1>3, OthersRest DEF SerialInv
<1>10. InOrder'
  BY <1>1, <1>4, <1>8, <1>9 DEF InOrder
<1>11. /\ w \in Seq(Messageish) /\ h \in Seq(Messageish)
       /\ turn[r] = <<>> => w = <<>>
       /\ Abstract!Paired(h) /\ Answered(h)
  <2>1. turn[r] \in Seq(AgentMessage)
    BY DEF SerialInv, TypeInv, TypeOK
  <2> QED
    BY <1>6, <2>1, WordingOK, EmptyWording, ChatIsMessageish
       DEF SerialInv, Replayable, ReplayIsPaired
<1> HIDE DEF h, w
<1>12. Abstract!Paired(h \o w) /\ Answered(h \o w)
  <2>1. CASE turn[r] = <<>>
    <3>1. h \o w = h
      BY <1>11, <2>1
    <3> QED
      BY <1>11, <3>1
  <2>2. CASE Abstract!WholeTurn(w)
    <3>1. Abstract!Paired(w) /\ w # <<>> /\ Len(w) \in 1..Len(w)
          /\ Abstract!Final(w[Len(w)])
      BY <1>11, <2>2 DEF Abstract!WholeTurn
    <3>2. Abstract!Paired(h \o w)
      BY <1>11, <3>1, ConcatPaired
    <3>3. (h \o w)[Len(h \o w)] = w[Len(w)]
      BY <1>11, <3>1, ConcatIs
    <3> QED
      BY <3>1, <3>2, <3>3 DEF Answered
  <2> QED
    BY <2>1, <2>2, CommitsWhole DEF w
<1> QED
  BY <1>4, <1>7, <1>10, <1>12 DEF Replayable, ReplayIsPaired, h, w

(* A request that fails before it has stored anything.                     *)
LEMMA NothingToTake ==
  ASSUME SerialInv, NEW r \in Request, Rollback(r), ~ Writes(r)
  PROVE  UNCHANGED <<order, turn>>
<1>1. /\ Busy(r) /\ turn' = [turn EXCEPT ![r] = <<>>]
      /\ order' = Selected(order, {i \in DOMAIN order : order[i].by # r})
  BY DEF Rollback
<1>2. Kept(order, turn) /\ turn[r] = <<>>
  BY <1>1, RowsAreKept, QuietTurn DEF SerialInv, Writes
<1>3. order \in Seq(Written) /\ Len(order) \in Nat
      /\ turn \in [Request -> Seq(AgentMessage)]
  BY <1>2 DEF Kept
<1>4. \A i \in 1..Len(order) : order[i].by # r
  BY <1>2 DEF Kept
<1> DEFINE I == {i \in DOMAIN order : order[i].by # r}
           n == Len(order)
<1>5. \A i \in 1..Len(order) : i \in I <=> 1 <= i /\ i <= n
  BY <1>3, <1>4
<1>6. 1 \in 1..(Len(order) + 1) /\ n \in (1 - 1)..Len(order)
  BY <1>3
<1> HIDE DEF I, n
<1>7. Selected(order, I) = [j \in 1..(n - 1 + 1) |-> order[1 + j - 1]]
  <2>1. 1 \in 1..(Len(order) + 1) /\ n \in (1 - 1)..Len(order)
    BY <1>6
  <2> QED
    BY <1>3, <1>5, <2>1, SelectedInterval
<1>8. n - 1 + 1 = n /\ \A j \in 1..n : 1 + j - 1 = j
  BY <1>3 DEF n
<1>9. order' = [j \in 1..n |-> order[j]]
  BY <1>1, <1>7, <1>8 DEF I
<1>10. [j \in 1..Len(order) |-> order[j]] = order
  BY <1>3
<1> QED
  BY <1>1, <1>2, <1>3, <1>9, <1>10 DEF n

(* A failed request takes its rows with it: they are the last ones.        *)
LEMMA WriterKeeps ==
  ASSUME SerialInv, TypeInv', OneWrites', NEW r \in Request, Rollback(r),
         Writes(r)
  PROVE  /\ Replayable'
         /\ History(Committed)' = History(Committed)
<1> DEFINE C == Committed
           n == Len(order) - Len(turn[r])
           h == History(Committed)
           h2 == Tell(order', turn', Committed)
           I == {i \in DOMAIN order : order[i].by # r}
<1>1. /\ Busy(r) /\ turn' = [turn EXCEPT ![r] = <<>>]
      /\ order' = Selected(order, I)
      /\ txn' = [txn EXCEPT ![r].pc = "failed"]
  BY DEF Rollback
<1>2. txn \in [Request -> Txn]
  BY DEF SerialInv, TypeInv, TypeOK
<1>3. /\ \A q \in Request \ {r} : txn'[q] = txn[q]
      /\ txn'[r].pc = "failed" /\ ~ Writes(r)'
  BY <1>1, <1>2 DEF Txn, Writes, Busy, Ended
<1>4. C' = C /\ r \notin C
  <2>1. txn[r].pc # "done" /\ txn'[r].pc # "done"
    BY <1>1, <1>3 DEF Busy, Ended
  <2> QED
    BY <1>1, <1>3, <2>1, SameCommitted, BusyIsNotCommitted
<1>5. Kept(order, turn) /\ Kept(order', turn') /\ Behind(order, turn, C, r)
  BY <1>1, RowsAreKept, RowsAreKeptNext DEF SerialInv, Replayable, InOrder
<1>6. /\ order \in Seq(Written) /\ Len(order) \in Nat
      /\ turn \in [Request -> Seq(AgentMessage)]
      /\ turn[r] \in Seq(AgentMessage) /\ Len(turn[r]) \in Nat
  BY <1>5 DEF Kept
<1>7. /\ n \in 0..Len(order) /\ n + Len(turn[r]) = Len(order)
      /\ \A i \in 1..n : i \in 1..Len(order) /\ order[i].by \in C
      /\ \A j \in 1..Len(turn[r]) : order[n + j] = [by |-> r, nth |-> j]
  BY <1>5, <1>6 DEF Behind
<1> HIDE DEF n
<1>8. \A i \in 1..Len(order) : i \in I <=> 1 <= i /\ i <= n
  <2> SUFFICES ASSUME NEW i \in 1..Len(order)
               PROVE  order[i].by # r <=> i <= n
    BY <1>6
  <2>1. CASE i <= n
    <3>1. i \in 1..n
      BY <1>6, <1>7, <2>1
    <3>2. order[i].by \in C
      BY <1>7, <3>1
    <3> QED
      BY <1>4, <2>1, <3>2
  <2>2. CASE ~ (i <= n)
    <3>1. i - n \in 1..Len(turn[r]) /\ n + (i - n) = i
      BY <1>6, <1>7, <2>2
    <3>2. order[n + (i - n)] = [by |-> r, nth |-> i - n]
      BY <1>7, <3>1
    <3>3. order[i].by = r
      BY <3>1, <3>2
    <3> QED
      BY <2>2, <3>3
  <2> QED
    BY <2>1, <2>2
<1>9. Len(order') = n /\ \A i \in 1..n : order'[i] = order[i]
  <2>1. 1 \in 1..(Len(order) + 1) /\ n \in (1 - 1)..Len(order)
    BY <1>6, <1>7
  <2> HIDE DEF I
  <2>2. Selected(order, I) = [j \in 1..(n - 1 + 1) |-> order[1 + j - 1]]
    BY <1>6, <1>8, <2>1, SelectedInterval
  <2>3. n - 1 + 1 = n /\ \A j \in 1..n : 1 + j - 1 = j
    BY <1>7
  <2>4. order' = [j \in 1..n |-> order[j]]
    BY <1>1, <2>2, <2>3
  <2> QED
    BY <1>7, <2>4
<1>10. AllBy(order', C)
  BY <1>7, <1>9 DEF AllBy
<1>11. /\ h \in Seq(ChatMessage) /\ Len(h) = n
       /\ \A i \in 1..n : h[i] = ToldRow(order, turn, i)
  <2>1. ToldInOrder(order, turn, C, r)
    BY <1>4, <1>5, TellBehind
  <2>2. h = Tell(order, turn, C)
    BY HistoryTells
  <2> HIDE DEF h, C
  <2> QED
    BY <2>1, <2>2 DEF ToldInOrder, n
<1>12. /\ h2 \in Seq(ChatMessage) /\ Len(h2) = n
       /\ \A i \in 1..n : h2[i] = ToldRow(order', turn', i)
  BY <1>5, <1>9, <1>10, TellAll
<1>13. History(Committed)' = h2
  BY <1>4 DEF History, Tell, Visible, ToldRow, StoredRow
<1>14. h2 = h
  <2>1. ASSUME NEW i \in 1..n
        PROVE  ToldRow(order', turn', i) = ToldRow(order, turn, i)
    <3>1. order'[i] = order[i] /\ order[i].by \in C /\ order[i].by \in Request
      BY <1>7, <1>9 DEF Committed
    <3>2. turn'[order[i].by] = turn[order[i].by]
      BY <1>1, <1>4, <1>6, <3>1
    <3> QED
      BY <3>1, <3>2 DEF ToldRow
  <2> HIDE DEF h, h2
  <2>2. \A i \in 1..Len(h) : h2[i] = h[i]
    BY <1>11, <1>12, <2>1
  <2> QED
    BY <1>11, <1>12, <2>2, SeqEqual
<1>15. \A q \in Request : ~ Writes(q)'
  BY <1>1, <1>3, OthersRest DEF SerialInv
<1>16. InOrder'
  BY <1>4, <1>10, <1>15 DEF InOrder
<1>17. ReplayIsPaired' /\ Answered(History(Committed))'
  BY <1>13, <1>14 DEF SerialInv, Replayable, ReplayIsPaired, Answered
<1> QED
  BY <1>13, <1>14, <1>16, <1>17 DEF Replayable

LEMMA RollbackKeeps ==
  ASSUME SerialInv, TypeInv', OneWrites', NEW r \in Request, Rollback(r)
  PROVE  /\ Replayable'
         /\ History(Committed)' = History(Committed)
<1>1. CASE Writes(r)
  BY <1>1, WriterKeeps
<1>2. CASE ~ Writes(r)
  <2>1. /\ UNCHANGED <<order, turn>> /\ turn[r] = <<>>
        /\ \A q \in Request \ {r} : txn'[q] = txn[q]
        /\ txn[r].pc # "done" /\ txn'[r].pc # "done"
    <3>1. txn'[r].pc = "failed" /\ Busy(r)
      BY DEF Rollback, SerialInv, TypeInv, TypeOK, Txn
    <3> QED
      BY <1>2, <3>1, NothingToTake, QuietTurn, Actor
         DEF SerialInv, Writes, Busy, Ended
  <2>2. /\ Replayable' /\ Committed' = Committed
        /\ \A R : History(R)' = History(R)
    BY <2>1, RestKeeps
  <2> QED
    BY <2>1, <2>2 DEF History, Visible, StoredRow
<1> QED
  BY <1>1, <1>2

(* No place, no message.                                                   *)
LEMMA NothingTold ==
  ASSUME NEW o, NEW t, Kept(o, t), o = <<>>, NEW R
  PROVE  Tell(o, t, R) = <<>>
<1>1. AllBy(o, R) /\ Len(o) = 0
  BY DEF AllBy
<1>2. Tell(o, t, R) \in Seq(ChatMessage) /\ Len(Tell(o, t, R)) = 0
  BY <1>1, TellAll
<1> QED
  BY <1>2

LEMMA EmptyIsReplayable == Abstract!Paired(<<>>) /\ Answered(<<>>)
BY EmptyFits DEF Answered

LEMMA DeleteKeeps ==
  ASSUME SerialInv, TypeInv', NEW r \in Request, Delete(r)
  PROVE  /\ Replayable'
         /\ History(Committed)' = <<>>
<1>1. order' = <<>> /\ turn' = [q \in Request |-> <<>>]
  BY DEF Delete, DeleteMessages
<1>2. Kept(order', turn')
  BY RowsAreKeptNext
<1>3. History(Committed)' = Tell(order', turn', Committed')
  BY DEF History, Tell, Visible, ToldRow, StoredRow
<1>4. History(Committed)' = <<>>
  BY <1>1, <1>2, <1>3, NothingTold
<1>5. \A C : AllBy(order', C)
  BY <1>1 DEF AllBy
<1>6. \A C : \A q \in Request : Behind(order', turn', C, q)
  BY <1>1 DEF Behind
<1>7. InOrder'
  BY <1>5, <1>6 DEF InOrder
<1>8. ReplayIsPaired' /\ Answered(History(Committed))'
  BY <1>4, EmptyIsReplayable DEF ReplayIsPaired, Answered
<1> QED
  BY <1>4, <1>7, <1>8 DEF Replayable

-----------------------------------------------------------------------------
(* The list in memory and the rows.                                        *)

(* A list replays itself, and the memory is paired if its replay is.       *)
LEMMA ReplaysItself == ASSUME NEW X, NEW m \in Seq(X) PROVE Replays(m, m)
BY DEF Replays, ComesBackAs

LEMMA ReplaysOneMore ==
  ASSUME NEW a \in Seq(Messageish), NEW b \in Seq(Messageish), Replays(a, b),
         NEW x \in Messageish, NEW y \in Messageish, ComesBackAs(x, y)
  PROVE  Replays(Append(a, x), Append(b, y))
<1>1. /\ Len(a) = Len(b) /\ Len(a) \in Nat
      /\ \A i \in 1..Len(a) : ComesBackAs(a[i], b[i])
  BY DEF Replays
<1>2. /\ Len(Append(a, x)) = Len(a) + 1 /\ Append(a, x)[Len(a) + 1] = x
      /\ Len(Append(b, y)) = Len(a) + 1 /\ Append(b, y)[Len(a) + 1] = y
      /\ \A i \in 1..Len(a) : Append(a, x)[i] = a[i] /\ Append(b, y)[i] = b[i]
  BY <1>1
<1>3. ASSUME NEW i \in 1..(Len(a) + 1)
      PROVE  ComesBackAs(Append(a, x)[i], Append(b, y)[i])
  <2>1. CASE i = Len(a) + 1
    BY <1>2, <2>1
  <2>2. CASE i # Len(a) + 1
    <3>1. i \in 1..Len(a)
      BY <1>1, <2>2
    <3> QED
      BY <1>1, <1>2, <3>1
  <2> QED
    BY <2>1, <2>2
<1> QED
  BY <1>2, <1>3 DEF Replays

LEMMA ReplaysPaired ==
  ASSUME NEW a \in Seq(Messageish), NEW b \in Seq(Messageish), Replays(a, b),
         Abstract!Paired(b)
  PROVE  Abstract!Paired(a)
<1>1. /\ Len(a) = Len(b) /\ Len(a) \in Nat
      /\ \A i \in 1..Len(a) : a[i].role = b[i].role /\ a[i].number = b[i].number
  BY DEF Replays, ComesBackAs
<1>2. \A i \in 1..Len(a) : b[i].number \in Nat
  <2>1. \A i \in 1..Len(b) : b[i] \in Messageish
    OBVIOUS
  <2> QED
    BY <1>1, <2>1 DEF Messageish
<1>3. ASSUME NEW i \in 1..Len(a), a[i].role = "assistant"
      PROVE  Abstract!AnsweredAt(a, i)
  <2>1. Abstract!AnsweredAt(b, i)
    BY <1>1, <1>3 DEF Abstract!Paired
  <2>2. ASSUME NEW j \in 1..a[i].number
        PROVE  i + j <= Len(a) /\ a[i + j].role = "tool" /\ a[i + j].number = j
    <3>1. j \in 1..b[i].number /\ j \in Nat
      BY <1>1, <1>2
    <3>2. i + j <= Len(b) /\ b[i + j].role = "tool" /\ b[i + j].number = j
      BY <2>1, <3>1 DEF Abstract!AnsweredAt
    <3>3. i + j \in 1..Len(a)
      BY <1>1, <3>1, <3>2
    <3> QED
      BY <1>1, <3>2, <3>3
  <2> QED
    BY <2>2 DEF Abstract!AnsweredAt
<1>4. ASSUME NEW i \in 1..Len(a), a[i].role = "tool"
      PROVE  Abstract!AnswersAt(a, i)
  <2> DEFINE asked == i - a[i].number
  <2>1. asked = i - b[i].number
    BY <1>1
  <2>2. asked >= 1 /\ b[asked].role = "assistant" /\ b[i].number <= b[asked].number
    BY <1>1, <1>4, <2>1 DEF Abstract!Paired, Abstract!AnswersAt
  <2>3. asked \in 1..Len(a)
    BY <1>1, <1>2, <2>1, <2>2
  <2> HIDE DEF asked
  <2>4. a[asked].role = "assistant" /\ a[i].number <= a[asked].number
    BY <1>1, <2>2, <2>3
  <2> QED
    BY <2>2, <2>4 DEF Abstract!AnswersAt, asked
<1> QED
  BY <1>3, <1>4 DEF Abstract!Paired

LEMMA FaithfulIs ==
  ASSUME SerialInv, NEW r \in Request, txn[r].pc \in {"chat", "tools"}
  PROVE  Replays(txn[r].working, Trigger(r) \o History(Seen(r)))
BY DEF SerialInv, ReplayIsFaithful

LEMMA TriggerIs ==
  \A r : /\ Trigger(r) \in Seq(Messageish)
         /\ Trigger(r) \in Seq(ChatMessage)
         /\ Abstract!Paired(Trigger(r))
<1> SUFFICES ASSUME NEW r
             PROVE  /\ Trigger(r) \in Seq(ChatMessage)
                    /\ Abstract!Paired(Trigger(r))
  BY ChatIsMessageish
<1>1. Row("user", 0) \in ChatMessage /\ Row("user", 0).role = "user"
  BY BoundsAreNatural DEF Row, ChatMessage, Text
<1> DEFINE u == Row("user", 0)
<1>2. Abstract!Paired(<<u>>)
  <2> HIDE DEF u
  <2>1. Len(<<u>>) = 1 /\ <<u>>[1] = u
    OBVIOUS
  <2>2. u.role = "user"
    BY <1>1 DEF u
  <2> QED
    BY <2>1, <2>2 DEF Abstract!Paired
<1> QED
  BY <1>1, <1>2, EmptyFits DEF Trigger

(* A request that was not told anything and is not told anything now.      *)
LEMMA FaithfulElsewhere ==
  ASSUME SerialInv, OneWrites', NEW r \in Request,
         \A q \in Request \ {r} : txn'[q] = txn[q],
         \/ /\ UNCHANGED <<order, turn>> /\ Committed' = Committed
         \/ Writes(r)
         \/ Writes(r)',
         txn'[r].pc \in {"chat", "tools"} =>
           Replays(txn'[r].working, Trigger(r) \o History(Seen(r))')
  PROVE  ReplayIsFaithful'
<1> SUFFICES ASSUME NEW q \in Request, txn'[q].pc \in {"chat", "tools"}
             PROVE  Replays(txn'[q].working, Trigger(q) \o History(Seen(q))')
  BY DEF ReplayIsFaithful, Trigger, Row
<1>1. CASE q = r
  BY <1>1
<1>2. CASE q # r
  <2>1. Writes(q)' /\ txn'[q] = txn[q] /\ txn[q].pc \in {"chat", "tools"}
    BY <1>2 DEF Writes, Busy, Ended
  <2>2. UNCHANGED <<order, turn>> /\ Committed' = Committed
    BY <1>2, <2>1, OthersRest DEF SerialInv
  <2>3. History(Seen(q))' = History(Seen(q))
    BY <2>2 DEF History, Visible, StoredRow, Seen
  <2>4. Replays(txn[q].working, Trigger(q) \o History(Seen(q)))
    BY <2>1, FaithfulIs
  <2> QED
    BY <2>1, <2>3, <2>4
<1> QED
  BY <1>1, <1>2

(* Told one more.                                                          *)
LEMMA ToldOneMore ==
  ASSUME SerialInv, NEW r \in Request, txn[r].pc \in {"chat", "tools"},
         NEW x \in Messageish, NEW y \in Messageish, ComesBackAs(x, y)
  PROVE  Replays(Append(txn[r].working, x),
                 Trigger(r) \o Append(History(Seen(r)), y))
<1> DEFINE a == Trigger(r)
           b == History(Seen(r))
           w == txn[r].working
<1>1. Replays(w, a \o b)
  BY FaithfulIs
<1>2. a \in Seq(Messageish) /\ b \in Seq(Messageish)
  BY HistoryType, ChatIsMessageish, TriggerIs DEF SerialInv
<1>3. w \in Seq(Messageish)
  <2>1. txn[r] \in Txn
    BY DEF SerialInv, TypeInv, TypeOK
  <2> QED
    BY <2>1, ChatIsMessageish DEF Txn
<1> HIDE DEF a, b, w
<1>4. Append(a \o b, y) = a \o Append(b, y) /\ a \o b \in Seq(Messageish)
  BY <1>2
<1>5. Replays(Append(w, x), Append(a \o b, y))
  BY <1>1, <1>3, <1>4, ReplaysOneMore
<1> QED
  BY <1>4, <1>5 DEF a, b, w

-----------------------------------------------------------------------------
(* The inductive invariant.                                                *)

LEMMA SeenIs ==
  ASSUME SerialInv, NEW r \in Request, Writes(r)
  PROVE  /\ History(Committed) \in Seq(ChatMessage)
         /\ Len(History(Committed)) = Len(order) - Len(turn[r])
         /\ History(Seen(r)) = History(Committed) \o Wording(turn[r])
<1>1. /\ Kept(order, turn) /\ r \notin Committed
      /\ Behind(order, turn, Committed, r)
  BY RowsAreKept, BusyIsNotCommitted DEF SerialInv, Replayable, InOrder
<1>2. ToldInOrder(order, turn, Committed, r)
  BY <1>1, TellBehind
<1> QED
  BY <1>2, HistoryTells DEF ToldInOrder, Seen

(* While the conversation is being opened nothing else is stored.          *)
LEMMA OpeningAlone ==
  ASSUME SerialInv, Writes(Opening)
  PROVE  History(Committed) = <<>>
<1>1. Opening \in Request
  BY DEF Request
<1>2. convo = "none" /\ txn[Opening].pc # "done"
  BY DEF SerialInv, IInv, OpeningFirst, Writes, Busy, Ended
<1>3. Committed = {}
  BY <1>2 DEF SerialInv, NothingBeforeOpening, Committed, Request
<1>4. /\ History(Committed) \in Seq(ChatMessage)
      /\ Len(History(Committed)) = Len(order) - Len(turn[Opening])
  BY <1>1, SeenIs
<1> DEFINE n == Len(order) - Len(turn[Opening])
<1>5. n >= 0 /\ \A i \in 1..n : FALSE
  BY <1>1, <1>3 DEF SerialInv, Replayable, InOrder, Behind
<1>6. n \in Nat
  <2>1. Len(order) \in Nat /\ Len(turn[Opening]) \in Nat
    BY <1>1 DEF SerialInv, TypeInv, TypeOK
  <2> QED
    BY <1>5, <2>1
<1> HIDE DEF n
<1>7. n = 0
  BY <1>5, <1>6
<1>8. Len(History(Committed)) = 0
  BY <1>4, <1>7 DEF n
<1> QED
  BY <1>4, <1>8

LEMMA NothingBefore ==
  ASSUME SerialInv, NEW r \in Request, Begin(r) \/ Advance(r) \/ Rollback(r)
  PROVE  NothingBeforeOpening'
<1>1. \A q \in Request \ {r} : txn'[q] = txn[q]
  BY Actor DEF SerialInv
<1>2. convo' = "none" => convo = "none"
  BY DEF Begin, Advance, Create, Kickoff, Load, Refuse, Post, BuildHistory,
         Answer, CallTools, RunTool, GiveUp, Commit, Delete, Rollback
<1> SUFFICES ASSUME convo = "none", NEW q \in Sends \cup Deletes
             PROVE  txn'[q].pc = "waiting"
  BY <1>2 DEF NothingBeforeOpening
<1>3. q \in Request /\ q # Opening /\ txn[q].pc = "waiting"
  BY RequestsAreDistinct DEF Request, SerialInv, NothingBeforeOpening
<1>4. q # r
  BY <1>3 DEF Begin, Advance, Load, Refuse, Post, BuildHistory, Answer,
              CallTools, RunTool, GiveUp, Commit, Delete, Rollback, Busy
<1> QED
  BY <1>1, <1>3, <1>4

LEMMA SilentOpeningStays ==
  ASSUME SerialInv, NEW r \in Request, Begin(r) \/ Advance(r) \/ Rollback(r)
  PROVE  SilentOpening'
<1> SUFFICES ASSUME txn'[Opening].pc = "commit", txn'[Opening].working = <<>>
             PROVE  turn'[Opening] = <<>>
  BY DEF SilentOpening
<1> USE DEF Request
<1>1. /\ txn \in [Request -> Txn] /\ turn \in [Request -> Seq(AgentMessage)]
      /\ IInv /\ TypeInv
  BY DEF SerialInv, TypeInv, TypeOK
<1>2. CASE r # Opening
  <2>1. turn[Opening] = <<>>
    BY <1>2, Actor DEF SerialInv, SilentOpening
  <2>2. turn'[Opening] = turn[Opening] \/ turn'[Opening] = <<>>
    BY <1>1, <1>2 DEF Begin, Advance, Create, Kickoff, Load, Refuse, Post,
         BuildHistory, Answer, CallTools, RunTool, GiveUp, Commit, Delete,
         DeleteMessages, Rollback, Insert
  <2> QED
    BY <2>1, <2>2
<1>3. CASE r = Opening
  <2>1. CASE Create
    BY <1>1, <2>1, QuietTurn DEF Create
  <2>2. CASE Kickoff \/ Load(r) \/ Refuse(r) \/ Post(r) \/ BuildHistory(r)
             \/ Commit(r) \/ Rollback(r) \/ Delete(r)
    <3>1. txn'[r].pc # "commit"
      BY <1>1, <1>3, <2>2 DEF Txn, Kickoff, Load, Refuse, Post, BuildHistory,
           Commit, Rollback, Delete
    <3> QED
      BY <1>3, <3>1
  <2>3. CASE (\E said \in Said : Answer(r, said)) \/ GiveUp(r)
    <3>1. txn[r].pc = "chat" /\ txn'[r].working = txn[r].working
      BY <1>1, <2>3 DEF Txn, Answer, GiveUp
    <3>2. txn[r].working # <<>>
      BY <1>1, <1>3, <3>1 DEF IInv, Fits
    <3> QED
      BY <1>3, <3>1, <3>2
  <2>4. CASE \E said \in Said, calls \in 1..MaxTools :
               CallTools(r, calls, said)
    <3>1. txn'[r].pc # "commit"
      BY <1>1, <2>4 DEF CallTools
    <3> QED
      BY <1>3, <3>1
  <2>5. CASE RunTool(r)
    <3>1. txn'[r].pc # "commit"
      BY <1>1, <2>5 DEF RunTool
    <3> QED
      BY <1>3, <3>1
  <2> QED
    BY <1>3, <2>1, <2>2, <2>3, <2>4, <2>5 DEF Begin, Advance
<1> QED
  BY <1>2, <1>3

(* How each step leaves the rows and the lists in memory.                  *)
StepOK == Replayable' /\ ReplayIsFaithful'

LEMMA QuietStep ==
  ASSUME SerialInv, OneWrites', NEW r \in Request,
         (Create /\ r = Opening) \/ Load(r) \/ Refuse(r)
  PROVE  StepOK /\ History(Committed)' = History(Committed)
<1>1. /\ txn \in [Request -> Txn] /\ IInv /\ TypeInv
  BY DEF SerialInv, TypeInv, TypeOK
<1>2. /\ txn[r].pc \in {"waiting", "loaded"}
      /\ txn'[r].pc \in {"created", "commit", "loaded", "failed"}
      /\ UNCHANGED <<order, turn>>
      /\ \A q \in Request \ {r} : txn'[q] = txn[q]
  BY <1>1 DEF Create, Load, Refuse, Txn
<1>3. turn[r] = <<>>
  BY <1>1, <1>2, QuietTurn
<1>4. /\ Replayable' /\ Committed' = Committed
      /\ \A R : History(R)' = History(R)
  BY <1>2, <1>3, RestKeeps
<1>5. ReplayIsFaithful'
  BY <1>2, <1>4, FaithfulElsewhere
<1>6. History(Committed)' = History(Committed)
  BY <1>2, <1>4 DEF History, Visible, StoredRow
<1> QED
  BY <1>4, <1>5, <1>6 DEF StepOK

LEMMA KickoffStep ==
  ASSUME SerialInv, OneWrites', Kickoff
  PROVE  StepOK /\ History(Committed)' = History(Committed)
<1> DEFINE r == Opening
           w == <<Row("user", 0)>>
<1>1. /\ txn \in [Request -> Txn] /\ IInv /\ TypeInv /\ Opening \in Request
  BY DEF SerialInv, TypeInv, TypeOK, Request
<1>2. /\ txn[Opening].pc = "created" /\ txn'[Opening].pc = "chat"
      /\ txn'[Opening].working = w
      /\ UNCHANGED <<order, turn>>
      /\ \A q \in Request \ {Opening} : txn'[q] = txn[q]
  <2> HIDE DEF w
  <2> QED
    BY <1>1 DEF Kickoff, Txn, w
<1>3. Writes(Opening) /\ Writes(Opening)'
  BY <1>2 DEF Writes, Busy, Ended
<1>4. /\ Replayable' /\ Committed' = Committed
      /\ \A R : History(R)' = History(R)
  BY <1>1, <1>2, <1>3, RestKeeps
<1>5. turn[Opening] = <<>>
  BY <1>1, <1>2, QuietTurn
<1>6. History(Seen(Opening)) = <<>>
  BY <1>1, <1>3, <1>5, SeenIs, OpeningAlone, EmptyWording
<1>7. History(Seen(Opening))' = <<>>
  BY <1>2, <1>4, <1>6 DEF History, Visible, StoredRow, Seen
<1>8. w = Trigger(Opening) \o <<>> /\ Replays(w, w)
  <2>1. w = Trigger(Opening)
    BY DEF Trigger
  <2> HIDE DEF w
  <2>2. w \in Seq(Messageish)
    BY <2>1, TriggerIs
  <2> QED
    BY <2>1, <2>2, ReplaysItself
<1>9. ReplayIsFaithful'
  <2> HIDE DEF w
  <2> QED
    BY <1>1, <1>2, <1>3, <1>7, <1>8, FaithfulElsewhere
<1>10. History(Committed)' = History(Committed)
  BY <1>2, <1>4 DEF History, Visible, StoredRow
<1> QED
  BY <1>4, <1>9, <1>10 DEF StepOK

LEMMA BuildHistoryStep ==
  ASSUME SerialInv, OneWrites', NEW r \in Request, BuildHistory(r)
  PROVE  StepOK /\ History(Committed)' = History(Committed)
<1> DEFINE h == History(Seen(r))
<1>1. /\ txn \in [Request -> Txn] /\ IInv /\ TypeInv
  BY DEF SerialInv, TypeInv, TypeOK
<1>2. /\ txn[r].pc = "posted" /\ txn'[r].pc = "chat" /\ txn'[r].working = h
      /\ UNCHANGED <<order, turn>>
      /\ \A q \in Request \ {r} : txn'[q] = txn[q]
  <2> DEFINE t == [txn[r] EXCEPT !.pc = "chat", !.working = h]
  <2> HIDE DEF h
  <2>1. txn' = [txn EXCEPT ![r] = t]
    BY DEF BuildHistory, h
  <2>2. t.pc = "chat" /\ t.working = h
    BY <1>1 DEF Txn
  <2> HIDE DEF t
  <2> QED
    BY <1>1, <2>1, <2>2 DEF BuildHistory
<1>3. Writes(r) /\ Writes(r)'
  BY <1>2 DEF Writes, Busy, Ended
<1>4. /\ Replayable' /\ Committed' = Committed
      /\ \A R : History(R)' = History(R)
  BY <1>2, <1>3, RestKeeps
<1>5. r # Opening
  BY <1>1, <1>2 DEF IInv, Fits, PlacesOf
<1>6. h \in Seq(ChatMessage)
  BY <1>1, HistoryType
<1>7. h = Trigger(r) \o h /\ Replays(h, h)
  <2> HIDE DEF h
  <2> QED
    BY <1>5, <1>6, ReplaysItself DEF Trigger
<1>8. History(Seen(r))' = h
  BY <1>2, <1>4 DEF History, Visible, StoredRow, Seen
<1>9. ReplayIsFaithful'
  <2> HIDE DEF h
  <2> QED
    BY <1>2, <1>3, <1>7, <1>8, FaithfulElsewhere
<1>10. History(Committed)' = History(Committed)
  BY <1>2, <1>4 DEF History, Visible, StoredRow
<1> QED
  BY <1>4, <1>9, <1>10 DEF StepOK

LEMMA RowTypes ==
  /\ Row("user", 0) \in AgentMessage
  /\ \A n \in 0..MaxTools :
       /\ Row("system", n) \in AgentMessage
       /\ AsTold(Row("system", n)) = Row("tool", n)
       /\ Row("tool", n) \in Messageish
BY BoundsAreNatural DEF AgentMessage, Row, AsTold, Messageish, Text

(* The user's message, the answer, the fallback: the model is told nothing *)
(* more.                                                                   *)
LEMMA StoreStep ==
  ASSUME SerialInv, TypeInv', OneWrites', NEW r \in Request,
         Post(r) \/ (\E said \in Said : Answer(r, said)) \/ GiveUp(r)
  PROVE  StepOK /\ History(Committed)' = History(Committed)
<1>1. txn \in [Request -> Txn]
  BY DEF SerialInv, TypeInv, TypeOK
<1>2. /\ txn[r].pc \in {"loaded", "chat"} /\ txn'[r].pc \in {"posted", "commit"}
      /\ \A q \in Request \ {r} : txn'[q] = txn[q]
  BY <1>1 DEF Post, Answer, GiveUp, Txn
<1>3. \E x \in AgentMessage : Insert(r, x)
  <2>1. 0 \in 0..MaxTools
    BY BoundsAreNatural
  <2> QED
    BY <2>1, RowTypes, ReplyRow, FallbackRow DEF Post, Answer, GiveUp
<1>4. Busy(r) /\ Writes(r)'
  BY <1>2 DEF Writes, Busy, Ended
<1>5. Replayable' /\ History(Committed)' = History(Committed)
  BY <1>2, <1>3, <1>4, GrowKeeps
<1>6. ReplayIsFaithful'
  BY <1>2, <1>4, FaithfulElsewhere
<1> QED
  BY <1>5, <1>6 DEF StepOK

(* A row that the model is told of as well.                                *)
LEMMA TellStep ==
  ASSUME SerialInv, TypeInv', OneWrites', NEW r \in Request,
         \A q \in Request \ {r} : txn'[q] = txn[q],
         txn[r].pc \in {"chat", "tools"}, txn'[r].pc \in {"chat", "tools"},
         NEW x \in AgentMessage, Insert(r, x),
         NEW m \in Messageish, ComesBackAs(m, AsTold(x)),
         txn'[r].working = Append(txn[r].working, m)
  PROVE  StepOK /\ History(Committed)' = History(Committed)
<1>1. Busy(r) /\ Writes(r)'
  BY DEF Writes, Busy, Ended
<1>2. /\ Replayable' /\ History(Committed)' = History(Committed)
      /\ History(Seen(r))' = Append(History(Seen(r)), AsTold(x))
  BY <1>1, GrowKeeps
<1>3. Replays(txn'[r].working,
              Trigger(r) \o Append(History(Seen(r)), AsTold(x)))
  BY AsToldOK, ToldOneMore
<1>4. ReplayIsFaithful'
  BY <1>1, <1>2, <1>3, FaithfulElsewhere
<1> QED
  BY <1>2, <1>4 DEF StepOK

LEMMA CallToolsStep ==
  ASSUME SerialInv, TypeInv', OneWrites', NEW r \in Request,
         NEW said \in Said, NEW calls \in 1..MaxTools,
         CallTools(r, calls, said)
  PROVE  StepOK /\ History(Committed)' = History(Committed)
<1> DEFINE y == Reply(calls, said)
           x == AsStored(y)
           t == [pc |-> "tools", iteration |-> txn[r].iteration + 1,
                 asked |-> calls, answered |-> 0,
                 working |-> Append(txn[r].working, y)]
<1>1. txn \in [Request -> Txn]
  BY DEF SerialInv, TypeInv, TypeOK
<1>2. calls \in 0..MaxTools /\ calls > 0
  BY BoundsAreNatural
<1>3. x \in AgentMessage /\ AsTold(x) = x /\ y \in Messageish
  BY <1>2, ReplyRow, ChatIsMessageish
<1>4. ComesBackAs(y, x)
  BY <1>2, SaidType DEF ComesBackAs, AsStored, Reply
<1>5. /\ txn[r].pc = "chat" /\ Insert(r, x) /\ txn' = [txn EXCEPT ![r] = t]
  BY Zenon DEF CallTools, Told
<1> HIDE DEF x, y
<1>6. t.pc = "tools" /\ t.working = Append(txn[r].working, y)
  OBVIOUS
<1> HIDE DEF t
<1>7. txn'[r] = t /\ \A q \in Request \ {r} : txn'[q] = txn[q]
  BY <1>1, <1>5
<1> QED
  BY <1>3, <1>4, <1>5, <1>6, <1>7, TellStep

LEMMA RunToolStep ==
  ASSUME SerialInv, TypeInv', OneWrites', NEW r \in Request, RunTool(r)
  PROVE  StepOK /\ History(Committed)' = History(Committed)
<1> DEFINE ran == txn[r].answered + 1
           x == Row("system", ran)
           y == Row("tool", ran)
           w == Append(txn[r].working, y)
           p == IF ran = txn[r].asked THEN "chat" ELSE "tools"
           t == [pc |-> p, iteration |-> txn[r].iteration,
                 asked |-> txn[r].asked, answered |-> ran, working |-> w]
<1>1. txn \in [Request -> Txn]
  BY DEF SerialInv, TypeInv, TypeOK
<1>2. /\ txn[r].pc = "tools" /\ Insert(r, x) /\ txn' = [txn EXCEPT ![r] = t]
  BY Zenon DEF RunTool, Told
<1>3. ran \in 0..MaxTools
  BY <1>2, ResultNumber DEF SerialInv
<1>4. /\ x \in AgentMessage /\ y \in Messageish /\ AsTold(x) = y
      /\ ComesBackAs(y, AsTold(x))
  BY <1>3, RowTypes DEF ComesBackAs
<1>5. p \in {"chat", "tools"}
  OBVIOUS
<1> HIDE DEF y, p, x
<1>6. t.pc = p /\ t.working = Append(txn[r].working, y)
  OBVIOUS
<1> HIDE DEF t
<1>7. txn'[r] = t /\ \A q \in Request \ {r} : txn'[q] = txn[q]
  BY <1>1, <1>2
<1> QED
  BY <1>2, <1>4, <1>5, <1>6, <1>7, TellStep

LEMMA CommitStep ==
  ASSUME SerialInv, OneWrites', NEW r \in Request, Commit(r)
  PROVE  StepOK
<1>1. txn \in [Request -> Txn] /\ TypeInv
  BY DEF SerialInv, TypeInv, TypeOK
<1>2. txn[r].pc = "commit" /\ txn'[r].pc = "done" /\ Writes(r)
  BY <1>1 DEF Commit, Txn, Writes, Busy, Ended
<1>3. \A q \in Request \ {r} : txn'[q] = txn[q]
  BY <1>1, Actor DEF Advance
<1>4. ReplayIsFaithful'
  BY <1>2, <1>3, FaithfulElsewhere
<1> QED
  BY <1>4, CommitKeeps DEF StepOK

LEMMA RollbackStep ==
  ASSUME SerialInv, TypeInv', OneWrites', NEW r \in Request, Rollback(r)
  PROVE  StepOK
<1>1. txn \in [Request -> Txn] /\ TypeInv
  BY DEF SerialInv, TypeInv, TypeOK
<1>2. txn'[r].pc = "failed" /\ Busy(r)
  BY <1>1 DEF Rollback, Txn
<1>3. \A q \in Request \ {r} : txn'[q] = txn[q]
  BY <1>1, Actor
<1>4. ReplayIsFaithful'
  <2>1. CASE Writes(r)
    BY <1>2, <1>3, <2>1, FaithfulElsewhere
  <2>2. CASE ~ Writes(r)
    <3>1. UNCHANGED <<order, turn>> /\ Committed' = Committed
      BY <1>2, <1>3, <2>2, NothingToTake, SameCommitted DEF Busy, Ended
    <3> QED
      BY <1>2, <1>3, <3>1, FaithfulElsewhere
  <2> QED
    BY <2>1, <2>2
<1> QED
  BY <1>4, RollbackKeeps DEF StepOK

(* A deletion finds nobody being told: whoever is has stored a message and *)
(* keeps the conversation.                                                 *)
LEMMA DeleteStep ==
  ASSUME SerialInv, TypeInv', NEW r \in Request, Delete(r)
  PROVE  StepOK
<1>1. /\ txn \in [Request -> Txn] /\ txn[r].pc = "loaded"
      /\ txn'[r].pc = "done" /\ r \in Deletes
      /\ \A q \in Request \ {r} : ~ LocksConversation(q) /\ txn'[q] = txn[q]
  BY Actor DEF SerialInv, TypeInv, TypeOK, Delete, Txn, Advance
<1>2. ASSUME NEW q \in Request, txn'[q].pc \in {"chat", "tools"} PROVE FALSE
  <2>1. q # r /\ txn[q].pc \in {"chat", "tools"}
    BY <1>1, <1>2
  <2>2. turn[q] = <<>>
    BY <1>1, <2>1 DEF LocksConversation, Busy, Ended
  <2>3. q = Opening
    BY <2>1, <2>2, EmptyWording
       DEF SerialInv, IInv, Fits, PlacesOf, Request, Begins, Pending
  <2>4. convo # "none"
    BY <1>1 DEF SerialInv, IInv, OpeningFirst
  <2> QED
    BY <2>1, <2>3, <2>4 DEF SerialInv, IInv, OpeningFirst
<1>3. ReplayIsFaithful'
  BY <1>2 DEF ReplayIsFaithful
<1> QED
  BY <1>3, DeleteKeeps DEF StepOK

LEMMA SerialStep ==
  ASSUME SerialInv, SerialNext
  PROVE  SerialInv'
<1>1. PICK r \in Request : Begin(r) \/ Advance(r) \/ Rollback(r)
  BY DEF SerialNext, Next
<1>2. IInv' /\ TypeInv' /\ NothingBeforeOpening' /\ OneWrites'
  <2>1. IInv' /\ TypeInv' /\ NothingBeforeOpening' /\ OneAtATime'
    BY <1>1, NextInvariant, TypeInvariant, NothingBefore
       DEF SerialInv, SerialNext
  <2> QED
    BY <2>1, OneWritesNext
<1>3. StepOK
  <2>1. CASE (Create /\ r = Opening) \/ Load(r) \/ Refuse(r)
    BY <1>2, <2>1, QuietStep
  <2>2. CASE Kickoff
    BY <1>2, <2>2, KickoffStep
  <2>3. CASE BuildHistory(r)
    BY <1>2, <2>3, BuildHistoryStep
  <2>4. CASE Post(r) \/ (\E said \in Said : Answer(r, said)) \/ GiveUp(r)
    BY <1>2, <2>4, StoreStep
  <2>5. CASE \E said \in Said, calls \in 1..MaxTools :
               CallTools(r, calls, said)
    BY <1>2, <2>5, CallToolsStep
  <2>6. CASE RunTool(r)
    BY <1>2, <2>6, RunToolStep
  <2>7. CASE Commit(r)
    BY <1>2, <2>7, CommitStep
  <2>8. CASE Delete(r)
    BY <1>2, <2>8, DeleteStep
  <2>9. CASE Rollback(r)
    BY <1>2, <2>9, RollbackStep
  <2> QED
    BY <1>1, <2>1, <2>2, <2>3, <2>4, <2>5, <2>6, <2>7, <2>8, <2>9
       DEF Begin, Advance
<1>4. SilentOpening' /\ NothingBeforeOpening'
  BY <1>1, <1>2, SilentOpeningStays
<1> QED
  BY <1>2, <1>3, <1>4 DEF SerialInv, StepOK

LEMMA SerialStutter ==
  ASSUME SerialInv, UNCHANGED vars
  PROVE  SerialInv' /\ History(Committed)' = History(Committed)
<1>1. IInv' /\ TypeInv'
  BY NextInvariant, TypeInvariant DEF SerialInv
<1>2. /\ Committed' = Committed /\ \A r : Writes(r)' = Writes(r)
      /\ \A R : History(R)' = History(R)
      /\ \A r : History(Seen(r))' = History(Seen(r))
      /\ History(Committed)' = History(Committed)
  BY DEF vars, Committed, Writes, Busy, Ended, History, Visible, StoredRow, Seen
<1>3. Replayable' /\ OneWrites'
  BY <1>2 DEF vars, SerialInv, Replayable, InOrder, ReplayIsPaired, OneWrites
<1>4. ReplayIsFaithful'
  BY <1>2 DEF vars, SerialInv, ReplayIsFaithful
<1>5. SilentOpening' /\ NothingBeforeOpening'
  BY DEF vars, SerialInv, SilentOpening, NothingBeforeOpening
<1> QED
  BY <1>1, <1>2, <1>3, <1>4, <1>5 DEF SerialInv

LEMMA SerialInit == Init => SerialInv
<1> SUFFICES ASSUME Init PROVE SerialInv
  OBVIOUS
<1>1. IInv /\ TypeInv
  BY InitInvariant, InitType
<1>2. order = <<>> /\ \A r \in Request : txn[r].pc = "waiting" /\ turn[r] = <<>>
  BY DEF Init, Received
<1>3. Kept(order, turn)
  BY <1>1, RowsAreKept
<1>4. History(Committed) = <<>>
  BY <1>2, <1>3, NothingTold, HistoryTells
<1>5. \A r \in Request : ~ Writes(r)
  BY <1>2 DEF Writes, Busy
<1>6. OneWrites /\ InOrder
  BY <1>2, <1>5 DEF OneWrites, InOrder, AllBy
<1>7. ReplayIsPaired /\ Answered(History(Committed))
  BY <1>4, EmptyIsReplayable DEF ReplayIsPaired
<1>8. SilentOpening /\ NothingBeforeOpening /\ ReplayIsFaithful
  BY <1>2 DEF SilentOpening, NothingBeforeOpening, ReplayIsFaithful, Request
<1> QED
  BY <1>1, <1>6, <1>7, <1>8 DEF SerialInv, Replayable

LEMMA SerialInvHolds == SerialSpec => []SerialInv
<1>1. Init => SerialInv
  BY SerialInit
<1>2. SerialInv /\ [SerialNext]_vars => SerialInv'
  BY SerialStep, SerialStutter
<1> QED
  BY <1>1, <1>2, PTL DEF SerialSpec

(* With one writer at a time, a replay of the stored rows tells what the   *)
(* list in memory holds, message by message, a placeholder for each silent *)
(* call of tools: a message told and not stored, or stored and not told,   *)
(* would part them (_run_agent_loop and _build_history_messages).          *)
THEOREM ReplayIsFaithfulHolds == SerialSpec => []ReplayIsFaithful
<1>1. SerialInv => ReplayIsFaithful
  BY DEF SerialInv
<1> QED
  BY <1>1, SerialInvHolds, PTL

(* With one writer at a time, what is stored can be replayed: only turns   *)
(* that write at the same time part a call from its result                 *)
(* (_build_history_messages).                                              *)
THEOREM ReplayIsPairedHolds == SerialSpec => []ReplayIsPaired
<1>1. SerialInv => ReplayIsPaired
  BY DEF SerialInv, Replayable
<1> QED
  BY <1>1, SerialInvHolds, PTL

-----------------------------------------------------------------------------
(* What is sent.                                                           *)

(* The last of two lists is the last of the second, if that has one.       *)
LEMMA LastOfTwo ==
  ASSUME NEW X, NEW a \in Seq(X), NEW b \in Seq(X)
  PROVE  (a \o b)[Len(a \o b)] = IF b = <<>> THEN a[Len(a)] ELSE b[Len(b)]
<1>1. CASE b = <<>>
  <2>1. a \o b = a
    BY <1>1
  <2> QED
    BY <1>1, <2>1
<1>2. CASE b # <<>>
  <2>1. Len(b) \in 1..Len(b) /\ Len(a \o b) = Len(a) + Len(b)
    BY <1>2
  <2> QED
    BY <1>2, <2>1, ConcatIs
<1> QED
  BY <1>1, <1>2

LEMMA SentIsPaired ==
  ASSUME SerialInv, NEW r \in Request, txn[r].pc = "chat"
  PROVE  /\ txn[r].working \in Seq(ChatMessage)
         /\ Abstract!Paired(txn[r].working)
         /\ txn[r].working[Len(txn[r].working)].role # "assistant"
<1> DEFINE g == Trigger(r)
           h == History(Committed)
           w == Wording(turn[r])
<1>1. /\ txn \in [Request -> Txn] /\ turn[r] \in Seq(AgentMessage)
      /\ IInv /\ TypeInv
  BY DEF SerialInv, TypeInv, TypeOK
<1>2. txn[r].working \in Seq(ChatMessage)
  BY <1>1 DEF Txn
<1>3. Writes(r)
  BY DEF Writes, Busy, Ended
<1>4. Replays(txn[r].working, g \o (h \o w))
  <2>1. Replays(txn[r].working, g \o History(Seen(r)))
    BY FaithfulIs
  <2> QED
    BY <1>3, <2>1, SeenIs
<1>5. /\ g \in Seq(Messageish) /\ h \in Seq(Messageish)
      /\ w \in Seq(Messageish)
  BY <1>1, <1>3, TriggerIs, SeenIs, ChatIsMessageish, WordingOK
<1>6. /\ Abstract!Paired(g) /\ Abstract!Paired(h) /\ Abstract!Paired(w)
      /\ GoesOn(w)
      /\ w = <<>> => r = Opening /\ h = <<>>
  <2>1. Abstract!Paired(g)
    BY TriggerIs
  <2>2. Abstract!Paired(h)
    BY DEF SerialInv, Replayable, ReplayIsPaired
  <2>3. /\ Fits(r, txn[r], w, FALSE) /\ (r # Opening => r \in Sends)
    BY <1>1, InTurn
  <2> HIDE DEF g, h, w
  <2>4. /\ Abstract!Paired(w) /\ GoesOn(w)
        /\ r \in Sends => Begins(r, w)
    BY <2>3 DEF Fits
  <2>5. w = <<>> => r = Opening
    BY <2>3, <2>4 DEF Begins
  <2>6. r = Opening => h = <<>>
    BY <1>3, OpeningAlone DEF h
  <2> QED
    BY <2>1, <2>2, <2>4, <2>5, <2>6
<1>7. r = Opening => g = <<Row("user", 0)>>
  BY DEF Trigger
<1> HIDE DEF g, h, w
<1>8. h \o w \in Seq(Messageish) /\ Abstract!Paired(h \o w)
  BY <1>5, <1>6, ConcatPaired, ConcatIs
<1>9. Abstract!Paired(g \o (h \o w))
  BY <1>5, <1>6, <1>8, ConcatPaired
<1> DEFINE s == g \o (h \o w)
<1>10. s # <<>> /\ s[Len(s)].role # "assistant"
  <2>1. CASE w = <<>>
    <3> DEFINE u == Row("user", 0)
    <3>1. u.role = "user"
      BY DEF Row
    <3>2. g = <<u>> /\ h = <<>>
      BY <1>6, <1>7, <2>1
    <3> HIDE DEF u
    <3>3. Len(g) = 1 /\ g[1] = u
      BY <3>2
    <3>4. h \o w = <<>>
      BY <2>1, <3>2
    <3>5. s = g
      BY <1>5, <3>4
    <3> HIDE DEF s
    <3> QED
      BY <3>1, <3>2, <3>3, <3>5
  <2>2. CASE w # <<>>
    <3>1. w[Len(w)].role # "assistant"
      BY <1>5, <1>6, <2>2, LastIsNotTheModels
    <3>2. (h \o w)[Len(h \o w)] = w[Len(w)] /\ h \o w # <<>>
      <4>1. Len(w) # 0 /\ Len(h \o w) = Len(h) + Len(w)
        BY <1>5, <2>2
      <4>2. h \o w # <<>>
        BY <1>5, <4>1
      <4> QED
        BY <1>5, <2>2, <4>2, LastOfTwo
    <3>3. s # <<>>
      <4>1. Len(h \o w) # 0 /\ Len(s) = Len(g) + Len(h \o w)
        BY <1>5, <1>8, <3>2
      <4> QED
        BY <1>5, <1>8, <4>1
    <3> QED
      BY <1>5, <1>8, <3>1, <3>2, <3>3, LastOfTwo
  <2> QED
    BY <2>1, <2>2
<1>11. s \in Seq(Messageish) /\ Abstract!Paired(s)
  BY <1>5, <1>8, <1>9
<1>12. txn[r].working \in Seq(Messageish) /\ Replays(txn[r].working, s)
  BY <1>2, <1>4, ChatIsMessageish
<1> HIDE DEF s
<1>13. Abstract!Paired(txn[r].working)
  BY <1>11, <1>12, ReplaysPaired
<1>14. txn[r].working[Len(txn[r].working)].role # "assistant"
  <2>1. Len(s) \in 1..Len(s) /\ Len(txn[r].working) = Len(s)
    BY <1>10, <1>11, <1>12 DEF Replays
  <2> QED
    BY <1>10, <1>12, <2>1 DEF Replays, ComesBackAs
<1> QED
  BY <1>2, <1>13, <1>14

(* With one writer at a time, every list sent to the model has each call's *)
(* result right behind it and does not end with the model's own words,     *)
(* whatever earlier turns left, rolled back or gave up                     *)
(* (_build_history_messages, _run_agent_loop).                             *)
THEOREM SentIsAnswerableHolds == SerialSpec => []SentIsAnswerable
<1>1. SerialInv => SentIsAnswerable
  BY SentIsPaired DEF SentIsAnswerable
<1> QED
  BY <1>1, SerialInvHolds, PTL

-----------------------------------------------------------------------------
(* The lists on the wire of each provider.                                 *)

(* The id and the name of a call; message i of the loop as the clients get *)
(* it; the system prompt.                                                  *)
Called(provider, at, nth, name) ==
  [id |-> CallId(provider, at, nth, name), name |-> name]

Given(provider, working, names, i) ==
  [role |-> working[i].role,
   calls |-> IF working[i].role = "assistant"
               THEN [nth \in 1..working[i].number |->
                       Called(provider, i, nth, names[nth])]
               ELSE <<>>,
   answers |-> IF working[i].role = "tool"
                 THEN Called(provider, i - working[i].number,
                             working[i].number, names[working[i].number]).id
                 ELSE NoCall]

Prompt == [role |-> "system", calls |-> <<>>, answers |-> NoCall]

(* Calls on the wire, told apart by the ids the replies gave them.         *)
Refs(provider, names, at, number) ==
  [nth \in 1..number |->
     [ref |-> CallId(provider, at, nth, names[nth]), tool |-> names[nth]]]

(* Turn t of the wire carries message i.                                   *)
CarriesOne(t, working, provider, names, i) ==
  LET m == working[i] IN
    /\ m.role = "assistant" =>
         t.calls = Refs(provider, names, i, m.number)
    /\ m.role # "assistant" => t.calls = <<>>
    /\ m.role = "tool" =>
         t.answers =
           CallId(provider, i - m.number, m.number, names[m.number])

(* The wire carries the loop's messages behind off others.                 *)
Carries(wire, working, off, provider, names) ==
  /\ Len(wire) = off + Len(working) /\ DOMAIN wire = 1..Len(wire)
  /\ \A i \in 1..off : wire[i].calls = <<>>
  /\ \A i \in 1..Len(working) :
       CarriesOne(wire[off + i], working, provider, names, i)

(* c is a, then b.                                                          *)
IsConcat(X, a, b, c) ==
  /\ c \in Seq(X)
  /\ Len(c) = Len(a) + Len(b)
  /\ \A i \in 1..Len(a) : c[i] = a[i]
  /\ \A i \in 1..Len(b) : c[Len(a) + i] = b[i]

LEMMA ConcatMakes ==
  ASSUME NEW X, NEW a \in Seq(X), NEW b \in Seq(X)
  PROVE  IsConcat(X, a, b, a \o b)
BY ConcatIs DEF IsConcat

(* Two calls of one reply with the same id call the same tool.             *)
LEMMA IdsTellToolsApart ==
  ASSUME NEW provider \in Provider, NEW at, NEW j, NEW k, NEW a, NEW b,
         CallId(provider, at, j, a) = CallId(provider, at, k, b),
         j = k => a = b
  PROVE  a = b
<1>1. CASE provider \in {"anthropic", "openai", "ollama"}
  <2>1. GivenId(at, j) = GivenId(at, k)
    BY <1>1 DEF CallId, OllamaId
  <2>2. j = k
    BY <2>1 DEF GivenId
  <2> QED
    BY <2>2
<1>2. CASE provider = "google"
  <2>1. GoogleId(a, j) = GoogleId(b, k)
    BY <1>2 DEF CallId
  <2> QED
    BY <2>1 DEF GoogleId
<1>3. CASE provider = "older ollama"
  <2>1. <<"call", j>> = <<"call", k>>
    BY <1>3, Zenon DEF CallId, OllamaId
  <2>2. j = k
    BY <2>1
  <2> QED
    BY <2>2
<1> QED
  BY <1>1, <1>2, <1>3, Zenon DEF Provider

LEMMA CarriedReaches ==
  ASSUME NEW working \in Seq(ChatMessage), Abstract!Paired(working),
         NEW provider \in Provider, NEW names, NEW off \in {0, 1}, NEW wire,
         Carries(wire, working, off, provider, names),
         NEW i \in DOMAIN wire, NEW nth \in DOMAIN wire[i].calls
  PROVE  Reaches(wire, i, nth)
<1> DEFINE k == i - off
           m == working[k]
<1>1. /\ Len(wire) = off + Len(working) /\ i \in 1..Len(wire)
      /\ Len(working) \in Nat /\ off \in Nat
  BY DEF Carries
<1>2. k \in 1..Len(working) /\ off + k = i /\ k \in Nat
  <2>1. DOMAIN <<>> = {}
    OBVIOUS
  <2>2. i \notin 1..off
    BY <2>1 DEF Carries
  <2> QED
    BY <1>1, <2>2
<1>3. m \in ChatMessage /\ m.number \in Nat
  <2>1. m \in ChatMessage
    BY <1>2
  <2> QED
    BY <2>1, BoundsAreNatural DEF ChatMessage
<1> HIDE DEF k, m
<1>4. m.role = "assistant" /\ wire[i].calls = Refs(provider, names, k, m.number)
  <2>1. /\ m.role = "assistant" =>
             wire[off + k].calls = Refs(provider, names, k, m.number)
        /\ m.role # "assistant" => wire[off + k].calls = <<>>
    BY <1>2 DEF Carries, CarriesOne, m
  <2>2. DOMAIN <<>> = {}
    OBVIOUS
  <2> QED
    BY <1>2, <2>1, <2>2
<1>5. nth \in 1..m.number /\ nth \in Nat /\ nth >= 1
  <2>1. nth \in 1..m.number
    BY <1>4 DEF Refs
  <2> QED
    BY <1>3, <2>1
<1>6. /\ k + nth <= Len(working)
      /\ working[k + nth].role = "tool" /\ working[k + nth].number = nth
  <2>1. Abstract!AnsweredAt(working, k)
    BY <1>2, <1>4 DEF Abstract!Paired, m
  <2> QED
    BY <1>5, <2>1 DEF Abstract!AnsweredAt, m
<1>7. /\ k + nth \in 1..Len(working) /\ i + nth = off + (k + nth)
      /\ i + nth <= Len(wire) /\ k + nth - nth = k
  BY <1>1, <1>2, <1>5, <1>6
<1> DEFINE p == k + nth
           n == working[p]
<1>8. n.role = "tool" /\ n.number = nth
  BY <1>6
<1>9. wire[i + nth].answers = CallId(provider, k, nth, names[nth])
  <2>1. p \in 1..Len(working) /\ i + nth = off + p /\ p - nth = k
    BY <1>1, <1>2, <1>5, <1>7
  <2> HIDE DEF p
  <2>2. CarriesOne(wire[off + p], working, provider, names, p)
    BY <2>1 DEF Carries
  <2>3. wire[off + p].answers =
          CallId(provider, p - n.number, n.number, names[n.number])
    BY <1>8, <2>2 DEF CarriesOne
  <2> HIDE DEF n
  <2> QED
    BY <1>8, <2>1, <2>3
<1> HIDE DEF p, n
<1> DEFINE calls == wire[i].calls
<1>10. \A j \in 1..m.number :
         /\ calls[j].ref = CallId(provider, k, j, names[j])
         /\ calls[j].tool = names[j]
  BY <1>4 DEF Refs
<1>11. DOMAIN calls = 1..m.number
  BY <1>4 DEF Refs
<1> HIDE DEF calls
<1>12. ASSUME NEW j \in DOMAIN calls, calls[j].ref = wire[i + nth].answers
       PROVE  calls[j].tool = calls[nth].tool
  <2>1. CallId(provider, k, j, names[j]) = CallId(provider, k, nth, names[nth])
    BY <1>9, <1>10, <1>11, <1>12
  <2>2. names[j] = names[nth]
    BY <2>1, IdsTellToolsApart
  <2> QED
    BY <1>5, <1>10, <1>11, <1>12, <2>2
<1>13. wire[i + nth].answers = calls[nth].ref
  BY <1>5, <1>9, <1>10
<1> QED
  BY <1>7, <1>12, <1>13 DEF Reaches, calls

(* What the clients get.                                                   *)
LEMMA ChatMessagesAre ==
  ASSUME NEW working \in Seq(ChatMessage), NEW provider, NEW names
  PROVE  LET messages == ChatMessages(provider, working, names)
             X == {Prompt} \cup
                  {Given(provider, working, names, i) : i \in 1..Len(working)}
         IN  /\ messages \in Seq(X) /\ Len(messages) = 1 + Len(working)
             /\ messages[1] = Prompt
             /\ \A i \in 1..Len(working) :
                  messages[1 + i] = Given(provider, working, names, i)
<1> DEFINE messages == ChatMessages(provider, working, names)
           body == [i \in 1..Len(working) |->
                      Given(provider, working, names, i)]
           X == {Prompt} \cup
                {Given(provider, working, names, i) : i \in 1..Len(working)}
<1>1. messages = <<Prompt>> \o body
  <2>1. DOMAIN working = 1..Len(working)
    OBVIOUS
  <2>2. messages = <<Prompt>> \o [i \in DOMAIN working |->
                                  Given(provider, working, names, i)]
    BY Zenon DEF ChatMessages, Given, Called, Prompt
  <2> QED
    BY <2>1, <2>2
<1>2. <<Prompt>> \in Seq(X) /\ body \in Seq(X) /\ Len(body) = Len(working)
  OBVIOUS
<1>3. Len(<<Prompt>>) = 1 /\ <<Prompt>>[1] = Prompt
  OBVIOUS
<1>4. \A i \in 1..Len(working) : body[i] = Given(provider, working, names, i)
  OBVIOUS
<1> HIDE DEF messages, body, X
<1>5. /\ messages \in Seq(X) /\ Len(messages) = 1 + Len(working)
      /\ messages[1] = Prompt
      /\ \A i \in 1..Len(working) :
           messages[1 + i] = Given(provider, working, names, i)
  <2> DEFINE head == <<Prompt>>
  <2>1. head \in Seq(X) /\ Len(head) = 1 /\ head[1] = Prompt
    BY <1>2, <1>3
  <2>2. messages = head \o body
    BY <1>1
  <2> HIDE DEF head
  <2>3. /\ head \o body \in Seq(X)
        /\ Len(head \o body) = Len(head) + Len(body)
        /\ (head \o body)[1] = head[1]
        /\ \A i \in 1..Len(body) : (head \o body)[1 + i] = body[i]
    <3>1. /\ head \o body \in Seq(X)
          /\ Len(head \o body) = Len(head) + Len(body)
          /\ \A i \in 1..Len(head) : (head \o body)[i] = head[i]
          /\ \A i \in 1..Len(body) : (head \o body)[Len(head) + i] = body[i]
      <4> DEFINE c == head \o body
      <4>1. IsConcat(X, head, body, c)
        BY <1>2, <2>1, ConcatMakes
      <4> HIDE DEF c
      <4>2. /\ c \in Seq(X) /\ Len(c) = Len(head) + Len(body)
            /\ \A i \in 1..Len(head) : c[i] = head[i]
            /\ \A i \in 1..Len(body) : c[Len(head) + i] = body[i]
        BY <4>1 DEF IsConcat
      <4> QED
        BY <4>2 DEF c
    <3> QED
      BY <2>1, <3>1
  <2> QED
    BY <1>2, <1>4, <2>1, <2>2, <2>3
<1> QED
  BY <1>5 DEF messages, X

LEMMA CallsOnTheWire ==
  ASSUME NEW provider, NEW names, NEW at, NEW n \in Nat
  PROVE  LET calls == [nth \in 1..n |-> Called(provider, at, nth, names[nth])]
         IN  /\ ById(calls) = Refs(provider, names, at, n)
             /\ provider = "google" =>
                  ByName(calls) = Refs(provider, names, at, n)
<1> DEFINE calls == [nth \in 1..n |-> Called(provider, at, nth, names[nth])]
<1>1. DOMAIN calls = 1..n
  OBVIOUS
<1>2. \A nth \in 1..n : /\ calls[nth].id = CallId(provider, at, nth, names[nth])
                        /\ calls[nth].name = names[nth]
  BY DEF Called
<1> HIDE DEF calls
<1>3. ById(calls) = Refs(provider, names, at, n)
  BY <1>1, <1>2 DEF ById, Refs
<1>4. ASSUME provider = "google"
      PROVE  ByName(calls) = Refs(provider, names, at, n)
  <2>1. \A nth \in 1..n :
          CallId(provider, at, nth, names[nth]) = <<"name", names[nth]>>
    BY <1>4 DEF CallId, GoogleId
  <2> QED
    BY <1>1, <1>2, <2>1 DEF ByName, Refs
<1> QED
  BY <1>3, <1>4 DEF calls

LEMMA NoCallsOnTheWire == ById(<<>>) = <<>> /\ ByName(<<>>) = <<>>
BY DEF ById, ByName

(* A turn made of message i.                                               *)
LEMMA TurnCarries ==
  ASSUME NEW working \in Seq(ChatMessage), NEW i \in 1..Len(working),
         NEW provider, NEW names, NEW t,
         \/ t.calls = ById(Given(provider, working, names, i).calls)
         \/ /\ provider = "google"
            /\ t.calls = ByName(Given(provider, working, names, i).calls),
         t.answers = Given(provider, working, names, i).answers
  PROVE  CarriesOne(t, working, provider, names, i)
<1> DEFINE m == working[i]
           g == Given(provider, working, names, i)
           calls == [nth \in 1..m.number |->
                       Called(provider, i, nth, names[nth])]
           answers == Called(provider, i - m.number, m.number,
                             names[m.number]).id
<1>1. m.number \in Nat
  <2>1. m \in ChatMessage
    OBVIOUS
  <2> QED
    BY <2>1, BoundsAreNatural DEF ChatMessage
<1>2. /\ g.calls = IF m.role = "assistant" THEN calls ELSE <<>>
      /\ g.answers = IF m.role = "tool" THEN answers ELSE NoCall
  <2> HIDE DEF calls, answers, m
  <2>1. g = [role |-> m.role,
             calls |-> IF m.role = "assistant" THEN calls ELSE <<>>,
             answers |-> IF m.role = "tool" THEN answers ELSE NoCall]
    BY Zenon DEF Given, calls, answers, m
  <2> HIDE DEF g
  <2> QED
    BY <2>1
<1>3. answers = CallId(provider, i - m.number, m.number, names[m.number])
  BY DEF Called
<1> HIDE DEF g, answers
<1>4. ASSUME m.role = "assistant"
      PROVE  t.calls = Refs(provider, names, i, m.number)
  <2>1. /\ ById(calls) = Refs(provider, names, i, m.number)
        /\ provider = "google" =>
             ByName(calls) = Refs(provider, names, i, m.number)
    BY <1>1, CallsOnTheWire
  <2> HIDE DEF calls, m
  <2> QED
    BY <1>2, <1>4, <2>1 DEF g
<1>5. ASSUME m.role # "assistant" PROVE t.calls = <<>>
  <2> HIDE DEF calls, m
  <2> QED
    BY <1>2, <1>5, NoCallsOnTheWire DEF g
<1>6. ASSUME m.role = "tool"
      PROVE  t.answers =
               CallId(provider, i - m.number, m.number, names[m.number])
  BY <1>2, <1>3, <1>6 DEF g
<1> HIDE DEF calls
<1> QED
  BY <1>4, <1>5, <1>6 DEF CarriesOne

(* What the clients send, the prompt among the messages or apart from them.*)
LEMMA WireCarries ==
  ASSUME NEW working \in Seq(ChatMessage), NEW provider \in Provider, NEW names
  PROVE  \E off \in {0, 1} :
           Carries(Wire(provider, ChatMessages(provider, working, names)),
                   working, off, provider, names)
<1> DEFINE messages == ChatMessages(provider, working, names)
           X == {Prompt} \cup
                {Given(provider, working, names, i) : i \in 1..Len(working)}
           I == {i \in DOMAIN messages : messages[i].role # "system"}
           talk == Selected(messages, I)
           wire == Wire(provider, messages)
<1>1. Len(working) \in Nat
  OBVIOUS
<1>2. /\ messages \in Seq(X) /\ Len(messages) = 1 + Len(working)
      /\ messages[1] = Prompt
      /\ \A i \in 1..Len(working) :
           messages[1 + i] = Given(provider, working, names, i)
  BY ChatMessagesAre
<1> HIDE DEF messages, X
<1>3. /\ DOMAIN talk = 1..Len(working) /\ Len(talk) = Len(working)
      /\ \A i \in 1..Len(working) : talk[i] = Given(provider, working, names, i)
  <2>1. \A i \in 1..Len(working) :
          Given(provider, working, names, i).role # "system"
    <3> SUFFICES ASSUME NEW i \in 1..Len(working)
                 PROVE  Given(provider, working, names, i).role # "system"
      OBVIOUS
    <3>1. working[i] \in ChatMessage
      OBVIOUS
    <3>2. working[i].role # "system"
      BY <3>1 DEF ChatMessage
    <3> QED
      BY <3>2 DEF Given
  <2>2. Prompt.role = "system"
    BY DEF Prompt
  <2>3. ASSUME NEW i \in 1..Len(messages)
        PROVE  i \in I <=> 2 <= i /\ i <= Len(messages)
    <3>1. CASE i = 1
      BY <1>2, <2>2, <3>1
    <3>2. CASE i # 1
      <4>1. i - 1 \in 1..Len(working) /\ 1 + (i - 1) = i
        BY <1>1, <1>2, <3>2
      <4>2. messages[i] = Given(provider, working, names, i - 1)
        BY <1>2, <4>1
      <4>3. messages[i].role # "system"
        BY <2>1, <4>1, <4>2
      <4> QED
        BY <1>1, <1>2, <3>2, <4>3
    <3> QED
      BY <3>1, <3>2
  <2> HIDE DEF I
  <2>4. 2 \in 1..(Len(messages) + 1) /\ Len(messages) \in (2 - 1)..Len(messages)
    BY <1>1, <1>2
  <2>5. talk = [j \in 1..(Len(messages) - 2 + 1) |-> messages[2 + j - 1]]
    <3> DEFINE a == 2
               b == Len(messages)
    <3>1. /\ a \in 1..(Len(messages) + 1) /\ b \in (a - 1)..Len(messages)
          /\ \A n \in 1..Len(messages) : n \in I <=> a <= n /\ n <= b
      BY <2>3, <2>4
    <3> HIDE DEF a, b
    <3>2. Selected(messages, I) = [j \in 1..(b - a + 1) |-> messages[a + j - 1]]
      <4>1. messages \in Seq(X)
        BY <1>2
      <4> QED
        BY <3>1, <4>1, SelectedInterval
    <3> QED
      BY <3>2 DEF a, b, talk
  <2>6. /\ Len(messages) - 2 + 1 = Len(working)
        /\ \A j \in 1..Len(working) : 2 + j - 1 = 1 + j
    BY <1>1, <1>2
  <2>7. talk = [j \in 1..Len(working) |-> messages[1 + j]]
    BY <2>5, <2>6
  <2> QED
    BY <1>1, <1>2, <2>7
<1> HIDE DEF talk, I
<1>4. CASE provider \in {"anthropic", "google"}
  <2>1. wire = IF provider = "anthropic"
                 THEN [i \in DOMAIN talk |-> AnthropicTurn(talk[i])]
                 ELSE [i \in DOMAIN talk |-> GoogleTurn(talk[i])]
    BY <1>4 DEF Wire, talk, I
  <2> HIDE DEF wire
  <2>2. Len(wire) = Len(working) /\ DOMAIN wire = 1..Len(wire)
    BY <1>1, <1>3, <2>1
  <2>3. ASSUME NEW i \in 1..Len(working)
        PROVE  CarriesOne(wire[i], working, provider, names, i)
    <3> DEFINE g == Given(provider, working, names, i)
    <3>1. talk[i] = g
      BY <1>3
    <3> HIDE DEF g
    <3>2. /\ wire[i].answers = g.answers
          /\ \/ wire[i].calls = ById(g.calls)
             \/ provider = "google" /\ wire[i].calls = ByName(g.calls)
      <4>1. wire[i] = IF provider = "anthropic" THEN AnthropicTurn(g)
                                               ELSE GoogleTurn(g)
        BY <1>3, <2>1, <3>1
      <4> QED
        BY <1>4, <4>1 DEF AnthropicTurn, GoogleTurn, Turn
    <3> QED
      BY <3>2, TurnCarries DEF g
  <2>4. Carries(wire, working, 0, provider, names)
    <3>1. \A i \in 1..Len(working) : 0 + i = i
      BY <1>1
    <3> QED
      BY <1>1, <2>2, <2>3, <3>1 DEF Carries
  <2> QED
    BY <2>4 DEF wire, messages
<1>5. CASE provider \notin {"anthropic", "google"}
  <2>1. wire = IF provider = "openai"
                 THEN [i \in DOMAIN messages |-> OpenAiTurn(messages[i])]
                 ELSE [i \in DOMAIN messages |-> OllamaTurn(messages[i])]
    BY <1>5 DEF Wire
  <2>2. DOMAIN messages = 1..Len(messages) /\ Len(messages) \in Nat
    BY <1>2
  <2> HIDE DEF wire
  <2>3. \A i \in 1..Len(messages) :
          /\ wire[i].calls = ById(messages[i].calls)
          /\ wire[i].answers = messages[i].answers
    <3> SUFFICES ASSUME NEW i \in 1..Len(messages)
                 PROVE  /\ wire[i].calls = ById(messages[i].calls)
                        /\ wire[i].answers = messages[i].answers
      OBVIOUS
    <3> DEFINE g == messages[i]
    <3>1. wire[i] = IF provider = "openai" THEN OpenAiTurn(g) ELSE OllamaTurn(g)
      BY <2>1, <2>2
    <3> HIDE DEF g
    <3>2. wire[i].calls = ById(g.calls) /\ wire[i].answers = g.answers
      BY <3>1 DEF OpenAiTurn, OllamaTurn, Turn
    <3> QED
      BY <3>2 DEF g
  <2>4. Len(wire) = 1 + Len(working) /\ DOMAIN wire = 1..Len(wire)
    BY <1>1, <1>2, <2>1, <2>2
  <2>5. ASSUME NEW i \in 1..Len(working)
        PROVE  CarriesOne(wire[1 + i], working, provider, names, i)
    <3>1. /\ 1 + i \in 1..Len(messages)
          /\ messages[1 + i] = Given(provider, working, names, i)
      BY <1>1, <1>2
    <3>2. /\ wire[1 + i].calls = ById(Given(provider, working, names, i).calls)
          /\ wire[1 + i].answers = Given(provider, working, names, i).answers
      BY <2>3, <3>1
    <3> QED
      BY <3>2, TurnCarries
  <2>6. wire[1].calls = <<>>
    <3>1. 1 \in 1..Len(messages) /\ Prompt.calls = <<>>
      BY <1>1, <1>2 DEF Prompt
    <3> QED
      BY <1>2, <2>3, <3>1, NoCallsOnTheWire
  <2>7. Carries(wire, working, 1, provider, names)
    <3>1. \A i \in 1..1 : i = 1
      OBVIOUS
    <3> QED
      BY <2>4, <2>5, <2>6, <3>1 DEF Carries
  <2> QED
    BY <2>7 DEF wire, messages
<1> QED
  BY <1>4, <1>5

(* Whatever the provider and the tools, of any list whose calls are        *)
(* answered.                                                               *)
LEMMA AllReach ==
  ASSUME NEW working \in Seq(ChatMessage), Abstract!Paired(working),
         NEW provider \in Provider, NEW names
  PROVE  LET wire == Wire(provider, ChatMessages(provider, working, names))
         IN  \A i \in DOMAIN wire :
               \A nth \in DOMAIN wire[i].calls : Reaches(wire, i, nth)
<1> DEFINE wire == Wire(provider, ChatMessages(provider, working, names))
<1>1. PICK off \in {0, 1} : Carries(wire, working, off, provider, names)
  BY WireCarries
<1> HIDE DEF wire
<1>2. ASSUME NEW i \in DOMAIN wire, NEW nth \in DOMAIN wire[i].calls
      PROVE  Reaches(wire, i, nth)
  BY <1>1, CarriedReaches
<1> QED
  BY <1>2 DEF wire

(* With one writer at a time, every result that is sent reaches the call   *)
(* that asked for it, with any provider and any tools called: the ids that *)
(* repeat from reply to reply repeat within none, or stand for the tool    *)
(* (the _build_*_messages functions and the parsing of replies).           *)
THEOREM ResultsReachTheirCallsHold == SerialSpec => []ResultsReachTheirCalls
<1>1. SerialInv => ResultsReachTheirCalls
  BY SentIsPaired, AllReach DEF ResultsReachTheirCalls
<1> QED
  BY <1>1, SerialInvHolds, PTL

-----------------------------------------------------------------------------
(* The conversation is a transcript.                                       *)

(* What is behind a in a \o b.                                             *)
LEMMA SuffixIs ==
  ASSUME NEW X, NEW a \in Seq(X), NEW b \in Seq(X)
  PROVE  SubSeq(a \o b, Len(a) + 1, Len(a \o b)) = b
<1> DEFINE c == a \o b
           d == SubSeq(c, Len(a) + 1, Len(c))
<1>1. /\ c \in Seq(X) /\ Len(c) = Len(a) + Len(b)
      /\ Len(a) \in Nat /\ Len(b) \in Nat
      /\ \A i \in 1..Len(b) : c[Len(a) + i] = b[i]
  BY ConcatIs
<1> HIDE DEF c
<1>2. d = [i \in 1..Len(b) |-> c[Len(a) + i]]
  <2>1. Len(c) - (Len(a) + 1) + 1 = Len(b)
    BY <1>1
  <2>2. d = [i \in 1..(Len(c) - (Len(a) + 1) + 1) |-> c[i + (Len(a) + 1) - 1]]
    BY DEF SubSeq
  <2>3. \A i \in 1..Len(b) : i + (Len(a) + 1) - 1 = Len(a) + i
    BY <1>1
  <2> QED
    BY <2>1, <2>2, <2>3
<1>3. d = [i \in 1..Len(b) |-> b[i]]
  BY <1>1, <1>2
<1> QED
  BY <1>3 DEF c

(* After a deletion there is nothing to tell.                              *)
LEMMA GoneIsEmpty ==
  ASSUME SerialInv, convo = "deleted"
  PROVE  History(Committed) = <<>>
<1>1. Kept(order, turn) /\ \A r \in Request : turn[r] = <<>>
  BY RowsAreKept DEF SerialInv, IInv, NothingOutlivesDeletion
<1>2. order = <<>>
  <2>1. order \in Seq(Written)
    BY <1>1 DEF Kept
  <2>2. ASSUME order # <<>> PROVE FALSE
    <3>1. 1 \in 1..Len(order) /\ order[1].by \in Request
      <4>1. 1 \in 1..Len(order) /\ order[1] \in Written
        BY <2>1, <2>2
      <4> QED
        BY <4>1 DEF Written
    <3>2. order[1].nth \in 1..0
      BY <1>1, <3>1 DEF Kept
    <3> QED
      BY <3>2
  <2> QED
    BY <2>2
<1> QED
  BY <1>1, <1>2, NothingTold, HistoryTells

(* Only a deletion makes the conversation deleted, and nothing undoes it.  *)
LEMMA OnlyDeleteDeletes ==
  ASSUME SerialInv, NEW r \in Request, Begin(r) \/ Advance(r) \/ Rollback(r)
  PROVE  Delete(r) \/ (convo' = "deleted" <=> convo = "deleted")
<1>1. CASE Commit(r)
  <2>1. convo # "deleted"
    BY <1>1, InTurn DEF Commit, SerialInv
  <2> QED
    BY <1>1, <2>1 DEF Commit
<1>2. CASE ~ Commit(r)
  BY <1>2 DEF Begin, Advance, Create, Kickoff, Load, Refuse, Post,
     BuildHistory, Answer, CallTools, RunTool, GiveUp, Rollback
<1> QED
  BY <1>1, <1>2

(* What a step shows, and whether it deletes.                              *)
Steps(shown, shownNext, gone, goneNext) ==
  \/ /\ ~ gone /\ goneNext = gone
     /\ shownNext = shown \o SubSeq(shownNext, Len(shown) + 1, Len(shownNext))
     /\ Abstract!WholeTurn(SubSeq(shownNext, Len(shown) + 1, Len(shownNext)))
  \/ ~ gone /\ goneNext /\ shownNext = <<>>
  \/ shownNext = shown /\ goneNext = gone

LEMMA TranscriptStep ==
  ASSUME SerialInv, SerialNext
  PROVE  Steps(History(Committed), History(Committed)',
               convo = "deleted", convo' = "deleted")
<1> DEFINE h == History(Committed)
           h2 == History(Committed)'
           gone == convo = "deleted"
           gone2 == convo' = "deleted"
<1>1. PICK r \in Request : Begin(r) \/ Advance(r) \/ Rollback(r)
  BY DEF SerialNext, Next
<1>2. IInv' /\ TypeInv' /\ NothingBeforeOpening' /\ OneWrites'
  <2>1. IInv' /\ TypeInv' /\ NothingBeforeOpening' /\ OneAtATime'
    BY <1>1, NextInvariant, TypeInvariant, NothingBefore
       DEF SerialInv, SerialNext
  <2> QED
    BY <2>1, OneWritesNext
<1>3. Delete(r) \/ (gone2 = gone /\ gone \in BOOLEAN)
  BY <1>1, OnlyDeleteDeletes
<1>4. CASE Commit(r)
  <2> DEFINE w == Wording(turn[r])
  <2>1. h2 = h \o w
    BY <1>2, <1>4, CommitKeeps
  <2>2. h \in Seq(Messageish) /\ w \in Seq(Messageish)
    <3>1. turn[r] \in Seq(AgentMessage) /\ h \in Seq(ChatMessage)
      BY HistoryType DEF SerialInv, TypeInv, TypeOK
    <3> QED
      BY <3>1, WordingOK, ChatIsMessageish
  <2>3. gone2 = gone
    <3>1. ~ Delete(r)
      BY <1>4 DEF Commit, Delete
    <3> QED
      BY <1>3, <3>1
  <2>4. turn[r] = <<>> \/ (~ gone /\ Abstract!WholeTurn(w))
    BY <1>4, CommitsWhole
  <2>5. turn[r] = <<>> => w = <<>>
    BY EmptyWording
  <2> HIDE DEF h, h2, w, gone, gone2
  <2>6. SubSeq(h2, Len(h) + 1, Len(h2)) = w
    BY <2>1, <2>2, SuffixIs
  <2>7. w = <<>> => h2 = h
    BY <2>1, <2>2
  <2>8. Steps(h, h2, gone, gone2)
    BY <2>1, <2>3, <2>4, <2>5, <2>6, <2>7 DEF Steps
  <2> QED
    BY <2>8 DEF h, h2, gone, gone2
<1>5. CASE Delete(r)
  <2>1. h2 = <<>> /\ gone2
    BY <1>2, <1>5, DeleteKeeps DEF Delete
  <2>2. gone => h = <<>>
    BY GoneIsEmpty
  <2>3. gone \in BOOLEAN
    OBVIOUS
  <2> HIDE DEF h, h2, gone, gone2
  <2>4. Steps(h, h2, gone, gone2)
    BY <2>1, <2>2, <2>3 DEF Steps
  <2> QED
    BY <2>4 DEF h, h2, gone, gone2
<1>6. CASE ~ Commit(r) /\ ~ Delete(r)
  <2>1. h2 = h
    <3>1. CASE (Create /\ r = Opening) \/ Load(r) \/ Refuse(r)
      BY <1>2, <3>1, QuietStep
    <3>2. CASE Kickoff
      BY <1>2, <3>2, KickoffStep
    <3>3. CASE BuildHistory(r)
      BY <1>2, <3>3, BuildHistoryStep
    <3>4. CASE Post(r) \/ (\E said \in Said : Answer(r, said)) \/ GiveUp(r)
      BY <1>2, <3>4, StoreStep
    <3>5. CASE \E said \in Said, calls \in 1..MaxTools :
                 CallTools(r, calls, said)
      BY <1>2, <3>5, CallToolsStep
    <3>6. CASE RunTool(r)
      BY <1>2, <3>6, RunToolStep
    <3>7. CASE Rollback(r)
      BY <1>2, <3>7, RollbackKeeps
    <3> QED
      BY <1>1, <1>6, <3>1, <3>2, <3>3, <3>4, <3>5, <3>6, <3>7
         DEF Begin, Advance
  <2> HIDE DEF h, h2, gone, gone2
  <2>2. Steps(h, h2, gone, gone2)
    BY <1>3, <1>6, <2>1 DEF Steps
  <2> QED
    BY <2>2 DEF h, h2, gone, gone2
<1> QED
  BY <1>4, <1>5, <1>6

(* With one writer at a time, the conversation implements the transcript:  *)
(* each step commits one whole turn behind what was there, deletes it all, *)
(* or shows nothing (send_message, create_conversation,                    *)
(* delete_conversation).                                                   *)
THEOREM TranscriptSpecHolds == SerialSpec => TranscriptSpec
<1>1. Init => Abstract!Init
  <2> SUFFICES ASSUME Init PROVE Abstract!Init
    OBVIOUS
  <2>1. order = <<>> /\ convo = "none" /\ Kept(order, turn)
    BY InitType, RowsAreKept DEF Init
  <2>2. History(Committed) = <<>>
    BY <2>1, NothingTold, HistoryTells
  <2> QED
    BY <2>1, <2>2 DEF Abstract!Init
<1>2. SerialInv /\ [SerialNext]_vars => [Abstract!Next]_(Abstract!vars)
  <2> SUFFICES ASSUME SerialInv, [SerialNext]_vars
               PROVE  [Abstract!Next]_(Abstract!vars)
    OBVIOUS
  <2>1. CASE SerialNext
    BY <2>1, TranscriptStep
       DEF Steps, Abstract!Next, Abstract!AppendTurn, Abstract!Delete,
           Abstract!Added, Abstract!vars
  <2>2. CASE UNCHANGED vars
    BY <2>2, SerialStutter DEF vars, Abstract!vars
  <2> QED
    BY <2>1, <2>2
<1> QED
  BY <1>1, <1>2, SerialInvHolds, PTL
     DEF SerialSpec, TranscriptSpec, Abstract!Spec
=============================================================================

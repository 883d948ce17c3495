----------------------- MODULE AgentConversationProofs -----------------------
(***************************************************************************)
(* Theorems about AgentConversation for any number of overlapping messages *)
(* and deletions: turns commit whole, nothing outlives a deletion, and the *)
(* state keeps its types.                                                  *)
(*                                                                         *)
(* The inductive invariant says, of each place in the code, what the rows  *)
(* a turn has flushed look like so far (Fits): every call answered while   *)
(* the model is awaited, the first calls of the last message answered      *)
(* while tools run.  A turn that may still store messages has stored one,  *)
(* which is why the deletion's lock wait leaves no such turn behind.       *)
(***************************************************************************)
EXTENDS AgentConversation, SequenceTheorems, WellFoundedInduction, TLAPS

(* Rows as the model is told of them.                                      *)
Wording(rows) == [i \in DOMAIN rows |-> AsTold(rows[i])]

Messageish == [role : {"user", "assistant", "tool"}, number : Nat, text : Text]

(* The turn goes on: no answer yet, and no other message of the user's.    *)
GoesOn(m) ==
  /\ \A i \in 1..Len(m) : ~ Abstract!Final(m[i])
  /\ \A i \in 2..Len(m) : m[i].role # "user"

(* The last call message has asked for that many tools, of which the first *)
(* so many are answered; whatever came before is paired.                   *)
Pending(m, asked, answered) ==
  LET last == Len(m) - answered IN
    /\ answered \in Nat /\ asked \in Nat
    /\ answered < asked
    /\ last >= 1
    /\ m[last].role = "assistant" /\ m[last].number = asked
    /\ \A j \in 1..answered :
         m[last + j].role = "tool" /\ m[last + j].number = j
    /\ \A i \in 1..Len(m) :
         /\ m[i].role = "assistant" /\ i # last => Abstract!AnsweredAt(m, i)
         /\ m[i].role = "tool" => Abstract!AnswersAt(m, i)

(* The places each kind of request passes.                                 *)
PlacesOf ==
  [Sends |-> Place \ {"created"},
   Deletes |-> {"waiting", "loaded", "done", "failed"},
   Opening |-> Place \ {"loaded", "posted"}]

(* A transaction has its fields; what a replay holds does not matter here. *)
Shaped(t) ==
  /\ t = [pc |-> t.pc, iteration |-> t.iteration, asked |-> t.asked,
           answered |-> t.answered, working |-> t.working]
  /\ t.pc \in Place
  /\ t.asked \in 0..MaxTools

Shape ==
  /\ convo \in {"none", "live", "deleted"}
  /\ turn \in [Request -> Seq(AgentMessage)]
  /\ txn = [r \in Request |-> txn[r]]
  /\ \A r \in Request : Shaped(txn[r])

(* Who speaks first in what r stores.                                      *)
Begins(r, m) ==
  m # <<>> /\ m[1].role = IF r = Opening THEN "assistant" ELSE "user"

Whole(r, m) == Abstract!WholeTurn(m) /\ Begins(r, m)

(* Without an opening turn the request that creates stores no message.     *)
Speaks(r, t) == r \in Sends \/ (r = Opening /\ t.working # <<>>)

(* The messages m of request r fit its place t.pc.                         *)
Fits(r, t, m, gone) ==
  /\ r \in Sends => t.pc \in PlacesOf.Sends
  /\ r \in Deletes => t.pc \in PlacesOf.Deletes /\ m = <<>>
  /\ r = Opening =>
       /\ t.pc \in PlacesOf.Opening
       /\ t.working \in Seq(Messageish)
       /\ t.pc \in {"waiting", "created"} => t.working = <<>>
       /\ t.pc \in {"chat", "tools"} => t.working # <<>>
  /\ t.pc \in {"waiting", "created", "loaded", "failed"} => m = <<>>
  /\ t.pc \in {"posted", "chat"} =>
       /\ Abstract!Paired(m) /\ GoesOn(m)
       /\ r \in Sends \/ m # <<>> => Begins(r, m)
  /\ t.pc = "tools" =>
       Pending(m, t.asked, t.answered) /\ GoesOn(m) /\ Begins(r, m)
  /\ t.pc = "commit" /\ Speaks(r, t) => Whole(r, m)
  /\ t.pc = "done" /\ Speaks(r, t) /\ ~ gone => Whole(r, m)

(* The conversation exists once its opening has committed, not before.     *)
OpeningFirst ==
  /\ convo # "none" => txn[Opening].pc = "done"
  /\ \A r \in Sends \cup Deletes : txn[r].pc = "loaded" => convo # "none"

IInv ==
  /\ Shape
  /\ \A r \in Request :
       Fits(r, txn[r], Wording(turn[r]), convo = "deleted")
  /\ OpeningFirst
  /\ NothingOutlivesDeletion

-----------------------------------------------------------------------------
(* Selecting from a sequence.                                              *)

(* Induction over a set of numbers: the least number outside it would have *)
(* a predecessor inside.                                                   *)
LEMMA InductionTo ==
  ASSUME NEW N \in Nat, NEW S, 0 \in S,
         \A n \in 0..N : n \in S /\ n < N => n + 1 \in S
  PROVE  \A n \in 0..N : n \in S
<1> DEFINE T == {n \in 0..N : n \notin S}
<1> SUFFICES ASSUME T # {} PROVE FALSE
  OBVIOUS
<1>1. PICK x \in T : \A y \in T : ~ (<<y, x>> \in OpToRel(<, Nat))
  <2>1. T \subseteq Nat
    OBVIOUS
  <2> HIDE DEF T
  <2> QED
    BY <2>1, NatLessThanWellFounded, WFMin, Zenon
<1>2. x - 1 \in 0..N /\ x - 1 < x /\ x - 1 < N /\ x - 1 + 1 = x
  OBVIOUS
<1>3. x - 1 \in T
  BY <1>2
<1>4. <<x - 1, x>> \in OpToRel(<, Nat)
  BY <1>2 DEF OpToRel
<1> QED
  BY <1>1, <1>3, <1>4

(* The recursive function of Selected, as far as N.                        *)
KeptBelow(s, I, f, n) ==
  IF n = 0 THEN <<>>
  ELSE IF n \in I THEN Append(f[n - 1], s[n]) ELSE f[n - 1]

IsKept(s, I, f, N) == f = [n \in 0..N |-> KeptBelow(s, I, f, n)]

LEMMA KeptExists ==
  ASSUME NEW s, NEW I, NEW N \in Nat
  PROVE  \E f : IsKept(s, I, f, N)
<1> DEFINE S == {n \in 0..N : \E f : IsKept(s, I, f, n)}
<1>1. 0 \in S
  <2>1. IsKept(s, I, [n \in 0..0 |-> <<>>], 0)
    BY DEF IsKept, KeptBelow
  <2> QED
    BY <2>1
<1>2. ASSUME NEW n \in 0..N, n \in S, n < N
      PROVE  n + 1 \in S
  <2>1. PICK f : IsKept(s, I, f, n)
    BY <1>2
  <2> DEFINE v == KeptBelow(s, I, f, n + 1)
             g == [m \in 0..(n + 1) |-> IF m = n + 1 THEN v ELSE f[m]]
  <2>2. ASSUME NEW m \in 0..(n + 1)
        PROVE  g[m] = KeptBelow(s, I, g, m)
    <3>1. CASE m = n + 1
      <4>1. g[m] = v /\ m - 1 = n /\ n \in 0..(n + 1) /\ n # n + 1
        BY <3>1
      <4>2. g[m - 1] = f[n]
        BY <4>1
      <4> QED
        BY <3>1, <4>1, <4>2 DEF KeptBelow
    <3>2. CASE m # n + 1
      <4>1. m \in 0..n /\ g[m] = f[m] /\ f[m] = KeptBelow(s, I, f, m)
        BY <2>1, <3>2 DEF IsKept
      <4>2. m # 0 => g[m - 1] = f[m - 1]
        BY <4>1
      <4> QED
        BY <4>1, <4>2 DEF KeptBelow
    <3> QED
      BY <3>1, <3>2
  <2>3. IsKept(s, I, g, n + 1)
    <3>1. g = [m \in 0..(n + 1) |-> g[m]]
      OBVIOUS
    <3> HIDE DEF g
    <3> QED
      BY <2>2, <3>1 DEF IsKept
  <2> HIDE DEF g
  <2> QED
    BY <1>2, <2>3
<1> HIDE DEF S
<1>3. \A n \in 0..N : n \in S
  BY <1>1, <1>2, InductionTo
<1> QED
  BY <1>3 DEF S

(* Selecting one element after the other.                                  *)
LEMMA SelectedSteps ==
  ASSUME NEW s, NEW I, Len(s) \in Nat
  PROVE  \E f : /\ f[0] = <<>>
                /\ \A n \in 1..Len(s) :
                     f[n] = IF n \in I THEN Append(f[n - 1], s[n])
                                       ELSE f[n - 1]
                /\ Selected(s, I) = f[Len(s)]
<1> DEFINE g == CHOOSE f : IsKept(s, I, f, Len(s))
<1>1. IsKept(s, I, g, Len(s))
  BY KeptExists
<1>2. Selected(s, I) = g[Len(s)]
  BY DEF Selected, IsKept, KeptBelow
<1> HIDE DEF g
<1>3. \A n \in 0..Len(s) : g[n] = KeptBelow(s, I, g, n)
  BY <1>1 DEF IsKept
<1> QED
  BY <1>2, <1>3 DEF KeptBelow

(* What is selected is among what is asked for.                            *)
LEMMA SelectedType ==
  ASSUME NEW X, NEW s \in Seq(X), NEW I, NEW P,
         \A n \in 1..Len(s) : n \in I => s[n] \in P
  PROVE  Selected(s, I) \in Seq(P)
<1>1. PICK f : /\ f[0] = <<>>
               /\ \A n \in 1..Len(s) :
                    f[n] = IF n \in I THEN Append(f[n - 1], s[n])
                                      ELSE f[n - 1]
               /\ Selected(s, I) = f[Len(s)]
  BY SelectedSteps
<1> DEFINE S == {n \in 0..Len(s) : f[n] \in Seq(P)}
<1>2. Len(s) \in Nat
  OBVIOUS
<1>3. 0 \in S
  <2>1. <<>> \in Seq(P) /\ 0 \in 0..Len(s)
    BY <1>2
  <2> QED
    BY <1>1, <2>1
<1>4. ASSUME NEW n \in 0..Len(s), n \in S, n < Len(s)
      PROVE  n + 1 \in S
  <2>1. n + 1 \in 1..Len(s) /\ n + 1 - 1 = n
    BY <1>2, <1>4
  <2>2. f[n + 1] = IF n + 1 \in I THEN Append(f[n], s[n + 1]) ELSE f[n]
    BY <1>1, <2>1
  <2>3. f[n + 1] \in Seq(P)
    BY <1>4, <2>1, <2>2
  <2> QED
    BY <2>1, <2>3
<1> HIDE DEF S
<1>5. \A n \in 0..Len(s) : n \in S
  BY <1>2, <1>3, <1>4, InductionTo
<1>6. Len(s) \in S
  BY <1>2, <1>5
<1> QED
  BY <1>1, <1>6 DEF S

(* Adjacent elements.                                                      *)
LEMMA SelectedInterval ==
  ASSUME NEW X, NEW s \in Seq(X), NEW I,
         NEW a \in 1..(Len(s) + 1), NEW b \in (a - 1)..Len(s),
         \A n \in 1..Len(s) : n \in I <=> a <= n /\ n <= b
  PROVE  Selected(s, I) = [j \in 1..(b - a + 1) |-> s[a + j - 1]]
<1>1. PICK f : /\ f[0] = <<>>
               /\ \A n \in 1..Len(s) :
                    f[n] = IF n \in I THEN Append(f[n - 1], s[n])
                                      ELSE f[n - 1]
               /\ Selected(s, I) = f[Len(s)]
  BY SelectedSteps
<1> DEFINE Part(k) == [j \in 1..k |-> s[a + j - 1]]
           Size(n) == IF n < a THEN 0 ELSE IF n <= b THEN n - a + 1
                                                     ELSE b - a + 1
           S == {n \in 0..Len(s) : f[n] = Part(Size(n))}
<1>2. Len(s) \in Nat /\ a \in Nat /\ b \in Nat
  OBVIOUS
<1>3. 0 \in S
  <2>1. Size(0) = 0
    OBVIOUS
  <2>2. Part(0) = <<>>
    OBVIOUS
  <2> QED
    BY <1>1, <1>2, <2>1, <2>2
<1>4. ASSUME NEW n \in 0..Len(s), n \in S, n < Len(s)
      PROVE  n + 1 \in S
  <2>1. n + 1 \in 1..Len(s) /\ n + 1 - 1 = n
    BY <1>2, <1>4
  <2>2. f[n + 1] = IF n + 1 \in I THEN Append(f[n], s[n + 1]) ELSE f[n]
    BY <1>1, <2>1
  <2>3. f[n] = Part(Size(n))
    BY <1>4
  <2>4. CASE n + 1 \in I
    <3>1. /\ a <= n + 1 /\ n + 1 <= b
          /\ Size(n) = n + 1 - a /\ Size(n + 1) = n + 1 - a + 1
          /\ n + 1 - a \in Nat
      BY <1>2, <2>1, <2>4
    <3> DEFINE k == n + 1 - a
    <3>2. Append(Part(k), s[n + 1]) = Part(k + 1)
      <4>1. Part(k) \in Seq(X) /\ Len(Part(k)) = k /\ k \in Nat
        BY <1>2, <2>1, <3>1
      <4>2. Part(k + 1) \in Seq(X) /\ Len(Part(k + 1)) = k + 1
        BY <1>2, <2>1, <3>1
      <4>3. s[n + 1] \in X /\ s[n + 1] = s[a + (k + 1) - 1]
        BY <1>2, <2>1
      <4>4. /\ Append(Part(k), s[n + 1]) \in Seq(X)
            /\ Len(Append(Part(k), s[n + 1])) = k + 1
        BY <4>1, <4>3
      <4>5. ASSUME NEW j \in 1..(k + 1)
            PROVE  Append(Part(k), s[n + 1])[j] = Part(k + 1)[j]
        BY <4>1, <4>3
      <4> QED
        BY <4>2, <4>4, <4>5, SeqEqual
    <3>3. f[n + 1] = Part(Size(n + 1))
      <4> HIDE DEF Part, Size
      <4> QED
        BY <2>2, <2>3, <2>4, <3>1, <3>2
    <3> QED
      BY <2>1, <3>3
  <2>5. CASE n + 1 \notin I
    <3>1. Size(n + 1) = Size(n)
      BY <1>2, <2>1, <2>5
    <3>2. f[n + 1] = Part(Size(n + 1))
      <4> HIDE DEF Part, Size
      <4> QED
        BY <2>2, <2>3, <2>5, <3>1
    <3> QED
      BY <2>1, <3>2
  <2> QED
    BY <2>4, <2>5
<1>5. Size(Len(s)) = b - a + 1
  BY <1>2
<1> HIDE DEF S
<1>6. \A n \in 0..Len(s) : n \in S
  BY <1>2, <1>3, <1>4, InductionTo
<1>7. Len(s) \in S
  BY <1>2, <1>6
<1>8. f[Len(s)] = Part(Size(Len(s)))
  BY <1>7 DEF S
<1> HIDE DEF Size
<1> QED
  BY <1>1, <1>5, <1>8

-----------------------------------------------------------------------------
(* Lists of messages.                                                      *)

LEMMA AsToldOK == \A x \in AgentMessage : AsTold(x) \in Messageish
BY BoundsAreNatural DEF AsTold, Row, AgentMessage, Messageish, Text

LEMMA WordingOK ==
  ASSUME NEW rows \in Seq(AgentMessage)
  PROVE  /\ Wording(rows) \in Seq(Messageish)
         /\ Len(Wording(rows)) = Len(rows)
         /\ \A i \in 1..Len(rows) : Wording(rows)[i] = AsTold(rows[i])
<1>1. Wording(rows) = [i \in 1..Len(rows) |-> AsTold(rows[i])]
  BY DEF Wording
<1>2. \A i \in 1..Len(rows) : AsTold(rows[i]) \in Messageish
  BY AsToldOK
<1> QED
  BY <1>1, <1>2

LEMMA WordingAppend ==
  ASSUME NEW rows \in Seq(AgentMessage), NEW x \in AgentMessage
  PROVE  Wording(Append(rows, x)) = Append(Wording(rows), AsTold(x))
<1> DEFINE l == Wording(Append(rows, x))
           r == Append(Wording(rows), AsTold(x))
<1>1. Append(rows, x) \in Seq(AgentMessage) /\ Len(Append(rows, x)) = Len(rows) + 1
  OBVIOUS
<1>2. /\ l \in Seq(Messageish) /\ Len(l) = Len(rows) + 1
      /\ \A i \in 1..(Len(rows) + 1) : l[i] = AsTold(Append(rows, x)[i])
  <2> HIDE DEF l
  <2>1. \A app \in Seq(AgentMessage) :
          /\ Wording(app) \in Seq(Messageish) /\ Len(Wording(app)) = Len(app)
          /\ \A i \in 1..Len(app) : Wording(app)[i] = AsTold(app[i])
    BY WordingOK
  <2>2. l = Wording(Append(rows, x))
    BY DEF l
  <2> QED
    BY <1>1, <2>1, <2>2
<1>3. /\ Wording(rows) \in Seq(Messageish) /\ Len(Wording(rows)) = Len(rows)
      /\ \A i \in 1..Len(rows) : Wording(rows)[i] = AsTold(rows[i])
  BY WordingOK
<1>4. r \in Seq(Messageish) /\ Len(r) = Len(rows) + 1
  BY <1>3, AsToldOK
<1>5. \A i \in 1..(Len(rows) + 1) : l[i] = r[i]
  BY <1>2, <1>3
<1> QED
  BY <1>2, <1>4, <1>5, SeqEqual

(* A message behind the others changes nothing about them.                 *)
LEMMA AppendKeepsPairs ==
  ASSUME NEW m \in Seq(Messageish), NEW x \in Messageish,
         NEW i \in 1..Len(m)
  PROVE  /\ Append(m, x)[i] = m[i]
         /\ Abstract!AnsweredAt(m, i) => Abstract!AnsweredAt(Append(m, x), i)
         /\ Abstract!AnswersAt(m, i) => Abstract!AnswersAt(Append(m, x), i)
<1>1. /\ Len(Append(m, x)) = Len(m) + 1
      /\ \A j \in 1..Len(m) : Append(m, x)[j] = m[j]
  OBVIOUS
<1>2. m[i] \in Messageish
  OBVIOUS
<1>3. Abstract!AnsweredAt(m, i) => Abstract!AnsweredAt(Append(m, x), i)
  <2> DEFINE a == Append(m, x)
  <2>1. Len(m) \in Nat /\ a[i].number = m[i].number /\ m[i].number \in Nat
    BY <1>1, <1>2 DEF Messageish
  <2>2. ASSUME Abstract!AnsweredAt(m, i), NEW j \in 1..a[i].number
        PROVE  i + j <= Len(a) /\ a[i + j].role = "tool" /\ a[i + j].number = j
    <3>1. j \in 1..m[i].number /\ j \in Nat
      BY <2>1
    <3>2. i + j <= Len(m) /\ m[i + j].role = "tool" /\ m[i + j].number = j
      BY <2>2, <3>1 DEF Abstract!AnsweredAt
    <3>3. i + j \in 1..Len(m)
      BY <2>1, <3>1, <3>2
    <3> QED
      BY <1>1, <2>1, <3>2, <3>3
  <2> QED
    BY <2>2 DEF Abstract!AnsweredAt
<1>4. Abstract!AnswersAt(m, i) => Abstract!AnswersAt(Append(m, x), i)
  BY <1>1, <1>2 DEF Abstract!AnswersAt, Messageish
<1> QED
  BY <1>1, <1>3, <1>4

LEMMA AppendCalls ==
  ASSUME NEW m \in Seq(Messageish), NEW n \in Nat \ {0}, Abstract!Paired(m),
         NEW x \in Messageish, x.role = "assistant", x.number = n
  PROVE  Pending(Append(m, x), n, 0)
<1> DEFINE a == Append(m, x)
<1>1. x \in Messageish /\ x.role = "assistant"
  OBVIOUS
<1>2. Len(a) = Len(m) + 1 /\ a[Len(m) + 1] = x /\ Len(m) \in Nat
  BY <1>1
<1>3. ASSUME NEW i \in 1..Len(m)
      PROVE  /\ a[i].role = "assistant" => Abstract!AnsweredAt(a, i)
             /\ a[i].role = "tool" => Abstract!AnswersAt(a, i)
  BY <1>1, AppendKeepsPairs DEF Abstract!Paired
<1>4. \A i \in 1..Len(a) :
        /\ a[i].role = "assistant" /\ i # Len(a) => Abstract!AnsweredAt(a, i)
        /\ a[i].role = "tool" => Abstract!AnswersAt(a, i)
  BY <1>1, <1>2, <1>3
<1> QED
  BY <1>2, <1>4 DEF Pending

LEMMA AppendResult ==
  ASSUME NEW m \in Seq(Messageish), NEW asked, NEW answered,
         Pending(m, asked, answered)
  PROVE  LET a == Append(m, Row("tool", answered + 1)) IN
           IF answered + 1 = asked THEN Abstract!Paired(a)
                                   ELSE Pending(a, asked, answered + 1)
<1> DEFINE x == Row("tool", answered + 1)
           a == Append(m, x)
           last == Len(m) - answered
<1>1. /\ answered \in Nat /\ asked \in Nat /\ answered < asked
      /\ last >= 1 /\ last \in 1..Len(m)
      /\ m[last].role = "assistant" /\ m[last].number = asked
      /\ \A j \in 1..answered :
           m[last + j].role = "tool" /\ m[last + j].number = j
  BY DEF Pending
<1>2. x \in Messageish /\ x.role = "tool" /\ x.number = answered + 1
  BY <1>1 DEF Row, Messageish, Text
<1>3. /\ Len(a) = Len(m) + 1 /\ a[Len(m) + 1] = x /\ Len(m) \in Nat
      /\ \A j \in 1..Len(m) : a[j] = m[j]
  BY <1>2
<1>4. a[last].role = "assistant" /\ a[last].number = asked
  BY <1>1, <1>3
<1>5. ASSUME NEW j \in 1..(answered + 1)
      PROVE  a[last + j].role = "tool" /\ a[last + j].number = j
  <2>1. CASE j \in 1..answered
    <3>1. last + j \in 1..Len(m)
      BY <1>1, <1>3, <2>1
    <3> QED
      BY <1>1, <1>3, <2>1, <3>1
  <2>2. CASE j = answered + 1
    <3>1. last + j = Len(m) + 1
      BY <1>1, <1>3, <2>2
    <3> QED
      <4>1. a[last + j] = x /\ answered + 1 = j
        BY <1>3, <2>2, <3>1
      <4> HIDE DEF a, last, x
      <4> QED
        BY <1>2, <4>1
  <2>3. j \in 1..answered \/ j = answered + 1
    BY <1>1
  <2> HIDE DEF a, last
  <2> QED
    BY <2>1, <2>2, <2>3
<1>6. Abstract!AnswersAt(a, Len(a))
  <2> HIDE DEF x
  <2> QED
    BY <1>1, <1>2, <1>3, <1>4 DEF Abstract!AnswersAt
<1>7. ASSUME NEW i \in 1..Len(m)
      PROVE  /\ a[i].role = "assistant" /\ i # last => Abstract!AnsweredAt(a, i)
             /\ a[i].role = "tool" => Abstract!AnswersAt(a, i)
  BY <1>2, AppendKeepsPairs DEF Pending
<1>8. \A i \in 1..Len(a) :
        /\ a[i].role = "assistant" /\ i # last => Abstract!AnsweredAt(a, i)
        /\ a[i].role = "tool" => Abstract!AnswersAt(a, i)
  BY <1>2, <1>3, <1>6, <1>7
<1>9. CASE answered + 1 = asked
  <2>1. Abstract!AnsweredAt(a, last)
    <3>1. a[last].number = answered + 1
      BY <1>4, <1>9
    <3>2. \A j \in 1..(answered + 1) : last + j <= Len(a)
      BY <1>1, <1>3
    <3> QED
      BY <1>5, <3>1, <3>2 DEF Abstract!AnsweredAt
  <2> QED
    BY <1>8, <1>9, <2>1 DEF Abstract!Paired
<1>10. CASE answered + 1 # asked
  <2>1. Len(a) - (answered + 1) = last /\ answered + 1 \in Nat
        /\ answered + 1 < asked
    BY <1>1, <1>3, <1>10
  <2>2. Pending(a, asked, answered + 1)
    BY <1>1, <1>4, <1>5, <1>8, <2>1 DEF Pending
  <2> QED
    BY <1>10, <2>2
<1> QED
  BY <1>9, <1>10

LEMMA AppendGoesOn ==
  ASSUME NEW m \in Seq(Messageish), NEW x \in Messageish, GoesOn(m),
         ~ Abstract!Final(x), m = <<>> \/ x.role # "user"
  PROVE  GoesOn(Append(m, x))
<1>1. /\ Len(Append(m, x)) = Len(m) + 1 /\ Append(m, x)[Len(m) + 1] = x
      /\ \A j \in 1..Len(m) : Append(m, x)[j] = m[j]
      /\ Len(m) \in Nat
  OBVIOUS
<1>2. \A i \in 1..Len(Append(m, x)) : ~ Abstract!Final(Append(m, x)[i])
  BY <1>1 DEF GoesOn
<1>3. \A i \in 2..Len(Append(m, x)) : Append(m, x)[i].role # "user"
  BY <1>1 DEF GoesOn
<1> QED
  BY <1>2, <1>3 DEF GoesOn

LEMMA AppendAnswer ==
  ASSUME NEW m \in Seq(Messageish), GoesOn(m), Abstract!Paired(m),
         NEW x \in Messageish, x.role = "assistant", x.number = 0
  PROVE  Abstract!WholeTurn(Append(m, x))
<1> DEFINE a == Append(m, x)
<1>1. x \in Messageish /\ x.role = "assistant" /\ x.number = 0
  OBVIOUS
<1>2. /\ Len(a) = Len(m) + 1 /\ a[Len(m) + 1] = x /\ Len(m) \in Nat
      /\ \A j \in 1..Len(m) : a[j] = m[j]
  BY <1>1
<1>3. ASSUME NEW i \in 1..Len(m)
      PROVE  /\ a[i].role = "assistant" => Abstract!AnsweredAt(a, i)
             /\ a[i].role = "tool" => Abstract!AnswersAt(a, i)
  BY <1>1, AppendKeepsPairs DEF Abstract!Paired
<1>4. Abstract!AnsweredAt(a, Len(a))
  BY <1>1, <1>2 DEF Abstract!AnsweredAt
<1>5. Abstract!Paired(a)
  BY <1>1, <1>2, <1>3, <1>4 DEF Abstract!Paired
<1>6. a # <<>>
  BY <1>2
<1>7. \A i \in 1..Len(a) : Abstract!Final(a[i]) <=> i = Len(a)
  BY <1>1, <1>2 DEF GoesOn, Abstract!Final
<1>8. \A i \in 2..Len(a) : a[i].role # "user"
  BY <1>1, <1>2 DEF GoesOn
<1> QED
  BY <1>5, <1>6, <1>7, <1>8 DEF Abstract!WholeTurn

-----------------------------------------------------------------------------
(* Steps of one request.                                                   *)

LEMMA MessagesAreWording ==
  \A r \in Request : Messages(r) = Wording(turn[r])
BY DEF Messages, Wording, AsTold

LEMMA EmptyWording == Wording(<<>>) = <<>>
BY DEF Wording

LEMMA EmptyFits == Abstract!Paired(<<>>) /\ GoesOn(<<>>)
BY DEF Abstract!Paired, GoesOn

(* A transaction that is replaced as a whole.                              *)
LEMMA Replaced ==
  ASSUME Shape, NEW r \in Request, NEW t, txn' = [txn EXCEPT ![r] = t]
  PROVE  txn' = [txn EXCEPT ![r] = txn'[r]] /\ txn'[r] = t
BY DEF Shape

(* A step of r alone keeps the invariant when r fits its new place.        *)
LEMMA OwnStep ==
  ASSUME IInv, NEW r \in Request,
         txn' = [txn EXCEPT ![r] = txn'[r]],
         turn' = [turn EXCEPT ![r] = turn'[r]],
         Shaped(txn'[r]), turn'[r] \in Seq(AgentMessage),
         Fits(r, txn'[r], Wording(turn'[r]), convo = "deleted"),
         convo' = convo \/ (r = Opening /\ convo = "none" /\ convo' = "live"),
         r = Opening /\ convo' # "none" => txn'[r].pc = "done",
         r # Opening /\ txn'[r].pc = "loaded" => convo # "none",
         convo = "deleted" =>
           /\ turn'[r] = <<>>
           /\ r \in Sends =>
                txn'[r].pc \notin {"posted", "chat", "tools", "commit"}
  PROVE  IInv'
<1> USE DEF Request
<1>1. Shape /\ OpeningFirst /\ NothingOutlivesDeletion
  BY DEF IInv
<1>2. /\ DOMAIN txn = Request /\ DOMAIN txn' = Request
      /\ \A q \in Request \ {r} : txn'[q] = txn[q] /\ turn'[q] = turn[q]
  BY <1>1 DEF Shape
<1>3. Shape'
  <2>1. convo' \in {"none", "live", "deleted"}
    BY <1>1 DEF Shape
  <2>2. turn' \in [Request -> Seq(AgentMessage)]
    BY <1>1 DEF Shape
  <2>3. txn' = [q \in Request |-> txn'[q]]
    BY <1>1 DEF Shape
  <2>4. \A q \in Request : Shaped(txn'[q])
    BY <1>1, <1>2 DEF Shape
  <2> QED
    BY <2>1, <2>2, <2>3, <2>4 DEF Shape, Shaped
<1>4. (convo' = "deleted") = (convo = "deleted")
  OBVIOUS
<1>5. \A q \in Request :
        Fits(q, txn'[q], Wording(turn'[q]), convo' = "deleted")
  BY <1>2, <1>4 DEF IInv
<1>6. OpeningFirst'
  BY <1>1, <1>2, RequestsAreDistinct DEF OpeningFirst
<1>7. NothingOutlivesDeletion'
  BY <1>1, <1>2, <1>4 DEF NothingOutlivesDeletion
<1> QED
  BY <1>3, <1>5, <1>6, <1>7 DEF IInv, Fits

LEMMA InitInvariant == Init => IInv
<1> USE DEF Request
<1> SUFFICES ASSUME Init PROVE IInv
  OBVIOUS
<1>1. \A r \in Request : txn[r] = Received /\ turn[r] = <<>>
  BY DEF Init
<1>2. Shaped(Received) /\ Received.pc = "waiting" /\ Received.working = <<>>
  BY BoundsAreNatural DEF Shaped, Received, Place
<1>3. Shape
  BY <1>1, <1>2 DEF Init, Shape
<1>4. \A r \in Request : Fits(r, txn[r], Wording(turn[r]), convo = "deleted")
  <2> SUFFICES ASSUME NEW r \in Request
               PROVE  Fits(r, Received, <<>>, convo = "deleted")
    BY <1>1, EmptyWording
  <2>1. <<>> \in Seq(Messageish)
    OBVIOUS
  <2> QED
    BY <1>2, <2>1 DEF Fits, PlacesOf, Place
<1>5. OpeningFirst /\ NothingOutlivesDeletion
  BY <1>1, <1>2 DEF Init, OpeningFirst, NothingOutlivesDeletion
<1> QED
  BY <1>3, <1>4, <1>5 DEF IInv

(* What a request that stores no row leaves of its messages.               *)
LEMMA Unstored ==
  ASSUME IInv, NEW r \in Request, turn' = turn
  PROVE  /\ turn' = [turn EXCEPT ![r] = turn'[r]]
         /\ turn'[r] \in Seq(AgentMessage) /\ turn'[r] = turn[r]
BY DEF IInv, Shape

(* What a request that stores the row x leaves.                            *)
LEMMA Stored ==
  ASSUME IInv, NEW r \in Request, NEW x \in AgentMessage, Insert(r, x)
  PROVE  /\ turn' = [turn EXCEPT ![r] = turn'[r]]
         /\ turn'[r] \in Seq(AgentMessage) /\ turn'[r] = Append(turn[r], x)
         /\ Wording(turn'[r]) = Append(Wording(turn[r]), AsTold(x))
         /\ Wording(turn[r]) \in Seq(Messageish)
         /\ AsTold(x) \in Messageish
<1>1. turn \in [Request -> Seq(AgentMessage)] /\ turn[r] \in Seq(AgentMessage)
  BY DEF IInv, Shape
<1>2. turn' = [turn EXCEPT ![r] = Append(turn[r], x)]
  BY DEF Insert
<1>3. turn'[r] = Append(turn[r], x)
  BY <1>1, <1>2
<1> QED
  BY <1>1, <1>2, <1>3, WordingAppend, WordingOK, AsToldOK

LEMMA CreateInvariant == ASSUME IInv, Create PROVE IInv'
<1> DEFINE r == Opening
<1>1. r \in Request /\ r \notin Sends /\ r \notin Deletes
  BY RequestsAreDistinct DEF Request
<1>2. PICK kickoff \in BOOLEAN :
        txn' = [txn EXCEPT ![r].pc = IF kickoff THEN "created" ELSE "commit"]
  BY DEF Create
<1>3. Fits(r, txn[r], Wording(turn[r]), convo = "deleted") /\ Shaped(txn[r])
      /\ txn[r].pc = "waiting" /\ Shape
  BY <1>1 DEF IInv, Shape, Create
<1>4. /\ txn' = [txn EXCEPT ![r] = txn'[r]]
      /\ txn'[r].pc \in {"created", "commit"}
      /\ txn'[r].working = <<>> /\ Shaped(txn'[r])
  BY <1>1, <1>2, <1>3 DEF Fits, Shape, Shaped, Place
<1>5. Fits(r, txn'[r], Wording(turn'[r]), convo = "deleted")
  BY <1>1, <1>3, <1>4, Unstored DEF Fits, Create, PlacesOf, Place, Speaks
<1>6. convo' = convo /\ convo = "none" /\ turn' = turn
  BY <1>3, <1>1 DEF Create, IInv, OpeningFirst
<1> QED
  BY <1>1, <1>4, <1>5, <1>6, OwnStep, Unstored

LEMMA KickoffInvariant == ASSUME IInv, Kickoff PROVE IInv'
<1> DEFINE r == Opening
<1>1. r \in Request /\ r \notin Sends /\ r \notin Deletes
  BY RequestsAreDistinct DEF Request
<1>2. Fits(r, txn[r], Wording(turn[r]), convo = "deleted") /\ Shaped(txn[r])
      /\ txn[r].pc = "created" /\ Shape
  BY <1>1 DEF IInv, Shape, Kickoff
<1>3. /\ txn' = [txn EXCEPT ![r] = txn'[r]]
      /\ txn'[r].pc = "chat" /\ txn'[r].working = <<Row("user", 0)>>
      /\ Shaped(txn'[r])
  BY <1>1, <1>2 DEF Kickoff, Fits, Shape, Shaped, Place
<1>4. txn'[r].working \in Seq(Messageish) /\ txn'[r].working # <<>>
  BY <1>3 DEF Messageish, Row, Text
<1>5. Fits(r, txn'[r], Wording(turn'[r]), convo = "deleted")
  <2>1. Wording(turn'[r]) = <<>>
    BY <1>1, <1>2, Unstored DEF Fits, Kickoff
  <2> QED
    BY <1>1, <1>3, <1>4, <2>1, EmptyFits DEF Fits, PlacesOf, Place
<1>6. convo' = convo /\ convo = "none" /\ turn' = turn
  BY <1>2, <1>1 DEF Kickoff, IInv, OpeningFirst
<1> QED
  BY <1>1, <1>3, <1>5, <1>6, OwnStep, Unstored

(* A request that has not stored anything moves on.                        *)
LEMMA LoadInvariant ==
  ASSUME IInv, NEW r \in Request, Load(r) PROVE IInv'
<1>1. r # Opening /\ r \in Sends \cup Deletes
  BY RequestsAreDistinct DEF Load
<1>2. Fits(r, txn[r], Wording(turn[r]), convo = "deleted") /\ Shaped(txn[r])
      /\ txn[r].pc = "waiting" /\ Shape
  BY DEF IInv, Shape, Load
<1>3. /\ txn' = [txn EXCEPT ![r] = txn'[r]]
      /\ txn'[r].pc = "loaded" /\ Shaped(txn'[r])
  BY <1>2 DEF Load, Shape, Shaped, Place
<1>4. Fits(r, txn'[r], Wording(turn'[r]), convo = "deleted")
  BY <1>1, <1>2, <1>3, Unstored DEF Fits, Load, PlacesOf, Place
<1>5. convo' = convo /\ convo = "live" /\ turn' = turn
  BY DEF Load
<1> QED
  BY <1>1, <1>3, <1>4, <1>5, OwnStep, Unstored

LEMMA RefuseInvariant ==
  ASSUME IInv, NEW r \in Request, Refuse(r) PROVE IInv'
<1>1. r # Opening /\ r \in Sends \cup Deletes
  BY RequestsAreDistinct DEF Refuse
<1>2. Fits(r, txn[r], Wording(turn[r]), convo = "deleted") /\ Shaped(txn[r])
      /\ txn[r].pc \in {"waiting", "loaded"} /\ Shape
  BY DEF IInv, Shape, Refuse
<1>3. /\ txn' = [txn EXCEPT ![r] = txn'[r]]
      /\ txn'[r].pc = "failed" /\ Shaped(txn'[r])
  BY <1>2 DEF Refuse, Shape, Shaped, Place
<1>4. Fits(r, txn'[r], Wording(turn'[r]), convo = "deleted")
  BY <1>1, <1>2, <1>3, Unstored DEF Fits, Refuse, PlacesOf, Place
<1>5. convo' = convo /\ turn' = turn
      /\ (convo = "deleted" => turn[r] = <<>>)
  BY DEF Refuse, IInv, NothingOutlivesDeletion
<1> QED
  BY <1>1, <1>3, <1>4, <1>5, OwnStep, Unstored

LEMMA PostInvariant ==
  ASSUME IInv, NEW r \in Request, Post(r) PROVE IInv'
<1> DEFINE x == Row("user", 0)
<1>1. r # Opening /\ r \in Sends /\ r \notin Deletes
  BY RequestsAreDistinct DEF Post
<1>2. Fits(r, txn[r], Wording(turn[r]), convo = "deleted") /\ Shaped(txn[r])
      /\ txn[r].pc = "loaded" /\ Shape
  BY DEF IInv, Shape, Post
<1>3. /\ txn' = [txn EXCEPT ![r] = txn'[r]]
      /\ txn'[r].pc = "posted" /\ Shaped(txn'[r])
  BY <1>2 DEF Post, Shape, Shaped, Place
<1>4. x \in AgentMessage /\ AsTold(x) = x /\ ~ Abstract!Final(x)
      /\ x.role = "user" /\ x \in Messageish
  BY BoundsAreNatural
     DEF AgentMessage, Row, AsTold, Abstract!Final, Messageish, Text
<1>5. Wording(turn'[r]) = Append(<<>>, x)
  BY <1>2, <1>4, Stored DEF Post, Fits
<1>6. LET m == Wording(turn'[r]) IN
        Abstract!Paired(m) /\ GoesOn(m) /\ m # <<>> /\ m[1].role = "user"
  BY <1>4, <1>5 DEF GoesOn, Abstract!Paired
<1>7. Fits(r, txn'[r], Wording(turn'[r]), convo = "deleted")
  BY <1>1, <1>3, <1>6 DEF Fits, PlacesOf, Place, Begins
<1>8. convo' = convo /\ convo = "live"
  BY DEF Post
<1>9. turn' = [turn EXCEPT ![r] = turn'[r]] /\ turn'[r] \in Seq(AgentMessage)
  BY <1>4, Stored DEF Post
<1> QED
  BY <1>1, <1>3, <1>7, <1>8, <1>9, OwnStep

LEMMA BuildHistoryInvariant ==
  ASSUME IInv, NEW r \in Request, BuildHistory(r) PROVE IInv'
<1>1. Fits(r, txn[r], Wording(turn[r]), convo = "deleted") /\ Shaped(txn[r])
      /\ txn[r].pc = "posted" /\ Shape
  BY DEF IInv, Shape, BuildHistory
<1>2. r # Opening /\ r \in Sends /\ r \notin Deletes
  BY <1>1 DEF Fits, PlacesOf, Request
<1>3. /\ txn' = [txn EXCEPT ![r] = txn'[r]]
      /\ txn'[r].pc = "chat" /\ Shaped(txn'[r])
  BY <1>1 DEF BuildHistory, Shape, Shaped, Place
<1>4. Fits(r, txn'[r], Wording(turn'[r]), convo = "deleted")
  BY <1>1, <1>2, <1>3, Unstored DEF Fits, BuildHistory, PlacesOf, Place
<1>5. convo' = convo /\ turn' = turn /\ convo # "deleted"
  BY <1>1, <1>2 DEF BuildHistory, IInv, NothingOutlivesDeletion
<1> QED
  BY <1>2, <1>3, <1>4, <1>5, OwnStep, Unstored

-----------------------------------------------------------------------------
(* The agent loop.                                                         *)

(* Whoever is in the loop, or about to commit, keeps the conversation.     *)
LEMMA InTurn ==
  ASSUME IInv, NEW r \in Request,
         txn[r].pc \in {"chat", "tools", "commit"}
  PROVE  /\ convo # "deleted" /\ r \notin Deletes
         /\ r = Opening => convo = "none" /\ r \notin Sends
         /\ r # Opening => r \in Sends
         /\ Fits(r, txn[r], Wording(turn[r]), FALSE)
         /\ Shaped(txn[r]) /\ Shape
         /\ r = Opening => txn[r].working \in Seq(Messageish)
<1>1. Fits(r, txn[r], Wording(turn[r]), convo = "deleted")
      /\ Shaped(txn[r]) /\ Shape
  BY DEF IInv, Shape
<1>2. r \notin Deletes
  BY <1>1 DEF Fits, PlacesOf
<1>3. r = Opening => convo = "none" /\ r \notin Sends
  BY RequestsAreDistinct DEF IInv, OpeningFirst
<1>4. r # Opening => r \in Sends
  BY <1>2 DEF Request
<1>5. convo # "deleted"
  BY <1>3, <1>4 DEF IInv, NothingOutlivesDeletion
<1> QED
  BY <1>1, <1>2, <1>3, <1>4, <1>5 DEF Fits

LEMMA AppendIsNotEmpty ==
  ASSUME NEW s \in Seq(Messageish), NEW x \in Messageish
  PROVE  Append(s, x) \in Seq(Messageish) /\ Append(s, x) # <<>>
<1>1. Append(s, x) \in Seq(Messageish) /\ Len(s) \in Nat
  OBVIOUS
<1>2. Len(Append(s, x)) = Len(s) + 1 /\ Len(<<>>) = 0
  OBVIOUS
<1> QED
  BY <1>1, <1>2

(* Messages that go on begin the same way.                                 *)
LEMMA AppendBegins ==
  ASSUME NEW r \in Request, NEW m \in Seq(Messageish), NEW x \in Messageish,
         Begins(r, m) \/ (r = Opening /\ m = <<>> /\ x.role = "assistant")
  PROVE  Begins(r, Append(m, x))
<1>1. Append(m, x) # <<>> /\ Len(m) \in Nat /\ (m = <<>> <=> Len(m) = 0)
  OBVIOUS
<1>2. CASE m = <<>>
  <2>1. Append(m, x)[1] = x
    BY <1>2
  <2> QED
    BY <1>1, <1>2, <2>1 DEF Begins
<1>3. CASE m # <<>>
  <2>1. Append(m, x)[1] = m[1]
    BY <1>1, <1>3
  <2> QED
    BY <1>1, <1>3, <2>1 DEF Begins
<1> QED
  BY <1>2, <1>3

LEMMA SaidType == Said \subseteq {"words", "empty"}
BY DEF Said

(* The row a reply is stored as calls what the reply calls.                *)
LEMMA ReplyRow ==
  ASSUME NEW calls \in 0..MaxTools, NEW said \in Said
  PROVE  LET x == AsStored(Reply(calls, said)) IN
           /\ x \in AgentMessage /\ AsTold(x) = x
           /\ x.role = "assistant" /\ x.number = calls /\ x.text # "empty"
           /\ Reply(calls, said) \in ChatMessage
<1> DEFINE x == AsStored(Reply(calls, said))
<1>1. said \in {"words", "empty"}
  BY SaidType
<1>2. x = [role |-> "assistant", number |-> calls,
           text |-> IF said = "empty" THEN "placeholder" ELSE said]
  BY DEF AsStored, Reply
<1>3. Reply(calls, said) = [role |-> "assistant", number |-> calls, text |-> said]
  BY DEF Reply
<1> HIDE DEF x
<1>4. x \in AgentMessage /\ AsTold(x) = x
  BY <1>1, <1>2 DEF AgentMessage, AsTold, Text
<1>5. x.role = "assistant" /\ x.number = calls /\ x.text # "empty"
  BY <1>1, <1>2
<1>6. Reply(calls, said) \in ChatMessage
  BY <1>1, <1>3 DEF ChatMessage, Text
<1> QED
  BY <1>4, <1>5, <1>6 DEF x

LEMMA ChatIsMessageish == ChatMessage \subseteq Messageish
BY BoundsAreNatural DEF ChatMessage, Messageish

LEMMA FallbackRow ==
  LET x == Row("assistant", 0) IN
    /\ x \in AgentMessage /\ AsTold(x) = x
    /\ x.role = "assistant" /\ x.number = 0 /\ x.text # "empty"
BY BoundsAreNatural DEF AgentMessage, Row, AsTold, Text

(* The row that ends a turn, the model's answer or the fallback.           *)
LEMMA EndsTurn ==
  ASSUME IInv, NEW r \in Request, txn[r].pc = "chat",
         NEW x \in AgentMessage, AsTold(x) = x,
         x.role = "assistant", x.number = 0, Insert(r, x),
         txn' = [txn EXCEPT ![r] = txn'[r]], Shaped(txn'[r]),
         txn'[r].pc = "commit", txn'[r].working = txn[r].working,
         UNCHANGED convo
  PROVE  IInv'
<1> DEFINE m == Wording(turn[r])
<1>1. x \in AgentMessage /\ AsTold(x) = x /\ x.role = "assistant"
  OBVIOUS
<1>2. /\ turn' = [turn EXCEPT ![r] = turn'[r]]
      /\ turn'[r] \in Seq(AgentMessage)
      /\ Wording(turn'[r]) = Append(m, x)
      /\ m \in Seq(Messageish) /\ x \in Messageish
  BY <1>1, Stored
<1>3. Abstract!Paired(m) /\ GoesOn(m)
      /\ (Begins(r, m) \/ (r = Opening /\ m = <<>>))
  BY InTurn DEF Fits
<1>4. Whole(r, Append(m, x))
  BY <1>1, <1>2, <1>3, AppendAnswer, AppendBegins DEF Whole
<1>5. Fits(r, txn'[r], Wording(turn'[r]), convo = "deleted")
  BY <1>2, <1>4, InTurn DEF Fits, PlacesOf, Place
<1> QED
  BY <1>2, <1>5, InTurn, OwnStep

LEMMA AnswerInvariant ==
  ASSUME IInv, NEW r \in Request, NEW said \in Said, Answer(r, said)
  PROVE  IInv'
<1> DEFINE x == AsStored(Reply(0, said))
<1>1. Shaped(txn[r]) /\ Shape /\ txn[r].pc = "chat"
  BY DEF IInv, Shape, Answer
<1>2. /\ txn' = [txn EXCEPT ![r] = txn'[r]]
      /\ txn'[r].pc = "commit" /\ txn'[r].working = txn[r].working
      /\ Shaped(txn'[r])
  BY <1>1 DEF Answer, Shape, Shaped, Place
<1>3. /\ x \in AgentMessage /\ AsTold(x) = x
      /\ x.role = "assistant" /\ x.number = 0
  BY BoundsAreNatural, ReplyRow
<1>4. Insert(r, x) /\ UNCHANGED convo
  BY DEF Answer
<1> HIDE DEF x
<1> QED
  BY <1>1, <1>2, <1>3, <1>4, EndsTurn

LEMMA GiveUpInvariant ==
  ASSUME IInv, NEW r \in Request, GiveUp(r) PROVE IInv'
<1>1. Shaped(txn[r]) /\ Shape /\ txn[r].pc = "chat"
  BY DEF IInv, Shape, GiveUp
<1>2. /\ txn' = [txn EXCEPT ![r] = txn'[r]]
      /\ txn'[r].pc = "commit" /\ txn'[r].working = txn[r].working
      /\ Shaped(txn'[r])
  BY <1>1 DEF GiveUp, Shape, Shaped, Place
<1> QED
  BY <1>1, <1>2, FallbackRow, EndsTurn DEF GiveUp

LEMMA CallToolsInvariant ==
  ASSUME IInv, NEW r \in Request, NEW calls \in 1..MaxTools,
         NEW said \in Said, CallTools(r, calls, said)
  PROVE  IInv'
<1> DEFINE y == Reply(calls, said)
           x == AsStored(y)
           m == Wording(turn[r])
<1>0. calls \in Nat \ {0} /\ calls \in 0..MaxTools
  BY BoundsAreNatural
<1>1. /\ x \in AgentMessage /\ AsTold(x) = x /\ x.role = "assistant"
      /\ x.number = calls /\ ~ Abstract!Final(x) /\ x.role # "user"
      /\ y \in Messageish
  BY <1>0, ReplyRow, ChatIsMessageish DEF Abstract!Final
<1>2. /\ turn' = [turn EXCEPT ![r] = turn'[r]]
      /\ turn'[r] \in Seq(AgentMessage)
      /\ Wording(turn'[r]) = Append(m, x)
      /\ m \in Seq(Messageish) /\ x \in Messageish
  <2>1. Insert(r, x)
    BY DEF CallTools
  <2> HIDE DEF x
  <2> QED
    BY <1>1, <2>1, Stored
<1>3. txn[r].pc = "chat"
  BY DEF CallTools
<1>4. Abstract!Paired(m) /\ GoesOn(m)
      /\ (Begins(r, m) \/ (r = Opening /\ m = <<>>))
  BY <1>3, InTurn DEF Fits
<1>5. /\ txn' = [txn EXCEPT ![r] = txn'[r]]
      /\ txn'[r].pc = "tools" /\ Shaped(txn'[r])
      /\ txn'[r].asked = calls /\ txn'[r].answered = 0
      /\ txn'[r].working = Append(txn[r].working, y)
  <2> DEFINE t == [pc |-> "tools", iteration |-> txn[r].iteration + 1,
                   asked |-> calls, answered |-> 0,
                   working |-> Append(txn[r].working, y)]
  <2>1. txn' = [txn EXCEPT ![r] = t]
    BY Zenon DEF CallTools, Told
  <2>2. /\ Shaped(t) /\ t.pc = "tools" /\ t.asked = calls /\ t.answered = 0
        /\ t.working = Append(txn[r].working, y)
    <3> HIDE DEF y
    <3> QED
      BY <1>0 DEF Shaped, Place
  <2> HIDE DEF y, t
  <2> QED
    BY <1>3, <2>1, <2>2, Replaced, InTurn
<1>6. r = Opening => /\ txn'[r].working \in Seq(Messageish)
                     /\ txn'[r].working # <<>>
  <2> HIDE DEF y
  <2> QED
    BY <1>1, <1>3, <1>5, InTurn, AppendIsNotEmpty
<1>7. /\ Pending(Append(m, x), calls, 0) /\ GoesOn(Append(m, x))
      /\ Begins(r, Append(m, x))
  <2> HIDE DEF x
  <2> QED
    BY <1>0, <1>1, <1>2, <1>4, AppendCalls, AppendGoesOn, AppendBegins
<1>8. Fits(r, txn'[r], Wording(turn'[r]), convo = "deleted")
  BY <1>2, <1>3, <1>5, <1>6, <1>7, InTurn DEF Fits, PlacesOf, Place
<1>9. UNCHANGED convo
  BY DEF CallTools
<1> QED
  BY <1>2, <1>3, <1>5, <1>8, <1>9, InTurn, OwnStep

LEMMA RunToolInvariant ==
  ASSUME IInv, NEW r \in Request, RunTool(r) PROVE IInv'
<1> DEFINE ran == txn[r].answered + 1
           x == Row("system", ran)
           w == Row("tool", ran)
           m == Wording(turn[r])
           p == IF ran = txn[r].asked THEN "chat" ELSE "tools"
           t == [pc |-> p, iteration |-> txn[r].iteration,
                 asked |-> txn[r].asked, answered |-> ran,
                 working |-> Append(txn[r].working, w)]
<1>1. txn[r].pc = "tools"
  BY DEF RunTool
<1>2. /\ Pending(m, txn[r].asked, txn[r].answered) /\ GoesOn(m)
      /\ Begins(r, m) /\ Shape /\ Shaped(txn[r])
  BY <1>1, InTurn DEF Fits
<1>3. ran \in 0..MaxTools /\ ran \in Nat
  BY <1>2, BoundsAreNatural DEF Pending, Shaped
<1>4. /\ x \in AgentMessage /\ AsTold(x) = w /\ ~ Abstract!Final(w)
      /\ w.role # "user"
  BY <1>3 DEF AgentMessage, Row, AsTold, Abstract!Final, Text
<1>5. Insert(r, x)
  BY DEF RunTool
<1>6. /\ turn' = [turn EXCEPT ![r] = turn'[r]]
      /\ turn'[r] \in Seq(AgentMessage)
      /\ Wording(turn'[r]) = Append(m, w)
      /\ m \in Seq(Messageish) /\ w \in Messageish
  BY <1>4, <1>5, Stored
<1>7. txn' = [txn EXCEPT ![r] = t]
  BY Zenon DEF RunTool, Told
<1>8. /\ txn' = [txn EXCEPT ![r] = txn'[r]] /\ Shaped(txn'[r])
      /\ txn'[r].pc = p
      /\ txn'[r].asked = txn[r].asked /\ txn'[r].answered = ran
      /\ txn'[r].working = Append(txn[r].working, w)
  <2>1. p \in Place /\ txn[r].asked \in 0..MaxTools
    BY <1>2 DEF Place, Shaped
  <2>2. /\ Shaped(t) /\ t.pc = p /\ t.asked = txn[r].asked
        /\ t.answered = ran /\ t.working = Append(txn[r].working, w)
    <3> HIDE DEF w, ran, p
    <3> QED
      BY <2>1 DEF Shaped
  <2> HIDE DEF w, ran, p, t
  <2> QED
    BY <1>2, <1>7, <2>2, Replaced
<1>9. r = Opening => /\ txn'[r].working \in Seq(Messageish)
                     /\ txn'[r].working # <<>>
  BY <1>1, <1>6, <1>8, InTurn, AppendIsNotEmpty
<1>10. /\ IF ran = txn[r].asked THEN Abstract!Paired(Append(m, w))
                                ELSE Pending(Append(m, w), txn[r].asked, ran)
       /\ GoesOn(Append(m, w)) /\ Begins(r, Append(m, w))
  BY <1>2, <1>4, <1>6, AppendResult, AppendGoesOn, AppendBegins
<1>11. Fits(r, txn'[r], Wording(turn'[r]), convo = "deleted")
  <2> HIDE DEF w, ran, m
  <2> QED
    BY <1>1, <1>6, <1>8, <1>9, <1>10, InTurn DEF Fits, PlacesOf, Place
<1>12. UNCHANGED convo
  BY DEF RunTool
<1> QED
  BY <1>1, <1>6, <1>8, <1>11, <1>12, InTurn, OwnStep

-----------------------------------------------------------------------------
(* How requests end.                                                       *)

LEMMA CommitInvariant ==
  ASSUME IInv, NEW r \in Request, Commit(r) PROVE IInv'
<1>1. txn[r].pc = "commit" /\ turn' = turn
  BY DEF Commit
<1>2. Shape /\ Shaped(txn[r]) /\ Fits(r, txn[r], Wording(turn[r]), FALSE)
  BY <1>1, InTurn
<1>3. /\ txn' = [txn EXCEPT ![r] = txn'[r]]
      /\ txn'[r].pc = "done" /\ txn'[r].working = txn[r].working
      /\ Shaped(txn'[r])
  BY <1>1, <1>2 DEF Commit, Shape, Shaped, Place
<1>4. Fits(r, txn'[r], Wording(turn'[r]), convo = "deleted")
  BY <1>1, <1>2, <1>3, InTurn, Unstored DEF Fits, PlacesOf, Place, Speaks
<1>5. convo' = convo \/ (r = Opening /\ convo = "none" /\ convo' = "live")
  BY <1>1, InTurn DEF Commit
<1> QED
  BY <1>1, <1>3, <1>4, <1>5, InTurn, OwnStep, Unstored

LEMMA RollbackInvariant ==
  ASSUME IInv, NEW r \in Request, Rollback(r) PROVE IInv'
<1>1. Shape /\ Shaped(txn[r])
      /\ Fits(r, txn[r], Wording(turn[r]), convo = "deleted")
  BY DEF IInv, Shape
<1>2. /\ txn' = [txn EXCEPT ![r] = txn'[r]]
      /\ txn'[r].pc = "failed" /\ txn'[r].working = txn[r].working
      /\ Shaped(txn'[r])
  BY <1>1 DEF Rollback, Shape, Shaped, Place
<1>3. /\ turn' = [turn EXCEPT ![r] = turn'[r]] /\ turn'[r] = <<>>
      /\ turn'[r] \in Seq(AgentMessage)
  BY <1>1 DEF Rollback, Shape
<1>4. Fits(r, txn'[r], Wording(turn'[r]), convo = "deleted")
  BY <1>1, <1>2, <1>3, EmptyWording DEF Fits, PlacesOf, Place
<1>5. UNCHANGED convo /\ (r = Opening => convo = "none")
  BY DEF Rollback, Busy, Ended, IInv, OpeningFirst
<1> QED
  BY <1>2, <1>3, <1>4, <1>5, OwnStep

(* The deletion finds no turn that has stored a message and may go on.     *)
LEMMA DeleteInvariant ==
  ASSUME IInv, NEW r \in Request, Delete(r) PROVE IInv'
<1>1. /\ r \in Deletes /\ r # Opening /\ r \notin Sends
      /\ Opening \in Request /\ Opening \notin Sends /\ Opening \notin Deletes
  BY RequestsAreDistinct DEF Delete, Request
<1>2. Shape /\ Shaped(txn[r]) /\ OpeningFirst /\ txn[r].pc = "loaded"
  BY DEF IInv, Shape, Delete
<1>3. convo # "none" /\ txn[Opening].pc = "done"
  BY <1>1, <1>2 DEF OpeningFirst
<1>4. /\ txn' = [txn EXCEPT ![r] = txn'[r]] /\ txn'[r].pc = "done"
      /\ Shaped(txn'[r])
  BY <1>2 DEF Delete, Shape, Shaped, Place
<1>5. \A q \in Request \ {r} : txn'[q] = txn[q]
  BY <1>2, <1>4 DEF Shape
<1>6. turn' = [q \in Request |-> <<>>] /\ convo' = "deleted"
  BY DEF Delete, DeleteMessages
<1>7. ASSUME NEW q \in Sends
      PROVE  txn[q].pc \notin {"posted", "chat", "tools", "commit"}
  <2>1. q \in Request \ {r} /\ q # Opening
    BY <1>1 DEF Request
  <2>2. ASSUME txn[q].pc \in {"posted", "chat", "tools", "commit"}
        PROVE  FALSE
    <3>1. Wording(turn[q]) # <<>>
      BY <2>1, <2>2 DEF IInv, Fits, Begins, Whole, Speaks
    <3>2. turn[q] # <<>>
      BY <3>1, EmptyWording
    <3>3. LocksConversation(q)
      BY <2>2, <3>2 DEF LocksConversation, Busy, Ended
    <3> QED
      BY <2>1, <3>3 DEF Delete
  <2> QED
    BY <2>2
<1>8. \A q \in Request : Fits(q, txn'[q], Wording(turn'[q]), convo' = "deleted")
  <2> SUFFICES ASSUME NEW q \in Request
               PROVE  Fits(q, txn'[q], <<>>, TRUE)
    BY <1>6, EmptyWording
  <2>1. CASE q = r
    BY <1>1, <1>4, <2>1 DEF Fits, PlacesOf
  <2>2. CASE q # r
    <3>1. txn'[q] = txn[q]
          /\ Fits(q, txn[q], Wording(turn[q]), convo = "deleted")
      BY <1>5, <2>2 DEF IInv
    <3>2. CASE q \in Sends
      BY <1>1, <1>7, <3>1, <3>2 DEF Fits
    <3>3. CASE q \in Deletes
      BY <1>1, <3>1, <3>3 DEF Fits, PlacesOf
    <3>4. CASE q = Opening
      BY <1>1, <1>3, <3>1, <3>4 DEF Fits
    <3> QED
      BY <3>2, <3>3, <3>4 DEF Request
  <2> QED
    BY <2>1, <2>2
<1>9. Shape'
  <2>1. turn' \in [Request -> Seq(AgentMessage)]
    BY <1>6
  <2>2. txn' = [q \in Request |-> txn'[q]] /\ \A q \in Request : Shaped(txn'[q])
    BY <1>2, <1>4, <1>5 DEF Shape
  <2> QED
    BY <1>6, <2>1, <2>2 DEF Shape, Shaped
<1>10. OpeningFirst'
  BY <1>1, <1>3, <1>5, <1>6 DEF OpeningFirst
<1>11. NothingOutlivesDeletion'
  <2>1. \A q \in Sends : q \in Request \ {r}
    BY <1>1 DEF Request
  <2> QED
    BY <1>5, <1>6, <1>7, <2>1 DEF NothingOutlivesDeletion
<1> QED
  BY <1>8, <1>9, <1>10, <1>11 DEF IInv, Fits

-----------------------------------------------------------------------------
(* Theorems.                                                               *)

LEMMA NextInvariant == IInv /\ [Next]_vars => IInv'
<1> SUFFICES ASSUME IInv, [Next]_vars PROVE IInv'
  OBVIOUS
<1>1. CASE UNCHANGED vars
  BY <1>1 DEF vars, IInv, Shape, Shaped, Fits, OpeningFirst,
              NothingOutlivesDeletion
<1>2. CASE Next
  <2>1. PICK r \in Request : Begin(r) \/ Advance(r) \/ Rollback(r)
    BY <1>2 DEF Next
  <2>2. CASE Begin(r)
    BY <2>2, CreateInvariant, LoadInvariant DEF Begin
  <2>3. CASE Advance(r)
    <3>1. CASE r = Opening /\ Kickoff
      BY <3>1, KickoffInvariant
    <3>2. CASE Refuse(r)
      BY <3>2, RefuseInvariant
    <3>3. CASE Post(r)
      BY <3>3, PostInvariant
    <3>4. CASE BuildHistory(r)
      BY <3>4, BuildHistoryInvariant
    <3>5. CASE \E said \in Said : Answer(r, said)
      BY <3>5, AnswerInvariant
    <3>6. CASE \E said \in Said, calls \in 1..MaxTools :
                 CallTools(r, calls, said)
      BY <3>6, CallToolsInvariant
    <3>7. CASE RunTool(r)
      BY <3>7, RunToolInvariant
    <3>8. CASE GiveUp(r)
      BY <3>8, GiveUpInvariant
    <3>9. CASE Commit(r)
      BY <3>9, CommitInvariant
    <3>10. CASE Delete(r)
      BY <3>10, DeleteInvariant
    <3> QED
      BY <2>3, <3>1, <3>2, <3>3, <3>4, <3>5, <3>6, <3>7, <3>8, <3>9, <3>10
         DEF Advance
  <2>4. CASE Rollback(r)
    BY <2>4, RollbackInvariant
  <2> QED
    BY <2>1, <2>2, <2>3, <2>4
<1> QED
  BY <1>1, <1>2

LEMMA InvariantHolds == Spec => []IInv
<1>1. Init => IInv
  BY InitInvariant
<1>2. IInv /\ [Next]_vars => IInv'
  BY NextInvariant
<1> QED
  BY <1>1, <1>2, PTL DEF Spec

(* A deleted conversation has no message, of whatever turn, and no turn    *)
(* that has stored one can still commit (delete_conversation beside        *)
(* send_message).                                                          *)
THEOREM NothingOutlivesDeletionHolds == Spec => []NothingOutlivesDeletion
<1>1. IInv => NothingOutlivesDeletion
  BY DEF IInv
<1> QED
  BY <1>1, InvariantHolds, PTL

(* A committed turn is whole: its calls answered in their order, the       *)
(* user's message first and the agent's answer last, however many turns    *)
(* and deletions overlap with it (_run_agent_loop, send_message,           *)
(* create_conversation).                                                   *)
THEOREM TurnsAreWholeHolds == Spec => []TurnsAreWhole
<1>1. ASSUME IInv, convo = "live", NEW r \in Committed, Speaks(r, txn[r])
      PROVE  /\ Abstract!WholeTurn(Messages(r))
             /\ turn[r][1].role = IF r = Opening THEN "assistant" ELSE "user"
  <2>1. r \in Request /\ txn[r].pc = "done"
    BY DEF Committed
  <2>2. Whole(r, Wording(turn[r])) /\ turn[r] \in Seq(AgentMessage)
    BY <1>1, <2>1 DEF IInv, Fits, Shape
  <2>3. /\ Len(turn[r]) \in Nat /\ turn[r] # <<>>
        /\ Wording(turn[r])[1].role = IF r = Opening THEN "assistant" ELSE "user"
    BY <2>2, EmptyWording DEF Whole, Begins
  <2>4. Len(turn[r]) >= 1
    BY <2>2, <2>3
  <2>5. Wording(turn[r])[1] = AsTold(turn[r][1])
    BY <2>2, <2>4, WordingOK
  <2>6. turn[r][1].role = IF r = Opening THEN "assistant" ELSE "user"
    BY <2>3, <2>5 DEF AsTold, Row
  <2> QED
    BY <2>1, <2>2, <2>6, MessagesAreWording DEF Whole
<1>2. IInv => TurnsAreWhole
  <2> SUFFICES ASSUME IInv, convo = "live", NEW r \in Committed
               PROVE  /\ r \in Sends => /\ Abstract!WholeTurn(Messages(r))
                                        /\ turn[r][1].role = "user"
                      /\ r = Opening /\ txn[r].working # <<>> =>
                           /\ Abstract!WholeTurn(Messages(r))
                           /\ turn[r][1].role = "assistant"
    BY Zenon DEF TurnsAreWhole
  <2> QED
    BY <1>1, RequestsAreDistinct DEF Speaks
<1> QED
  BY <1>2, InvariantHolds, PTL

-----------------------------------------------------------------------------
(* Types.  A place in created_at order is that of a row its request has    *)
(* inserted and not taken back.                                            *)
PlacesMatch ==
  \A i \in 1..Len(order) : order[i].nth \in 1..Len(turn[order[i].by])

TypeInv == TypeOK /\ PlacesMatch

Written == [by : Request, nth : Nat]

LEMMA HistoryType ==
  ASSUME TypeInv, NEW R
  PROVE  History(R) \in Seq(ChatMessage)
<1> DEFINE s == [i \in DOMAIN order |-> AsTold(StoredRow(i))]
<1>1. order \in Seq(Written) /\ turn \in [Request -> Seq(AgentMessage)]
  BY DEF TypeInv, TypeOK, Written
<1>2. ASSUME NEW i \in 1..Len(order)
      PROVE  AsTold(StoredRow(i)) \in ChatMessage
  <2>1. order[i] \in Written /\ order[i].nth \in 1..Len(turn[order[i].by])
    BY <1>1 DEF TypeInv, PlacesMatch
  <2>2. turn[order[i].by] \in Seq(AgentMessage)
    BY <1>1, <2>1 DEF Written
  <2>3. StoredRow(i) \in AgentMessage
    BY <2>1, <2>2 DEF StoredRow
  <2> QED
    BY <2>3 DEF AsTold, Row, AgentMessage, ChatMessage, Text
<1>3. s \in Seq(ChatMessage) /\ Len(s) = Len(order)
  BY <1>1, <1>2
<1>4. \A i \in 1..Len(s) : s[i] \in ChatMessage
  BY <1>3
<1> HIDE DEF s
<1>5. Selected(s, Visible(R)) \in Seq(ChatMessage)
  BY <1>3, <1>4, SelectedType
<1> QED
  BY <1>5 DEF History, s

LEMMA InsertType ==
  ASSUME TypeInv, NEW r \in Request, NEW x \in AgentMessage, Insert(r, x)
  PROVE  /\ turn' \in [Request -> Seq(AgentMessage)]
         /\ order' \in Seq(Written)
         /\ PlacesMatch'
<1>1. order \in Seq(Written) /\ turn \in [Request -> Seq(AgentMessage)]
  BY DEF TypeInv, TypeOK, Written
<1> DEFINE p == [by |-> r, nth |-> Len(turn[r]) + 1]
<1>2. turn[r] \in Seq(AgentMessage) /\ Len(turn[r]) \in Nat
  BY <1>1
<1>3. /\ turn' = [turn EXCEPT ![r] = Append(turn[r], x)]
      /\ order' = Append(order, p)
  BY DEF Insert
<1>4. p \in Written /\ p.by = r /\ p.nth = Len(turn[r]) + 1
  BY <1>2 DEF Written
<1>5. turn' \in [Request -> Seq(AgentMessage)]
  BY <1>1, <1>2, <1>3
<1>6. /\ \A q \in Request \ {r} : turn'[q] = turn[q]
      /\ Len(turn'[r]) = Len(turn[r]) + 1
  BY <1>1, <1>2, <1>3
<1> HIDE DEF p
<1>7. /\ order' \in Seq(Written) /\ Len(order') = Len(order) + 1
      /\ \A i \in 1..Len(order) : order'[i] = order[i]
      /\ order'[Len(order) + 1] = p /\ Len(order) \in Nat
  BY <1>1, <1>3, <1>4
<1>8. ASSUME NEW i \in 1..Len(order')
      PROVE  order'[i].nth \in 1..Len(turn'[order'[i].by])
  <2>1. CASE i = Len(order) + 1
    BY <1>2, <1>4, <1>6, <1>7, <2>1
  <2>2. CASE i # Len(order) + 1
    <3>1. i \in 1..Len(order) /\ order'[i] = order[i] /\ order[i] \in Written
      BY <1>1, <1>7, <2>2
    <3>2. order[i].nth \in 1..Len(turn[order[i].by]) /\ order[i].by \in Request
      BY <3>1 DEF TypeInv, PlacesMatch, Written
    <3>3. CASE order[i].by = r
      BY <1>2, <1>6, <3>1, <3>2, <3>3
    <3>4. CASE order[i].by # r
      BY <1>6, <3>1, <3>2, <3>4
    <3> QED
      BY <3>3, <3>4
  <2> QED
    BY <2>1, <2>2
<1> QED
  BY <1>5, <1>7, <1>8 DEF PlacesMatch

LEMMA RollbackType ==
  ASSUME TypeInv, NEW r \in Request, Rollback(r)
  PROVE  /\ turn' \in [Request -> Seq(AgentMessage)]
         /\ order' \in Seq(Written)
         /\ PlacesMatch'
<1>1. order \in Seq(Written) /\ turn \in [Request -> Seq(AgentMessage)]
  BY DEF TypeInv, TypeOK, Written
<1>2. turn' = [turn EXCEPT ![r] = <<>>]
      /\ order' = Selected(order, {i \in DOMAIN order : order[i].by # r})
  BY DEF Rollback
<1>3. turn' \in [Request -> Seq(AgentMessage)]
  BY <1>1, <1>2
<1>4. \A q \in Request \ {r} : turn'[q] = turn[q]
  BY <1>1, <1>2
<1> DEFINE P == {p \in Written : p.by # r /\ p.nth \in 1..Len(turn[p.by])}
<1>5. \A i \in 1..Len(order) : order[i].by # r => order[i] \in P
  BY <1>1 DEF TypeInv, PlacesMatch
<1>6. order' \in Seq(P)
  <2> DEFINE I == {i \in DOMAIN order : order[i].by # r}
  <2>1. \A i \in 1..Len(order) : i \in I => order[i] \in P
    BY <1>5
  <2> HIDE DEF I, P
  <2>2. Selected(order, I) \in Seq(P)
    BY <1>1, <2>1, SelectedType
  <2> QED
    BY <1>2, <2>2 DEF I
<1>7. order' \in Seq(Written)
  BY <1>6
<1>8. ASSUME NEW i \in 1..Len(order')
      PROVE  order'[i].nth \in 1..Len(turn'[order'[i].by])
  <2>1. order'[i] \in P
    BY <1>6
  <2> QED
    BY <1>4, <2>1 DEF Written
<1> QED
  BY <1>3, <1>7, <1>8 DEF PlacesMatch

LEMMA ResultNumber ==
  ASSUME IInv, NEW r \in Request, txn[r].pc = "tools"
  PROVE  txn[r].answered + 1 \in 0..MaxTools
<1>1. /\ Pending(Wording(turn[r]), txn[r].asked, txn[r].answered)
      /\ Shaped(txn[r])
  BY InTurn DEF Fits
<1> QED
  BY <1>1, BoundsAreNatural DEF Pending, Shaped

(* The rows and their places, whatever the step.                           *)
LEMMA RowsType ==
  ASSUME IInv, TypeInv, [Next]_vars
  PROVE  /\ turn' \in [Request -> Seq(AgentMessage)]
         /\ order' \in Seq(Written)
         /\ PlacesMatch'
<1>1. order \in Seq(Written) /\ turn \in [Request -> Seq(AgentMessage)]
      /\ PlacesMatch
  BY DEF TypeInv, TypeOK, Written
<1>2. CASE UNCHANGED <<order, turn>>
  BY <1>1, <1>2 DEF PlacesMatch
<1>3. ASSUME NEW r \in Request, NEW x \in AgentMessage, Insert(r, x)
      PROVE  /\ turn' \in [Request -> Seq(AgentMessage)]
             /\ order' \in Seq(Written)
             /\ PlacesMatch'
  BY <1>3, InsertType
<1>4. /\ Row("user", 0) \in AgentMessage
      /\ \A n \in 0..MaxTools : Row("system", n) \in AgentMessage
  BY BoundsAreNatural DEF AgentMessage, Row, Text
<1>5. 0 \in 0..MaxTools /\ 1..MaxTools \subseteq 0..MaxTools
  BY BoundsAreNatural
<1>6. CASE Next
  <2>1. PICK r \in Request : Begin(r) \/ Advance(r) \/ Rollback(r)
    BY <1>6 DEF Next
  <2>2. CASE Post(r)
    BY <1>3, <1>4, <2>2 DEF Post
  <2>3. CASE (\E said \in Said : Answer(r, said)) \/ GiveUp(r)
    BY <1>3, <1>5, <2>3, ReplyRow, FallbackRow DEF Answer, GiveUp
  <2>4. CASE \E said \in Said, calls \in 1..MaxTools :
               CallTools(r, calls, said)
    BY <1>3, <1>5, <2>4, ReplyRow DEF CallTools
  <2>5. CASE RunTool(r)
    <3>1. txn[r].pc = "tools"
      BY <2>5 DEF RunTool
    <3>2. txn[r].answered + 1 \in 0..MaxTools
      BY <3>1, ResultNumber
    <3> QED
      BY <1>3, <1>4, <2>5, <3>2 DEF RunTool
  <2>6. CASE Rollback(r)
    BY <2>6, RollbackType
  <2>7. CASE Delete(r)
    <3>1. order' = <<>> /\ turn' = [q \in Request |-> <<>>]
      BY <2>7 DEF Delete, DeleteMessages
    <3> QED
      BY <3>1 DEF PlacesMatch
  <2>8. CASE UNCHANGED <<order, turn>>
    BY <1>2, <2>8
  <2>9. ASSUME Begin(r) \/ (r = Opening /\ Kickoff) \/ Refuse(r)
               \/ BuildHistory(r) \/ Commit(r)
        PROVE  UNCHANGED <<order, turn>>
    BY <2>9 DEF Begin, Create, Load, Kickoff, Refuse, BuildHistory, Commit
  <2> QED
    BY <2>1, <2>2, <2>3, <2>4, <2>5, <2>6, <2>7, <2>8, <2>9 DEF Advance
<1>7. CASE UNCHANGED vars
  BY <1>2, <1>7 DEF vars
<1> QED
  BY <1>6, <1>7

(* Only the place changes.                                                 *)
LEMMA PlaceType ==
  ASSUME TypeInv, NEW r \in Request, NEW pc \in Place,
         txn' = [txn EXCEPT ![r].pc = pc]
  PROVE  txn' \in [Request -> Txn]
<1>1. txn \in [Request -> Txn] /\ txn[r] \in Txn
  BY DEF TypeInv, TypeOK
<1>2. [txn[r] EXCEPT !.pc = pc] \in Txn
  BY <1>1 DEF Txn
<1> QED
  BY <1>1, <1>2

LEMMA TxnType ==
  ASSUME IInv, TypeInv, NEW r \in Request,
         Begin(r) \/ Advance(r) \/ Rollback(r)
  PROVE  txn' \in [Request -> Txn]
<1>1. txn \in [Request -> Txn] /\ txn[r] \in Txn
  BY DEF TypeInv, TypeOK
<1>2. /\ txn[r].iteration \in 0..MaxIterations /\ txn[r].asked \in 0..MaxTools
      /\ txn[r].answered \in 0..MaxTools /\ txn[r].working \in Seq(ChatMessage)
  BY <1>1 DEF Txn
<1>3. /\ Row("user", 0) \in ChatMessage
      /\ \A n \in 0..MaxTools : Row("tool", n) \in ChatMessage
  BY BoundsAreNatural DEF ChatMessage, Row, Text
<1>4. ASSUME NEW t \in Txn, txn' = [txn EXCEPT ![r] = t]
      PROVE  txn' \in [Request -> Txn]
  BY <1>1, <1>4
<1>5. CASE Create /\ r = Opening
  BY <1>5, PlaceType DEF Create, Place
<1>6. CASE Load(r) \/ Refuse(r) \/ Post(r) \/ GiveUp(r) \/ Commit(r)
           \/ Rollback(r) \/ Delete(r)
  <2>1. \E pc \in Place : txn' = [txn EXCEPT ![r].pc = pc]
    BY <1>6 DEF Load, Refuse, Post, GiveUp, Commit, Rollback, Delete, Place
  <2> QED
    BY <2>1, PlaceType
<1>7. CASE r = Opening /\ Kickoff
  <2> DEFINE w == <<Row("user", 0)>>
  <2>1. txn' = [txn EXCEPT ![r] = [txn[r] EXCEPT !.pc = "chat", !.working = w]]
    BY <1>7 DEF Kickoff
  <2>2. w \in Seq(ChatMessage)
    BY <1>3
  <2> HIDE DEF w
  <2>3. [txn[r] EXCEPT !.pc = "chat", !.working = w] \in Txn
    BY <1>1, <2>2 DEF Txn, Place
  <2> QED
    BY <1>4, <2>1, <2>3
<1>8. CASE BuildHistory(r)
  <2> DEFINE h == History(Seen(r))
  <2>1. h \in Seq(ChatMessage)
    BY HistoryType
  <2>2. txn' = [txn EXCEPT ![r] = [txn[r] EXCEPT !.pc = "chat", !.working = h]]
    BY <1>8 DEF BuildHistory
  <2> HIDE DEF h
  <2>3. [txn[r] EXCEPT !.pc = "chat", !.working = h] \in Txn
    BY <1>1, <2>1 DEF Txn, Place
  <2> QED
    BY <1>4, <2>2, <2>3
<1>9. CASE \E said \in Said : Answer(r, said)
  <2>1. txn' = [txn EXCEPT ![r] = [txn[r] EXCEPT !.pc = "commit",
                                     !.iteration = txn[r].iteration + 1]]
    BY <1>9 DEF Answer
  <2>2. txn[r].iteration + 1 \in 0..MaxIterations
    BY <1>2, <1>9, BoundsAreNatural DEF Answer, IterationsLeft
  <2>3. [txn[r] EXCEPT !.pc = "commit", !.iteration = txn[r].iteration + 1]
          \in Txn
    BY <1>1, <2>2 DEF Txn, Place
  <2> QED
    BY <1>4, <2>1, <2>3
<1>10. ASSUME NEW said \in Said, NEW calls \in 1..MaxTools,
              CallTools(r, calls, said)
       PROVE  txn' \in [Request -> Txn]
  <2> DEFINE w == Append(txn[r].working, Reply(calls, said))
             t == [pc |-> "tools", iteration |-> txn[r].iteration + 1,
                   asked |-> calls, answered |-> 0, working |-> w]
  <2>1. txn' = [txn EXCEPT ![r] = t]
    BY <1>10, Zenon DEF CallTools, Told
  <2>2. calls \in 0..MaxTools /\ 0 \in 0..MaxTools
        /\ txn[r].iteration + 1 \in 0..MaxIterations
    BY <1>2, <1>10, BoundsAreNatural DEF CallTools, IterationsLeft
  <2>3. w \in Seq(ChatMessage)
    BY <1>2, <2>2, ReplyRow
  <2> HIDE DEF w
  <2>4. t \in Txn
    BY <2>2, <2>3 DEF Txn, Place
  <2> QED
    BY <1>4, <2>1, <2>4
<1>11. CASE RunTool(r)
  <2> DEFINE ran == txn[r].answered + 1
             p == IF ran = txn[r].asked THEN "chat" ELSE "tools"
             w == Append(txn[r].working, Row("tool", ran))
             t == [pc |-> p, iteration |-> txn[r].iteration,
                   asked |-> txn[r].asked, answered |-> ran, working |-> w]
  <2>1. txn' = [txn EXCEPT ![r] = t]
    BY <1>11, Zenon DEF RunTool, Told
  <2>2. ran \in 0..MaxTools
    <3>1. txn[r].pc = "tools"
      BY <1>11 DEF RunTool
    <3> QED
      BY <3>1, ResultNumber
  <2>3. w \in Seq(ChatMessage) /\ p \in Place
    BY <1>2, <1>3, <2>2 DEF Place
  <2> HIDE DEF w, p, ran
  <2>4. t \in Txn
    BY <1>2, <2>2, <2>3 DEF Txn
  <2> QED
    BY <1>4, <2>1, <2>4
<1> QED
  BY <1>5, <1>6, <1>7, <1>8, <1>9, <1>10, <1>11 DEF Begin, Advance

LEMMA TypeInvariant == IInv /\ TypeInv /\ [Next]_vars => TypeInv'
<1> SUFFICES ASSUME IInv, TypeInv, [Next]_vars PROVE TypeInv'
  OBVIOUS
<1>1. /\ turn' \in [Request -> Seq(AgentMessage)]
      /\ order' \in Seq([by : Request, nth : Nat])
      /\ PlacesMatch'
  BY RowsType DEF Written
<1>2. txn' \in [Request -> Txn]
  <2>1. CASE UNCHANGED vars
    BY <2>1 DEF vars, TypeInv, TypeOK
  <2>2. CASE Next
    BY <2>2, TxnType DEF Next
  <2> QED
    BY <2>1, <2>2
<1>3. convo' \in {"none", "live", "deleted"}
  BY NextInvariant DEF IInv, Shape
<1> QED
  BY <1>1, <1>2, <1>3 DEF TypeInv, TypeOK

LEMMA InitType == Init => TypeInv
<1> SUFFICES ASSUME Init PROVE TypeInv
  OBVIOUS
<1>1. Received \in Txn
  BY BoundsAreNatural DEF Received, Txn, Place
<1>2. TypeOK
  BY <1>1 DEF Init, TypeOK
<1>3. PlacesMatch
  BY DEF Init, PlacesMatch
<1> QED
  BY <1>2, <1>3 DEF TypeInv

(* The rows, their order and the progress of the requests are of their     *)
(* types, the lists rebuilt from other turns' rows among them, for any     *)
(* overlap of turns, rollbacks and deletions.                              *)
THEOREM TypeOKHolds == Spec => []TypeOK
<1>1. Init => TypeInv
  BY InitType
<1>2. IInv /\ TypeInv /\ [Next]_vars => TypeInv'
  BY TypeInvariant
<1>3. TypeInv => TypeOK
  BY DEF TypeInv
<1> QED
  BY <1>1, <1>2, <1>3, InvariantHolds, PTL DEF Spec

-----------------------------------------------------------------------------
(* c is what is selected by I among the first N of s: f tells where each   *)
(* of its elements stood.                                                  *)
Embeds(s, I, N, c, f) ==
  /\ \A j \in 1..Len(c) : f[j] \in 1..N /\ f[j] \in I /\ c[j] = s[f[j]]
  /\ \A j \in 1..Len(c) : \A i \in 1..(j - 1) : f[i] < f[j]
  /\ \A n \in 1..N : n \in I => \E j \in 1..Len(c) : f[j] = n

(* One more that is selected.                                              *)
LEMMA EmbedsOneMore ==
  ASSUME NEW X, NEW s \in Seq(X), NEW I, NEW N \in 0..(Len(s) - 1),
         N + 1 \in I, NEW c \in Seq(X), NEW f, Embeds(s, I, N, c, f)
  PROVE  \E g : Embeds(s, I, N + 1, Append(c, s[N + 1]), g)
<1> DEFINE L == Len(c)
           d == Append(c, s[N + 1])
           g == [j \in 1..(L + 1) |-> IF j = L + 1 THEN N + 1 ELSE f[j]]
<1>1. L \in Nat /\ N \in Nat /\ N + 1 \in 1..Len(s) /\ s[N + 1] \in X
  OBVIOUS
<1>2. /\ d \in Seq(X) /\ Len(d) = L + 1 /\ d[L + 1] = s[N + 1]
      /\ \A j \in 1..L : d[j] = c[j]
  BY <1>1
<1>3. /\ \A j \in 1..L : f[j] \in 1..N /\ f[j] \in I /\ c[j] = s[f[j]]
      /\ \A j \in 1..L : \A i \in 1..(j - 1) : f[i] < f[j]
      /\ \A n \in 1..N : n \in I => \E j \in 1..L : f[j] = n
  BY DEF Embeds
<1>4. g[L + 1] = N + 1 /\ \A j \in 1..L : g[j] = f[j]
  <2>1. L + 1 \in 1..(L + 1) /\ \A j \in 1..L : j \in 1..(L + 1) /\ j # L + 1
    BY <1>1
  <2> QED
    BY <2>1
<1> HIDE DEF L, d, g
<1>5. ASSUME NEW j \in 1..(L + 1)
      PROVE  /\ g[j] \in 1..(N + 1) /\ g[j] \in I /\ d[j] = s[g[j]]
             /\ \A i \in 1..(j - 1) : g[i] < g[j]
  <2>1. CASE j = L + 1
    <3>1. /\ g[j] = N + 1 /\ d[j] = s[N + 1]
          /\ \A i \in 1..(j - 1) : i \in 1..L
      BY <1>1, <1>2, <1>4, <2>1
    <3>2. ASSUME NEW i \in 1..(j - 1) PROVE g[i] < g[j]
      <4>1. g[i] = f[i] /\ f[i] \in 1..N
        BY <1>3, <1>4, <3>1
      <4> QED
        BY <1>1, <3>1, <4>1
    <3> QED
      BY <1>1, <3>1, <3>2
  <2>2. CASE j # L + 1
    <3>1. j \in 1..L /\ \A i \in 1..(j - 1) : i \in 1..L
      BY <1>1, <2>2
    <3>2. g[j] = f[j] /\ f[j] \in 1..N /\ f[j] \in I /\ d[j] = s[f[j]]
      BY <1>2, <1>3, <1>4, <3>1
    <3>3. \A i \in 1..(j - 1) : g[i] = f[i] /\ f[i] < f[j]
      BY <1>3, <1>4, <3>1
    <3>4. f[j] \in 1..(N + 1)
      BY <1>1, <3>2
    <3> QED
      BY <3>2, <3>3, <3>4
  <2> QED
    BY <2>1, <2>2
<1>6. ASSUME NEW n \in 1..(N + 1), n \in I
      PROVE  \E j \in 1..(L + 1) : g[j] = n
  <2>1. CASE n = N + 1
    <3>1. L + 1 \in 1..(L + 1)
      BY <1>1
    <3> QED
      BY <1>4, <2>1, <3>1
  <2>2. CASE n # N + 1
    <3>1. n \in 1..N
      BY <1>1, <2>2
    <3>2. PICK j \in 1..L : f[j] = n
      BY <1>3, <1>6, <3>1
    <3>3. j \in 1..(L + 1) /\ g[j] = n
      BY <1>1, <1>4, <3>2
    <3> QED
      BY <3>3
  <2> QED
    BY <2>1, <2>2
<1>7. Embeds(s, I, N + 1, d, g)
  BY <1>2, <1>5, <1>6 DEF Embeds
<1> QED
  BY <1>7 DEF d

LEMMA SelectedEmbeds ==
  ASSUME NEW X, NEW s \in Seq(X), NEW I
  PROVE  \E f : Embeds(s, I, Len(s), Selected(s, I), f)
<1>1. PICK k : /\ k[0] = <<>>
               /\ \A n \in 1..Len(s) :
                    k[n] = IF n \in I THEN Append(k[n - 1], s[n])
                                      ELSE k[n - 1]
               /\ Selected(s, I) = k[Len(s)]
  BY SelectedSteps
<1> DEFINE S == {n \in 0..Len(s) : /\ k[n] \in Seq(X)
                                   /\ \E f : Embeds(s, I, n, k[n], f)}
<1>2. Len(s) \in Nat
  OBVIOUS
<1>3. 0 \in S
  <2>1. Embeds(s, I, 0, <<>>, <<>>)
    BY DEF Embeds
  <2>2. <<>> \in Seq(X) /\ 0 \in 0..Len(s)
    BY <1>2
  <2> QED
    BY <1>1, <2>1, <2>2
<1>4. ASSUME NEW n \in 0..Len(s), n \in S, n < Len(s)
      PROVE  n + 1 \in S
  <2>1. n + 1 \in 1..Len(s) /\ n + 1 - 1 = n /\ n \in 0..(Len(s) - 1)
        /\ n + 1 \in 0..Len(s)
    BY <1>2, <1>4
  <2>2. k[n + 1] = IF n + 1 \in I THEN Append(k[n], s[n + 1]) ELSE k[n]
    BY <1>1, <2>1
  <2>3. PICK f : Embeds(s, I, n, k[n], f)
    BY <1>4
  <2>4. k[n] \in Seq(X)
    BY <1>4
  <2> DEFINE c == k[n]
  <2> HIDE DEF S
  <2>5. CASE n + 1 \in I
    <3>1. Append(c, s[n + 1]) \in Seq(X)
      BY <2>1, <2>4
    <3>2. \E g : Embeds(s, I, n + 1, Append(c, s[n + 1]), g)
      <4> HIDE DEF c
      <4> QED
        BY <2>1, <2>3, <2>4, <2>5, EmbedsOneMore DEF c
    <3> QED
      BY <2>1, <2>2, <2>5, <3>1, <3>2 DEF S
  <2>6. CASE n + 1 \notin I
    <3>1. Embeds(s, I, n + 1, k[n], f)
      <4>1. \A m \in 1..(n + 1) : m \in I => m \in 1..n
        BY <2>1, <2>6
      <4>2. \A m \in 1..n : m \in 1..(n + 1)
        BY <2>1
      <4> QED
        BY <2>3, <4>1, <4>2 DEF Embeds
    <3> QED
      BY <2>1, <2>2, <2>4, <2>6, <3>1 DEF S
  <2> QED
    BY <2>5, <2>6
<1> HIDE DEF S
<1>5. \A n \in 0..Len(s) : n \in S
  BY <1>2, <1>3, <1>4, InductionTo
<1>6. Len(s) \in S
  BY <1>2, <1>5
<1> QED
  BY <1>1, <1>6 DEF S

-----------------------------------------------------------------------------
(* The order of each turn's rows: the property, piece by piece.            *)
Increasing(o) ==
  \A j \in 1..Len(o) : \A i \in 1..(j - 1) :
    o[i].by = o[j].by => o[i].nth < o[j].nth

AllPlaced(o, t) ==
  \A r \in Request : \A n \in 1..Len(t[r]) :
    \E i \in 1..Len(o) : o[i].by = r /\ o[i].nth = n

InPlace(o, t) == \A i \in 1..Len(o) : o[i].nth \in 1..Len(t[o[i].by])

Places(t, r) == {[by |-> r, nth |-> n] : n \in DOMAIN t[r]}

AllPlaces(t) == UNION {Places(t, r) : r \in Request}

Ordered(o, t) ==
  /\ \A j \in DOMAIN o : \A i \in 1..(j - 1) :
       o[i].by = o[j].by => o[i].nth < o[j].nth
  /\ {o[i] : i \in DOMAIN o} =
       UNION {{[by |-> r, nth |-> n] : n \in DOMAIN t[r]} : r \in Request}

LEMMA OrderIs ==
  ASSUME NEW o \in Seq(Written), NEW t \in [Request -> Seq(AgentMessage)],
         InPlace(o, t)
  PROVE  Ordered(o, t) <=> (Increasing(o) /\ AllPlaced(o, t))
<1> DEFINE rows == {o[i] : i \in DOMAIN o}
           all == AllPlaces(t)
<1>1. DOMAIN o = 1..Len(o) /\ \A r \in Request : DOMAIN t[r] = 1..Len(t[r])
  OBVIOUS
<1>2. ASSUME NEW i \in 1..Len(o)
      PROVE  /\ o[i].by \in Request
             /\ o[i] = [by |-> o[i].by, nth |-> o[i].nth]
  <2>1. o[i] \in Written
    BY <1>1
  <2> QED
    BY <2>1 DEF Written
<1>3. ASSUME NEW r \in Request, NEW n \in 1..Len(t[r])
      PROVE  [by |-> r, nth |-> n] \in all
  <2>1. [by |-> r, nth |-> n] \in Places(t, r)
    BY <1>1 DEF Places
  <2> QED
    BY <2>1 DEF AllPlaces
<1>4. ASSUME NEW x \in all
      PROVE  \E r \in Request : \E n \in 1..Len(t[r]) :
               x = [by |-> r, nth |-> n]
  <2>1. PICK r \in Request : x \in Places(t, r)
    BY DEF AllPlaces
  <2> QED
    BY <1>1, <2>1 DEF Places
<1> HIDE DEF all
<1>5. rows \subseteq all
  <2> SUFFICES ASSUME NEW i \in 1..Len(o) PROVE o[i] \in all
    BY <1>1
  <2>1. o[i].nth \in 1..Len(t[o[i].by])
    BY DEF InPlace
  <2> QED
    BY <1>2, <1>3, <2>1
<1>6. all \subseteq rows <=> AllPlaced(o, t)
  <2>1. ASSUME all \subseteq rows, NEW r \in Request, NEW n \in 1..Len(t[r])
        PROVE  \E i \in 1..Len(o) : o[i].by = r /\ o[i].nth = n
    <3>1. [by |-> r, nth |-> n] \in rows
      BY <1>3, <2>1
    <3>2. PICK i \in DOMAIN o : o[i] = [by |-> r, nth |-> n]
      BY <3>1
    <3> QED
      BY <1>1, <3>2
  <2>2. ASSUME AllPlaced(o, t), NEW x \in all
        PROVE  x \in rows
    <3>0. PICK r \in Request : \E n \in 1..Len(t[r]) :
                                 x = [by |-> r, nth |-> n]
      BY <1>4
    <3>1. PICK n \in 1..Len(t[r]) : x = [by |-> r, nth |-> n]
      BY <3>0
    <3>2. PICK i \in 1..Len(o) : o[i].by = r /\ o[i].nth = n
      BY <2>2 DEF AllPlaced
    <3>3. o[i] = x
      BY <1>2, <3>1, <3>2
    <3> QED
      BY <1>1, <3>3
  <2> QED
    BY <2>1, <2>2 DEF AllPlaced
<1>7. rows = all <=> AllPlaced(o, t)
  BY <1>5, <1>6
<1>8. (\A j \in DOMAIN o : \A i \in 1..(j - 1) :
         o[i].by = o[j].by => o[i].nth < o[j].nth)
      <=> Increasing(o)
  BY <1>1 DEF Increasing
<1> QED
  BY <1>7, <1>8 DEF Ordered, all, AllPlaces, Places

(* A new row comes last, and is the last of its turn.                      *)
LEMMA InsertOrdered ==
  ASSUME NEW o \in Seq(Written), NEW t \in [Request -> Seq(AgentMessage)],
         InPlace(o, t), Increasing(o), AllPlaced(o, t),
         NEW r \in Request, NEW x \in AgentMessage, NEW t2, NEW o2,
         t2 = [t EXCEPT ![r] = Append(t[r], x)],
         o2 = Append(o, [by |-> r, nth |-> Len(t[r]) + 1])
  PROVE  Increasing(o2) /\ AllPlaced(o2, t2)
<1> DEFINE p == [by |-> r, nth |-> Len(t[r]) + 1]
           L == Len(o)
           M == Len(t[r])
<1>1. L \in Nat /\ M \in Nat /\ t[r] \in Seq(AgentMessage)
  OBVIOUS
<1>2. p \in Written /\ p.by = r /\ p.nth = M + 1
  BY <1>1 DEF Written
<1>3. /\ \A q \in Request \ {r} : t2[q] = t[q]
      /\ Len(t2[r]) = M + 1
  BY <1>1
<1>4. /\ \A i \in 1..L : o[i] \in Written /\ o[i].by \in Request
                         /\ o[i].nth \in 1..Len(t[o[i].by])
  <2> SUFFICES ASSUME NEW i \in 1..L
               PROVE  /\ o[i] \in Written /\ o[i].by \in Request
                      /\ o[i].nth \in 1..Len(t[o[i].by])
    OBVIOUS
  <2>1. o[i] \in Written
    BY <1>1
  <2> QED
    BY <2>1 DEF InPlace, Written
<1>5. /\ Len(o2) = L + 1 /\ o2[L + 1] = p
      /\ \A i \in 1..L : o2[i] = o[i]
  <2> HIDE DEF p
  <2> QED
    BY <1>1, <1>2 DEF p
<1> HIDE DEF p, L, M
<1>6. ASSUME NEW j \in 1..(L + 1), NEW i \in 1..(j - 1),
             o2[i].by = o2[j].by
      PROVE  o2[i].nth < o2[j].nth
  <2>1. i \in 1..L
    BY <1>1
  <2>2. o2[i] = o[i]
    BY <1>5, <2>1
  <2>3. CASE j = L + 1
    <3>1. o[i].by = r
      BY <1>2, <1>5, <1>6, <2>2, <2>3
    <3>2. o[i].nth \in 1..M
      BY <1>4, <2>1, <3>1 DEF M
    <3>3. o2[i].nth \in 1..M /\ o2[j].nth = M + 1
      BY <1>2, <1>5, <2>2, <2>3, <3>2
    <3> QED
      <4> DEFINE a == o2[i].nth
                 b == o2[j].nth
      <4>1. a \in 1..M /\ b = M + 1
        BY <3>3
      <4> HIDE DEF a, b
      <4>2. a < b
        BY <1>1, <4>1
      <4> QED
        BY <4>2 DEF a, b
  <2>4. CASE j # L + 1
    <3>1. j \in 1..L
      BY <1>1, <2>4
    <3>2. o2[j] = o[j]
      BY <1>5, <3>1
    <3> QED
      BY <1>6, <2>2, <3>1, <3>2 DEF Increasing, L
  <2> QED
    BY <2>3, <2>4
<1>7. ASSUME NEW q \in Request, NEW n \in 1..Len(t2[q])
      PROVE  \E i \in 1..(L + 1) : o2[i].by = q /\ o2[i].nth = n
  <2>1. CASE n \in 1..Len(t[q])
    <3>1. PICK i \in 1..L : o[i].by = q /\ o[i].nth = n
      BY <2>1 DEF AllPlaced, L
    <3>2. i \in 1..(L + 1) /\ o2[i] = o[i]
      BY <1>1, <1>5, <3>1
    <3> QED
      BY <3>1, <3>2
  <2>2. CASE n \notin 1..Len(t[q])
    <3>1. q = r
      BY <1>3, <2>2
    <3>2. n \in 1..(M + 1) /\ n \notin 1..M
      BY <1>3, <2>2, <3>1 DEF M
    <3>3. n = M + 1
      BY <1>1, <3>2
    <3>4. L + 1 \in 1..(L + 1)
      BY <1>1
    <3> QED
      BY <1>2, <1>5, <3>1, <3>3, <3>4
  <2> QED
    BY <2>1, <2>2
<1>8. Increasing(o2)
  BY <1>5, <1>6 DEF Increasing
<1>9. AllPlaced(o2, t2)
  <2>1. Len(o2) = L + 1
    BY <1>5
  <2>2. ASSUME NEW q \in Request, NEW n \in 1..Len(t2[q])
        PROVE  \E i \in 1..Len(o2) : o2[i].by = q /\ o2[i].nth = n
    BY <1>7, <2>1
  <2> QED
    BY <2>2 DEF AllPlaced
<1> QED
  BY <1>8, <1>9

(* A rollback takes rows out of the middle, all of its turn's.             *)
LEMMA RollbackOrdered ==
  ASSUME NEW o \in Seq(Written), NEW t \in [Request -> Seq(AgentMessage)],
         InPlace(o, t), Increasing(o), AllPlaced(o, t),
         NEW r \in Request, NEW t2, NEW o2,
         t2 = [t EXCEPT ![r] = <<>>],
         o2 = Selected(o, {i \in DOMAIN o : o[i].by # r})
  PROVE  Increasing(o2) /\ AllPlaced(o2, t2)
<1> DEFINE I == {i \in DOMAIN o : o[i].by # r}
<1>1. PICK f : Embeds(o, I, Len(o), o2, f)
  <2> HIDE DEF I
  <2> QED
    BY SelectedEmbeds DEF I
<1>2. /\ \A j \in 1..Len(o2) : f[j] \in 1..Len(o) /\ f[j] \in I
                               /\ o2[j] = o[f[j]]
      /\ \A j \in 1..Len(o2) : \A i \in 1..(j - 1) : f[i] < f[j]
      /\ \A n \in 1..Len(o) : n \in I => \E j \in 1..Len(o2) : f[j] = n
  BY <1>1 DEF Embeds
<1>3. o2 \in Seq(Written)
  <2>1. \A i \in 1..Len(o) : i \in I => o[i] \in Written
    OBVIOUS
  <2> HIDE DEF I
  <2> QED
    BY <2>1, SelectedType DEF I
<1>4. Len(o) \in Nat /\ Len(o2) \in Nat
  BY <1>3
<1>5. /\ \A q \in Request \ {r} : t2[q] = t[q]
      /\ t2[r] = <<>>
  OBVIOUS
<1>6. ASSUME NEW j \in 1..Len(o2), NEW i \in 1..(j - 1),
             o2[i].by = o2[j].by
      PROVE  o2[i].nth < o2[j].nth
  <2>1. i \in 1..Len(o2)
    BY <1>4
  <2>2. f[i] \in 1..Len(o) /\ f[j] \in 1..Len(o) /\ f[i] < f[j]
    BY <1>2, <2>1
  <2>3. f[i] \in 1..(f[j] - 1)
    <3> DEFINE a == f[i]
               b == f[j]
    <3>1. a \in 1..Len(o) /\ b \in 1..Len(o) /\ a < b
      BY <2>2
    <3> HIDE DEF a, b
    <3>2. a \in 1..(b - 1)
      BY <1>4, <3>1
    <3> QED
      BY <3>2 DEF a, b
  <2>4. o2[i] = o[f[i]] /\ o2[j] = o[f[j]]
    BY <1>2, <2>1
  <2> QED
    BY <1>6, <2>2, <2>3, <2>4 DEF Increasing
<1>7. ASSUME NEW q \in Request, NEW n \in 1..Len(t2[q])
      PROVE  \E j \in 1..Len(o2) : o2[j].by = q /\ o2[j].nth = n
  <2>1. q # r /\ n \in 1..Len(t[q])
    BY <1>5
  <2>2. PICK i \in 1..Len(o) : o[i].by = q /\ o[i].nth = n
    BY <2>1 DEF AllPlaced
  <2>3. i \in I
    BY <2>1, <2>2
  <2>4. PICK j \in 1..Len(o2) : f[j] = i
    BY <1>2, <2>3
  <2> QED
    BY <1>2, <2>2, <2>4
<1>8. Increasing(o2)
  BY <1>6 DEF Increasing
<1>9. AllPlaced(o2, t2)
  BY <1>7 DEF AllPlaced
<1> QED
  BY <1>8, <1>9

LEMMA OrderInvariant ==
  ASSUME IInv, TypeInv, [Next]_vars, Ordered(order, turn)
  PROVE  Ordered(order', turn')
<1>1. /\ order \in Seq(Written) /\ turn \in [Request -> Seq(AgentMessage)]
      /\ InPlace(order, turn)
  BY DEF TypeInv, TypeOK, Written, PlacesMatch, InPlace
<1>2. /\ order' \in Seq(Written) /\ turn' \in [Request -> Seq(AgentMessage)]
      /\ InPlace(order', turn')
  <2>1. /\ turn' \in [Request -> Seq(AgentMessage)]
        /\ order' \in Seq(Written)
        /\ PlacesMatch'
    BY RowsType
  <2> QED
    BY <2>1 DEF PlacesMatch, InPlace
<1>3. Increasing(order) /\ AllPlaced(order, turn)
  BY <1>1, OrderIs
<1>4. SUFFICES Increasing(order') /\ AllPlaced(order', turn')
  BY <1>2, OrderIs
<1>5. CASE UNCHANGED <<order, turn>>
  BY <1>3, <1>5
<1>6. ASSUME NEW r \in Request, NEW x \in AgentMessage, Insert(r, x)
      PROVE  Increasing(order') /\ AllPlaced(order', turn')
  BY <1>1, <1>3, <1>6, InsertOrdered DEF Insert
<1>7. /\ Row("user", 0) \in AgentMessage
      /\ \A n \in 0..MaxTools : Row("system", n) \in AgentMessage
  BY BoundsAreNatural DEF AgentMessage, Row, Text
<1>8. 0 \in 0..MaxTools /\ 1..MaxTools \subseteq 0..MaxTools
  BY BoundsAreNatural
<1>9. CASE Next
  <2>1. PICK r \in Request : Begin(r) \/ Advance(r) \/ Rollback(r)
    BY <1>9 DEF Next
  <2>2. CASE Post(r)
    BY <1>6, <1>7, <2>2 DEF Post
  <2>3. CASE (\E said \in Said : Answer(r, said)) \/ GiveUp(r)
    BY <1>6, <1>8, <2>3, ReplyRow, FallbackRow DEF Answer, GiveUp
  <2>4. CASE \E said \in Said, calls \in 1..MaxTools :
               CallTools(r, calls, said)
    BY <1>6, <1>8, <2>4, ReplyRow DEF CallTools
  <2>5. CASE RunTool(r)
    <3>1. txn[r].pc = "tools"
      BY <2>5 DEF RunTool
    <3>2. txn[r].answered + 1 \in 0..MaxTools
      BY <3>1, ResultNumber
    <3> QED
      BY <1>6, <1>7, <2>5, <3>2 DEF RunTool
  <2>6. CASE Rollback(r)
    BY <1>1, <1>3, <2>6, RollbackOrdered DEF Rollback
  <2>7. CASE Delete(r)
    <3>1. order' = <<>> /\ turn' = [q \in Request |-> <<>>]
      BY <2>7 DEF Delete, DeleteMessages
    <3> QED
      BY <3>1 DEF Increasing, AllPlaced
  <2>8. CASE UNCHANGED <<order, turn>>
    BY <1>5, <2>8
  <2>9. ASSUME Begin(r) \/ (r = Opening /\ Kickoff) \/ Refuse(r)
               \/ BuildHistory(r) \/ Commit(r)
        PROVE  UNCHANGED <<order, turn>>
    BY <2>9 DEF Begin, Create, Load, Kickoff, Refuse, BuildHistory, Commit
  <2> QED
    BY <2>1, <2>2, <2>3, <2>4, <2>5, <2>6, <2>7, <2>8, <2>9 DEF Advance
<1>10. CASE UNCHANGED vars
  BY <1>5, <1>10 DEF vars
<1> QED
  BY <1>9, <1>10

(* For any overlap of turns, rollbacks and deletions, the rows of each     *)
(* turn stand in created_at order as it stored them, each once, and none   *)
(* of a turn that failed is left.                                          *)
THEOREM TurnsKeepTheirOrderHolds == Spec => []TurnsKeepTheirOrder
<1>1. Init => TypeInv
  BY InitType
<1>2. IInv /\ TypeInv /\ [Next]_vars => TypeInv'
  BY TypeInvariant
<1>3. Init => Ordered(order, turn)
  BY DEF Init, Ordered
<1>4. IInv /\ TypeInv /\ [Next]_vars /\ Ordered(order, turn)
        => Ordered(order', turn')
  BY OrderInvariant
<1>5. Ordered(order, turn) <=> TurnsKeepTheirOrder
  BY DEF Ordered, TurnsKeepTheirOrder
<1>6. Init => TurnsKeepTheirOrder
  BY <1>3, <1>5
<1>7. IInv /\ TypeInv /\ [Next]_vars /\ TurnsKeepTheirOrder
        => TurnsKeepTheirOrder'
  BY <1>4 DEF Ordered, TurnsKeepTheirOrder
<1> QED
  BY <1>1, <1>2, <1>6, <1>7, InvariantHolds, PTL DEF Spec

-----------------------------------------------------------------------------
(* No row is without text, so whatever is replayed has some; of what is    *)
(* told only in memory, a reply without text has calls.                    *)
RowsHaveText ==
  \A q \in Request : \A i \in 1..Len(turn[q]) : turn[q][i].text # "empty"

HasTextOrCalls(m) ==
  \A i \in 1..Len(m) : m[i].text # "empty" \/ m[i].number > 0

TextInv ==
  /\ RowsHaveText
  /\ \A q \in Request : HasTextOrCalls(txn[q].working)

LEMMA HistoryHasText ==
  ASSUME TypeInv, RowsHaveText, NEW R
  PROVE  HasTextOrCalls(History(R))
<1> DEFINE s == [i \in DOMAIN order |-> AsTold(StoredRow(i))]
           P == {m \in ChatMessage : m.text # "empty"}
<1>1. order \in Seq(Written) /\ turn \in [Request -> Seq(AgentMessage)]
  BY DEF TypeInv, TypeOK, Written
<1>2. ASSUME NEW i \in 1..Len(order)
      PROVE  AsTold(StoredRow(i)) \in P
  <2>1. order[i] \in Written /\ order[i].nth \in 1..Len(turn[order[i].by])
    BY <1>1 DEF TypeInv, PlacesMatch
  <2>2. turn[order[i].by] \in Seq(AgentMessage)
    BY <1>1, <2>1 DEF Written
  <2>3. StoredRow(i) \in AgentMessage /\ StoredRow(i).text # "empty"
    BY <2>1, <2>2 DEF StoredRow, RowsHaveText, Written
  <2> QED
    BY <2>3 DEF AsTold, Row, AgentMessage, ChatMessage, Text
<1> HIDE DEF P
<1>3. s \in Seq(P) /\ Len(s) = Len(order)
  BY <1>1, <1>2
<1>4. \A i \in 1..Len(s) : s[i] \in P
  BY <1>3
<1> HIDE DEF s
<1>5. Selected(s, Visible(R)) \in Seq(P)
  BY <1>3, <1>4, SelectedType
<1>6. History(R) \in Seq(P)
  BY <1>5 DEF History, s
<1>7. \A i \in 1..Len(History(R)) : History(R)[i] \in P
  BY <1>6
<1> QED
  BY <1>7 DEF HasTextOrCalls, P

LEMMA AppendHasText ==
  ASSUME NEW X, NEW m \in Seq(X), NEW x \in X, HasTextOrCalls(m),
         x.text # "empty" \/ x.number > 0
  PROVE  HasTextOrCalls(Append(m, x))
<1>1. /\ Len(Append(m, x)) = Len(m) + 1 /\ Append(m, x)[Len(m) + 1] = x
      /\ \A j \in 1..Len(m) : Append(m, x)[j] = m[j]
      /\ Len(m) \in Nat
  OBVIOUS
<1>2. ASSUME NEW i \in 1..Len(Append(m, x))
      PROVE  Append(m, x)[i].text # "empty" \/ Append(m, x)[i].number > 0
  BY <1>1 DEF HasTextOrCalls
<1> QED
  BY <1>2 DEF HasTextOrCalls

LEMMA RowsKeepText ==
  ASSUME TypeInv, RowsHaveText, NEW r \in Request,
         Begin(r) \/ Advance(r) \/ Rollback(r)
  PROVE  RowsHaveText'
<1>1. turn \in [Request -> Seq(AgentMessage)]
  BY DEF TypeInv, TypeOK
<1>2. ASSUME NEW x, x.text # "empty", Insert(r, x)
      PROVE  RowsHaveText'
  <2>1. /\ turn[r] \in Seq(AgentMessage) /\ turn'[r] = Append(turn[r], x)
        /\ \A q \in Request \ {r} : turn'[q] = turn[q]
    BY <1>1, <1>2 DEF Insert
  <2>2. /\ Len(turn'[r]) = Len(turn[r]) + 1 /\ Len(turn[r]) \in Nat
        /\ turn'[r][Len(turn[r]) + 1] = x
        /\ \A i \in 1..Len(turn[r]) : turn'[r][i] = turn[r][i]
    BY <2>1
  <2>3. \A i \in 1..Len(turn'[r]) : turn'[r][i].text # "empty"
    BY <1>2, <2>2 DEF RowsHaveText
  <2> QED
    BY <2>1, <2>3 DEF RowsHaveText
<1>3. CASE turn' = turn
  BY <1>3 DEF RowsHaveText
<1>4. \A role, n : Row(role, n).text # "empty"
  BY DEF Row
<1>5. \A n : \A said \in Said : AsStored(Reply(n, said)).text # "empty"
  BY SaidType DEF AsStored, Reply
<1>6. CASE Post(r) \/ GiveUp(r) \/ RunTool(r)
  BY <1>2, <1>4, <1>6 DEF Post, GiveUp, RunTool
<1>7. CASE \E said \in Said :
             \/ Answer(r, said)
             \/ \E calls \in 1..MaxTools : CallTools(r, calls, said)
  <2>1. \E n : \E said \in Said : Insert(r, AsStored(Reply(n, said)))
    BY <1>7, Zenon DEF Answer, CallTools
  <2> QED
    BY <1>2, <1>5, <2>1
<1>8. CASE Rollback(r)
  <2>1. turn'[r] = <<>> /\ \A q \in Request \ {r} : turn'[q] = turn[q]
    BY <1>1, <1>8 DEF Rollback
  <2> QED
    BY <2>1 DEF RowsHaveText
<1>9. CASE Delete(r)
  BY <1>9 DEF Delete, DeleteMessages, RowsHaveText
<1>10. CASE Begin(r) \/ (r = Opening /\ Kickoff) \/ Refuse(r)
            \/ BuildHistory(r) \/ Commit(r)
  BY <1>3, <1>10 DEF Begin, Create, Load, Kickoff, Refuse, BuildHistory, Commit
<1> QED
  BY <1>6, <1>7, <1>8, <1>9, <1>10 DEF Advance

LEMMA ListsKeepText ==
  ASSUME IInv, TypeInv, TextInv, NEW r \in Request,
         Begin(r) \/ Advance(r) \/ Rollback(r)
  PROVE  \A q \in Request : HasTextOrCalls(txn'[q].working)
<1>1. txn \in [Request -> Txn] /\ txn[r] \in Txn
  BY DEF TypeInv, TypeOK
<1>2. txn[r].working \in Seq(ChatMessage) /\ HasTextOrCalls(txn[r].working)
  BY <1>1 DEF Txn, TextInv
<1>3. ASSUME NEW t, txn' = [txn EXCEPT ![r] = t], HasTextOrCalls(t.working)
      PROVE  \A q \in Request : HasTextOrCalls(txn'[q].working)
  BY <1>1, <1>3 DEF TextInv
<1>4. CASE \E pc : txn' = [txn EXCEPT ![r].pc = pc]
  <2>1. PICK pc : txn' = [txn EXCEPT ![r].pc = pc]
    BY <1>4
  <2> DEFINE t == [txn[r] EXCEPT !.pc = pc]
  <2>2. txn' = [txn EXCEPT ![r] = t] /\ t.working = txn[r].working
    BY <1>1, <2>1 DEF Txn
  <2> HIDE DEF t
  <2> QED
    BY <1>2, <1>3, <2>2
<1>5. CASE (r = Opening /\ Create) \/ Load(r) \/ Refuse(r) \/ Post(r)
           \/ GiveUp(r) \/ Commit(r) \/ Rollback(r) \/ Delete(r)
  <2>1. \E pc : txn' = [txn EXCEPT ![r].pc = pc]
    BY <1>5, Zenon DEF Create, Load, Refuse, Post, GiveUp, Commit, Rollback, Delete
  <2> QED
    BY <1>4, <2>1
<1>6. CASE r = Opening /\ Kickoff
  <2> DEFINE u == Row("user", 0)
             w == <<u>>
             t == [txn[r] EXCEPT !.pc = "chat", !.working = w]
  <2>1. u.text # "empty"
    BY DEF Row
  <2> HIDE DEF u
  <2>2. HasTextOrCalls(w)
    BY <2>1 DEF HasTextOrCalls
  <2>3. txn' = [txn EXCEPT ![r] = t]
    BY <1>6, Zenon DEF Kickoff, u
  <2> HIDE DEF w
  <2>4. t.working = w
    BY <1>1 DEF Txn
  <2> HIDE DEF t
  <2> QED
    BY <1>3, <2>2, <2>3, <2>4
<1>7. CASE BuildHistory(r)
  <2> DEFINE w == History(Seen(r))
             t == [txn[r] EXCEPT !.pc = "chat", !.working = w]
  <2>1. HasTextOrCalls(w)
    BY HistoryHasText DEF TextInv
  <2>2. txn' = [txn EXCEPT ![r] = t]
    BY <1>7, Zenon DEF BuildHistory
  <2> HIDE DEF w
  <2>3. t.working = w
    BY <1>1 DEF Txn
  <2> HIDE DEF t
  <2> QED
    BY <1>3, <2>1, <2>2, <2>3
<1>8. CASE \E said \in Said : Answer(r, said)
  <2> DEFINE t == [txn[r] EXCEPT !.pc = "commit", !.iteration = @ + 1]
  <2>1. txn' = [txn EXCEPT ![r] = t]
    BY <1>8, Zenon DEF Answer
  <2>2. t.working = txn[r].working
    BY <1>1 DEF Txn
  <2> HIDE DEF t
  <2> QED
    BY <1>2, <1>3, <2>1, <2>2
<1>9. ASSUME NEW said \in Said, NEW calls \in 1..MaxTools,
             CallTools(r, calls, said)
      PROVE  \A q \in Request : HasTextOrCalls(txn'[q].working)
  <2> DEFINE y == Reply(calls, said)
             w == Append(txn[r].working, y)
             t == [pc |-> "tools", iteration |-> txn[r].iteration + 1,
                   asked |-> calls, answered |-> 0, working |-> w]
  <2>1. y \in ChatMessage /\ y.number > 0
    <3>1. calls \in 0..MaxTools /\ calls > 0
      BY BoundsAreNatural
    <3> QED
      BY <3>1, ReplyRow DEF Reply
  <2>2. txn' = [txn EXCEPT ![r] = t]
    BY <1>9, Zenon DEF CallTools, Told
  <2> HIDE DEF y
  <2>3. HasTextOrCalls(w)
    BY <1>2, <2>1, AppendHasText
  <2> HIDE DEF w
  <2>4. t.working = w
    OBVIOUS
  <2> HIDE DEF t
  <2> QED
    BY <1>3, <2>2, <2>3, <2>4
<1>10. CASE RunTool(r)
  <2> DEFINE ran == txn[r].answered + 1
             p == IF ran = txn[r].asked THEN "chat" ELSE "tools"
             y == Row("tool", ran)
             w == Append(txn[r].working, y)
             t == [pc |-> p, iteration |-> txn[r].iteration,
                   asked |-> txn[r].asked, answered |-> ran, working |-> w]
  <2>1. y \in ChatMessage /\ y.text # "empty"
    <3>1. ran \in 0..MaxTools
      BY <1>10, ResultNumber DEF RunTool
    <3> HIDE DEF ran
    <3> QED
      BY <3>1 DEF Row, ChatMessage, Text
  <2>2. txn' = [txn EXCEPT ![r] = t]
    BY <1>10, Zenon DEF RunTool, Told
  <2> HIDE DEF y, ran, p
  <2>3. HasTextOrCalls(w)
    BY <1>2, <2>1, AppendHasText
  <2> HIDE DEF w
  <2>4. t.working = w
    OBVIOUS
  <2> HIDE DEF t
  <2> QED
    BY <1>3, <2>2, <2>3, <2>4
<1> QED
  BY <1>5, <1>6, <1>7, <1>8, <1>9, <1>10 DEF Begin, Advance

(* However turns overlap, fail and are deleted, no list that is sent holds *)
(* a message with neither text nor calls: an answer in which the model     *)
(* said nothing is replayed as its placeholder, and of the replies told in *)
(* memory only those that call tools may be silent (_run_agent_loop).      *)
THEOREM NothingEmptyIsSentHolds == Spec => []NothingEmptyIsSent
<1>1. Init => TypeInv
  BY InitType
<1>2. IInv /\ TypeInv /\ [Next]_vars => TypeInv'
  BY TypeInvariant
<1>3. Init => TextInv
  BY DEF Init, Received, TextInv, RowsHaveText, HasTextOrCalls
<1>4. IInv /\ TypeInv /\ TextInv /\ [Next]_vars => TextInv'
  <2> SUFFICES ASSUME IInv, TypeInv, TextInv, [Next]_vars PROVE TextInv'
    OBVIOUS
  <2>1. CASE UNCHANGED vars
    BY <2>1 DEF vars, TextInv, RowsHaveText, HasTextOrCalls
  <2>2. CASE Next
    BY <2>2, RowsKeepText, ListsKeepText DEF Next, TextInv
  <2> QED
    BY <2>1, <2>2
<1>5. TextInv => NothingEmptyIsSent
  BY DEF TextInv, HasTextOrCalls, NothingEmptyIsSent
<1> QED
  BY <1>1, <1>2, <1>3, <1>4, <1>5, InvariantHolds, PTL DEF Spec
=============================================================================

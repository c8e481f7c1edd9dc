-------------------------- MODULE TranscriptProofs --------------------------
(***************************************************************************)
(* Theorems of Transcript: from the words of a model to the stored history *)
(* of a session, for any providers, any number of replies, turns, retries  *)
(* and lines, and any compaction.                                          *)
(***************************************************************************)
EXTENDS Transcript, FilteringProofs

-----------------------------------------------------------------------------
(* Messages, and what the run engine knows of the one being streamed       *)

Texts == [kind : {"text"}, text : Seq(Nat)]
Requests == [kind : {"request"}, call : Nat, full : BOOLEAN]
Responses == [kind : {"response"}, call : Nat]
Marks == [kind : {"no_reply", "summary"}]
Blocks == Texts \cup Requests \cup Responses \cup Marks
Roles == {"user", "assistant", "system", "tool"}
Msgs == {m \in [id : Nat, role : Roles, blocks : Seq(Blocks)] : m.blocks # <<>>}
Convs == Seq(Msgs)

Calls == [call : Nat, full : BOOLEAN]
Accs == [id : Nat, content : Seq(Nat), calls : Seq(Calls), buffered : SUBSET Nat]
Opens == {"none", "text", "message_done", "call", "stopped"}

Ids(conv) == {conv[i].id : i \in DOMAIN conv}
Unique(conv) == \A i, j \in DOMAIN conv : conv[i].id = conv[j].id => i = j
Below(conv, n) == \A i \in DOMAIN conv : conv[i].id < n

Turns == [n : 1..MaxTurns, msgs : Convs, tools : BOOLEAN]

\* The variables that are copied and counted have their types.
ShapeOK ==
    /\ prov \in Providers /\ nextId \in Nat /\ faults \in Nat /\ replies \in Nat
    /\ phase \in {"idle", "request", "stream", "turn_over"}
    /\ outcome \in {"none", "finish", "error"}
    /\ stored \in Convs /\ session \in Convs /\ history \in Convs /\ final \in Convs
    /\ Below(stored, nextId) /\ Below(session, nextId) /\ Below(history, nextId) /\ Below(final, nextId)
    /\ turn \in Turns
    /\ retries \in [http : 0..MaxRetries, turn : 0..MaxRetries]
    /\ partials \subseteq Nat

\* No message of a history is a placeholder, and none has the id of another.
Clean(conv) ==
    /\ Unique(conv)
    /\ \A i \in DOMAIN conv : conv[i].blocks[1].kind # "no_reply"

\* What is stored between replies is what the pump had, and the placeholder of
\* a run without an answer.
StoredOK ==
    \/ stored = session
    \/ LET id == stored[Len(stored)].id
       IN id \in Nat /\ id < nextId /\ id \notin Ids(session) /\ stored = Append(session, Placeholder(id))

\* After the message of the user at place u there are answers only, of ids.
Answers(conv, u, ids) ==
    /\ u \in DOMAIN conv /\ conv[u].role = "user"
    /\ \A i \in DOMAIN conv : i > u => conv[i].role = "assistant" /\ conv[i].id \in ids

ToolAnswer(m) == m.role = "tool" /\ \A k \in DOMAIN m.blocks : m.blocks[k].kind = "response"

\* The final messages are the answers of the model, as the pump has them, and
\* answers of tools, which the pump has not seen.
Settled(conv, u, msgs) ==
    /\ Unique(msgs)
    /\ msgs # <<>> => msgs[1].role = "assistant"
    /\ \A k \in DOMAIN msgs :
          \/ msgs[k].role = "assistant" /\ \E i \in DOMAIN conv : i > u /\ conv[i] = msgs[k]
          \/ ToolAnswer(msgs[k]) /\ msgs[k].id \notin Ids(conv)

\* The message of the turn is an answer that the pump has.
Mirrored(conv, u, msgs, m) ==
    /\ m.role = "assistant" /\ m.id \notin Ids(msgs)
    /\ \E i \in DOMAIN conv : i > u /\ conv[i] = m

\* A run after the user message at u.
RunAt(u) ==
    /\ Answers(session, u, partials \cup Ids(final) \cup Ids(turn.msgs))
    /\ Settled(session, u, final)
    /\ phase = "request" => Ids(turn.msgs) \subseteq partials
    /\ phase \in {"stream", "turn_over"} =>
         turn.msgs = <<>> \/ (Len(turn.msgs) = 1 /\ Mirrored(session, u, final, turn.msgs[1]))

LogInv ==
    /\ Clean(session)
    /\ IF phase = "idle" THEN StoredOK ELSE \E u \in DOMAIN session : RunAt(u)
    /\ FinishedRunStored

\* The message a stream has shown begins with text, which is the beginning of
\* what the accumulator holds.
Shown(m, sent, a) ==
    /\ m.id = a.id /\ sent = [i \in {a.id} |-> m.blocks[1].text]
    /\ m.blocks[1].kind = "text" /\ m.blocks[1].text # <<>>
    /\ Len(m.blocks[1].text) <= Len(a.content)
    /\ m.blocks[1].text = SubSeq(a.content, 1, Len(m.blocks[1].text))
    /\ \A k \in DOMAIN m.blocks : k > 1 => m.blocks[k].kind = "request"
    /\ a.calls = <<>> => Len(m.blocks) = 1

\* What the model has said is well-formed: pieces in every part, and arguments
\* in every call but one that is open.
Saids == [parts : Seq(Seq(Nat)), calls : Seq(Calls), open : Opens]

Speech(said, n) ==
    /\ said \in Saids
    /\ \A i \in DOMAIN said.parts : said.parts[i] # <<>>
    /\ prov # "responses" => Len(said.parts) <= 1
    /\ said.open = "text" => said.parts # <<>>
    /\ said.open = "call" => said.calls # <<>>
    /\ \A i \in DOMAIN said.calls :
         /\ said.calls[i].call < n
         /\ said.calls[i].full \/ (i = Len(said.calls) /\ said.open = "call")

SpeechOK == Speech(meant, nextId)

\* The accumulator holds what was said: text, unless it was in several parts,
\* and every call.
Heard(a, said) ==
    /\ said.parts = <<>> => a.content = <<>>
    /\ Len(said.parts) = 1 => a.content = said.parts[1]
    /\ Len(a.calls) = Len(said.calls)
    /\ \A i \in DOMAIN a.calls :
         /\ prov # "ollama" => a.calls[i].call = said.calls[i].call
         /\ prov = "ollama" => a.calls[i].full
         /\ prov = "chat" /\ said.calls[i].full => a.calls[i].full

StreamInv ==
    phase = "stream" =>
      /\ acc \in Accs /\ acc.id < nextId /\ acc.id \notin Ids(final)
      /\ SpeechOK /\ Heard(acc, meant) /\ meant.open # "stopped"
      /\ IF turn.msgs = <<>> THEN acc.id \notin Ids(session) /\ streamed = <<>>
         ELSE Shown(turn.msgs[1], streamed, acc)

-----------------------------------------------------------------------------
(* Calls and their answers                                                 *)

\* A call stands in a message before each of its answers.
PairOrder(conv) ==
    \A i, j \in DOMAIN conv :
      \A k \in DOMAIN conv[i].blocks, l \in DOMAIN conv[j].blocks :
         /\ conv[i].blocks[k].kind = "request" /\ conv[j].blocks[l].kind = "response"
         /\ conv[i].blocks[k].call = conv[j].blocks[l].call
         => i < j

Answered == CallsOf(session, "response") \cup CallsOf(history, "response") \cup CallsOf(final, "response")
CallIds(q) == {q[i].call : i \in DOMAIN q}
Saying == CallIds(meant.calls)

PairInv ==
    prov = "responses" =>
      /\ PairOrder(session) /\ PairOrder(history)
      /\ \A c \in Answered : c < nextId
      /\ phase \in {"stream", "turn_over"} =>
           Answered \cap Saying = {} /\ CallsOf(turn.msgs, "request") \subseteq Saying

\* The calls of a stream that is over were numbered before.
Numbered == phase = "turn_over" => \A c \in Saying : c < nextId

TranscriptInv == ShapeOK /\ LogInv /\ StreamInv /\ PairInv /\ Numbered /\ StreamUnderstood

-----------------------------------------------------------------------------
(* Functions by recursion over a sequence                                  *)

\* f is what g gives step by step from b on.
StepsOf(f, S, b, n, g) ==
    f \in [0..n -> S] /\ f[0] = b /\ \A i \in 1..n : f[i] = g[<<i, f[i - 1]>>]

\* Step by step from b: there is the sequence of the values that g gives.
LEMMA StepsExist ==
    ASSUME NEW S, NEW b \in S, NEW n \in Nat, NEW g \in [(1..n) \X S -> S]
    PROVE  \E f : StepsOf(f, S, b, n, g)
<1> DEFINE Good(k, f) == f[0] = b /\ \A i \in 1..k : f[i] = g[<<i, f[i - 1]>>]
           Bad == {k \in 0..n : ~ \E f \in [0..k -> S] : Good(k, f)}
<1>1. SUFFICES ASSUME Bad # {} PROVE FALSE
  <2>a. n \notin Bad /\ n \in 0..n
    <3>1. n \notin Bad
      BY <1>1
    <3>2. n \in 0..n
      OBVIOUS
    <3> QED BY <3>1, <3>2
  <2>1. \E f \in [0..n -> S] : Good(n, f)
    BY <2>a
  <2>2. PICK f \in [0..n -> S] : Good(n, f)
    BY <2>1
  <2>3. StepsOf(f, S, b, n, g)
    BY <2>2 DEF StepsOf
  <2> QED BY <2>3
<1>2. PICK m \in Bad : \A k \in Bad : m <= k
  BY <1>1, LeastNumber, Bad \in SUBSET Nat
<1>3. m # 0
  <2>1. [i \in 0..0 |-> b] \in [0..0 -> S] /\ Good(0, [i \in 0..0 |-> b])
    OBVIOUS
  <2> QED BY <1>2, <2>1
<1>4. m - 1 \in 0..n /\ m - 1 \notin Bad /\ m \in 1..n
  BY <1>2, <1>3
<1>5. PICK f \in [0..(m - 1) -> S] : Good(m - 1, f)
  BY <1>4
<1> DEFINE h == [i \in 0..m |-> IF i = m THEN g[<<m, f[m - 1]>>] ELSE f[i]]
<1>6. f[m - 1] \in S /\ g[<<m, f[m - 1]>>] \in S
  BY <1>4, <1>5
<1>7. h \in [0..m -> S]
  BY <1>4, <1>5, <1>6
<1>8. h[0] = b
  BY <1>4, <1>5
<1>9. ASSUME NEW i \in 1..m PROVE h[i] = g[<<i, h[i - 1]>>]
  <2>1. CASE i = m
    <3>1. m - 1 \in 0..m /\ m - 1 # m /\ m \in 0..m
      BY <1>4
    <3>2. h[m] = g[<<m, f[m - 1]>>] /\ h[m - 1] = f[m - 1]
      BY <3>1
    <3> QED BY <2>1, <3>2
  <2>2. CASE i # m
    <3>1. i \in 1..(m - 1) /\ i - 1 \in 0..m /\ i - 1 # m /\ i \in 0..m
      BY <2>2, <1>4
    <3>2. f[i] = g[<<i, f[i - 1]>>]
      BY <3>1, <1>5
    <3> QED BY <2>2, <3>1, <3>2
  <2> QED BY <2>1, <2>2
<1>10. Good(m, h)
  BY <1>8, <1>9
<1> QED BY <1>2, <1>7, <1>10

\* The recursion of Joined holds.
LEMMA JoinedSteps ==
    ASSUME NEW S, NEW ss \in Seq(Seq(S))
    PROVE  \E f \in [0..Len(ss) -> Seq(S)] :
             /\ f[0] = <<>> /\ \A i \in 1..Len(ss) : f[i] = f[i - 1] \o ss[i]
             /\ Joined(ss) = f[Len(ss)]
<1> DEFINE n == Len(ss)
           Z == Seq(S)
           g == [p \in (1..n) \X Z |-> p[2] \o ss[p[1]]]
           e == <<>>
           Rec(f) == f = [i \in 0..n |-> IF i = 0 THEN <<>> ELSE f[i - 1] \o ss[i]]
<1>1. n \in Nat /\ <<>> \in Z /\ (\A i \in 1..n : ss[i] \in Z) /\ (\A x, y \in Z : x \o y \in Z)
  OBVIOUS
<1> HIDE DEF n, Z, e
<1>2. g \in [(1..n) \X Z -> Z]
  BY <1>1
<1>a. PICK f : StepsOf(f, Z, e, n, g)
  <2> HIDE DEF g, Rec
  <2>1. n \in Nat /\ e \in Z
    BY <1>1 DEF e
  <2> QED BY <2>1, <1>2, StepsExist
<1>3. f \in [0..n -> Z] /\ f[0] = e /\ \A i \in 1..n : f[i] = g[<<i, f[i - 1]>>]
  <2> HIDE DEF g
  <2> QED BY <1>a DEF StepsOf
<1>4. ASSUME NEW i \in 1..n PROVE f[i] = f[i - 1] \o ss[i]
  <2>1. i - 1 \in 0..n
    BY <1>1
  <2>2. <<i, f[i - 1]>> \in (1..n) \X Z
    BY <2>1, <1>3
  <2> QED BY <1>3, <2>2
<1>5. Rec(f)
  <2>1. ASSUME NEW i \in 0..n PROVE f[i] = IF i = 0 THEN <<>> ELSE f[i - 1] \o ss[i]
    <3>1. CASE i = 0
      BY <3>1, <1>3 DEF e
    <3>2. CASE i # 0
      <4>1. i \in 1..n
        BY <3>2, <1>1
      <4>2. f[i] = f[i - 1] \o ss[i]
        BY <4>1, <1>4
      <4> QED BY <3>2, <4>2
    <3> QED BY <3>1, <3>2
  <2> QED BY <1>3, <2>1
<1> DEFINE c == CHOOSE f0 : Rec(f0)
<1>6. Rec(c)
  BY <1>5
<1>7. Joined(ss) = c[n]
  BY DEF Joined, n
<1> HIDE DEF c
<1>8. c[0] = <<>> /\ \A i \in 1..n : c[i] = c[i - 1] \o ss[i]
  <2>1. ASSUME NEW i \in 0..n PROVE c[i] = IF i = 0 THEN <<>> ELSE c[i - 1] \o ss[i]
    BY <1>6
  <2>2. c[0] = <<>>
    BY <1>1, <2>1
  <2>3. ASSUME NEW i \in 1..n PROVE c[i] = c[i - 1] \o ss[i]
    <3>1. i \in 0..n /\ i # 0
      BY <1>1
    <3> QED BY <2>1, <3>1
  <2> QED BY <2>2, <2>3
<1>9. \A i \in 0..n : c[i] = f[i]
  <2> DEFINE Bad == {k \in 0..n : c[k] # f[k]}
  <2>1. SUFFICES ASSUME Bad # {} PROVE FALSE
    OBVIOUS
  <2>2. PICK k \in Bad : \A j \in Bad : k <= j
    BY <2>1, LeastNumber, Bad \in SUBSET Nat
  <2>3. k # 0
    BY <2>2, <1>3, <1>8 DEF e
  <2>4. k - 1 \in 0..n /\ k - 1 \notin Bad /\ k \in 1..n
    <3> DEFINE B == Bad
    <3>1. k \in 0..n /\ (\A j \in B : k <= j) /\ B \subseteq Nat
      BY <2>2
    <3> HIDE DEF B
    <3> QED BY <3>1, <2>3, <1>1 DEF B
  <2>5. c[k - 1] = f[k - 1]
    BY <2>4
  <2> QED BY <2>2, <2>4, <2>5, <1>4, <1>8
<1>10. Joined(ss) = f[n]
  BY <1>1, <1>7, <1>9
<1> QED BY <1>3, <1>4, <1>10 DEF n, Z, e

\* Nothing follows the first of the sequences.
LEMMA JoinedFirst ==
    ASSUME NEW S, NEW ss \in Seq(Seq(S)), ss # <<>>,
           \A i \in DOMAIN ss : i > 1 => ss[i] = <<>>
    PROVE  Joined(ss) = ss[1]
<1> DEFINE n == Len(ss)
           Z == Seq(S)
<1>1. n \in Nat \ {0} /\ DOMAIN ss = 1..n /\ ss[1] \in Z
  OBVIOUS
<1>2. PICK f \in [0..n -> Z] :
         /\ f[0] = <<>> /\ \A i \in 1..n : f[i] = f[i - 1] \o ss[i]
         /\ Joined(ss) = f[n]
  BY JoinedSteps
<1> DEFINE Bad == {k \in 1..n : f[k] # ss[1]}
<1>3. CASE Bad = {}
  <2>1. n \in 1..n /\ n \notin Bad
    BY <1>1, <1>3
  <2>2. f[n] = ss[1]
    BY <2>1
  <2> HIDE DEF Z, n
  <2> QED BY <1>2, <2>2
<1>4. CASE Bad # {}
  <2>1. PICK k \in Bad : \A j \in Bad : k <= j
    BY <1>4, LeastNumber, Bad \in SUBSET Nat
  <2>a. \A x \in Z : <<>> \o x = x /\ x \o <<>> = x
    OBVIOUS
  <2> HIDE DEF Z, n
  <2>2. k # 1
    <3>1. f[1] = f[0] \o ss[1]
      <4>1. 1 \in 1..n /\ 1 - 1 = 0
        BY <1>1
      <4>2. f[1] = f[1 - 1] \o ss[1]
        BY <4>1, <1>2
      <4> QED BY <4>1, <4>2
    <3> QED BY <3>1, <1>1, <1>2, <2>1, <2>a
  <2>3. k - 1 \in 1..n /\ k - 1 \notin Bad /\ k > 1
    BY <2>1, <2>2, <1>1
  <2>4. f[k - 1] = ss[1] /\ ss[k] = <<>>
    BY <2>1, <2>3, <1>1
  <2>5. f[k] = ss[1] \o <<>>
    BY <2>1, <2>4, <1>2
  <2> QED BY <2>1, <2>5, <2>a, <1>1
<1> QED BY <1>3, <1>4

\* Nothing joined is nothing.
LEMMA JoinedNone == Joined(<<>>) = <<>>
<1>1. <<>> \in Seq(Seq({})) /\ Len(<<>>) = 0
  OBVIOUS
<1>2. PICK f \in [0..0 -> Seq({})] : f[0] = <<>> /\ Joined(<<>>) = f[0]
  BY <1>1, JoinedSteps
<1> QED BY <1>2

\* One sequence joined is that sequence.
LEMMA JoinedOne ==
    ASSUME NEW S, NEW s \in Seq(S)
    PROVE  Joined(<<s>>) = s
<1> DEFINE ss == <<s>>
<1>1. ss \in Seq(Seq(S)) /\ ss # <<>> /\ ss[1] = s /\ \A i \in DOMAIN ss : i = 1
  OBVIOUS
<1> HIDE DEF ss
<1>2. Joined(ss) = ss[1]
  BY <1>1, JoinedFirst
<1> QED BY <1>1, <1>2 DEF ss

-----------------------------------------------------------------------------
(* Conversations                                                           *)

\* A message has its fields.
LEMMA MessageFields ==
    ASSUME NEW m \in Msgs
    PROVE  /\ m.id \in Nat /\ m.role \in Roles /\ m.blocks \in Seq(Blocks) /\ m.blocks # <<>>
           /\ m = Message(m.id, m.role, m.blocks)
           /\ 1 \in DOMAIN m.blocks /\ m.blocks[1] \in Blocks
<1>1. m \in [id : Nat, role : Roles, blocks : Seq(Blocks)] /\ m.blocks # <<>>
  BY DEF Msgs
<1>2. m.blocks \in Seq(Blocks)
  BY <1>1
<1>3. 1 \in DOMAIN m.blocks /\ m.blocks[1] \in Blocks
  BY <1>1, <1>2
<1> QED BY <1>1, <1>2, <1>3 DEF Message

\* And is one when it has them.
LEMMA MessageIs ==
    ASSUME NEW id \in Nat, NEW r \in Roles, NEW b \in Seq(Blocks), b # <<>>
    PROVE  /\ Message(id, r, b) \in Msgs
           /\ Message(id, r, b).id = id /\ Message(id, r, b).role = r /\ Message(id, r, b).blocks = b
<1> DEFINE Z == Seq(Blocks)
<1> HIDE DEF Z
<1>1. b \in Z
  BY DEF Z
<1>2. Message(id, r, b) \in [id : Nat, role : Roles, blocks : Z] /\ Message(id, r, b).blocks = b
  BY <1>1 DEF Message
<1> QED BY <1>2 DEF Msgs, Z, Message

\* A conversation has messages at the places from one on.
LEMMA ConvFields ==
    ASSUME NEW conv \in Convs
    PROVE  /\ Len(conv) \in Nat /\ DOMAIN conv = 1..Len(conv)
           /\ \A i \in DOMAIN conv : i \in Nat /\ conv[i] \in Msgs
BY DEF Convs

\* Has asks whether an id is among the ids.
LEMMA HasIds == \A conv, id : Has(conv, id) <=> id \in Ids(conv)
BY DEF Has, Ids

\* An id that no other message has is found where it is.
LEMMA PositionIs ==
    ASSUME NEW conv \in Convs, Unique(conv), NEW i \in DOMAIN conv
    PROVE  Has(conv, conv[i].id) /\ Position(conv, conv[i].id) = i
<1> DEFINE P(k) == conv[k].id = conv[i].id /\ \A j \in 1..(k - 1) : conv[j].id # conv[i].id
<1>1. \A j \in 1..(i - 1) : j \in DOMAIN conv /\ j # i
  BY ConvFields
<1>2. P(i)
  BY <1>1 DEF Unique
<1>3. \A k \in DOMAIN conv : P(k) => k = i
  BY DEF Unique
<1>4. Position(conv, conv[i].id) = CHOOSE k \in DOMAIN conv : P(k)
  BY DEF Position
<1> HIDE DEF P
<1> QED BY <1>2, <1>3, <1>4 DEF Has

\* What is looked up is there.
LEMMA PositionIn ==
    ASSUME NEW conv \in Convs, NEW id, Has(conv, id)
    PROVE  Position(conv, id) \in DOMAIN conv /\ conv[Position(conv, id)].id = id
<1> DEFINE P(k) == conv[k].id = id /\ \A j \in 1..(k - 1) : conv[j].id # id
           Found == {k \in DOMAIN conv : conv[k].id = id}
<1>1. Found # {} /\ Found \in SUBSET Nat
  BY ConvFields DEF Has
<1>2. PICK k \in Found : \A j \in Found : k <= j
  BY <1>1, LeastNumber
<1>3. k \in DOMAIN conv /\ P(k)
  <2>1. ASSUME NEW j \in 1..(k - 1) PROVE conv[j].id # id
    <3>1. j \in DOMAIN conv /\ ~ (k <= j)
      BY <1>2, ConvFields
    <3> QED BY <3>1, <1>2
  <2> QED BY <1>2, <2>1
<1>4. Position(conv, id) = CHOOSE n \in DOMAIN conv : P(n)
  BY DEF Position
<1>5. \E n \in DOMAIN conv : P(n)
  BY <1>3
<1>6. P(CHOOSE n \in DOMAIN conv : P(n)) /\ (CHOOSE n \in DOMAIN conv : P(n)) \in DOMAIN conv
  <2> HIDE DEF P
  <2> QED BY <1>5
<1> QED BY <1>4, <1>6

\* A message more.
LEMMA AppendIs ==
    ASSUME NEW conv \in Convs, NEW m \in Msgs
    PROVE  /\ Append(conv, m) \in Convs /\ Len(Append(conv, m)) = Len(conv) + 1
           /\ DOMAIN Append(conv, m) = 1..(Len(conv) + 1)
           /\ Append(conv, m)[Len(conv) + 1] = m
           /\ \A i \in DOMAIN conv : Append(conv, m)[i] = conv[i]
           /\ Ids(Append(conv, m)) = Ids(conv) \cup {m.id}
           /\ Unique(conv) /\ m.id \notin Ids(conv) => Unique(Append(conv, m))
<1> DEFINE c == Append(conv, m)
           n == Len(conv)
<1>1. /\ c \in Convs /\ Len(c) = n + 1 /\ DOMAIN c = 1..(n + 1) /\ n \in Nat /\ DOMAIN conv = 1..n
      /\ c[n + 1] = m /\ \A i \in 1..n : c[i] = conv[i]
  BY DEF Convs
<1> HIDE DEF c, n
<1>2. Ids(c) = Ids(conv) \cup {m.id}
  BY <1>1 DEF Ids
<1>3. Unique(conv) /\ m.id \notin Ids(conv) => Unique(c)
  BY <1>1 DEF Unique, Ids
<1> QED BY <1>1, <1>2, <1>3 DEF c, n

\* Another message in a place, with the id of the one that was there.
LEMMA ReplaceIs ==
    ASSUME NEW conv \in Convs, NEW i \in DOMAIN conv, NEW m \in Msgs, m.id = conv[i].id
    PROVE  LET c == [conv EXCEPT ![i] = m]
           IN  /\ c \in Convs /\ Len(c) = Len(conv) /\ DOMAIN c = DOMAIN conv
               /\ c[i] = m /\ \A j \in DOMAIN conv : j # i => c[j] = conv[j]
               /\ Ids(c) = Ids(conv) /\ (Unique(conv) => Unique(c))
<1> DEFINE c == [conv EXCEPT ![i] = m]
<1>1. /\ c \in Convs /\ Len(c) = Len(conv) /\ DOMAIN c = DOMAIN conv
      /\ c[i] = m /\ \A j \in DOMAIN conv : j # i => c[j] = conv[j]
  BY DEF Convs
<1> HIDE DEF c
<1>2. \A j \in DOMAIN conv : c[j].id = conv[j].id
  BY <1>1
<1>3. Ids(c) = Ids(conv) /\ (Unique(conv) => Unique(c))
  BY <1>1, <1>2 DEF Ids, Unique
<1> QED BY <1>1, <1>3 DEF c

\* A message that is not there is added.
LEMMA MergeNew ==
    ASSUME NEW conv, NEW m, m.id \notin Ids(conv)
    PROVE  MergeMessage(conv, m) = Append(conv, m)
BY HasIds DEF MergeMessage

\* One that is there takes its place, if it is of the same kind.
LEMMA MergeSame ==
    ASSUME NEW conv \in Convs, Unique(conv), NEW i \in DOMAIN conv, NEW m,
           m.id = conv[i].id, SameKind(conv[i], m)
    PROVE  MergeMessage(conv, m) = [conv EXCEPT ![i] = m]
BY PositionIs DEF MergeMessage

\* A conversation that a message is merged into is a conversation.
LEMMA MergeType ==
    ASSUME NEW conv \in Convs, NEW m \in Msgs
    PROVE  MergeMessage(conv, m) \in Convs
<1>1. CASE Has(conv, m.id) /\ SameKind(conv[Position(conv, m.id)], m)
  <2>1. Position(conv, m.id) \in DOMAIN conv /\ m.id = conv[Position(conv, m.id)].id
    BY <1>1, PositionIn
  <2> QED BY <2>1, <1>1, ReplaceIs DEF MergeMessage
<1>2. CASE ~ (Has(conv, m.id) /\ SameKind(conv[Position(conv, m.id)], m))
  BY <1>2, AppendIs DEF MergeMessage
<1> QED BY <1>1, <1>2

\* The recursion of MergeMessages holds.
LEMMA MergeSteps ==
    ASSUME NEW conv \in Convs, NEW msgs \in Convs
    PROVE  \E f \in [0..Len(msgs) -> Convs] :
             /\ f[0] = conv /\ \A i \in 1..Len(msgs) : f[i] = MergeMessage(f[i - 1], msgs[i])
             /\ MergeMessages(conv, msgs) = f[Len(msgs)]
<1> DEFINE n == Len(msgs)
           g == [p \in (1..n) \X Convs |-> MergeMessage(p[2], msgs[p[1]])]
           Rec(f) == f = [i \in 0..n |-> IF i = 0 THEN conv ELSE MergeMessage(f[i - 1], msgs[i])]
<1>1. n \in Nat /\ \A i \in 1..n : msgs[i] \in Msgs
  BY ConvFields
<1> HIDE DEF n
<1>2. g \in [(1..n) \X Convs -> Convs]
  BY <1>1, MergeType
<1>3. PICK f : StepsOf(f, Convs, conv, n, g)
  <2> HIDE DEF g
  <2> QED BY <1>1, <1>2, StepsExist
<1>4. f \in [0..n -> Convs] /\ f[0] = conv /\ \A i \in 1..n : f[i] = g[<<i, f[i - 1]>>]
  <2> HIDE DEF g
  <2> QED BY <1>3 DEF StepsOf
<1>5. ASSUME NEW i \in 0..n
      PROVE  f[i] = IF i = 0 THEN conv ELSE MergeMessage(f[i - 1], msgs[i])
  <2>1. CASE i = 0
    BY <2>1, <1>4
  <2>2. CASE i # 0
    <3>1. i \in 1..n /\ i - 1 \in 0..n
      BY <2>2, <1>1
    <3>2. <<i, f[i - 1]>> \in (1..n) \X Convs
      BY <3>1, <1>4
    <3> QED BY <2>2, <3>1, <3>2, <1>4
  <2> QED BY <2>1, <2>2
<1>6. Rec(f)
  BY <1>4, <1>5
<1> DEFINE c == CHOOSE h : Rec(h)
<1>7. Rec(c) /\ MergeMessages(conv, msgs) = c[n]
  BY <1>6 DEF MergeMessages, n
<1> HIDE DEF c
<1>8. ASSUME NEW i \in 0..n
      PROVE  c[i] = IF i = 0 THEN conv ELSE MergeMessage(c[i - 1], msgs[i])
  BY <1>7
<1>9. ASSUME NEW i \in 1..n PROVE c[i] = MergeMessage(c[i - 1], msgs[i])
  <2>1. i \in 0..n /\ i # 0
    BY <1>1
  <2> QED BY <2>1, <1>8
<1>10. c[0] = conv
  BY <1>1, <1>8
<1>11. c \in [0..n -> Convs]
  <2> DEFINE Bad == {k \in 0..n : c[k] \notin Convs}
  <2>1. Bad = {}
    <3>1. SUFFICES ASSUME Bad # {} PROVE FALSE
      OBVIOUS
    <3>2. PICK k \in Bad : \A j \in Bad : k <= j
      BY <3>1, LeastNumber, Bad \in SUBSET Nat
    <3>3. k # 0 /\ k \in 0..n /\ c[k] \notin Convs
      BY <3>2, <1>10
    <3>4. k - 1 \in 0..n /\ k \in 1..n /\ ~ (k <= k - 1)
      BY <3>3, <1>1
    <3>5. c[k - 1] \in Convs
      BY <3>2, <3>4
    <3> QED BY <3>3, <3>4, <3>5, <1>1, <1>9, MergeType
  <2>2. DOMAIN c = 0..n /\ c = [i \in 0..n |-> c[i]]
    BY <1>7
  <2> QED BY <2>1, <2>2
<1> QED BY <1>7, <1>9, <1>10, <1>11 DEF n

\* r is conv and answers of tools, of msgs, after it; every message of msgs is
\* in it.
Grown(r, conv, msgs) ==
    /\ r \in Convs /\ Unique(r) /\ Len(conv) <= Len(r)
    /\ \A i \in DOMAIN conv : r[i] = conv[i]
    /\ \A i \in DOMAIN r : i > Len(conv) => \E k \in DOMAIN msgs : r[i] = msgs[k] /\ ToolAnswer(msgs[k])
    /\ \A k \in DOMAIN msgs : \E i \in DOMAIN r : r[i] = msgs[k]

\* Merging messages of which the pump has the answers of the model.
LEMMA MergedIs ==
    ASSUME NEW conv \in Convs, Unique(conv), NEW msgs \in Convs, NEW u, Settled(conv, u, msgs)
    PROVE  Grown(MergeMessages(conv, msgs), conv, msgs)
<1> DEFINE n == Len(msgs)
           Part(k, r) ==
             /\ r \in Convs /\ Unique(r) /\ Len(conv) <= Len(r)
             /\ \A i \in DOMAIN conv : r[i] = conv[i]
             /\ \A i \in DOMAIN r : i > Len(conv) =>
                   \E j \in 1..k : r[i] = msgs[j] /\ ToolAnswer(msgs[j])
             /\ \A j \in 1..k : \E i \in DOMAIN r : r[i] = msgs[j]
<1>1. PICK f \in [0..n -> Convs] :
         /\ f[0] = conv /\ \A i \in 1..n : f[i] = MergeMessage(f[i - 1], msgs[i])
         /\ MergeMessages(conv, msgs) = f[n]
  BY MergeSteps
<1>2. n \in Nat /\ DOMAIN msgs = 1..n /\ \A k \in 1..n : msgs[k] \in Msgs
  BY ConvFields
<1>a. Len(conv) \in Nat /\ DOMAIN conv = 1..Len(conv)
  BY ConvFields
<1> HIDE DEF n
<1> DEFINE Bad == {k \in 0..n : ~ Part(k, f[k])}
<1>3. Bad = {}
  <2>1. SUFFICES ASSUME Bad # {} PROVE FALSE
    OBVIOUS
  <2>2. PICK k \in Bad : \A j \in Bad : k <= j
    BY <2>1, LeastNumber, Bad \in SUBSET Nat
  <2>3. k # 0
    <3>1. Part(0, conv)
      BY <1>a
    <3> QED BY <2>2, <3>1, <1>1
  <2>4. k - 1 \in 0..n /\ k \in 1..n /\ ~ (k <= k - 1)
    BY <2>2, <2>3, <1>2
  <2>5. Part(k - 1, f[k - 1])
    BY <2>2, <2>4
  <2> DEFINE r == f[k - 1]
             m == msgs[k]
  <2>6. f[k] = MergeMessage(r, m) /\ m \in Msgs /\ r \in Convs /\ Len(r) \in Nat /\ DOMAIN r = 1..Len(r)
    BY <1>1, <1>2, <2>4, ConvFields
  <2>a. Part(k - 1, r) /\ m = msgs[k]
    BY <2>5
  <2> HIDE DEF r, m
  <2>7. CASE m.role = "assistant" /\ \E i \in DOMAIN conv : i > u /\ conv[i] = m
    <3>1. PICK i \in DOMAIN conv : conv[i] = m
      BY <2>7
    <3>2. i \in DOMAIN r /\ r[i] = m
      BY <3>1, <2>a, <2>6, <1>a
    <3>3. f[k] = [r EXCEPT ![i] = m]
      <4>1. SameKind(r[i], m) /\ m.id = r[i].id /\ Unique(r)
        BY <3>2, <2>a DEF SameKind
      <4> QED BY <3>2, <4>1, <2>6, MergeSame
    <3>4. f[k] = r
      BY <3>2, <3>3, <2>6 DEF Convs
    <3>5. Part(k, r)
      <4>1. ASSUME NEW j \in 1..k PROVE \E x \in DOMAIN r : r[x] = msgs[j]
        <5>1. CASE j = k
          BY <5>1, <3>2, <2>a
        <5>2. CASE j # k
          <6>1. j \in 1..(k - 1)
            BY <5>2, <2>4
          <6> QED BY <6>1, <2>a
        <5> QED BY <5>1, <5>2
      <4>2. 1..(k - 1) \subseteq 1..k
        BY <2>4
      <4> QED BY <4>1, <4>2, <2>a
    <3> QED BY <3>4, <3>5, <2>2
  <2>8. CASE ToolAnswer(m) /\ m.id \notin Ids(conv)
    <3>1. m.id \notin Ids(r)
      <4>1. SUFFICES ASSUME NEW i \in DOMAIN r, r[i].id = m.id PROVE FALSE
        BY DEF Ids
      <4>2. CASE i \in DOMAIN conv
        <5>1. conv[i].id = m.id
          BY <4>1, <4>2, <2>a
        <5> QED BY <5>1, <4>2, <2>8 DEF Ids
      <4>3. CASE i \notin DOMAIN conv
        <5>1. i > Len(conv)
          BY <4>3, <1>a, <2>6
        <5>2. PICK j \in 1..(k - 1) : r[i] = msgs[j]
          BY <5>1, <2>a, <4>1
        <5>3. msgs[j].id = msgs[k].id /\ j \in DOMAIN msgs /\ k \in DOMAIN msgs /\ j # k
          BY <5>2, <4>1, <1>2, <2>4, <2>a
        <5> QED BY <5>3 DEF Settled, Unique
      <4> QED BY <4>2, <4>3
    <3> DEFINE c == Append(r, m)
    <3>2. f[k] = c
      BY <3>1, <2>6, MergeNew
    <3>3. /\ c \in Convs /\ Len(c) = Len(r) + 1 /\ DOMAIN c = 1..(Len(r) + 1) /\ c[Len(r) + 1] = m
          /\ (\A i \in DOMAIN r : c[i] = r[i]) /\ Unique(c)
      BY <3>1, <2>a, <2>6, AppendIs
    <3> HIDE DEF c
    <3>4. /\ c \in Convs /\ Unique(c) /\ Len(conv) <= Len(c)
          /\ \A i \in DOMAIN conv : c[i] = conv[i]
      <4>1. Unique(c) /\ c \in Convs /\ Len(conv) <= Len(c)
        BY <3>3, <2>a, <2>6, <1>a
      <4>2. ASSUME NEW i \in DOMAIN conv PROVE c[i] = conv[i]
        <5>1. i \in DOMAIN r
          BY <2>a, <2>6, <1>a
        <5> QED BY <5>1, <3>3, <2>a
      <4> QED BY <4>1, <4>2
    <3>5. ASSUME NEW i \in DOMAIN c, i > Len(conv)
          PROVE  \E j \in 1..k : c[i] = msgs[j] /\ ToolAnswer(msgs[j])
      <4>1. CASE i = Len(r) + 1
        BY <4>1, <3>3, <2>8, <2>4, <2>a
      <4>2. CASE i # Len(r) + 1
        <5>1. i \in DOMAIN r /\ c[i] = r[i]
          BY <4>2, <3>3, <2>6
        <5>2. PICK j \in 1..(k - 1) : r[i] = msgs[j] /\ ToolAnswer(msgs[j])
          BY <5>1, <3>5, <2>a
        <5> QED BY <5>1, <5>2, <2>4
      <4> QED BY <4>1, <4>2
    <3>6. ASSUME NEW j \in 1..k PROVE \E i \in DOMAIN c : c[i] = msgs[j]
      <4>1. CASE j = k
        <5>1. Len(r) + 1 \in DOMAIN c
          BY <3>3, <2>6
        <5> QED BY <5>1, <4>1, <3>3, <2>a
      <4>2. CASE j # k
        <5>1. j \in 1..(k - 1)
          BY <4>2, <2>4
        <5>2. PICK i \in DOMAIN r : r[i] = msgs[j]
          BY <5>1, <2>a
        <5>3. i \in DOMAIN c /\ c[i] = r[i]
          BY <3>3, <5>2, <2>6
        <5> QED BY <5>2, <5>3
      <4> QED BY <4>1, <4>2
    <3>7. Part(k, c)
      BY <3>4, <3>5, <3>6
    <3> QED BY <3>2, <3>7, <2>2
  <2> QED
    <3>1. k \in DOMAIN msgs
      BY <2>4, <1>2
    <3> QED BY <3>1, <2>7, <2>8, <2>a DEF Settled
<1>4. Part(n, f[n])
  <2>1. n \in 0..n
    BY <1>2
  <2> HIDE DEF Part
  <2> QED BY <2>1, <1>3
<1> DEFINE r == f[n]
<1>5. Part(n, r) /\ MergeMessages(conv, msgs) = r
  BY <1>1, <1>4
<1> HIDE DEF r
<1>6. Grown(r, conv, msgs)
  BY <1>2, <1>5 DEF Grown
<1> QED BY <1>5, <1>6

-----------------------------------------------------------------------------
(* What an accumulator says, and how it reaches the pump                   *)

\* The blocks that are made are of their kind and hold what they are made of.
LEMMA BlockKinds ==
    /\ \A t \in Seq(Nat) : TextBlock(t) \in Blocks /\ TextBlock(t).kind = "text" /\ TextBlock(t).text = t
    /\ \A c \in Nat, full \in BOOLEAN :
          /\ Request(c, full) \in Blocks /\ Request(c, full).kind = "request"
          /\ Request(c, full).call = c /\ Request(c, full).full = full
    /\ \A c \in Nat : Response(c) \in Blocks /\ Response(c).kind = "response" /\ Response(c).call = c
<1> DEFINE Z == Seq(Nat)
<1> HIDE DEF Z
<1>1. \A t \in Z : TextBlock(t) \in [kind : {"text"}, text : Z] /\ TextBlock(t).kind = "text" /\ TextBlock(t).text = t
  BY DEF TextBlock
<1>2. \A c \in Nat, full \in BOOLEAN :
          /\ Request(c, full) \in Requests /\ Request(c, full).kind = "request"
          /\ Request(c, full).call = c /\ Request(c, full).full = full
  BY DEF Request, Requests
<1>3. \A c \in Nat : Response(c) \in Responses /\ Response(c).kind = "response" /\ Response(c).call = c
  BY DEF Response, Responses
<1> QED BY <1>1, <1>2, <1>3 DEF Blocks, Texts, Z

\* A block is what its kind says.
LEMMA KindSays ==
    ASSUME NEW b \in Blocks
    PROVE  /\ b.kind = "text" => b.text \in Seq(Nat) /\ b = TextBlock(b.text)
           /\ b.kind = "request" => b.call \in Nat /\ b.full \in BOOLEAN
           /\ b.kind = "response" => b.call \in Nat
<1> DEFINE Z == Seq(Nat)
<1>1. b \in [kind : {"text"}, text : Z] \/ b \in Requests \/ b \in Responses \/ b \in Marks
  BY DEF Blocks, Texts
<1> HIDE DEF Z
<1>2. CASE b \in [kind : {"text"}, text : Z]
  BY <1>2 DEF TextBlock, Z
<1>3. CASE b \in Requests \/ b \in Responses \/ b \in Marks
  BY <1>3 DEF Requests, Responses, Marks
<1> QED BY <1>1, <1>2, <1>3

Asked(q) == [i \in DOMAIN q |-> Request(q[i].call, q[i].full)]
Says(a) == IF a.content = <<>> THEN Asked(a.calls) ELSE <<TextBlock(a.content)>> \o Asked(a.calls)

\* An accumulator has its fields.
LEMMA AccFields ==
    ASSUME NEW a \in Accs
    PROVE  /\ a.id \in Nat /\ a.content \in Seq(Nat) /\ a.calls \in Seq(Calls) /\ a.buffered \in SUBSET Nat
           /\ Len(a.calls) \in Nat /\ DOMAIN a.calls = 1..Len(a.calls)
           /\ \A i \in DOMAIN a.calls : a.calls[i].call \in Nat /\ a.calls[i].full \in BOOLEAN
<1> DEFINE Z == Seq(Nat)
           Y == Seq(Calls)
<1> HIDE DEF Z, Y
<1>1. a \in [id : Nat, content : Z, calls : Y, buffered : SUBSET Nat]
  BY DEF Accs, Z, Y
<1>2. /\ a.id \in Nat /\ a.content \in Z /\ a.calls \in Y /\ a.buffered \in SUBSET Nat
  BY <1>1
<1>3. /\ Len(a.calls) \in Nat /\ DOMAIN a.calls = 1..Len(a.calls)
      /\ \A i \in DOMAIN a.calls : a.calls[i] \in Calls
  BY <1>2 DEF Y
<1> QED BY <1>2, <1>3 DEF Z, Y, Calls

\* The requests of the calls, one for each and in their order.
LEMMA AskedIs ==
    ASSUME NEW a \in Accs
    PROVE  /\ Asked(a.calls) \in Seq(Blocks) /\ Len(Asked(a.calls)) = Len(a.calls)
           /\ DOMAIN Asked(a.calls) = DOMAIN a.calls
           /\ \A i \in DOMAIN a.calls :
                /\ Asked(a.calls)[i] = Request(a.calls[i].call, a.calls[i].full)
                /\ Asked(a.calls)[i] \in Blocks /\ Asked(a.calls)[i].kind = "request"
                /\ Asked(a.calls)[i].call = a.calls[i].call /\ Asked(a.calls)[i].full = a.calls[i].full
<1>1. ASSUME NEW i \in DOMAIN a.calls
      PROVE  /\ Asked(a.calls)[i] = Request(a.calls[i].call, a.calls[i].full)
             /\ Asked(a.calls)[i] \in Blocks /\ Asked(a.calls)[i].kind = "request"
             /\ Asked(a.calls)[i].call = a.calls[i].call /\ Asked(a.calls)[i].full = a.calls[i].full
  BY AccFields, BlockKinds DEF Asked
<1>2. Asked(a.calls) = [i \in 1..Len(a.calls) |-> Asked(a.calls)[i]]
  BY AccFields DEF Asked
<1>3. Len(a.calls) \in Nat /\ DOMAIN a.calls = 1..Len(a.calls)
  BY AccFields
<1> DEFINE s == Asked(a.calls)
           n == Len(a.calls)
<1>4. s = [i \in 1..n |-> s[i]] /\ n \in Nat /\ \A i \in 1..n : s[i] \in Blocks
  BY <1>1, <1>2, <1>3
<1> HIDE DEF s, n
<1>5. s \in Seq(Blocks) /\ Len(s) = n
  BY <1>4
<1> QED BY <1>1, <1>2, <1>3, <1>5 DEF s, n

\* The text comes first, then the calls.
LEMMA SaysIs ==
    ASSUME NEW a \in Accs
    PROVE  /\ Says(a) \in Seq(Blocks)
           /\ Says(a) = <<>> <=> a.content = <<>> /\ a.calls = <<>>
           /\ a.content # <<>> =>
                /\ Len(Says(a)) = Len(a.calls) + 1 /\ Says(a)[1] = TextBlock(a.content)
                /\ \A i \in DOMAIN a.calls : Says(a)[i + 1] = Asked(a.calls)[i]
           /\ \A k \in DOMAIN Says(a) : k > 1 \/ a.content = <<>> => Says(a)[k].kind = "request"
<1> DEFINE s == Asked(a.calls)
           n == Len(a.calls)
           b == TextBlock(a.content)
<1>1. s \in Seq(Blocks) /\ Len(s) = n /\ n \in Nat /\ DOMAIN a.calls = 1..n /\ \A i \in 1..n : s[i].kind = "request"
  BY AskedIs, AccFields
<1>2. b \in Blocks
  BY AccFields, BlockKinds
<1>3. a.calls = <<>> <=> n = 0
  BY AccFields
<1>4. Says(a) = IF a.content = <<>> THEN s ELSE <<b>> \o s
  BY DEF Says
<1> HIDE DEF s, n, b
<1> DEFINE t == <<b>> \o s
<1>5. /\ t \in Seq(Blocks) /\ Len(t) = n + 1 /\ DOMAIN t = 1..(n + 1) /\ t[1] = b /\ t # <<>>
      /\ \A i \in 1..n : t[i + 1] = s[i]
  BY <1>1, <1>2
<1> HIDE DEF t
<1>6. CASE a.content = <<>>
  <2>1. s = <<>> <=> n = 0
    BY <1>1
  <2>2. DOMAIN s = 1..n
    BY <1>1
  <2> QED BY <1>6, <1>1, <1>3, <1>4, <2>1, <2>2
<1>7. CASE a.content # <<>>
  <2>1. Says(a) = t
    BY <1>7, <1>4 DEF t
  <2>2. ASSUME NEW k \in DOMAIN t, k > 1 PROVE t[k].kind = "request"
    <3>1. k - 1 \in 1..n /\ k = (k - 1) + 1
      BY <1>5, <1>1, <2>2
    <3>2. t[k] = s[k - 1]
      BY <3>1, <1>5
    <3> QED BY <3>1, <3>2, <1>1
  <2> QED BY <2>1, <2>2, <1>7, <1>5, <1>1 DEF b, s, n
<1> QED BY <1>6, <1>7

\* finish gives nothing, or one message.
LEMMA FinishIs ==
    ASSUME NEW a \in Accs
    PROVE  IF Says(a) = <<>> THEN Finish(a) = <<>>
           ELSE LET m == Message(a.id, "assistant", Says(a))
                IN  /\ Finish(a) = <<m>> /\ m \in Msgs
                    /\ m.id = a.id /\ m.role = "assistant" /\ m.blocks = Says(a)
<1>1. Finish(a) = IF Says(a) = <<>> THEN <<>> ELSE <<Message(a.id, "assistant", Says(a))>>
  <2> DEFINE text == IF a.content = <<>> THEN <<>> ELSE <<TextBlock(a.content)>>
  <2>1. text \o Asked(a.calls) = Says(a)
    <3> DEFINE s == Asked(a.calls)
    <3>1. s \in Seq(Blocks)
      BY AskedIs
    <3>2. <<>> \o s = s
      BY <3>1
    <3> HIDE DEF s
    <3> QED BY <3>2 DEF Says, s
  <2> QED BY <2>1 DEF Finish, Asked
<1>2. CASE Says(a) = <<>>
  BY <1>1, <1>2
<1>3. CASE Says(a) # <<>>
  <2>1. a.id \in Nat /\ Says(a) \in Seq(Blocks) /\ "assistant" \in Roles
    BY AccFields, SaysIs DEF Roles
  <2> QED BY <1>1, <1>3, <2>1, MessageIs
<1> QED BY <1>2, <1>3

\* The text of a message is that of its first block, when no other is text.
LEMMA TextIs ==
    ASSUME NEW m \in Msgs, \A k \in DOMAIN m.blocks : k > 1 => m.blocks[k].kind # "text"
    PROVE  TextContent(m) = IF m.blocks[1].kind = "text" THEN m.blocks[1].text ELSE <<>>
<1> DEFINE b == m.blocks
           n == Len(b)
           ss == [i \in DOMAIN b |-> IF b[i].kind = "text" THEN b[i].text ELSE <<>>]
           Z == Seq(Nat)
<1>1. b \in Seq(Blocks) /\ n \in Nat /\ DOMAIN b = 1..n /\ 1 \in 1..n /\ \A i \in 1..n : b[i] \in Blocks
  BY MessageFields
<1>2. \A i \in 1..n : b[i].kind = "text" => b[i].text \in Z
  BY <1>1, KindSays
<1>3. <<>> \in Z
  OBVIOUS
<1>4. ss \in [1..n -> Z]
  <2> HIDE DEF Z, b, n
  <2> QED BY <1>1, <1>2, <1>3
<1>5. ss \in Seq(Z) /\ ss # <<>> /\ DOMAIN ss = 1..n
  <2> HIDE DEF Z, b, n, ss
  <2> QED BY <1>4, <1>1
<1>6. \A i \in DOMAIN ss : i > 1 => ss[i] = <<>>
  BY <1>1, <1>5
<1>7. Joined(ss) = ss[1]
  <2> HIDE DEF ss, b
  <2> QED BY <1>5, <1>6, JoinedFirst
<1>8. TextContent(m) = Joined(ss)
  BY DEF TextContent
<1> QED BY <1>1, <1>7, <1>8

\* The recursion of PersistEvents; none, one and two events one after the other.
PersistRec(f, conv, s) ==
    f = [i \in 0..Len(s) |-> IF i = 0 THEN conv ELSE PersistEvent(f[i - 1], s[i])]

\* A function of the recursion of PersistEvents gives its value.
LEMMA PersistSteps ==
    ASSUME NEW conv, NEW s, NEW f, PersistRec(f, conv, s)
    PROVE  \E c : PersistRec(c, conv, s) /\ PersistEvents(conv, s) = c[Len(s)]
<1> DEFINE c == CHOOSE h : PersistRec(h, conv, s)
<1>1. PersistRec(c, conv, s)
  OBVIOUS
<1>2. PersistEvents(conv, s) = c[Len(s)]
  BY DEF PersistEvents, PersistRec
<1> QED BY <1>1, <1>2

\* No event, no change.
LEMMA PersistNone ==
    ASSUME NEW conv, NEW s, Len(s) = 0
    PROVE  PersistEvents(conv, s) = conv
<1>1. PersistRec([i \in 0..0 |-> conv], conv, s)
  BY DEF PersistRec
<1>2. PICK c : PersistRec(c, conv, s) /\ PersistEvents(conv, s) = c[Len(s)]
  BY <1>1, PersistSteps
<1>3. c[0] = conv
  BY <1>2 DEF PersistRec
<1> QED BY <1>2, <1>3

\* One event is applied.
LEMMA PersistOne ==
    ASSUME NEW conv, NEW s, NEW e, Len(s) = 1, s[1] = e
    PROVE  PersistEvents(conv, s) = PersistEvent(conv, e)
<1> DEFINE x == PersistEvent(conv, e)
           f == [i \in 0..1 |-> IF i = 0 THEN conv ELSE x]
<1>1. PersistRec(f, conv, s)
  <2>1. ASSUME NEW i \in 0..1 PROVE f[i] = IF i = 0 THEN conv ELSE PersistEvent(f[i - 1], s[i])
    <3>1. i = 0 \/ i = 1
      OBVIOUS
    <3> QED BY <3>1
  <2> QED BY <2>1 DEF PersistRec
<1>2. PICK c : PersistRec(c, conv, s) /\ PersistEvents(conv, s) = c[Len(s)]
  <2> HIDE DEF f
  <2> QED BY <1>1, PersistSteps
<1>3. c = [i \in 0..1 |-> IF i = 0 THEN conv ELSE PersistEvent(c[i - 1], s[i])]
  BY <1>2 DEF PersistRec
<1>4. c[0] = conv /\ c[1] = PersistEvent(c[0], s[1])
  BY <1>3
<1> QED BY <1>2, <1>4

\* Two events are applied in their order.
LEMMA PersistTwo ==
    ASSUME NEW conv, NEW s, NEW e, NEW d, Len(s) = 2, s[1] = e, s[2] = d
    PROVE  PersistEvents(conv, s) = PersistEvent(PersistEvent(conv, e), d)
<1> DEFINE x == PersistEvent(conv, e)
           y == PersistEvent(x, d)
           f == [i \in 0..2 |-> IF i = 0 THEN conv ELSE IF i = 1 THEN x ELSE y]
<1>1. PersistRec(f, conv, s)
  <2>1. ASSUME NEW i \in 0..2 PROVE f[i] = IF i = 0 THEN conv ELSE PersistEvent(f[i - 1], s[i])
    <3>1. i = 0 \/ i = 1 \/ i = 2
      OBVIOUS
    <3> QED BY <3>1
  <2> QED BY <2>1 DEF PersistRec
<1>2. PICK c : PersistRec(c, conv, s) /\ PersistEvents(conv, s) = c[Len(s)]
  <2> HIDE DEF f
  <2> QED BY <1>1, PersistSteps
<1>3. c = [i \in 0..2 |-> IF i = 0 THEN conv ELSE PersistEvent(c[i - 1], s[i])]
  BY <1>2 DEF PersistRec
<1>4. c[0] = conv /\ c[1] = PersistEvent(c[0], s[1]) /\ c[2] = PersistEvent(c[1], s[2])
  BY <1>3
<1> QED BY <1>2, <1>4

\* One element and one are two.
LEMMA OneAndOne ==
    ASSUME NEW d, NEW w
    PROVE  <<d>> \o <<w>> = <<d, w>>
<1> DEFINE S == {d, w}
           x == <<d>>
           y == <<w>>
           z == <<d, w>>
<1>1. x \in Seq(S) /\ y \in Seq(S) /\ Len(x) = 1 /\ Len(y) = 1 /\ x[1] = d /\ y[1] = w
  OBVIOUS
<1>2. z \in Seq(S) /\ Len(z) = 2 /\ z[1] = d /\ z[2] = w
  OBVIOUS
<1> HIDE DEF S, x, y, z
<1> DEFINE t == x \o y
<1>a. t \in Seq(S) /\ Len(t) = 2 /\ t[1] = x[1] /\ t[2] = y[1]
  <2>1. /\ t \in Seq(S) /\ Len(t) = Len(x) + Len(y)
        /\ \A i \in 1 .. Len(x) + Len(y) : t[i] = IF i <= Len(x) THEN x[i] ELSE y[i - Len(x)]
    BY <1>1, ConcatProperties
  <2> HIDE DEF t
  <2> QED BY <2>1, <1>1
<1> HIDE DEF t
<1>b. \A i \in 1..2 : t[i] = z[i]
  BY <1>a, <1>1, <1>2
<1>c. t = z
  BY <1>a, <1>b, <1>2
<1>3. x \o y = z
  BY <1>c DEF t
<1> QED BY <1>3 DEF x, y, z

\* The last element is replaced.
LEMMA AppendOver ==
    ASSUME NEW S, NEW s \in Seq(S), NEW x \in S, NEW y \in S, NEW n, n = Len(s) + 1
    PROVE  [Append(s, x) EXCEPT ![n] = y] = Append(s, y)
<1> DEFINE t == Append(s, x)
           r == Append(s, y)
<1>1. /\ r \in Seq(S) /\ Len(r) = n /\ n \in Nat /\ r[n] = y /\ \A i \in 1..(n - 1) : r[i] = s[i]
      /\ t \in Seq(S) /\ Len(t) = n /\ \A i \in 1..(n - 1) : t[i] = s[i]
      /\ n \in 1..n /\ \A i \in 1..n : i = n \/ i \in 1..(n - 1)
  OBVIOUS
<1> HIDE DEF t, r
<1> DEFINE l == [t EXCEPT ![n] = y]
<1>2. l \in Seq(S) /\ Len(l) = n /\ l[n] = y /\ \A i \in 1..(n - 1) : l[i] = t[i]
  BY <1>1
<1> HIDE DEF l
<1>3. \A i \in 1..n : l[i] = r[i]
  BY <1>1, <1>2
<1>4. l = r
  BY <1>1, <1>2, <1>3
<1> QED BY <1>4 DEF l, r, t

\* sent is the beginning of text.
Begins(sent, text) == Len(sent) <= Len(text) /\ sent = SubSeq(text, 1, Len(sent))
Rest(sent, text) == SubSeq(text, Len(sent) + 1, Len(text))

\* What was sent and the rest of the text are the text.
LEMMA RestFollows ==
    ASSUME NEW sent \in Seq(Nat), NEW text \in Seq(Nat), Begins(sent, text)
    PROVE  /\ sent \o Rest(sent, text) = text /\ Rest(sent, text) \in Seq(Nat)
           /\ IsStrictPrefix(sent, text) <=> sent # text
<1>1. sent \o Rest(sent, text) = text /\ Rest(sent, text) \in Seq(Nat)
  BY DEF Begins, Rest
<1>2. SubSeq(sent, 1, Len(sent)) = sent
  OBVIOUS
<1>3. IsPrefix(sent, text)
  BY <1>2 DEF IsPrefix, Begins
<1> QED BY <1>1, <1>3 DEF IsStrictPrefix

HasTools(m) == \E i \in DOMAIN m.blocks : m.blocks[i].kind \in {"request", "response"}
DeltaEvent(m, sent) == [type |-> "delta", id |-> m.id, delta |-> Rest(sent, TextContent(m))]
MessageEvent(m) == [type |-> "message", message |-> m]

\* A text that has grown is sent as a delta, and tools with the whole message.
LEMMA EventsAre ==
    ASSUME NEW m, NEW sent \in Seq(Nat), TextContent(m) \in Seq(Nat), Begins(sent, TextContent(m))
    PROVE  EventsOf(m, sent) =
             IF sent # TextContent(m)
             THEN IF HasTools(m) THEN <<DeltaEvent(m, sent), MessageEvent(m)>> ELSE <<DeltaEvent(m, sent)>>
             ELSE IF HasTools(m) THEN <<MessageEvent(m)>> ELSE <<>>
<1> DEFINE text == TextContent(m)
           d == [type |-> "delta", id |-> m.id, delta |-> SubSeq(text, Len(sent) + 1, Len(text))]
           w == [type |-> "message", message |-> m]
           first == IF IsStrictPrefix(sent, text) THEN <<d>>
                    ELSE IF text # <<>> /\ text # sent THEN <<w>> ELSE <<>>
           second == IF HasTools(m) THEN <<w>> ELSE <<>>
<1>1. EventsOf(m, sent) = first \o second
  BY DEF EventsOf, HasTools
<1>2. IsStrictPrefix(sent, text) <=> sent # text
  BY RestFollows
<1>3. first = IF sent # text THEN <<d>> ELSE <<>>
  <2> HIDE DEF d, w, text
  <2> QED BY <1>2
<1>4. d = DeltaEvent(m, sent) /\ w = MessageEvent(m)
  BY DEF DeltaEvent, MessageEvent, Rest
<1> DEFINE grows == sent # text
           tools == HasTools(m)
<1> HIDE DEF d, w, text, grows, tools
<1>5. first \o second = IF grows THEN IF tools THEN <<d, w>> ELSE <<d>>
                        ELSE IF tools THEN <<w>> ELSE <<>>
  <2>1. first = IF grows THEN <<d>> ELSE <<>>
    BY <1>3 DEF grows
  <2>2. second = IF tools THEN <<w>> ELSE <<>>
    BY DEF tools
  <2> HIDE DEF first, second
  <2>a. <<d>> \o <<w>> = <<d, w>> /\ <<d>> \o <<>> = <<d>> /\ <<>> \o <<w>> = <<w>> /\ <<>> \o <<>> = <<>>
    <3>1. <<d>> \in Seq({d}) /\ <<w>> \in Seq({w}) /\ <<>> \in Seq({})
      OBVIOUS
    <3>2. <<d>> \o <<>> = <<d>> /\ <<>> \o <<w>> = <<w>> /\ <<>> \o <<>> = <<>>
      BY <3>1, ConcatEmptySeq
    <3> QED BY <3>2, OneAndOne
  <2>3. CASE grows /\ tools
    <3>1. first = <<d>> /\ second = <<w>>
      BY <2>1, <2>2, <2>3
    <3> QED BY <3>1, <2>a, <2>3
  <2>4. CASE grows /\ ~tools
    <3>1. first = <<d>> /\ second = <<>>
      BY <2>1, <2>2, <2>4
    <3> QED BY <3>1, <2>a, <2>4
  <2>5. CASE ~grows /\ tools
    <3>1. first = <<>> /\ second = <<w>>
      BY <2>1, <2>2, <2>5
    <3> QED BY <3>1, <2>a, <2>5
  <2>6. CASE ~grows /\ ~tools
    <3>1. first = <<>> /\ second = <<>>
      BY <2>1, <2>2, <2>6
    <3> QED BY <3>1, <2>a, <2>6
  <2> QED BY <2>3, <2>4, <2>5, <2>6
<1> QED BY <1>1, <1>4, <1>5 DEF grows, tools, text

\* What the pump does with the two kinds of event.
LEMMA EventKinds ==
    ASSUME NEW conv, NEW m, NEW sent
    PROVE  /\ PersistEvent(conv, DeltaEvent(m, sent)) = ApplyDelta(conv, m.id, Rest(sent, TextContent(m)))
           /\ PersistEvent(conv, MessageEvent(m)) = MergeMessage(conv, m)
BY DEF PersistEvent, DeltaEvent, MessageEvent

\* What a stream yields: text first, then calls.
Spoken(m) ==
    /\ m \in Msgs /\ m.role = "assistant"
    /\ m.blocks[1].kind \in {"text", "request"}
    /\ m.blocks[1].kind = "text" => m.blocks[1].text # <<>>
    /\ \A k \in DOMAIN m.blocks : k > 1 => m.blocks[k].kind = "request"

\* A message that was spoken begins with its text, or has none and a request.
LEMMA SpokenIs ==
    ASSUME NEW m, Spoken(m)
    PROVE  /\ TextContent(m) \in Seq(Nat)
           /\ TextContent(m) # <<>> => m.blocks[1] = TextBlock(TextContent(m))
           /\ TextContent(m) = <<>> => m.blocks[1].kind = "request" /\ HasTools(m)
           /\ ~HasTools(m) => m.blocks = <<TextBlock(TextContent(m))>>
<1>1. m \in Msgs /\ m.blocks[1] \in Blocks /\ 1 \in DOMAIN m.blocks /\ m.blocks \in Seq(Blocks) /\ m.blocks # <<>>
  BY MessageFields DEF Spoken
<1>2. TextContent(m) = IF m.blocks[1].kind = "text" THEN m.blocks[1].text ELSE <<>>
  BY <1>1, TextIs DEF Spoken
<1>3. m.blocks[1].kind = "text" => m.blocks[1].text \in Seq(Nat) /\ m.blocks[1] = TextBlock(m.blocks[1].text)
  BY <1>1, KindSays
<1>4. m.blocks[1].kind = "request" => HasTools(m)
  BY <1>1 DEF HasTools
<1>5. CASE m.blocks[1].kind = "text"
  <2>1. /\ TextContent(m) \in Seq(Nat) /\ TextContent(m) # <<>> /\ m.blocks[1] = TextBlock(TextContent(m))
    BY <1>2, <1>3, <1>5 DEF Spoken
  <2>2. ~HasTools(m) => Len(m.blocks) = 1
    <3> DEFINE b == m.blocks
    <3>a. 1 \in DOMAIN b /\ DOMAIN b = 1..Len(b) /\ Len(b) \in Nat
      BY <1>1
    <3> HIDE DEF b
    <3>b. Len(b) # 1 => 2 \in DOMAIN b
      BY <3>a
    <3>1. Len(m.blocks) # 1 => 2 \in DOMAIN m.blocks
      BY <3>b DEF b
    <3> QED BY <3>1 DEF HasTools, Spoken
  <2>3. Len(m.blocks) = 1 => m.blocks = <<m.blocks[1]>>
    BY <1>1
  <2> QED BY <2>1, <2>2, <2>3
<1>6. CASE m.blocks[1].kind # "text"
  <2>1. TextContent(m) = <<>> /\ HasTools(m) /\ m.blocks[1].kind = "request"
    BY <1>2, <1>4, <1>6 DEF Spoken
  <2>2. <<>> \in Seq(Nat)
    OBVIOUS
  <2> QED BY <2>1, <2>2
<1> QED BY <1>5, <1>6

\* A message that the pump does not know is there in the end.
LEMMA PersistedNew ==
    ASSUME NEW conv \in Convs, Unique(conv), NEW m, Spoken(m), m.id \notin Ids(conv)
    PROVE  \A e : e = <<>> => PersistEvents(conv, EventsOf(m, e)) = Append(conv, m)
<1> TAKE e
<1> HAVE e = <<>>
<1> DEFINE text == TextContent(m)
<1>1. m \in Msgs /\ m.role = "assistant" /\ m.id \in Nat /\ m = Message(m.id, "assistant", m.blocks)
  BY MessageFields DEF Spoken
<1>2. /\ text \in Seq(Nat) /\ (text # <<>> => m.blocks[1] = TextBlock(text))
      /\ (text = <<>> => HasTools(m)) /\ (~HasTools(m) => m.blocks = <<TextBlock(text)>>)
  BY SpokenIs
<1> HIDE DEF text
<1>3. e \in Seq(Nat) /\ Begins(e, text) /\ Rest(e, text) = text
  BY <1>2 DEF Begins, Rest
<1>4. EventsOf(m, e) = IF e # text
                       THEN IF HasTools(m) THEN <<DeltaEvent(m, e), MessageEvent(m)>> ELSE <<DeltaEvent(m, e)>>
                       ELSE IF HasTools(m) THEN <<MessageEvent(m)>> ELSE <<>>
  BY <1>2, <1>3, EventsAre DEF text
<1> DEFINE d == Message(m.id, "assistant", <<TextBlock(text)>>)
<1>5. PersistEvent(conv, DeltaEvent(m, e)) = Append(conv, d)
  BY <1>3, EventKinds, HasIds DEF ApplyDelta, text
<1> HIDE DEF d
<1>a. e = <<>>
  OBVIOUS
<1>6. PersistEvent(conv, MessageEvent(m)) = Append(conv, m)
  BY EventKinds, MergeNew
<1>7. CASE e = text
  <2>1. EventsOf(m, e) = <<MessageEvent(m)>>
    BY <1>7, <1>4, <1>2, <1>a
  <2> DEFINE s == <<MessageEvent(m)>>
  <2>2. Len(s) = 1 /\ s[1] = MessageEvent(m)
    OBVIOUS
  <2> HIDE DEF s
  <2>3. PersistEvents(conv, s) = Append(conv, m)
    BY <2>2, <1>6, PersistOne
  <2> QED BY <2>1, <2>3 DEF s
<1>8. CASE e # text /\ ~HasTools(m)
  <2>1. EventsOf(m, e) = <<DeltaEvent(m, e)>>
    BY <1>8, <1>4
  <2>2. d = m
    BY <1>1, <1>2, <1>8 DEF d
  <2> DEFINE s == <<DeltaEvent(m, e)>>
  <2>3. Len(s) = 1 /\ s[1] = DeltaEvent(m, e)
    OBVIOUS
  <2> HIDE DEF s
  <2>4. PersistEvents(conv, s) = Append(conv, m)
    BY <2>2, <2>3, <1>5, PersistOne
  <2> QED BY <2>1, <2>4 DEF s
<1>9. CASE e # text /\ HasTools(m)
  <2>1. EventsOf(m, e) = <<DeltaEvent(m, e), MessageEvent(m)>>
    BY <1>9, <1>4
  <2>2. d \in Msgs /\ d.id = m.id /\ d.role = "assistant" /\ d.blocks = <<TextBlock(text)>>
    <3>1. <<TextBlock(text)>> \in Seq(Blocks) /\ <<TextBlock(text)>> # <<>>
      BY <1>2, BlockKinds
    <3>2. "assistant" \in Roles
      BY DEF Roles
    <3> DEFINE b == <<TextBlock(text)>>
    <3>3. b \in Seq(Blocks) /\ b # <<>> /\ d = Message(m.id, "assistant", b)
      BY <3>1 DEF d
    <3> HIDE DEF b
    <3>4. d \in Msgs /\ d.id = m.id /\ d.role = "assistant" /\ d.blocks = b
      BY <3>2, <3>3, <1>1, MessageIs
    <3> QED BY <3>4 DEF b
  <2> DEFINE c == Append(conv, d)
             n == Len(conv) + 1
  <2>3. /\ c \in Convs /\ Unique(c) /\ n \in DOMAIN c /\ c[n] = d /\ DOMAIN c = 1..n /\ Len(conv) \in Nat
        /\ \A i \in DOMAIN conv : c[i] = conv[i]
    <3>1. /\ c \in Convs /\ Len(c) = Len(conv) + 1 /\ DOMAIN c = 1..(Len(conv) + 1)
          /\ c[Len(conv) + 1] = d /\ (\A i \in DOMAIN conv : c[i] = conv[i])
          /\ (Unique(conv) /\ d.id \notin Ids(conv) => Unique(c))
      BY <2>2, AppendIs
    <3>2. Unique(c)
      BY <3>1, <2>2
    <3>3. Len(conv) \in Nat
      BY ConvFields
    <3> HIDE DEF c
    <3> QED BY <3>1, <3>2, <3>3
  <2>4. d.blocks[1] = TextBlock(text) /\ m.blocks[1] = TextBlock(text)
    BY <2>2, <1>2, <1>9, <1>a
  <2>5. SameKind(d, m)
    BY <2>2, <2>4, <1>1 DEF SameKind
  <2>6. MergeMessage(c, m) = [c EXCEPT ![n] = m]
    <3> HIDE DEF c, n
    <3> QED BY <2>2, <2>3, <2>5, MergeSame
  <2>7. [c EXCEPT ![n] = m] = Append(conv, m)
    <3>1. conv \in Convs /\ d \in Msgs /\ m \in Msgs
      BY <1>1, <2>2
    <3>2. conv \in Seq(Msgs) /\ n = Len(conv) + 1
      BY <3>1 DEF Convs
    <3> QED BY <3>1, <3>2, AppendOver
  <2>8. PersistEvents(conv, <<DeltaEvent(m, e), MessageEvent(m)>>) = MergeMessage(c, m)
    <3> DEFINE x == DeltaEvent(m, e)
               y == MessageEvent(m)
    <3>1. PersistEvent(conv, x) = c
      BY <1>5
    <3>2. PersistEvent(c, y) = MergeMessage(c, m)
      BY EventKinds
    <3> HIDE DEF x, y
    <3> DEFINE s == <<x, y>>
    <3>a. Len(s) = 2 /\ s[1] = x /\ s[2] = y
      OBVIOUS
    <3> HIDE DEF s
    <3>b. PersistEvents(conv, s) = PersistEvent(PersistEvent(conv, x), y)
      BY <3>a, PersistTwo
    <3>3. PersistEvents(conv, <<x, y>>) = PersistEvent(PersistEvent(conv, x), y)
      BY <3>b DEF s
    <3>4. PersistEvents(conv, <<x, y>>) = MergeMessage(c, m)
      BY <3>1, <3>2, <3>3
    <3> QED BY <3>4 DEF x, y
  <2> QED
    <3> HIDE DEF c
    <3> QED BY <2>1, <2>6, <2>7, <2>8, <1>a
<1> QED BY <1>7, <1>8, <1>9

\* A text block with another text.
LEMMA TextOver ==
    ASSUME NEW s, NEW x
    PROVE  [TextBlock(s) EXCEPT !.text = x] = TextBlock(x)
BY DEF TextBlock

\* Other blocks.
LEMMA WithBlocks ==
    ASSUME NEW m, NEW id, NEW role, NEW b, m = Message(id, role, b), NEW c
    PROVE  [m EXCEPT !.blocks = c] = Message(m.id, m.role, c)
BY DEF Message

\* A delta is added to the text of a message that begins with text.
LEMMA DeltaAdded ==
    ASSUME NEW m \in Msgs, NEW sent \in Seq(Nat), NEW delta \in Seq(Nat), NEW text,
           m.blocks[1] = TextBlock(sent), \A k \in DOMAIN m.blocks : k > 1 => m.blocks[k].kind # "text",
           text = sent \o delta
    PROVE  AppendDelta(m, delta) = Message(m.id, m.role, [m.blocks EXCEPT ![1] = TextBlock(text)])
<1> DEFINE b == m.blocks
           texts == {i \in DOMAIN b : b[i].kind = "text"}
<1>1. b \in Seq(Blocks) /\ 1 \in DOMAIN b /\ DOMAIN b = 1..Len(b) /\ Len(b) \in Nat
      /\ m = Message(m.id, m.role, b)
  BY MessageFields
<1>2. b[1].kind = "text" /\ b[1].text = sent
  BY BlockKinds
<1>3. texts = {1}
  BY <1>1, <1>2
<1> DEFINE i == CHOOSE k \in texts : \A j \in texts : k <= j
<1>4. AppendDelta(m, delta) = [m EXCEPT !.blocks[i].text = @ \o delta]
  BY <1>3 DEF AppendDelta
<1>5. i = 1
  <2> HIDE DEF texts
  <2> QED BY <1>3
<1> HIDE DEF i
<1>6. AppendDelta(m, delta) = [m EXCEPT !.blocks[1].text = @ \o delta]
  BY <1>4, <1>5
<1> DEFINE t == TextBlock(sent)
           x == t.text \o delta
           c == [b EXCEPT ![1] = [t EXCEPT !.text = x]]
<1>7. [t EXCEPT !.text = x] = TextBlock(text)
  <2>1. x = text
    BY <1>2
  <2>2. [t EXCEPT !.text = x] = TextBlock(x)
    BY TextOver
  <2> QED BY <2>1, <2>2
<1>8. c = [b EXCEPT ![1] = TextBlock(text)]
  BY <1>7
<1>9. AppendDelta(m, delta) = [m EXCEPT !.blocks = c]
  <2>1. b[1] = t
    OBVIOUS
  <2>2. [m EXCEPT !.blocks[1].text = @ \o delta]
          = [m EXCEPT !.blocks = [b EXCEPT ![1] = [b[1] EXCEPT !.text = b[1].text \o delta]]]
    OBVIOUS
  <2> DEFINE d == [b EXCEPT ![1] = [b[1] EXCEPT !.text = b[1].text \o delta]]
  <2> HIDE DEF b, t
  <2>3. d = c
    BY <2>1
  <2>4. AppendDelta(m, delta) = [m EXCEPT !.blocks = d]
    BY <2>2, <1>6
  <2> HIDE DEF c, d
  <2> QED BY <2>3, <2>4
<1> HIDE DEF c, b
<1>10. [m EXCEPT !.blocks = c] = Message(m.id, m.role, c)
  BY <1>1, WithBlocks
<1> QED BY <1>8, <1>9, <1>10 DEF b

\* What the pump has of a message it was shown before.
ShownBefore(m, id, sent) ==
    /\ m \in Msgs /\ m.id = id /\ m.role = "assistant" /\ sent \in Seq(Nat) /\ sent # <<>>
    /\ m.blocks[1] = TextBlock(sent)
    /\ \A k \in DOMAIN m.blocks : k > 1 => m.blocks[k].kind # "text"

\* A message that the pump knows is as it is said in the end.
LEMMA PersistedMore ==
    ASSUME NEW conv \in Convs, Unique(conv), NEW i \in DOMAIN conv, NEW sent, NEW m, Spoken(m),
           ShownBefore(conv[i], m.id, sent), Begins(sent, TextContent(m)),
           ~HasTools(m) => Len(conv[i].blocks) = 1
    PROVE  PersistEvents(conv, EventsOf(m, sent)) = [conv EXCEPT ![i] = m]
<1> DEFINE text == TextContent(m)
           old == conv[i]
           d == DeltaEvent(m, sent)
           w == MessageEvent(m)
<1>1. /\ m \in Msgs /\ m.role = "assistant" /\ m.id \in Nat /\ m = Message(m.id, "assistant", m.blocks)
  BY MessageFields DEF Spoken
<1>2. /\ text \in Seq(Nat) /\ (text # <<>> => m.blocks[1] = TextBlock(text))
      /\ (~HasTools(m) => m.blocks = <<TextBlock(text)>>)
  BY SpokenIs
<1>3. /\ old \in Msgs /\ old.id = m.id /\ old.role = "assistant" /\ sent \in Seq(Nat) /\ sent # <<>>
      /\ old.blocks[1] = TextBlock(sent) /\ \A k \in DOMAIN old.blocks : k > 1 => old.blocks[k].kind # "text"
  BY DEF ShownBefore
<1>4. /\ sent \o Rest(sent, text) = text /\ Rest(sent, text) \in Seq(Nat)
      /\ EventsOf(m, sent) = IF sent # text THEN IF HasTools(m) THEN <<d, w>> ELSE <<d>>
                             ELSE IF HasTools(m) THEN <<w>> ELSE <<>>
  BY <1>2, <1>3, RestFollows, EventsAre
<1>5. text # <<>>
  <2>1. Len(sent) \in Nat /\ Len(sent) # 0 /\ Len(sent) <= Len(text)
    BY <1>3 DEF Begins
  <2>2. text = <<>> => Len(text) = 0
    OBVIOUS
  <2> HIDE DEF text
  <2> QED BY <2>1, <2>2
<1>6. m.blocks[1] = TextBlock(text)
  BY <1>2, <1>5
<1> DEFINE blocks == [old.blocks EXCEPT ![1] = TextBlock(text)]
           new == Message(m.id, "assistant", blocks)
           c == [conv EXCEPT ![i] = new]
<1>7. /\ blocks \in Seq(Blocks) /\ blocks # <<>> /\ blocks[1] = TextBlock(text)
      /\ (Len(old.blocks) = 1 => blocks = <<TextBlock(text)>>)
  <2> DEFINE b == old.blocks
             t == TextBlock(text)
  <2>1. b \in Seq(Blocks) /\ 1 \in DOMAIN b /\ t \in Blocks /\ DOMAIN b = 1..Len(b) /\ Len(b) \in Nat
    BY <1>2, <1>3, MessageFields, BlockKinds
  <2> HIDE DEF b, t
  <2> DEFINE x == [b EXCEPT ![1] = t]
  <2>2. x \in Seq(Blocks) /\ x # <<>> /\ x[1] = t /\ Len(x) = Len(b)
    BY <2>1
  <2>3. Len(b) = 1 => x = <<t>>
    BY <2>2
  <2> QED BY <2>2, <2>3 DEF b, t
<1> HIDE DEF blocks
<1>8. new \in Msgs /\ new.id = m.id /\ new.role = "assistant" /\ new.blocks = blocks
  <2>1. "assistant" \in Roles
    BY DEF Roles
  <2> QED BY <2>1, <1>1, <1>7, MessageIs
<1>9. PersistEvent(conv, d) = c
  <2>1. PersistEvent(conv, d) = ApplyDelta(conv, m.id, Rest(sent, text))
    BY EventKinds
  <2>2. Has(conv, m.id) /\ Position(conv, m.id) = i
    <3>1. Has(conv, conv[i].id) /\ Position(conv, conv[i].id) = i
      BY PositionIs
    <3> QED BY <3>1, <1>3
  <2>3. ApplyDelta(conv, m.id, Rest(sent, text)) = [conv EXCEPT ![i] = AppendDelta(old, Rest(sent, text))]
    BY <2>2 DEF ApplyDelta
  <2>4. AppendDelta(old, Rest(sent, text)) = new
    <3> DEFINE rest == Rest(sent, text)
    <3>1. rest \in Seq(Nat) /\ text = sent \o rest
      BY <1>4
    <3> HIDE DEF rest, text, old
    <3>2. AppendDelta(old, rest) = Message(old.id, old.role, [old.blocks EXCEPT ![1] = TextBlock(text)])
      BY <1>3, <3>1, DeltaAdded
    <3> QED BY <3>2, <1>3 DEF rest, blocks
  <2> QED BY <2>1, <2>3, <2>4
<1> HIDE DEF new
<1>10. c \in Convs /\ c[i] = new /\ i \in DOMAIN c /\ Unique(c) /\ new.id = m.id
       /\ [c EXCEPT ![i] = m] = [conv EXCEPT ![i] = m]
  <2>1. new.id = conv[i].id
    BY <1>3, <1>8
  <2>2. c \in Convs /\ c[i] = new /\ DOMAIN c = DOMAIN conv /\ Unique(c)
    BY <2>1, <1>8, ReplaceIs
  <2> QED BY <2>2, <1>8
<1>11. PersistEvent(conv, w) = [conv EXCEPT ![i] = m]
  <2>1. SameKind(conv[i], m) /\ m.id = conv[i].id
    <3>1. old.blocks[1].kind = "text" /\ m.blocks[1].kind = "text"
      BY <1>2, <1>3, <1>6, BlockKinds
    <3> QED BY <3>1, <1>1, <1>3 DEF SameKind
  <2>2. MergeMessage(conv, m) = [conv EXCEPT ![i] = m]
    BY <2>1, MergeSame
  <2> QED BY <2>2, EventKinds
<1>12. PersistEvent(c, w) = [conv EXCEPT ![i] = m]
  <2> HIDE DEF c
  <2>1. SameKind(c[i], m) /\ m.id = c[i].id
    BY <1>1, <1>3, <1>6, <1>7, <1>8, <1>10, BlockKinds DEF SameKind
  <2>2. MergeMessage(c, m) = [c EXCEPT ![i] = m]
    BY <2>1, <1>10, MergeSame
  <2> QED BY <2>2, <1>10, EventKinds
<1> HIDE DEF c, d, w, text
<1> DEFINE grows == sent # text
           s == EventsOf(m, sent)
<1>13. CASE sent = text /\ ~HasTools(m)
  <2> DEFINE e == <<>>
  <2>1. Len(e) = 0 /\ s = e
    BY <1>4, <1>13
  <2> HIDE DEF e, s
  <2>2. PersistEvents(conv, s) = conv
    BY <2>1, PersistNone
  <2>3. old.blocks = <<TextBlock(text)>>
    <3>1. Len(old.blocks) = 1 /\ old.blocks \in Seq(Blocks)
      BY <1>13, <1>3, MessageFields
    <3>2. old.blocks = <<old.blocks[1]>>
      BY <3>1
    <3> QED BY <3>2, <1>3, <1>13
  <2>4. old = m
    <3>1. old = Message(old.id, old.role, old.blocks)
      BY <1>3, MessageFields
    <3> QED BY <3>1, <2>3, <1>1, <1>2, <1>3, <1>13
  <2>5. [conv EXCEPT ![i] = m] = conv
    BY <2>4 DEF Convs
  <2> QED BY <2>2, <2>5 DEF s
<1>14. CASE sent = text /\ HasTools(m)
  <2> DEFINE e == <<w>>
  <2>1. Len(e) = 1 /\ e[1] = w
    OBVIOUS
  <2>2. s = e
    BY <1>4, <1>14
  <2> HIDE DEF e, s
  <2>3. PersistEvents(conv, s) = [conv EXCEPT ![i] = m]
    BY <2>1, <2>2, <1>11, PersistOne
  <2> QED BY <2>3 DEF s
<1>15. CASE sent # text /\ ~HasTools(m)
  <2> DEFINE e == <<d>>
  <2>1. Len(e) = 1 /\ e[1] = d
    OBVIOUS
  <2>2. s = e
    BY <1>4, <1>15
  <2> HIDE DEF e, s
  <2>3. PersistEvents(conv, s) = c
    BY <2>1, <2>2, <1>9, PersistOne
  <2>4. new = m
    BY <1>15, <1>1, <1>2, <1>7 DEF new
  <2> QED BY <2>3, <2>4 DEF s, c
<1>16. CASE sent # text /\ HasTools(m)
  <2> DEFINE e == <<d, w>>
  <2>1. Len(e) = 2 /\ e[1] = d /\ e[2] = w
    OBVIOUS
  <2>2. s = e
    BY <1>4, <1>16
  <2> HIDE DEF e, s
  <2>3. PersistEvents(conv, s) = [conv EXCEPT ![i] = m]
    BY <2>1, <2>2, <1>9, <1>12, PersistTwo
  <2> QED BY <2>3 DEF s
<1> QED BY <1>13, <1>14, <1>15, <1>16

-----------------------------------------------------------------------------
(* Accumulators                                                            *)

\* b is a with this text and these calls.
WithBoth(b, a, content, calls) ==
    b \in Accs /\ b.id = a.id /\ b.content = content /\ b.calls = calls

\* An accumulator with one field replaced.
LEMMA AccWith ==
    ASSUME NEW a \in Accs, NEW c \in Seq(Nat), NEW q \in Seq(Calls), NEW h \in SUBSET Nat
    PROVE  /\ WithBoth([a EXCEPT !.content = c], a, c, a.calls)
           /\ WithBoth([a EXCEPT !.calls = q], a, a.content, q)
           /\ WithBoth([a EXCEPT !.buffered = h], a, a.content, a.calls)
<1> DEFINE Z == Seq(Nat)
           Y == Seq(Calls)
<1>1. c \in Z /\ q \in Y /\ a \in [id : Nat, content : Z, calls : Y, buffered : SUBSET Nat]
  BY DEF Accs
<1> HIDE DEF Z, Y
<1> DEFINE R == [id : Nat, content : Z, calls : Y, buffered : SUBSET Nat]
<1>2. /\ [a EXCEPT !.content = c] \in R /\ [a EXCEPT !.content = c].id = a.id
      /\ [a EXCEPT !.content = c].content = c /\ [a EXCEPT !.content = c].calls = a.calls
  BY <1>1
<1>3. /\ [a EXCEPT !.calls = q] \in R /\ [a EXCEPT !.calls = q].id = a.id
      /\ [a EXCEPT !.calls = q].content = a.content /\ [a EXCEPT !.calls = q].calls = q
  BY <1>1
<1>4. /\ [a EXCEPT !.buffered = h] \in R /\ [a EXCEPT !.buffered = h].id = a.id
      /\ [a EXCEPT !.buffered = h].content = a.content /\ [a EXCEPT !.buffered = h].calls = a.calls
  BY <1>1
<1>5. R = Accs
  BY DEF Accs, Z, Y
<1> HIDE DEF R
<1> QED BY <1>2, <1>3, <1>4, <1>5 DEF WithBoth

\* An accumulator begins with nothing.
LEMMA NewAccIs ==
    ASSUME NEW id \in Nat
    PROVE  NewAcc(id) \in Accs /\ NewAcc(id).id = id /\ NewAcc(id).content = <<>> /\ NewAcc(id).calls = <<>>
<1> DEFINE Z == Seq(Nat)
           Y == Seq(Calls)
           e == <<>>
<1>1. e \in Z /\ e \in Y
  OBVIOUS
<1> HIDE DEF Z, Y, e
<1>2. [id |-> id, content |-> e, calls |-> e, buffered |-> {}]
        \in [id : Nat, content : Z, calls : Y, buffered : SUBSET Nat]
  BY <1>1
<1> QED BY <1>2 DEF NewAcc, Accs, Z, Y, e

\* A piece of text more.
LEMMA AddContentIs ==
    ASSUME NEW a \in Accs, NEW p \in Nat
    PROVE  WithBoth(AddContent(a, p), a, Append(a.content, p), a.calls)
<1>1. Append(a.content, p) \in Seq(Nat) /\ a.calls \in Seq(Calls) /\ {} \in SUBSET Nat
  BY AccFields
<1> QED BY <1>1, AccWith DEF AddContent

\* A call more, whose arguments are not there yet.
LEMMA AddCallIs ==
    ASSUME NEW a \in Accs, NEW c \in Nat
    PROVE  LET q == Append(a.calls, [call |-> c, full |-> FALSE])
           IN  /\ WithBoth(AddCall(a, c), a, a.content, q)
               /\ Len(q) = Len(a.calls) + 1 /\ q[Len(q)].call = c /\ ~q[Len(q)].full
               /\ \A i \in DOMAIN a.calls : q[i] = a.calls[i]
<1> DEFINE x == [call |-> c, full |-> FALSE]
<1>1. x \in Calls /\ x.call = c /\ ~x.full
  BY DEF Calls
<1> HIDE DEF x
<1> DEFINE q == Append(a.calls, x)
<1>2. a.calls \in Seq(Calls) /\ DOMAIN a.calls = 1..Len(a.calls) /\ Len(a.calls) \in Nat
  BY AccFields
<1>3. q \in Seq(Calls) /\ Len(q) = Len(a.calls) + 1 /\ q[Len(q)] = x /\ \A i \in DOMAIN a.calls : q[i] = a.calls[i]
  BY <1>1, <1>2
<1> HIDE DEF q
<1>4. WithBoth([a EXCEPT !.calls = q], a, a.content, q)
  <2>1. a.content \in Seq(Nat) /\ {} \in SUBSET Nat
    BY AccFields
  <2> QED BY <2>1, <1>3, AccWith
<1>5. AddCall(a, c) = [a EXCEPT !.calls = q]
  BY DEF AddCall, x, q
<1> QED BY <1>1, <1>3, <1>4, <1>5 DEF q, x

\* p and q are the same calls; those that are full in p are full in q.
Fuller(p, q) ==
    /\ Len(q) = Len(p)
    /\ \A i \in DOMAIN p : q[i].call = p[i].call /\ (p[i].full => q[i].full)

\* A call that is filled is full, and no call loses its arguments.
LEMMA FillCallIs ==
    ASSUME NEW a \in Accs, NEW c
    PROVE  LET b == FillCall(a, c)
           IN  /\ WithBoth(b, a, a.content, b.calls) /\ Fuller(a.calls, b.calls)
               /\ \A i \in DOMAIN b.calls : b.calls[i].call = c => b.calls[i].full
<1> DEFINE q == [i \in DOMAIN a.calls |->
                   IF a.calls[i].call = c THEN [a.calls[i] EXCEPT !.full = TRUE] ELSE a.calls[i]]
           n == Len(a.calls)
<1>1. a.calls \in Seq(Calls) /\ DOMAIN a.calls = 1..n /\ n \in Nat /\ \A i \in 1..n : a.calls[i] \in Calls
  <2>1. a.calls \in Seq(Calls) /\ DOMAIN a.calls = 1..n /\ n \in Nat
    BY AccFields
  <2> QED BY <2>1
<1>2. FillCall(a, c) = [a EXCEPT !.calls = q]
  BY DEF FillCall
<1>3. ASSUME NEW i \in 1..n
      PROVE  /\ q[i] \in Calls /\ q[i].call = a.calls[i].call /\ (a.calls[i].full => q[i].full)
             /\ (q[i].call = c => q[i].full)
  <2> DEFINE x == a.calls[i]
             y == [x EXCEPT !.full = TRUE]
  <2>1. x \in [call : Nat, full : BOOLEAN]
    BY <1>1 DEF Calls
  <2>2. q[i] = IF x.call = c THEN y ELSE x
    BY <1>1
  <2> HIDE DEF q, x
  <2>3. y \in [call : Nat, full : BOOLEAN] /\ y.call = x.call /\ y.full
    BY <2>1
  <2> HIDE DEF y
  <2>4. CASE x.call = c
    BY <2>1, <2>2, <2>3, <2>4 DEF Calls, x
  <2>5. CASE x.call # c
    BY <2>1, <2>2, <2>5 DEF Calls, x
  <2> QED BY <2>4, <2>5
<1>4. q = [i \in 1..n |-> q[i]]
  BY <1>1
<1> HIDE DEF q, n
<1>5. q \in Seq(Calls) /\ Len(q) = n /\ DOMAIN q = 1..n
  BY <1>1, <1>3, <1>4
<1>6. WithBoth([a EXCEPT !.calls = q], a, a.content, q)
  <2>1. a.content \in Seq(Nat) /\ {} \in SUBSET Nat
    BY AccFields
  <2> QED BY <2>1, <1>5, AccWith
<1>7. Fuller(a.calls, q)
  BY <1>1, <1>3, <1>5 DEF Fuller, n
<1> DEFINE b == FillCall(a, c)
<1>8. WithBoth(b, a, a.content, q)
  BY <1>2, <1>6
<1> HIDE DEF b
<1>9. b.calls = q
  BY <1>8 DEF WithBoth
<1> QED BY <1>3, <1>5, <1>7, <1>8, <1>9 DEF b

\* A text that is the whole content already adds nothing; any text is added at
\* the end or was there.
LEMMA BeginsSelf ==
    ASSUME NEW s \in Seq(Nat)
    PROVE  Begins(s, s)
BY DEF Begins

\* A text begins what it is continued to.
LEMMA BeginsMore ==
    ASSUME NEW s \in Seq(Nat), NEW t \in Seq(Nat)
    PROVE  Begins(s, s \o t) /\ s \o t \in Seq(Nat) /\ (t # <<>> => s \o t # <<>>)
<1>1. /\ s \o t \in Seq(Nat) /\ Len(s \o t) = Len(s) + Len(t) /\ Len(s) \in Nat /\ Len(t) \in Nat
      /\ (t # <<>> => s \o t # <<>>)
  OBVIOUS
<1>2. s = SubSeq(s \o t, 1, Len(s))
  OBVIOUS
<1>3. Begins(s, s \o t)
  BY <1>1, <1>2 DEF Begins
<1> QED BY <1>1, <1>3

\* The beginning of a sequence has the sequence's elements.
LEMMA BeginningAt ==
    ASSUME NEW s \in Seq(Nat), NEW n \in Nat, n <= Len(s)
    PROVE  \A i \in 1..n : SubSeq(s, 1, n)[i] = s[i]
OBVIOUS

\* The beginning of a beginning is one.
LEMMA BeginsThen ==
    ASSUME NEW s \in Seq(Nat), NEW t \in Seq(Nat), NEW u \in Seq(Nat), Begins(s, t), Begins(t, u)
    PROVE  Begins(s, u)
<1>1. Len(s) <= Len(t) /\ Len(t) <= Len(u) /\ Len(s) \in Nat /\ Len(t) \in Nat /\ Len(u) \in Nat
  BY DEF Begins
<1>2. \A i \in 1..Len(s) : s[i] = t[i]
  <2>1. s = SubSeq(t, 1, Len(s))
    BY DEF Begins
  <2>2. \A i \in 1..Len(s) : SubSeq(t, 1, Len(s))[i] = t[i]
    BY <1>1, BeginningAt
  <2> QED BY <2>1, <2>2
<1>3. \A i \in 1..Len(t) : t[i] = u[i]
  <2>1. t = SubSeq(u, 1, Len(t))
    BY DEF Begins
  <2>2. \A i \in 1..Len(t) : SubSeq(u, 1, Len(t))[i] = u[i]
    BY <1>1, BeginningAt
  <2> QED BY <2>1, <2>2
<1>4. \A i \in 1..Len(s) : s[i] = u[i]
  BY <1>1, <1>2, <1>3
<1> DEFINE v == SubSeq(u, 1, Len(s))
           n == Len(s)
<1>5. v \in Seq(Nat) /\ Len(v) = n /\ \A i \in 1..n : v[i] = u[i]
  <2>1. n \in Nat /\ n \in Int /\ 1 \in Int /\ n - 1 + 1 = n /\ (1 <= n => n - 1 + 1 = n)
    BY <1>1
  <2>2. \A i \in 1..n : u[i] \in Nat
    <3>1. \A i \in 1..n : i \in 1..Len(u)
      BY <1>1
    <3> QED BY <3>1
  <2> HIDE DEF n
  <2>3. /\ v \in Seq(Nat) /\ Len(v) = IF 1 <= n THEN n - 1 + 1 ELSE 0
        /\ \A i \in 1 .. n - 1 + 1 : v[i] = u[1 + i - 1]
    BY <2>1, <2>2, SubSeqProperties DEF n
  <2> HIDE DEF v
  <2>4. \A i \in 1..n : 1 + i - 1 = i
    BY <2>1
  <2> QED BY <2>1, <2>3, <2>4
<1> HIDE DEF v, n
<1>6. s = v
  <2>1. Len(s) = n /\ n \in Nat
    BY <1>1 DEF n
  <2>2. \A i \in 1..n : s[i] = v[i]
    BY <1>4, <1>5 DEF n
  <2> QED BY <2>1, <2>2, <1>5
<1> QED BY <1>1, <1>6 DEF Begins, v

\* What has a beginning is not empty.
LEMMA BeginsFull ==
    ASSUME NEW s \in Seq(Nat), NEW t \in Seq(Nat), Begins(s, t), s # <<>>
    PROVE  t # <<>>
<1>1. Len(s) # 0 /\ Len(s) \in Nat /\ Len(t) \in Nat /\ Len(s) <= Len(t)
  BY DEF Begins
<1> QED BY <1>1

-----------------------------------------------------------------------------
(* What the provider of the Responses protocol does with text it hears      *)
(* again, and with calls                                                    *)

\* A text ends itself.
LEMMA SuffixSelf ==
    ASSUME NEW s \in Seq(Nat)
    PROVE  IsSuffix(s, s)
<1> DEFINE r == Reverse(s)
<1>1. Len(r) = Len(s) /\ Len(s) \in Nat
  BY DEF Reverse
<1> HIDE DEF r
<1>2. IsPrefix(r, r)
  BY <1>1 DEF IsPrefix
<1> QED BY <1>2 DEF IsSuffix, r

\* What has an end is not empty.
LEMMA SuffixShorter ==
    ASSUME NEW s \in Seq(Nat), NEW t \in Seq(Nat), IsSuffix(s, t), s # <<>>
    PROVE  t # <<>>
<1>1. Len(Reverse(s)) = Len(s) /\ Len(Reverse(t)) = Len(t) /\ Len(s) \in Nat /\ Len(t) \in Nat /\ Len(s) # 0
  BY DEF Reverse
<1>2. Len(Reverse(s)) <= Len(Reverse(t))
  BY DEF IsSuffix, IsPrefix
<1>3. Len(t) # 0
  BY <1>1, <1>2
<1> QED BY <1>3

\* A prefix is a beginning.
LEMMA PrefixBegins ==
    ASSUME NEW s \in Seq(Nat), NEW t \in Seq(Nat), IsPrefix(s, t)
    PROVE  Begins(s, t)
<1>1. Len(s) <= Len(t) /\ SubSeq(s, 1, Len(s)) = SubSeq(t, 1, Len(s))
  BY DEF IsPrefix
<1>2. SubSeq(s, 1, Len(s)) = s
  OBVIOUS
<1> QED BY <1>1, <1>2 DEF Begins

\* b is a with more text, if any.
MoreText(b, a) == WithBoth(b, a, b.content, a.calls) /\ Begins(a.content, b.content)

\* No text is no less text.
LEMMA MoreTextSelf ==
    ASSUME NEW a \in Accs
    PROVE  MoreText(a, a)
<1>1. a.content \in Seq(Nat)
  BY AccFields
<1> QED BY <1>1, BeginsSelf DEF MoreText, WithBoth

\* Text that is appended leaves what was there as the beginning.
LEMMA AppendTextIs ==
    ASSUME NEW a \in Accs, NEW text \in Seq(Nat)
    PROVE  LET b == AppendText(a, text)
           IN  /\ MoreText(b, a)
               /\ text # <<>> => b.content # <<>>
               /\ a.content = text => b = a
<1> DEFINE b == AppendText(a, text)
           s == a.content
           t == s \o text
<1>1. s \in Seq(Nat) /\ a.calls \in Seq(Calls) /\ {} \in SUBSET Nat
  BY AccFields
<1> DEFINE none == text = <<>>
<1>2. b = IF none \/ IsSuffix(text, s) THEN a
          ELSE IF IsPrefix(s, text) THEN [a EXCEPT !.content = text] ELSE [a EXCEPT !.content = t]
  BY DEF AppendText
<1>3. t \in Seq(Nat) /\ Begins(s, t) /\ (~none => t # <<>>)
  BY <1>1, BeginsMore
<1>4. none <=> text = <<>>
  OBVIOUS
<1> HIDE DEF b, t, none
<1>5. CASE none \/ IsSuffix(text, s)
  <2>1. b = a
    BY <1>2, <1>5
  <2>2. ~none => s # <<>>
    BY <1>1, <1>4, <1>5, SuffixShorter
  <2> QED BY <2>1, <2>2, <1>4, MoreTextSelf DEF b
<1>6. CASE ~(none \/ IsSuffix(text, s)) /\ IsPrefix(s, text)
  <2>1. b = [a EXCEPT !.content = text]
    BY <1>2, <1>6
  <2>2. WithBoth(b, a, text, a.calls)
    BY <2>1, <1>1, AccWith
  <2>3. Begins(s, text)
    BY <1>1, <1>6, PrefixBegins
  <2>4. s # text
    BY <1>1, <1>6, SuffixSelf
  <2> QED BY <2>2, <2>3, <2>4 DEF MoreText, WithBoth, b
<1>7. CASE ~(none \/ IsSuffix(text, s)) /\ ~IsPrefix(s, text)
  <2>1. b = [a EXCEPT !.content = t]
    BY <1>2, <1>7
  <2>2. WithBoth(b, a, t, a.calls)
    BY <2>1, <1>1, <1>3, AccWith
  <2>3. s # text
    BY <1>1, <1>7, SuffixSelf
  <2>4. b.content = t /\ Begins(s, b.content)
    BY <2>2, <1>3 DEF WithBoth
  <2> QED BY <2>2, <2>3, <2>4, <1>3, <1>4, <1>7 DEF MoreText, b
<1> QED BY <1>5, <1>6, <1>7

\* A sequence of values whose steps stay in S.
LEMMA StepsStay ==
    ASSUME NEW S, NEW n \in Nat, NEW c, c[0] \in S, \A i \in 1..n : c[i - 1] \in S => c[i] \in S
    PROVE  \A i \in 0..n : c[i] \in S
<1> DEFINE Bad == {k \in 0..n : c[k] \notin S}
<1>1. SUFFICES ASSUME Bad # {} PROVE FALSE
  OBVIOUS
<1>2. PICK k \in Bad : \A j \in Bad : k <= j
  BY <1>1, LeastNumber, Bad \in SUBSET Nat
<1>3. k # 0 /\ k \in 0..n /\ c[k] \notin S
  BY <1>2
<1>4. k - 1 \in 0..n /\ k \in 1..n /\ ~ (k <= k - 1)
  BY <1>3
<1>5. c[k - 1] \in S
  BY <1>2, <1>4
<1> QED BY <1>3, <1>4, <1>5

\* The recursion of ApplyMessage holds.
LEMMA ApplyMessageSteps ==
    ASSUME NEW a \in Accs, NEW parts \in Seq(Seq(Nat))
    PROVE  \E c : /\ \A i \in 0..Len(parts) : c[i] \in Accs
                  /\ c[0] = a /\ \A i \in 1..Len(parts) : c[i] = AppendText(c[i - 1], parts[i])
                  /\ ApplyMessage(a, parts) = c[Len(parts)]
<1> DEFINE n == Len(parts)
           Z == Seq(Nat)
           g == [p \in (1..n) \X Accs |-> AppendText(p[2], parts[p[1]])]
           Rec(f) == f = [i \in 0..n |-> IF i = 0 THEN a ELSE AppendText(f[i - 1], parts[i])]
<1>1. n \in Nat /\ \A i \in 1..n : parts[i] \in Z
  OBVIOUS
<1>a. \A i \in 1..n, x \in Accs : AppendText(x, parts[i]) \in Accs
  BY <1>1, AppendTextIs DEF MoreText, WithBoth
<1> HIDE DEF n
<1>2. g \in [(1..n) \X Accs -> Accs]
  BY <1>1, <1>a
<1>3. PICK f : StepsOf(f, Accs, a, n, g)
  <2> HIDE DEF g
  <2> QED BY <1>1, <1>2, StepsExist
<1>4. f \in [0..n -> Accs] /\ f[0] = a /\ \A i \in 1..n : f[i] = g[<<i, f[i - 1]>>]
  <2> HIDE DEF g
  <2> QED BY <1>3 DEF StepsOf
<1>5. ASSUME NEW i \in 0..n
      PROVE  f[i] = IF i = 0 THEN a ELSE AppendText(f[i - 1], parts[i])
  <2>1. CASE i = 0
    BY <2>1, <1>4
  <2>2. CASE i # 0
    <3>1. i \in 1..n /\ i - 1 \in 0..n
      BY <2>2, <1>1
    <3>2. <<i, f[i - 1]>> \in (1..n) \X Accs
      BY <3>1, <1>4
    <3> QED BY <2>2, <3>1, <3>2, <1>4
  <2> QED BY <2>1, <2>2
<1>6. Rec(f)
  BY <1>4, <1>5
<1> DEFINE c == CHOOSE h : Rec(h)
<1>7. Rec(c) /\ ApplyMessage(a, parts) = c[n]
  BY <1>6 DEF ApplyMessage, n
<1> HIDE DEF c
<1>8. ASSUME NEW i \in 0..n
      PROVE  c[i] = IF i = 0 THEN a ELSE AppendText(c[i - 1], parts[i])
  BY <1>7
<1>9. ASSUME NEW i \in 1..n PROVE c[i] = AppendText(c[i - 1], parts[i])
  <2>1. i \in 0..n /\ i # 0
    BY <1>1
  <2> QED BY <2>1, <1>8
<1>10. c[0] = a
  BY <1>1, <1>8
<1>11. \A i \in 0..n : c[i] \in Accs
  BY <1>1, <1>9, <1>10, <1>a, StepsStay
<1> QED BY <1>7, <1>9, <1>10, <1>11 DEF n

\* Parts that are heard again add nothing when they are one part, and no text is
\* lost.
LEMMA ApplyMessageIs ==
    ASSUME NEW a \in Accs, NEW parts \in Seq(Seq(Nat)), \A i \in DOMAIN parts : parts[i] # <<>>
    PROVE  LET b == ApplyMessage(a, parts)
           IN  /\ MoreText(b, a)
               /\ parts = <<>> => b = a
               /\ parts # <<>> => b.content # <<>>
               /\ Len(parts) = 1 /\ a.content = parts[1] => b = a
<1> DEFINE n == Len(parts)
           Z == Seq(Nat)
           Full(x) == x # <<>>
<1>1. PICK c : /\ \A i \in 0..n : c[i] \in Accs
               /\ c[0] = a /\ \A i \in 1..n : c[i] = AppendText(c[i - 1], parts[i])
               /\ ApplyMessage(a, parts) = c[n]
  BY ApplyMessageSteps
<1>2. n \in Nat /\ DOMAIN parts = 1..n /\ (parts = <<>> <=> n = 0) /\ \A i \in 1..n : parts[i] \in Z /\ Full(parts[i])
  OBVIOUS
<1> HIDE DEF n, Full
<1>3. ASSUME NEW i \in 1..n
      PROVE  /\ i - 1 \in 0..n /\ i \in 0..n /\ MoreText(c[i], c[i - 1]) /\ Full(c[i].content)
             /\ (c[i - 1].content = parts[i] => c[i] = c[i - 1])
  <2>1. i - 1 \in 0..n /\ i \in 0..n /\ c[i - 1] \in Accs /\ c[i] = AppendText(c[i - 1], parts[i]) /\ parts[i] \in Z
    BY <1>1, <1>2
  <2>2. parts[i] # <<>>
    BY <1>2 DEF Full
  <2> QED BY <2>1, <2>2, AppendTextIs DEF Full
<1>4. \A i \in 0..n : MoreText(c[i], a)
  <2> DEFINE Good == {b \in Accs : MoreText(b, a)}
  <2>1. a \in Good
    BY MoreTextSelf
  <2>2. ASSUME NEW i \in 1..n, c[i - 1] \in Good PROVE c[i] \in Good
    <3> DEFINE x == c[i - 1]
               y == c[i]
    <3>1. x \in Accs /\ y \in Accs /\ MoreText(x, a) /\ MoreText(y, x)
      BY <1>1, <1>3, <2>2
    <3> HIDE DEF x, y
    <3>2. a.content \in Seq(Nat) /\ x.content \in Seq(Nat) /\ y.content \in Seq(Nat)
      BY <3>1, AccFields
    <3>3. Begins(a.content, y.content)
      BY <3>1, <3>2, BeginsThen DEF MoreText
    <3>4. WithBoth(y, a, y.content, a.calls)
      BY <3>1 DEF MoreText, WithBoth
    <3> QED BY <3>1, <3>3, <3>4 DEF MoreText, y
  <2> HIDE DEF Good
  <2>3. \A i \in 0..n : c[i] \in Good
    BY <1>1, <1>2, <2>1, <2>2, StepsStay
  <2> QED BY <2>3 DEF Good
<1>5. n \in 0..n /\ MoreText(c[n], a)
  BY <1>2, <1>4
<1>6. n # 0 => n \in 1..n /\ Full(c[n].content)
  BY <1>2, <1>3
<1>7. n = 1 /\ a.content = parts[1] => c[n] = a
  <2>1. SUFFICES ASSUME n = 1, a.content = parts[1] PROVE c[1] = a
    OBVIOUS
  <2>2. 1 \in 1..n
    BY <2>1, <1>2
  <2>3. c[1 - 1].content = parts[1] => c[1] = c[1 - 1]
    BY <2>2, <1>3
  <2>4. 1 - 1 = 0
    OBVIOUS
  <2> QED BY <1>1, <2>1, <2>3, <2>4
<1> DEFINE b == ApplyMessage(a, parts)
<1>8. b = c[n]
  BY <1>1
<1> HIDE DEF b
<1>9. (parts = <<>> => b = a) /\ (parts # <<>> => b.content # <<>>)
  BY <1>1, <1>2, <1>6, <1>8 DEF Full
<1> QED BY <1>5, <1>7, <1>8, <1>9 DEF b, n

\* A call has its fields.
LEMMA CallFields ==
    ASSUME NEW q \in Seq(Calls)
    PROVE  /\ Len(q) \in Nat /\ DOMAIN q = 1..Len(q)
           /\ \A i \in DOMAIN q : q[i] \in Calls /\ q[i].call \in Nat /\ q[i].full \in BOOLEAN
<1>1. Len(q) \in Nat /\ DOMAIN q = 1..Len(q) /\ \A i \in DOMAIN q : q[i] \in Calls
  OBVIOUS
<1> QED BY <1>1 DEF Calls

\* Calls are as full as themselves.
LEMMA FullerSelf ==
    ASSUME NEW a \in Accs
    PROVE  Fuller(a.calls, a.calls) /\ WithBoth(a, a, a.content, a.calls)
BY DEF Fuller, WithBoth

\* Fuller than fuller is fuller.
LEMMA FullerThen ==
    ASSUME NEW p \in Seq(Calls), NEW q \in Seq(Calls), NEW r \in Seq(Calls), Fuller(p, q), Fuller(q, r)
    PROVE  Fuller(p, r)
<1>1. DOMAIN p = 1..Len(p) /\ DOMAIN q = 1..Len(q) /\ DOMAIN r = 1..Len(r) /\ Len(p) = Len(q)
  BY DEF Fuller
<1> QED BY <1>1 DEF Fuller

\* A call that is known stays where it is; another is added at the end.
LEMMA ApplyCallIs ==
    ASSUME NEW a \in Accs, NEW c \in Nat, NEW full \in BOOLEAN
    PROVE  LET b == ApplyCall(a, c, full)
           IN  /\ WithBoth(b, a, a.content, b.calls)
               /\ full => \A i \in DOMAIN b.calls : b.calls[i].call = c => b.calls[i].full
               /\ (\E i \in DOMAIN a.calls : a.calls[i].call = c) => Fuller(a.calls, b.calls)
               /\ ~(\E i \in DOMAIN a.calls : a.calls[i].call = c) =>
                    /\ Len(b.calls) = Len(a.calls) + 1 /\ b.calls[Len(b.calls)].call = c
                    /\ \A i \in DOMAIN a.calls : b.calls[i].call = a.calls[i].call
<1> DEFINE known == \E i \in DOMAIN a.calls : a.calls[i].call = c
           d == IF known THEN a ELSE AddCall(a, c)
           b == ApplyCall(a, c, full)
<1>1. b = IF full THEN FillCall(d, c) ELSE d
  BY DEF ApplyCall
<1>2. /\ WithBoth(d, a, a.content, d.calls)
      /\ known => Fuller(a.calls, d.calls)
      /\ ~known => /\ Len(d.calls) = Len(a.calls) + 1 /\ d.calls[Len(d.calls)].call = c
                   /\ \A i \in DOMAIN a.calls : d.calls[i].call = a.calls[i].call
  <2>1. CASE known
    BY <2>1, FullerSelf
  <2>2. CASE ~known
    <3> DEFINE x == AddCall(a, c)
               q == Append(a.calls, [call |-> c, full |-> FALSE])
    <3>1. /\ WithBoth(x, a, a.content, q)
          /\ Len(q) = Len(a.calls) + 1 /\ q[Len(q)].call = c
          /\ \A i \in DOMAIN a.calls : q[i] = a.calls[i]
      BY AddCallIs
    <3>2. d = x
      BY <2>2
    <3> HIDE DEF x, q, d, known
    <3>3. x.calls = q
      BY <3>1 DEF WithBoth
    <3> QED BY <2>2, <3>1, <3>2, <3>3
  <2> QED BY <2>1, <2>2
<1> HIDE DEF known, d
<1>3. d \in Accs
  BY <1>2 DEF WithBoth
<1> DEFINE y == FillCall(d, c)
<1>4. /\ WithBoth(y, d, d.content, y.calls) /\ Fuller(d.calls, y.calls)
      /\ \A i \in DOMAIN y.calls : y.calls[i].call = c => y.calls[i].full
  BY <1>3, FillCallIs
<1> HIDE DEF y, b
<1>5. CASE full
  <2>1. b = y
    BY <1>1, <1>5 DEF y
  <2>2. y \in Accs /\ WithBoth(y, a, a.content, y.calls)
    BY <1>2, <1>4 DEF WithBoth
  <2>3. a.calls \in Seq(Calls) /\ d.calls \in Seq(Calls) /\ y.calls \in Seq(Calls)
    BY <1>3, <2>2, AccFields
  <2>4. known => Fuller(a.calls, y.calls)
    BY <1>2, <1>4, <2>3, FullerThen
  <2>5. ~known => /\ Len(y.calls) = Len(a.calls) + 1 /\ y.calls[Len(y.calls)].call = c
                  /\ \A i \in DOMAIN a.calls : y.calls[i].call = a.calls[i].call
    <3>1. /\ Len(y.calls) = Len(d.calls) /\ Len(a.calls) \in Nat /\ DOMAIN a.calls = 1..Len(a.calls)
          /\ DOMAIN d.calls = 1..Len(d.calls)
      BY <1>4, <2>3 DEF Fuller
    <3>2. \A i \in DOMAIN d.calls : y.calls[i].call = d.calls[i].call
      BY <1>4 DEF Fuller
    <3> QED BY <3>1, <3>2, <1>2
  <2> QED BY <2>1, <2>2, <2>4, <2>5, <1>4 DEF b, known
<1>6. CASE ~full
  <2>1. b = d
    BY <1>1, <1>6
  <2> QED BY <2>1, <1>2, <1>6 DEF b, known
<1> QED BY <1>5, <1>6

\* The recursion of ApplyCalls holds.
LEMMA ApplyCallsSteps ==
    ASSUME NEW a \in Accs, NEW calls \in Seq(Calls)
    PROVE  \E c : /\ \A i \in 0..Len(calls) : c[i] \in Accs
                  /\ c[0] = a
                  /\ \A i \in 1..Len(calls) : c[i] = ApplyCall(c[i - 1], calls[i].call, calls[i].full)
                  /\ ApplyCalls(a, calls) = c[Len(calls)]
<1> DEFINE n == Len(calls)
           g == [p \in (1..n) \X Accs |-> ApplyCall(p[2], calls[p[1]].call, calls[p[1]].full)]
           Rec(f) == f = [i \in 0..n |-> IF i = 0 THEN a ELSE ApplyCall(f[i - 1], calls[i].call, calls[i].full)]
<1>1. n \in Nat /\ \A i \in 1..n : calls[i].call \in Nat /\ calls[i].full \in BOOLEAN
  BY CallFields
<1>a. \A i \in 1..n, x \in Accs : ApplyCall(x, calls[i].call, calls[i].full) \in Accs
  BY <1>1, ApplyCallIs DEF WithBoth
<1> HIDE DEF n
<1>2. g \in [(1..n) \X Accs -> Accs]
  BY <1>1, <1>a
<1>3. PICK f : StepsOf(f, Accs, a, n, g)
  <2> HIDE DEF g
  <2> QED BY <1>1, <1>2, StepsExist
<1>4. f \in [0..n -> Accs] /\ f[0] = a /\ \A i \in 1..n : f[i] = g[<<i, f[i - 1]>>]
  <2> HIDE DEF g
  <2> QED BY <1>3 DEF StepsOf
<1>5. ASSUME NEW i \in 0..n
      PROVE  f[i] = IF i = 0 THEN a ELSE ApplyCall(f[i - 1], calls[i].call, calls[i].full)
  <2>1. CASE i = 0
    BY <2>1, <1>4
  <2>2. CASE i # 0
    <3>1. i \in 1..n /\ i - 1 \in 0..n
      BY <2>2, <1>1
    <3>2. <<i, f[i - 1]>> \in (1..n) \X Accs
      BY <3>1, <1>4
    <3> QED BY <2>2, <3>1, <3>2, <1>4
  <2> QED BY <2>1, <2>2
<1>6. Rec(f)
  BY <1>4, <1>5
<1> DEFINE c == CHOOSE h : Rec(h)
<1>7. Rec(c) /\ ApplyCalls(a, calls) = c[n]
  BY <1>6 DEF ApplyCalls, n
<1> HIDE DEF c
<1>8. ASSUME NEW i \in 0..n
      PROVE  c[i] = IF i = 0 THEN a ELSE ApplyCall(c[i - 1], calls[i].call, calls[i].full)
  BY <1>7
<1>9. ASSUME NEW i \in 1..n PROVE c[i] = ApplyCall(c[i - 1], calls[i].call, calls[i].full)
  <2>1. i \in 0..n /\ i # 0
    BY <1>1
  <2> QED BY <2>1, <1>8
<1>10. c[0] = a
  BY <1>1, <1>8
<1>11. \A i \in 0..n : c[i] \in Accs
  BY <1>1, <1>9, <1>10, <1>a, StepsStay
<1> QED BY <1>7, <1>9, <1>10, <1>11 DEF n

\* Calls that are known are not added; their arguments are.
LEMMA ApplyCallsIs ==
    ASSUME NEW a \in Accs, NEW calls \in Seq(Calls), Len(a.calls) = Len(calls),
           \A i \in DOMAIN a.calls : a.calls[i].call = calls[i].call
    PROVE  LET b == ApplyCalls(a, calls)
           IN  /\ WithBoth(b, a, a.content, b.calls) /\ Fuller(a.calls, b.calls)
               /\ \A i \in DOMAIN calls : calls[i].full => b.calls[i].full
<1> DEFINE n == Len(calls)
           Part(k, x) ==
             /\ WithBoth(x, a, a.content, x.calls) /\ Fuller(a.calls, x.calls)
             /\ \A j \in 1..k : calls[j].full => x.calls[j].full
<1>1. PICK c : /\ \A i \in 0..n : c[i] \in Accs
               /\ c[0] = a
               /\ \A i \in 1..n : c[i] = ApplyCall(c[i - 1], calls[i].call, calls[i].full)
               /\ ApplyCalls(a, calls) = c[n]
  BY ApplyCallsSteps
<1>2. n \in Nat /\ DOMAIN calls = 1..n /\ \A i \in 1..n : calls[i].call \in Nat /\ calls[i].full \in BOOLEAN
  BY CallFields
<1>3. a.calls \in Seq(Calls) /\ DOMAIN a.calls = 1..n /\ Len(a.calls) = n
  BY AccFields
<1> HIDE DEF n
<1> DEFINE Bad == {k \in 0..n : ~ Part(k, c[k])}
<1>4. Bad = {}
  <2>1. SUFFICES ASSUME Bad # {} PROVE FALSE
    OBVIOUS
  <2>2. PICK k \in Bad : \A j \in Bad : k <= j
    BY <2>1, LeastNumber, Bad \in SUBSET Nat
  <2>3. k # 0
    <3>1. Part(0, a)
      BY FullerSelf
    <3> QED BY <2>2, <3>1, <1>1
  <2>4. k - 1 \in 0..n /\ k \in 1..n /\ k \in 0..n /\ ~ (k <= k - 1)
    BY <2>2, <2>3, <1>2
  <2>5. Part(k - 1, c[k - 1])
    BY <2>2, <2>4
  <2> DEFINE x == c[k - 1]
             y == c[k]
             e == calls[k].call
             h == calls[k].full
  <2>6. y = ApplyCall(x, e, h) /\ x \in Accs /\ y \in Accs /\ e \in Nat /\ h \in BOOLEAN
    BY <1>1, <1>2, <2>4
  <2>7. Part(k - 1, x)
    BY <2>5
  <2> HIDE DEF x, y
  <2>8. Fuller(a.calls, x.calls) /\ WithBoth(x, a, a.content, x.calls)
    BY <2>7
  <2>9. /\ x.calls \in Seq(Calls) /\ y.calls \in Seq(Calls) /\ DOMAIN x.calls = 1..n
        /\ \A i \in 1..n : x.calls[i].call = calls[i].call
    <3>1. x.calls \in Seq(Calls) /\ y.calls \in Seq(Calls) /\ DOMAIN x.calls = 1..Len(x.calls)
      BY <2>6, AccFields
    <3> QED BY <3>1, <2>8, <1>3 DEF Fuller
  <2>10. \E i \in DOMAIN x.calls : x.calls[i].call = e
    BY <2>4, <2>9
  <2>11. /\ WithBoth(y, x, x.content, y.calls) /\ Fuller(x.calls, y.calls)
         /\ h => \A i \in DOMAIN y.calls : y.calls[i].call = e => y.calls[i].full
    BY <2>6, <2>10, ApplyCallIs
  <2>12. Fuller(a.calls, y.calls)
    BY <2>8, <2>9, <2>11, <1>3, FullerThen
  <2>13. WithBoth(y, a, a.content, y.calls)
    BY <2>8, <2>11 DEF WithBoth
  <2>14. ASSUME NEW j \in 1..k, calls[j].full PROVE y.calls[j].full
    <3>1. DOMAIN y.calls = 1..n /\ j \in 1..n
      <4>1. DOMAIN y.calls = 1..Len(y.calls) /\ Len(y.calls) = Len(a.calls)
        BY <2>9, <2>12 DEF Fuller
      <4> QED BY <4>1, <1>3, <2>4, <1>2
    <3>2. CASE j = k
      <4>1. y.calls[k].call = e
        BY <2>11, <2>9, <2>4 DEF Fuller
      <4> QED BY <3>1, <3>2, <4>1, <2>11, <2>14
    <3>3. CASE j # k
      <4>1. j \in 1..(k - 1)
        BY <3>3, <2>4
      <4>2. x.calls[j].full
        BY <4>1, <2>7, <2>14
      <4> QED BY <4>2, <3>1, <2>9, <2>11 DEF Fuller
    <3> QED BY <3>2, <3>3
  <2>15. Part(k, y)
    BY <2>12, <2>13, <2>14
  <2> QED BY <2>2, <2>15 DEF y
<1>5. Part(n, c[n])
  BY <1>2, <1>4
<1> DEFINE b == ApplyCalls(a, calls)
<1>6. b = c[n]
  BY <1>1
<1> HIDE DEF b
<1> QED BY <1>5, <1>6, <1>2 DEF b, n

-----------------------------------------------------------------------------
(* What the model says                                                     *)

SaidIs(s, parts, calls, open) == s \in Saids /\ s.parts = parts /\ s.calls = calls /\ s.open = open

\* What is said has its fields.
LEMMA SaidFields ==
    ASSUME NEW s \in Saids
    PROVE  /\ s.parts \in Seq(Seq(Nat)) /\ s.calls \in Seq(Calls) /\ s.open \in Opens
           /\ Len(s.parts) \in Nat /\ DOMAIN s.parts = 1..Len(s.parts)
           /\ Len(s.calls) \in Nat /\ DOMAIN s.calls = 1..Len(s.calls)
<1> DEFINE Z == Seq(Seq(Nat))
           Y == Seq(Calls)
<1>1. s \in [parts : Z, calls : Y, open : Opens]
  BY DEF Saids
<1> HIDE DEF Z, Y
<1>2. s.parts \in Z /\ s.calls \in Y /\ s.open \in Opens
  BY <1>1
<1> QED BY <1>2 DEF Z, Y

\* What is said, with some fields replaced.
LEMMA SaidWith ==
    ASSUME NEW s \in Saids, NEW parts \in Seq(Seq(Nat)), NEW calls \in Seq(Calls), NEW open \in Opens
    PROVE  /\ SaidIs([s EXCEPT !.open = open], s.parts, s.calls, open)
           /\ SaidIs([s EXCEPT !.open = open, !.parts = parts], parts, s.calls, open)
           /\ SaidIs([s EXCEPT !.open = open, !.calls = calls], s.parts, calls, open)
           /\ SaidIs([s EXCEPT !.calls = calls, !.open = open], s.parts, calls, open)
           /\ SaidIs([parts |-> parts, calls |-> calls, open |-> open], parts, calls, open)
<1> DEFINE Z == Seq(Seq(Nat))
           Y == Seq(Calls)
           R == [parts : Z, calls : Y, open : Opens]
<1>1. s \in R /\ parts \in Z /\ calls \in Y
  BY DEF Saids
<1>2. R = Saids
  BY DEF Saids
<1> HIDE DEF Z, Y
<1>3. [s EXCEPT !.open = open] \in R /\ [s EXCEPT !.open = open].parts = s.parts
      /\ [s EXCEPT !.open = open].calls = s.calls /\ [s EXCEPT !.open = open].open = open
  BY <1>1
<1>4. [s EXCEPT !.open = open, !.parts = parts] \in R /\ [s EXCEPT !.open = open, !.parts = parts].parts = parts
      /\ [s EXCEPT !.open = open, !.parts = parts].calls = s.calls
      /\ [s EXCEPT !.open = open, !.parts = parts].open = open
  BY <1>1
<1>5. [s EXCEPT !.open = open, !.calls = calls] \in R /\ [s EXCEPT !.open = open, !.calls = calls].parts = s.parts
      /\ [s EXCEPT !.open = open, !.calls = calls].calls = calls
      /\ [s EXCEPT !.open = open, !.calls = calls].open = open
  BY <1>1
<1>6. [s EXCEPT !.calls = calls, !.open = open] = [s EXCEPT !.open = open, !.calls = calls]
  BY <1>1
<1>7. [parts |-> parts, calls |-> calls, open |-> open] \in R
  BY <1>1
<1> HIDE DEF R
<1> QED BY <1>2, <1>3, <1>4, <1>5, <1>6, <1>7 DEF SaidIs

\* A piece of text goes to the part that is open, or opens one.
Piece(q, parts, p) ==
    /\ q \in Seq(Seq(Nat)) /\ q # <<>> /\ \A i \in DOMAIN q : q[i] # <<>>
    /\ Len(parts) <= Len(q)
    /\ Len(q) = 1 /\ parts = <<>> => \A e : e = <<>> => q[1] = Append(e, p)
    /\ Len(q) = 1 /\ parts # <<>> => q[1] = Append(parts[1], p) /\ Len(parts) = 1

\* A piece of text opens a part or continues the last one.
LEMMA PieceAdded ==
    ASSUME NEW parts \in Seq(Seq(Nat)), \A i \in DOMAIN parts : parts[i] # <<>>, NEW p \in Nat
    PROVE  /\ Piece(Append(parts, <<p>>), parts, p) /\ Len(Append(parts, <<p>>)) = Len(parts) + 1
           /\ parts # <<>> =>
                LET q == [parts EXCEPT ![Len(parts)] = Append(@, p)]
                IN  Piece(q, parts, p) /\ Len(q) = Len(parts)
<1> DEFINE n == Len(parts)
           Z == Seq(Nat)
           Full(x) == x # <<>>
           s == <<p>>
<1>1. n \in Nat /\ DOMAIN parts = 1..n /\ parts \in Seq(Z) /\ (parts = <<>> <=> n = 0) /\ \A i \in 1..n : parts[i] \in Z /\ Full(parts[i])
  OBVIOUS
<1>2. s \in Z /\ Full(s) /\ \A e : e = <<>> => s = Append(e, p)
  OBVIOUS
<1>3. ASSUME NEW x \in Z PROVE Append(x, p) \in Z /\ Full(Append(x, p))
  <2> DEFINE y == Append(x, p)
  <2>1. y \in Seq(Nat) /\ Len(y) = Len(x) + 1 /\ Len(x) \in Nat
    OBVIOUS
  <2> HIDE DEF y
  <2>2. Len(y) # 0
    BY <2>1
  <2>3. y # <<>>
    BY <2>2
  <2> QED BY <2>1, <2>3 DEF y
<1> HIDE DEF n, s
<1> DEFINE r == Append(parts, s)
<1>4. Piece(r, parts, p) /\ Len(r) = n + 1
  <2> HIDE DEF Z, Full
  <2>1. /\ r \in Seq(Z) /\ Len(r) = n + 1 /\ DOMAIN r = 1..(n + 1) /\ r[n + 1] = s
        /\ \A i \in 1..n : r[i] = parts[i]
    BY <1>1, <1>2 DEF n
  <2>2. \A i \in 1..(n + 1) : i = n + 1 \/ i \in 1..n
    BY <1>1
  <2> HIDE DEF r
  <2>3. \A i \in DOMAIN r : Full(r[i])
    BY <2>1, <2>2, <1>1, <1>2
  <2>4. r # <<>>
    BY <2>1, <1>1
  <2>5. n <= n + 1 /\ (n + 1 = 1 => n = 0)
    BY <1>1
  <2>6. Len(r) = 1 => parts = <<>> /\ r[1] = s
    BY <2>1, <2>5, <1>1
  <2> QED BY <2>1, <2>3, <2>4, <2>5, <2>6, <1>2 DEF Piece, Full, Z, n
<1> DEFINE q == [parts EXCEPT ![n] = Append(@, p)]
<1>5. ASSUME Full(parts) PROVE Piece(q, parts, p) /\ Len(q) = n
  <2>1. n # 0 /\ n \in 1..n
    BY <1>1, <1>5
  <2> DEFINE x == Append(parts[n], p)
  <2>2. x \in Z /\ Full(x)
    BY <2>1, <1>1, <1>3
  <2>3. q = [parts EXCEPT ![n] = x]
    BY <1>1
  <2> HIDE DEF Z, Full, x, q
  <2>4. q \in Seq(Z) /\ Len(q) = n /\ DOMAIN q = 1..n /\ q[n] = x /\ \A i \in 1..n : i # n => q[i] = parts[i]
    BY <1>1, <2>1, <2>2, <2>3
  <2>5. \A i \in DOMAIN q : Full(q[i])
    BY <2>2, <2>4, <1>1
  <2>6. Full(q)
    BY <2>1, <2>4, <1>1 DEF Full
  <2>7. n = 1 => q[1] = Append(parts[1], p)
    BY <2>4 DEF x
  <2>8. n \in Nat /\ Len(parts) = Len(q) /\ parts \in Seq(Z) /\ n = Len(parts)
    BY <2>4, <1>1 DEF n
  <2>9. Full(parts) <=> parts # <<>>
    BY DEF Full
  <2>10. Len(parts) <= Len(q)
    BY <2>8, <2>4
  <2>11. Piece(q, parts, p)
    BY <2>4, <2>5, <2>6, <2>7, <2>8, <2>9, <2>10, <1>5 DEF Piece, Full, Z
  <2> QED BY <2>4, <2>11
<1> QED BY <1>4, <1>5 DEF Full, n, s

-----------------------------------------------------------------------------
(* The lines of a stream                                                   *)

\* In the step, the accumulator becomes b and out is taken.
Gives(b, out) == acc' = b /\ Take(out)

\* A line that is read gives what its stream reader yields.
LEMMA LineRead ==
    ASSUME NEW line, NEW b, NEW out, ReadLine(line), ReadStream(line) = Yield(b, out)
    PROVE  Gives(b, out)
BY DEF ReadLine, Yield, Gives

\* What every provider makes of a piece of text.
LEMMA ContentLine ==
    ASSUME NEW p, prov \in Providers
    PROVE  LET b == AddContent(acc, p)
           IN  ReadStream([tag |-> "content", piece |-> p]) =
                 IF prov = "ollama" THEN Yield(b, <<>>) ELSE Yield(b, Finish(b))
<1> DEFINE line == [tag |-> "content", piece |-> p]
<1>1. line.tag = "content" /\ line.piece = p
  OBVIOUS
<1> HIDE DEF line
<1>2. CASE prov = "chat"
  BY <1>1, <1>2 DEF ReadStream, ChatLine
<1>3. CASE prov = "anthropic"
  BY <1>1, <1>3 DEF ReadStream, AnthropicLine
<1>4. CASE prov = "ollama"
  BY <1>1, <1>4 DEF ReadStream, OllamaLine
<1>5. CASE prov \notin {"chat", "anthropic", "ollama"}
  BY <1>1, <1>5 DEF ReadStream, ResponsesLine
<1> QED BY <1>2, <1>3, <1>4, <1>5 DEF line

\* What every provider makes of a call that begins.
LEMMA CallLine ==
    ASSUME NEW c, prov \in Providers
    PROVE  ReadStream([tag |-> "call", call |-> c]) =
             CASE prov = "chat" -> Yield(AddCall(acc, c), <<>>)
               [] prov = "anthropic" -> Yield([AddCall(acc, c) EXCEPT !.buffered = {}], <<>>)
               [] prov = "ollama" -> Yield(FillCall(AddCall(acc, Len(acc.calls)), Len(acc.calls)), <<>>)
               [] OTHER -> Yield(ApplyCall(acc, c, FALSE), <<>>)
<1> DEFINE line == [tag |-> "call", call |-> c]
<1>1. line.tag = "call" /\ line.call = c
  OBVIOUS
<1> HIDE DEF line
<1>2. CASE prov = "chat"
  BY <1>1, <1>2 DEF ReadStream, ChatLine, line
<1>3. CASE prov = "anthropic"
  BY <1>1, <1>3 DEF ReadStream, AnthropicLine, line
<1>4. CASE prov = "ollama"
  BY <1>1, <1>4 DEF ReadStream, OllamaLine, line
<1>5. CASE prov \notin {"chat", "anthropic", "ollama"}
  BY <1>1, <1>5 DEF ReadStream, ResponsesLine, line
<1> QED BY <1>2, <1>3, <1>4, <1>5

\* What every provider makes of arguments.
LEMMA ArgsLine ==
    ASSUME NEW c, prov \in Providers
    PROVE  ReadStream([tag |-> "args", call |-> c]) =
             CASE prov = "chat" -> Yield(FillCall(acc, c), <<>>)
               [] prov = "ollama" -> Yield(acc, <<>>)
               [] prov = "anthropic" -> Yield([acc EXCEPT !.buffered = {c}], <<>>)
               [] OTHER -> Yield([acc EXCEPT !.buffered = @ \union {c}], <<>>)
<1> DEFINE line == [tag |-> "args", call |-> c]
<1>1. line.tag = "args" /\ line.call = c
  OBVIOUS
<1> HIDE DEF line
<1>2. CASE prov = "chat"
  BY <1>1, <1>2 DEF ReadStream, ChatLine, line
<1>3. CASE prov = "anthropic"
  BY <1>1, <1>3 DEF ReadStream, AnthropicLine, line
<1>4. CASE prov = "ollama"
  BY <1>1, <1>4 DEF ReadStream, OllamaLine, line
<1>5. CASE prov \notin {"chat", "anthropic", "ollama"}
  BY <1>1, <1>5 DEF ReadStream, ResponsesLine, line
<1> QED BY <1>2, <1>3, <1>4, <1>5

\* The lines that only the Responses stream has.
LEMMA OtherLines ==
    ASSUME prov = "responses"
    PROVE  /\ \A c : ReadStream([tag |-> "call_done", call |-> c]) =
                Yield([ApplyCall(acc, c, c \in acc.buffered) EXCEPT !.buffered = @ \ {c}], <<>>)
           /\ ReadStream([tag |-> "text_done"]) =
                Yield(AppendText(acc, Last(meant.parts)), Finish(AppendText(acc, Last(meant.parts))))
           /\ ReadStream([tag |-> "item_done"]) =
                Yield(ApplyMessage(acc, meant.parts), Finish(ApplyMessage(acc, meant.parts)))
<1>1. \A line : ReadStream(line) = ResponsesLine(acc, line, nextId)
  BY DEF ReadStream
<1>2. ASSUME NEW c PROVE ReadStream([tag |-> "call_done", call |-> c]) =
                Yield([ApplyCall(acc, c, c \in acc.buffered) EXCEPT !.buffered = @ \ {c}], <<>>)
  <2> DEFINE line == [tag |-> "call_done", call |-> c]
  <2>1. line.tag = "call_done" /\ line.call = c
    OBVIOUS
  <2> HIDE DEF line
  <2> QED BY <2>1, <1>1 DEF ResponsesLine, line
<1>3. ReadStream([tag |-> "text_done"]) =
        Yield(AppendText(acc, Last(meant.parts)), Finish(AppendText(acc, Last(meant.parts))))
  <2> DEFINE line == [tag |-> "text_done"]
  <2>1. line.tag = "text_done"
    OBVIOUS
  <2> HIDE DEF line
  <2> QED BY <2>1, <1>1 DEF ResponsesLine, line
<1>4. ReadStream([tag |-> "item_done"]) =
        Yield(ApplyMessage(acc, meant.parts), Finish(ApplyMessage(acc, meant.parts)))
  <2> DEFINE line == [tag |-> "item_done"]
  <2>1. line.tag = "item_done"
    OBVIOUS
  <2> HIDE DEF line
  <2> QED BY <2>1, <1>1 DEF ResponsesLine, line
<1> QED BY <1>2, <1>3, <1>4

\* What every provider makes of the end.
LEMMA StopLine ==
    ASSUME prov \in Providers
    PROVE  ReadStream([tag |-> "stop"]) =
             IF prov = "responses"
             THEN Yield(NewAcc(nextId), Finish(ApplyCalls(ApplyMessage(acc, meant.parts), meant.calls)))
             ELSE Yield(NewAcc(nextId), Finish(acc))
<1> DEFINE line == [tag |-> "stop"]
<1>1. line.tag = "stop"
  OBVIOUS
<1>a. prov \in {"chat", "anthropic", "responses", "ollama"}
  BY TranscriptAssumption
<1> HIDE DEF line
<1>2. CASE prov = "chat"
  BY <1>1, <1>2 DEF ReadStream, ChatLine, line
<1>3. CASE prov = "anthropic"
  BY <1>1, <1>3 DEF ReadStream, AnthropicLine, line
<1>4. CASE prov = "ollama"
  BY <1>1, <1>4 DEF ReadStream, OllamaLine, line
<1>5. CASE prov = "responses"
  BY <1>1, <1>5 DEF ReadStream, ResponsesLine, line
<1> QED BY <1>2, <1>3, <1>4, <1>5, <1>a

-----------------------------------------------------------------------------
(* Every line of the stream leaves the accumulator with what was said       *)

\* b is what a is after more of the stream.
Later(a, b) ==
    /\ b \in Accs /\ b.id = a.id /\ Begins(a.content, b.content)
    /\ b.calls = <<>> => a.calls = <<>>

StreamReady == prov \in Providers /\ nextId \in Nat /\ acc \in Accs /\ SpeechOK /\ Heard(acc, meant)

\* The stream goes on with b: nothing is sent, or what b says.
Going(b) ==
    /\ Later(acc, b) /\ Heard(b, meant') /\ Speech(meant', nextId + 1) /\ meant'.open # "stopped"
    /\ Saying \subseteq CallIds(meant'.calls) /\ CallIds(meant'.calls) \subseteq Saying \cup {nextId}
    /\ (\A e : e = <<>> => Gives(b, e)) \/ (b.content # <<>> /\ Gives(b, Finish(b)))

\* An accumulator with more text is a later one.
LEMMA LaterText ==
    ASSUME NEW a \in Accs, NEW b, MoreText(b, a)
    PROVE  Later(a, b) /\ b \in Accs /\ b.calls = a.calls
BY DEF MoreText, WithBoth, Later

\* So is one with other calls, no fewer.
LEMMA LaterCalls ==
    ASSUME NEW a \in Accs, NEW b, NEW q, WithBoth(b, a, a.content, q), Len(a.calls) <= Len(q)
    PROVE  Later(a, b) /\ b \in Accs /\ b.content = a.content /\ b.calls = q
<1>1. b \in Accs /\ b.id = a.id /\ b.content = a.content /\ b.calls = q
  BY DEF WithBoth
<1>2. Begins(a.content, b.content)
  BY <1>1, AccFields, BeginsSelf
<1>3. q = <<>> => a.calls = <<>>
  <2>1. Len(a.calls) \in Nat /\ Len(q) \in Nat /\ a.calls \in Seq(Calls) /\ q \in Seq(Calls)
    BY <1>1, AccFields
  <2>2. q = <<>> => Len(q) = 0
    BY <2>1
  <2>3. Len(a.calls) = 0 => a.calls = <<>>
    BY <2>1
  <2> QED BY <2>1, <2>2, <2>3
<1> QED BY <1>1, <1>2, <1>3 DEF Later

\* Heard, when only the text is other.
LEMMA HeardText ==
    ASSUME NEW a, NEW b, NEW s, NEW t, Heard(a, s), b.calls = a.calls, t.calls = s.calls,
           t.parts = <<>> => b.content = <<>>, Len(t.parts) = 1 => b.content = t.parts[1]
    PROVE  Heard(b, t)
BY DEF Heard

\* Heard, when only the calls are other.
LEMMA HeardCalls ==
    ASSUME NEW a, NEW b, NEW s, NEW t, Heard(a, s), b.content = a.content, t.parts = s.parts,
           Len(b.calls) = Len(t.calls),
           prov # "ollama" => \A i \in DOMAIN b.calls : b.calls[i].call = t.calls[i].call,
           prov = "ollama" => \A i \in DOMAIN b.calls : b.calls[i].full,
           prov = "chat" => \A i \in DOMAIN b.calls : t.calls[i].full => b.calls[i].full
    PROVE  Heard(b, t)
BY DEF Heard

\* Speech, when only the text is other.
LEMMA SpeechText ==
    ASSUME NEW s, NEW n \in Nat, Speech(s, n), NEW t, NEW parts, NEW open,
           SaidIs(t, parts, s.calls, open),
           \A i \in DOMAIN parts : parts[i] # <<>>,
           prov # "responses" => Len(parts) <= 1, open = "text" => parts # <<>>, s.open # "call", open # "call"
    PROVE  Speech(t, n + 1)
<1>1. t \in Saids /\ t.parts = parts /\ t.calls = s.calls /\ t.open = open
  BY DEF SaidIs
<1>2. \A i \in DOMAIN s.calls : s.calls[i].call < n /\ s.calls[i].full
  BY DEF Speech
<1>3. \A i \in DOMAIN s.calls : s.calls[i].call < n + 1
  <2>1. ASSUME NEW i \in DOMAIN s.calls PROVE s.calls[i].call < n + 1
    <3>1. s.calls \in Seq(Calls)
      BY SaidFields DEF Speech
    <3>2. s.calls[i].call \in Nat /\ s.calls[i].call < n
      BY <3>1, <1>2, CallFields
    <3> QED BY <3>2
  <2> QED BY <2>1
<1> QED BY <1>1, <1>2, <1>3 DEF Speech

\* A piece of text keeps the accumulator in step with what was said.
LEMMA SayTextGoes ==
    ASSUME StreamReady, SayText
    PROVE  \E b : Going(b)
<1> DEFINE parts == meant.parts
           n == Len(parts)
           old == [parts EXCEPT ![n] = Append(@, nextId)]
           new == Append(parts, <<nextId>>)
           q == IF meant.open # "text" /\ (prov = "responses" \/ parts = <<>>) THEN new ELSE old
           said == meant'
           b == AddContent(acc, nextId)
<1>1. /\ prov \in Providers /\ nextId \in Nat /\ acc \in Accs /\ Speech(meant, nextId) /\ Heard(acc, meant)
      /\ meant \in Saids
  BY DEF StreamReady, SpeechOK, Speech
<1>2. /\ parts \in Seq(Seq(Nat)) /\ (\A i \in DOMAIN parts : parts[i] # <<>>) /\ n \in Nat
      /\ prov # "responses" => n <= 1
      /\ meant.open = "text" => parts # <<>>
      /\ parts = <<>> <=> n = 0
      /\ meant.calls \in Seq(Calls)
  BY <1>1, SaidFields DEF Speech
<1>3. said = [meant EXCEPT !.open = "text", !.parts = q] /\ meant.open \in {"none", "text"}
  BY DEF SayText
<1>4. /\ Piece(new, parts, nextId) /\ Len(new) = n + 1
      /\ parts # <<>> => Piece(old, parts, nextId) /\ Len(old) = n
  <2> HIDE DEF parts
  <2> QED BY <1>1, <1>2, PieceAdded
<1>5. Piece(q, parts, nextId) /\ (prov # "responses" => Len(q) <= 1)
  <2> HIDE DEF old, new
  <2>1. CASE meant.open = "text"
    BY <2>1, <1>2, <1>4
  <2>2. CASE meant.open # "text" /\ (prov = "responses" \/ parts = <<>>)
    BY <2>2, <1>2, <1>4
  <2>3. CASE meant.open # "text" /\ ~(prov = "responses" \/ parts = <<>>)
    BY <2>3, <1>2, <1>4
  <2> QED BY <2>1, <2>2, <2>3
<1> HIDE DEF q, said
<1>6. SaidIs(said, q, meant.calls, "text")
  <2>1. "text" \in Opens /\ q \in Seq(Seq(Nat))
    BY <1>5 DEF Opens, Piece
  <2> QED BY <2>1, <1>1, <1>2, <1>3, SaidWith
<1>7. Speech(said, nextId + 1)
  <2>1. (\A i \in DOMAIN q : q[i] # <<>>) /\ q # <<>>
    BY <1>5 DEF Piece
  <2> DEFINE open == "text"
  <2>2. open # "call" /\ meant.open # "call"
    BY <1>3
  <2>3. SaidIs(said, q, meant.calls, open)
    BY <1>6
  <2> HIDE DEF open
  <2> QED BY <2>1, <2>2, <2>3, <1>1, <1>5, SpeechText
<1>8. WithBoth(b, acc, Append(acc.content, nextId), acc.calls)
  BY <1>1, AddContentIs
<1> HIDE DEF b
<1>9. b \in Accs /\ b.content = Append(acc.content, nextId) /\ b.calls = acc.calls /\ b.id = acc.id
  BY <1>8 DEF WithBoth
<1>10. Begins(acc.content, b.content) /\ b.content # <<>>
  <2> DEFINE s == acc.content
             x == nextId
             t == Append(s, x)
  <2>1. s \in Seq(Nat) /\ x \in Nat
    BY <1>1, AccFields
  <2> HIDE DEF s, x
  <2>2. t \in Seq(Nat) /\ Len(t) = Len(s) + 1 /\ Len(s) \in Nat /\ s = SubSeq(t, 1, Len(s))
    BY <2>1
  <2> HIDE DEF t
  <2>3. Begins(s, t)
    BY <2>2 DEF Begins
  <2>4. Len(t) # 0
    BY <2>2
  <2>5. t # <<>>
    BY <2>4
  <2> QED BY <2>3, <2>5, <1>9 DEF s, t, x
<1>11. Later(acc, b)
  BY <1>9, <1>10 DEF Later
<1>12. said.parts = q /\ said.calls = meant.calls /\ said.open = "text"
  BY <1>6 DEF SaidIs
<1>13. Heard(b, said)
  <2>1. said.parts # <<>>
    BY <1>5, <1>12 DEF Piece
  <2>2. ASSUME Len(q) = 1 PROVE b.content = q[1]
    <3>1. CASE parts = <<>>
      <4>1. acc.content = <<>>
        BY <3>1, <1>1 DEF Heard
      <4>2. \A e : e = <<>> => q[1] = Append(e, nextId)
        BY <2>2, <3>1, <1>5 DEF Piece
      <4> QED BY <4>1, <4>2, <1>9
    <3>2. CASE parts # <<>>
      <4>1. q[1] = Append(parts[1], nextId) /\ n = 1
        BY <2>2, <3>2, <1>5 DEF Piece
      <4>2. acc.content = parts[1]
        BY <4>1, <1>1 DEF Heard
      <4> QED BY <4>1, <4>2, <1>9
    <3> QED BY <3>1, <3>2
  <2> QED BY <2>1, <2>2, <1>1, <1>9, <1>12, HeardText
<1>14. Gives(b, Finish(b)) \/ \A e : e = <<>> => Gives(b, e)
  <2> DEFINE line == [tag |-> "content", piece |-> nextId]
  <2>1. ReadLine(line)
    BY DEF SayText
  <2>2. ReadStream(line) = IF prov = "ollama" THEN Yield(b, <<>>) ELSE Yield(b, Finish(b))
    BY <1>1, ContentLine DEF b
  <2> HIDE DEF line
  <2>3. CASE prov = "ollama"
    <3>1. \A e : e = <<>> => ReadStream(line) = Yield(b, e)
      BY <2>2, <2>3
    <3> QED BY <2>1, <3>1, LineRead
  <2>4. CASE prov # "ollama"
    <3>1. ReadStream(line) = Yield(b, Finish(b))
      BY <2>2, <2>4
    <3> QED BY <2>1, <3>1, LineRead
  <2> QED BY <2>3, <2>4
<1>15. Saying = CallIds(said.calls)
  BY <1>12 DEF Saying
<1>16. said.open # "stopped"
  BY <1>12
<1> QED BY <1>7, <1>10, <1>11, <1>13, <1>14, <1>15, <1>16 DEF Going, said

\* So does the end of a text part.
LEMMA EndTextGoes ==
    ASSUME StreamReady, EndText
    PROVE  \E b : Going(b)
<1> DEFINE parts == meant.parts
           n == Len(parts)
           said == meant'
           text == Last(parts)
           b == AppendText(acc, text)
           open == "none"
<1>1. /\ prov \in Providers /\ nextId \in Nat /\ acc \in Accs /\ Speech(meant, nextId) /\ Heard(acc, meant)
      /\ meant \in Saids
  BY DEF StreamReady, SpeechOK, Speech
<1>2. /\ parts \in Seq(Seq(Nat)) /\ (\A i \in DOMAIN parts : parts[i] # <<>>) /\ n \in Nat
      /\ DOMAIN parts = 1..n /\ meant.calls \in Seq(Calls)
  BY <1>1, SaidFields DEF Speech
<1>3. said = [meant EXCEPT !.open = open] /\ meant.open = "text" /\ prov = "responses"
  BY DEF EndText
<1>4. parts # <<>>
  BY <1>1, <1>3 DEF Speech
<1>5. n \in 1..n /\ text = parts[n] /\ text \in Seq(Nat) /\ text # <<>>
  <2>1. n # 0
    BY <1>2, <1>4
  <2>2. n \in 1..n /\ text = parts[n]
    BY <2>1, <1>2 DEF Last
  <2> DEFINE Z == Seq(Nat)
  <2> HIDE DEF Z, parts, n
  <2>3. parts \in Seq(Z) /\ DOMAIN parts = 1..n /\ n \in 1..n
    BY <1>2, <2>2 DEF Z
  <2>4. parts[n] \in Z
    BY <2>3
  <2> QED BY <2>2, <2>3, <2>4, <1>2 DEF Z
<1>a. open \in Opens /\ open # "text" /\ open # "call" /\ open # "stopped" /\ meant.open # "call"
  BY <1>3 DEF Opens
<1> HIDE DEF said, text, b, open
<1>6. SaidIs(said, parts, meant.calls, open)
  BY <1>1, <1>2, <1>3, <1>a, SaidWith
<1>7. Speech(said, nextId + 1)
  BY <1>1, <1>2, <1>3, <1>6, <1>a, SpeechText
<1>8. MoreText(b, acc) /\ b.content # <<>> /\ (acc.content = text => b = acc)
  BY <1>1, <1>5, AppendTextIs DEF b
<1>9. Later(acc, b) /\ b \in Accs /\ b.calls = acc.calls
  BY <1>1, <1>8, LaterText
<1>10. said.parts = parts /\ said.calls = meant.calls /\ said.open = open
  BY <1>6 DEF SaidIs
<1>11. Heard(b, said)
  <2>1. ASSUME n = 1 PROVE b.content = parts[1]
    <3>1. acc.content = parts[1] /\ text = parts[1]
      BY <2>1, <1>1, <1>5 DEF Heard
    <3> QED BY <3>1, <1>8
  <2> QED BY <2>1, <1>1, <1>4, <1>9, <1>10, HeardText
<1>12. Gives(b, Finish(b))
  <2> DEFINE line == [tag |-> "text_done"]
  <2>1. ReadLine(line)
    BY DEF EndText
  <2>2. ReadStream(line) = Yield(b, Finish(b))
    BY <1>3, OtherLines DEF b, text
  <2> HIDE DEF line
  <2> QED BY <2>1, <2>2, LineRead
<1>13. Saying = CallIds(said.calls)
  BY <1>10 DEF Saying
<1> QED BY <1>7, <1>8, <1>9, <1>10, <1>11, <1>12, <1>13, <1>a DEF Going, said

\* So does the end of a message item.
LEMMA EndMessageItemGoes ==
    ASSUME StreamReady, EndMessageItem
    PROVE  \E b : Going(b)
<1> DEFINE parts == meant.parts
           n == Len(parts)
           said == meant'
           b == ApplyMessage(acc, parts)
           open == "message_done"
<1>1. /\ prov \in Providers /\ nextId \in Nat /\ acc \in Accs /\ Speech(meant, nextId) /\ Heard(acc, meant)
      /\ meant \in Saids
  BY DEF StreamReady, SpeechOK, Speech
<1>2. /\ parts \in Seq(Seq(Nat)) /\ (\A i \in DOMAIN parts : parts[i] # <<>>) /\ n \in Nat
      /\ DOMAIN parts = 1..n /\ meant.calls \in Seq(Calls)
  BY <1>1, SaidFields DEF Speech
<1>3. said = [meant EXCEPT !.open = open] /\ meant.open = "none" /\ prov = "responses" /\ parts # <<>>
  BY DEF EndMessageItem
<1>a. open \in Opens /\ open # "text" /\ open # "call" /\ open # "stopped" /\ meant.open # "call"
  BY <1>3 DEF Opens
<1> HIDE DEF said, b, open
<1>6. SaidIs(said, parts, meant.calls, open)
  BY <1>1, <1>2, <1>3, <1>a, SaidWith
<1>7. Speech(said, nextId + 1)
  BY <1>1, <1>2, <1>3, <1>6, <1>a, SpeechText
<1>8. MoreText(b, acc) /\ b.content # <<>> /\ (n = 1 /\ acc.content = parts[1] => b = acc)
  <2> HIDE DEF parts
  <2> QED BY <1>1, <1>2, <1>3, ApplyMessageIs DEF b
<1>9. Later(acc, b) /\ b \in Accs /\ b.calls = acc.calls
  BY <1>1, <1>8, LaterText
<1>10. said.parts = parts /\ said.calls = meant.calls /\ said.open = open
  BY <1>6 DEF SaidIs
<1>11. Heard(b, said)
  <2>1. ASSUME n = 1 PROVE b.content = parts[1]
    <3>1. acc.content = parts[1]
      BY <2>1, <1>1 DEF Heard
    <3> QED BY <3>1, <2>1, <1>8
  <2> QED BY <2>1, <1>1, <1>3, <1>9, <1>10, HeardText
<1>12. Gives(b, Finish(b))
  <2> DEFINE line == [tag |-> "item_done"]
  <2>1. ReadLine(line)
    BY DEF EndMessageItem
  <2>2. ReadStream(line) = Yield(b, Finish(b))
    BY <1>3, OtherLines DEF b
  <2> HIDE DEF line
  <2> QED BY <2>1, <2>2, LineRead
<1>13. Saying = CallIds(said.calls)
  BY <1>10 DEF Saying
<1> QED BY <1>7, <1>8, <1>9, <1>10, <1>11, <1>12, <1>13, <1>a DEF Going, said

\* Speech, when calls are other too.
LEMMA SpeechCalls ==
    ASSUME NEW s, NEW n \in Nat, Speech(s, n), NEW t, NEW q, NEW open,
           SaidIs(t, s.parts, q, open), open # "text", open = "call" => q # <<>>,
           \A i \in DOMAIN q : q[i].call < n + 1 /\ (q[i].full \/ (i = Len(q) /\ open = "call"))
    PROVE  Speech(t, n + 1)
<1>1. t \in Saids /\ t.parts = s.parts /\ t.calls = q /\ t.open = open
  BY DEF SaidIs
<1> QED BY <1>1 DEF Speech

\* Heard, when one call is added.
LEMMA HeardCall ==
    ASSUME NEW a \in Accs, NEW b \in Accs, NEW s \in Saids, Heard(a, s), NEW c \in Nat,
           b.content = a.content, Len(b.calls) = Len(a.calls) + 1,
           prov # "ollama" =>
             /\ b.calls[Len(b.calls)].call = c
             /\ \A i \in DOMAIN a.calls : b.calls[i].call = a.calls[i].call,
           prov = "ollama" => \A i \in DOMAIN b.calls : b.calls[i].full,
           prov = "chat" => \A i \in DOMAIN a.calls : b.calls[i].full = a.calls[i].full,
           NEW x \in Calls, x.call = c, x.full <=> prov = "ollama",
           NEW t, t.parts = s.parts, t.calls = Append(s.calls, x)
    PROVE  Heard(b, t)
<1> DEFINE q == Append(s.calls, x)
           n == Len(s.calls)
<1>1. s.calls \in Seq(Calls) /\ n \in Nat /\ DOMAIN s.calls = 1..n
  BY SaidFields
<1>2. Len(q) = n + 1 /\ q[n + 1] = x /\ \A i \in 1..n : q[i] = s.calls[i]
  BY <1>1
<1> HIDE DEF q
<1>3. Len(a.calls) = n /\ DOMAIN a.calls = 1..n /\ DOMAIN b.calls = 1..(n + 1) /\ Len(b.calls) = n + 1
  BY AccFields DEF Heard
<1> HIDE DEF n
<1>4. \A i \in 1..(n + 1) : i = n + 1 \/ i \in 1..n
  BY <1>1
<1>5. prov # "ollama" => \A i \in DOMAIN b.calls : b.calls[i].call = q[i].call
  <2>1. SUFFICES ASSUME prov # "ollama", NEW i \in 1..(n + 1) PROVE b.calls[i].call = q[i].call
    BY <1>3
  <2>2. CASE i = n + 1
    BY <2>1, <2>2, <1>2, <1>3
  <2>3. CASE i \in 1..n
    BY <2>1, <2>3, <1>2, <1>3 DEF Heard
  <2> QED BY <2>2, <2>3, <1>4
<1>6. prov = "chat" => \A i \in DOMAIN b.calls : q[i].full => b.calls[i].full
  <2>1. SUFFICES ASSUME prov = "chat", NEW i \in 1..(n + 1), q[i].full PROVE b.calls[i].full
    BY <1>3
  <2>2. i # n + 1
    BY <2>1, <1>2
  <2>3. i \in 1..n
    BY <2>2, <1>4
  <2> QED BY <2>1, <2>3, <1>2, <1>3 DEF Heard
<1>7. t.calls = q /\ Len(b.calls) = Len(t.calls)
  BY <1>2, <1>3 DEF q
<1> QED BY <1>5, <1>6, <1>7, HeardCalls

\* So does the beginning of a call.
LEMMA StartCallGoes ==
    ASSUME StreamReady, StartCall
    PROVE  \E b : Going(b)
<1> DEFINE x == [call |-> nextId, full |-> prov = "ollama"]
           q == Append(meant.calls, x)
           n == Len(meant.calls)
           said == meant'
           open == IF prov = "ollama" THEN "none" ELSE "call"
           line == [tag |-> "call", call |-> nextId]
           N == nextId
           a == acc
           k == Len(a.calls)
<1>1. /\ prov \in Providers /\ N \in Nat /\ a \in Accs /\ Speech(meant, N) /\ Heard(a, meant)
      /\ meant \in Saids
  BY DEF StreamReady, SpeechOK, Speech
<1>2. /\ meant.parts \in Seq(Seq(Nat)) /\ n \in Nat /\ DOMAIN meant.calls = 1..n /\ meant.calls \in Seq(Calls)
      /\ k \in Nat /\ k = n /\ DOMAIN a.calls = 1..n
  <2>1. meant.parts \in Seq(Seq(Nat)) /\ n \in Nat /\ DOMAIN meant.calls = 1..n /\ meant.calls \in Seq(Calls)
    BY <1>1, SaidFields
  <2>2. k \in Nat /\ DOMAIN a.calls = 1..k
    BY <1>1, AccFields
  <2> QED BY <2>1, <2>2, <1>1 DEF Heard
<1>3. said = [meant EXCEPT !.open = open, !.calls = q] /\ meant.open # "call"
  <2>1. said = [meant EXCEPT !.open = open, !.calls = q]
    BY DEF StartCall
  <2>2. meant.open # "call"
    BY DEF StartCall
  <2> QED BY <2>1, <2>2
<1>4. x \in Calls /\ x.call = N /\ (x.full <=> prov = "ollama")
  BY <1>1 DEF Calls
<1>5. open \in Opens /\ open # "text" /\ open # "stopped" /\ (open = "call" <=> prov # "ollama")
  BY DEF Opens
<1>6. ReadLine(line)
  BY DEF StartCall
<1> HIDE DEF x, said, open, line
<1>7. /\ q \in Seq(Calls) /\ Len(q) = n + 1 /\ DOMAIN q = 1..(n + 1) /\ q # <<>> /\ q[n + 1] = x
      /\ \A i \in 1..n : q[i] = meant.calls[i]
  <2>1. /\ q \in Seq(Calls) /\ Len(q) = n + 1 /\ DOMAIN q = 1..(n + 1) /\ q[n + 1] = x
        /\ \A i \in 1..n : q[i] = meant.calls[i]
    BY <1>2, <1>4
  <2> HIDE DEF q
  <2> QED BY <2>1, <1>2
<1>8. \A i \in 1..(n + 1) : i = n + 1 \/ i \in 1..n
  BY <1>2
<1> HIDE DEF n
<1>9. SaidIs(said, meant.parts, q, open)
  BY <1>1, <1>2, <1>3, <1>5, <1>7, SaidWith
<1>10. Speech(said, N + 1)
  <2>1. ASSUME NEW i \in DOMAIN q PROVE q[i].call < N + 1 /\ (q[i].full \/ (i = Len(q) /\ open = "call"))
    <3>1. CASE i = n + 1
      BY <3>1, <1>1, <1>4, <1>5, <1>7
    <3>2. CASE i \in 1..n
      <4>1. meant.calls[i].call \in Nat /\ meant.calls[i].call < N /\ meant.calls[i].full
        BY <3>2, <1>1, <1>2, <1>3, CallFields DEF Speech
      <4> QED BY <4>1, <3>2, <1>1, <1>7
    <3> QED BY <3>1, <3>2, <1>7, <1>8
  <2> HIDE DEF q
  <2> QED BY <2>1, <1>1, <1>5, <1>7, <1>9, SpeechCalls
<1>11. said.parts = meant.parts /\ said.calls = q /\ said.open = open
  BY <1>9 DEF SaidIs
\* The accumulator has one call more.
<1> DEFINE More(b) ==
             /\ b \in Accs /\ b.content = a.content /\ b.id = a.id /\ Len(b.calls) = k + 1
             /\ prov # "ollama" =>
                  /\ b.calls[k + 1].call = N
                  /\ \A i \in 1..n : b.calls[i].call = a.calls[i].call
             /\ prov = "ollama" => \A i \in DOMAIN b.calls : b.calls[i].full
             /\ prov = "chat" => \A i \in 1..n : b.calls[i].full = a.calls[i].full
             /\ \A e : e = <<>> => ReadStream(line) = Yield(b, e)
<1>12. \E b : More(b)
  <2>1. CASE prov = "chat" \/ prov = "anthropic"
    <3> DEFINE c == AddCall(a, N)
               p == Append(a.calls, [call |-> N, full |-> FALSE])
               b == IF prov = "chat" THEN c ELSE [c EXCEPT !.buffered = {}]
    <3>1. /\ WithBoth(c, a, a.content, p) /\ Len(p) = k + 1 /\ p[Len(p)].call = N
          /\ \A i \in 1..n : p[i] = a.calls[i]
      BY <1>1, <1>2, AddCallIs
    <3>2. \A e : e = <<>> => ReadStream(line) = Yield(b, e)
      BY <1>1, <2>1, CallLine DEF line
    <3> HIDE DEF c, p
    <3>3. WithBoth(b, a, a.content, p)
      <4>1. c \in Accs /\ c.content \in Seq(Nat) /\ c.calls \in Seq(Calls) /\ {} \in SUBSET Nat
        BY <3>1, AccFields DEF WithBoth
      <4>2. WithBoth([c EXCEPT !.buffered = {}], c, c.content, c.calls)
        BY <4>1, AccWith
      <4> QED BY <3>1, <4>2 DEF WithBoth
    <3> HIDE DEF b
    <3>4. b \in Accs /\ b.content = a.content /\ b.id = a.id /\ b.calls = p
      BY <3>3 DEF WithBoth
    <3> QED BY <3>1, <3>2, <3>4, <2>1
  <2>2. CASE prov = "ollama"
    <3> DEFINE c == AddCall(a, k)
               p == Append(a.calls, [call |-> k, full |-> FALSE])
               b == FillCall(c, k)
    <3>1. /\ WithBoth(c, a, a.content, p) /\ Len(p) = k + 1 /\ p[Len(p)].call = k
          /\ \A i \in 1..n : p[i] = a.calls[i]
      BY <1>1, <1>2, AddCallIs
    <3>2. \A e : e = <<>> => ReadStream(line) = Yield(b, e)
      BY <1>1, <2>2, CallLine DEF line
    <3> HIDE DEF c, p
    <3>3. c \in Accs /\ c.calls = p /\ c.content = a.content /\ c.id = a.id
      BY <3>1 DEF WithBoth
    <3>4. /\ WithBoth(b, c, c.content, b.calls) /\ Fuller(c.calls, b.calls)
          /\ \A i \in DOMAIN b.calls : b.calls[i].call = k => b.calls[i].full
      BY <3>3, FillCallIs
    <3> HIDE DEF b
    <3>5. b \in Accs /\ b.content = a.content /\ b.id = a.id /\ Len(b.calls) = k + 1 /\ DOMAIN b.calls = 1..(k + 1)
      BY <3>1, <3>3, <3>4, AccFields DEF WithBoth, Fuller
    <3>6. ASSUME NEW i \in DOMAIN b.calls PROVE b.calls[i].full
      <4>1. DOMAIN p = 1..(k + 1)
        BY <3>1, <3>3, AccFields
      <4>2. CASE i = k + 1
        BY <4>1, <4>2, <3>1, <3>3, <3>4, <3>5 DEF Fuller
      <4>3. CASE i \in 1..n
        <5>1. a.calls[i].full
          BY <4>3, <2>2, <1>1, <1>2 DEF Heard
        <5>2. p[i].full
          BY <5>1, <4>3, <3>1
        <5> QED BY <5>2, <4>1, <3>3, <3>4, <3>5 DEF Fuller
      <4> QED BY <4>2, <4>3, <3>5, <1>2, <1>8
    <3> QED BY <3>2, <3>5, <3>6, <2>2
  <2>3. CASE prov \notin {"chat", "anthropic", "ollama"}
    <3> DEFINE b == ApplyCall(a, N, FALSE)
    <3>1. ~ \E i \in DOMAIN a.calls : a.calls[i].call = N
      <4>1. ASSUME NEW i \in 1..n PROVE a.calls[i].call # N
        <5>1. a.calls[i].call = meant.calls[i].call
          BY <2>3, <1>1, <1>2 DEF Heard
        <5>2. meant.calls[i].call < N /\ meant.calls[i].call \in Nat
          BY <1>1, <1>2, CallFields DEF Speech
        <5> QED BY <5>1, <5>2, <1>1
      <4> QED BY <4>1, <1>2
    <3>2. /\ WithBoth(b, a, a.content, b.calls)
          /\ Len(b.calls) = k + 1 /\ b.calls[Len(b.calls)].call = N
          /\ \A i \in DOMAIN a.calls : b.calls[i].call = a.calls[i].call
      BY <3>1, <1>1, ApplyCallIs
    <3>3. \A e : e = <<>> => ReadStream(line) = Yield(b, e)
      BY <1>1, <2>3, CallLine DEF line
    <3> HIDE DEF b
    <3> QED BY <3>2, <3>3, <2>3, <1>2 DEF WithBoth
  <2> QED BY <2>1, <2>2, <2>3
<1>13. PICK b : More(b)
  BY <1>12
<1>14. b \in Accs /\ b.content = a.content /\ b.id = a.id /\ Len(b.calls) = k + 1
  BY <1>13
<1>15. Heard(b, said)
  <2>1. said.parts = meant.parts /\ said.calls = Append(meant.calls, x)
    BY <1>11 DEF q
  <2>2. Len(b.calls) = Len(a.calls) + 1 /\ Len(b.calls) = k + 1 /\ DOMAIN a.calls = 1..n
    BY <1>2, <1>14
  <2>3. /\ prov # "ollama" =>
             /\ b.calls[Len(b.calls)].call = N
             /\ \A i \in DOMAIN a.calls : b.calls[i].call = a.calls[i].call
        /\ prov = "ollama" => \A i \in DOMAIN b.calls : b.calls[i].full
        /\ prov = "chat" => \A i \in DOMAIN a.calls : b.calls[i].full = a.calls[i].full
    BY <1>13, <2>2
  <2> HIDE DEF a, N, k
  <2> QED BY <2>1, <2>2, <2>3, <1>1, <1>4, <1>14, HeardCall
<1>16. Later(acc, b)
  <2>1. WithBoth(b, a, a.content, b.calls)
    BY <1>14 DEF WithBoth
  <2>2. Len(a.calls) <= Len(b.calls)
    BY <1>14, <1>2
  <2> QED BY <2>1, <2>2, <1>1, LaterCalls
<1>17. \A e : e = <<>> => Gives(b, e)
  BY <1>6, <1>13, LineRead
<1>18. Saying \subseteq CallIds(said.calls) /\ CallIds(said.calls) \subseteq Saying \cup {N}
  <2> HIDE DEF q
  <2>1. \A i \in 1..n : i \in DOMAIN q
    BY <1>7, <1>2
  <2> QED BY <2>1, <1>2, <1>4, <1>7, <1>8, <1>11 DEF Saying, CallIds
<1> QED BY <1>5, <1>10, <1>11, <1>15, <1>16, <1>17, <1>18 DEF Going, said

\* So do the arguments of a call.
LEMMA SayArgumentsGoes ==
    ASSUME StreamReady, SayArguments
    PROVE  \E b : Going(b)
<1> DEFINE n == Len(meant.calls)
           y == [meant.calls[n] EXCEPT !.full = TRUE]
           q == [meant.calls EXCEPT ![n] = y]
           said == meant'
           open == IF prov = "responses" THEN "call" ELSE "none"
           N == nextId
           a == acc
           c == Last(meant.calls).call
           line == [tag |-> "args", call |-> c]
<1>1. /\ prov \in Providers /\ N \in Nat /\ a \in Accs /\ Speech(meant, N) /\ Heard(a, meant)
      /\ meant \in Saids
  BY DEF StreamReady, SpeechOK, Speech
<1>2. /\ meant.parts \in Seq(Seq(Nat)) /\ n \in Nat /\ DOMAIN meant.calls = 1..n /\ meant.calls \in Seq(Calls)
      /\ Len(a.calls) = n /\ DOMAIN a.calls = 1..n
  <2>1. meant.parts \in Seq(Seq(Nat)) /\ n \in Nat /\ DOMAIN meant.calls = 1..n /\ meant.calls \in Seq(Calls)
    BY <1>1, SaidFields
  <2>2. DOMAIN a.calls = 1..Len(a.calls)
    BY <1>1, AccFields
  <2> QED BY <2>1, <2>2, <1>1 DEF Heard
<1>3. said = [meant EXCEPT !.calls = q, !.open = open] /\ meant.open = "call"
  BY DEF SayArguments
<1>4. ReadLine(line)
  BY DEF SayArguments
<1>5. n \in 1..n /\ c = meant.calls[n].call
  <2>1. meant.calls # <<>>
    BY <1>1, <1>3 DEF Speech
  <2>2. n # 0
    BY <2>1, <1>2
  <2> QED BY <2>2, <1>2 DEF Last
<1>6. open \in Opens /\ open # "text" /\ open # "stopped"
  BY DEF Opens
<1>7. y \in Calls /\ y.call = c /\ y.full /\ c \in Nat
  <2>1. meant.calls[n] \in Calls
    BY <1>2, <1>5, CallFields
  <2> DEFINE x == meant.calls[n]
  <2> HIDE DEF x
  <2>2. x \in [call : Nat, full : BOOLEAN] => [x EXCEPT !.full = TRUE] \in [call : Nat, full : BOOLEAN]
                                              /\ [x EXCEPT !.full = TRUE].call = x.call
                                              /\ [x EXCEPT !.full = TRUE].full /\ x.call \in Nat
    OBVIOUS
  <2> QED BY <2>1, <2>2, <1>5 DEF Calls, x
<1> HIDE DEF said, open, line, y, c
<1>8. /\ q \in Seq(Calls) /\ Len(q) = n /\ DOMAIN q = 1..n /\ q # <<>> /\ q[n] = y
      /\ \A i \in 1..n : i # n => q[i] = meant.calls[i]
  <2>1. /\ q \in Seq(Calls) /\ Len(q) = n /\ DOMAIN q = 1..n /\ q[n] = y
        /\ \A i \in 1..n : i # n => q[i] = meant.calls[i]
    BY <1>2, <1>5, <1>7
  <2> HIDE DEF q
  <2> QED BY <2>1, <1>5
<1> HIDE DEF n, q
<1>9. SaidIs(said, meant.parts, q, open)
  BY <1>1, <1>2, <1>3, <1>6, <1>8, SaidWith
<1>10. \A i \in 1..n : q[i].call = meant.calls[i].call /\ q[i].call < N + 1 /\ q[i].full /\ q[i].call \in Nat
  <2>1. SUFFICES ASSUME NEW i \in 1..n
                 PROVE  q[i].call = meant.calls[i].call /\ q[i].call < N + 1 /\ q[i].full /\ q[i].call \in Nat
    OBVIOUS
  <2>2. meant.calls[i].call \in Nat /\ meant.calls[i].call < N
    BY <2>1, <1>1, <1>2, CallFields DEF Speech
  <2>3. i = n \/ meant.calls[i].full
    BY <2>1, <1>1, <1>2 DEF Speech, n
  <2> QED BY <2>1, <2>2, <2>3, <1>1, <1>5, <1>7, <1>8
<1>11. Speech(said, N + 1)
  BY <1>1, <1>6, <1>8, <1>9, <1>10, SpeechCalls
<1>12. said.parts = meant.parts /\ said.calls = q /\ said.open = open
  BY <1>9 DEF SaidIs
<1> DEFINE Same(b) ==
             /\ WithBoth(b, a, a.content, b.calls) /\ Fuller(a.calls, b.calls)
             /\ prov = "chat" => \A i \in DOMAIN b.calls : b.calls[i].call = c => b.calls[i].full
             /\ \A e : e = <<>> => ReadStream(line) = Yield(b, e)
<1>13. \E b : Same(b)
  <2>1. CASE prov = "chat"
    <3> DEFINE b == FillCall(a, c)
    <3>1. /\ WithBoth(b, a, a.content, b.calls) /\ Fuller(a.calls, b.calls)
          /\ \A i \in DOMAIN b.calls : b.calls[i].call = c => b.calls[i].full
      BY <1>1, FillCallIs
    <3>2. \A e : e = <<>> => ReadStream(line) = Yield(b, e)
      BY <1>1, <2>1, ArgsLine DEF line
    <3> HIDE DEF b
    <3> QED BY <3>1, <3>2
  <2>2. CASE prov = "ollama"
    <3>2. \A e : e = <<>> => ReadStream(line) = Yield(a, e)
      BY <1>1, <2>2, ArgsLine DEF line
    <3> QED BY <3>2, <2>2, <1>1, FullerSelf
  <2>3. CASE prov \notin {"chat", "ollama"}
    <3> DEFINE h == IF prov = "anthropic" THEN {c} ELSE a.buffered \cup {c}
               b == [a EXCEPT !.buffered = h]
    <3>1. h \in SUBSET Nat
      BY <1>1, <1>7, AccFields
    <3>2. WithBoth(b, a, a.content, a.calls)
      <4> HIDE DEF h
      <4>1. a.content \in Seq(Nat) /\ a.calls \in Seq(Calls)
        BY <1>1, AccFields
      <4> QED BY <4>1, <3>1, <1>1, AccWith
    <3>3. \A e : e = <<>> => ReadStream(line) = Yield(b, e)
      <4>1. CASE prov = "anthropic"
        BY <4>1, <1>1, <2>3, ArgsLine DEF line
      <4>2. CASE prov # "anthropic"
        BY <4>2, <1>1, <2>3, ArgsLine DEF line
      <4> QED BY <4>1, <4>2
    <3> HIDE DEF b
    <3>4. b.calls = a.calls
      BY <3>2 DEF WithBoth
    <3> QED BY <3>2, <3>3, <3>4, <2>3, <1>1, FullerSelf
  <2> QED BY <2>1, <2>2, <2>3
<1>14. PICK b : Same(b)
  BY <1>13
<1>15. b \in Accs /\ b.content = a.content /\ Len(b.calls) = n /\ DOMAIN b.calls = 1..n
  BY <1>14, <1>2, AccFields DEF WithBoth, Fuller
<1>16. Heard(b, said)
  <2>1. prov # "ollama" => \A i \in DOMAIN b.calls : b.calls[i].call = q[i].call
    BY <1>1, <1>2, <1>10, <1>14, <1>15 DEF Heard, Fuller
  <2>2. prov = "ollama" => \A i \in DOMAIN b.calls : b.calls[i].full
    BY <1>1, <1>2, <1>14, <1>15 DEF Heard, Fuller
  <2>3. ASSUME prov = "chat", NEW i \in DOMAIN b.calls, q[i].full PROVE b.calls[i].full
    <3>1. CASE i = n
      <4>1. q[i].call = c
        BY <3>1, <1>7, <1>8
      <4> QED BY <4>1, <2>1, <2>3, <1>14
    <3>2. CASE i # n
      <4>1. meant.calls[i].full
        BY <3>2, <2>3, <1>8, <1>15
      <4>2. a.calls[i].full
        BY <4>1, <2>3, <1>1, <1>2, <1>15 DEF Heard
      <4> QED BY <4>2, <2>3, <1>2, <1>14, <1>15 DEF Fuller
    <3> QED BY <3>1, <3>2
  <2> QED BY <2>1, <2>2, <2>3, <1>1, <1>8, <1>12, <1>15, HeardCalls
<1>17. Later(acc, b)
  <2>1. Len(a.calls) <= Len(b.calls)
    BY <1>15, <1>2
  <2> QED BY <2>1, <1>1, <1>14, LaterCalls
<1>18. \A e : e = <<>> => Gives(b, e)
  BY <1>4, <1>14, LineRead
<1>19. Saying = CallIds(said.calls)
  BY <1>2, <1>8, <1>10, <1>12 DEF Saying, CallIds
<1> QED BY <1>6, <1>11, <1>12, <1>16, <1>17, <1>18, <1>19 DEF Going, said

\* So does the end of a call.
LEMMA EndCallGoes ==
    ASSUME StreamReady, EndCall
    PROVE  \E b : Going(b)
<1> DEFINE n == Len(meant.calls)
           q == meant.calls
           said == meant'
           open == "message_done"
           N == nextId
           a == acc
           c == Last(meant.calls).call
           line == [tag |-> "call_done", call |-> c]
           d == ApplyCall(a, c, c \in a.buffered)
           h == d.buffered \ {c}
           b == [d EXCEPT !.buffered = h]
<1>1. /\ prov \in Providers /\ N \in Nat /\ a \in Accs /\ Speech(meant, N) /\ Heard(a, meant)
      /\ meant \in Saids
  BY DEF StreamReady, SpeechOK, Speech
<1>2. /\ meant.parts \in Seq(Seq(Nat)) /\ n \in Nat /\ DOMAIN meant.calls = 1..n /\ meant.calls \in Seq(Calls)
      /\ Len(a.calls) = n /\ DOMAIN a.calls = 1..n
  <2>1. meant.parts \in Seq(Seq(Nat)) /\ n \in Nat /\ DOMAIN meant.calls = 1..n /\ meant.calls \in Seq(Calls)
    BY <1>1, SaidFields
  <2>2. DOMAIN a.calls = 1..Len(a.calls)
    BY <1>1, AccFields
  <2> QED BY <2>1, <2>2, <1>1 DEF Heard
<1>3. said = [meant EXCEPT !.open = open] /\ meant.open = "call" /\ prov = "responses" /\ Last(meant.calls).full
  BY DEF EndCall
<1>4. ReadLine(line)
  BY DEF EndCall
<1>5. n \in 1..n /\ c = meant.calls[n].call /\ meant.calls[n].full /\ c \in Nat
  <2>1. meant.calls # <<>>
    BY <1>1, <1>3 DEF Speech
  <2>2. n # 0
    BY <2>1, <1>2
  <2>3. n \in 1..n /\ c = meant.calls[n].call /\ meant.calls[n].full
    BY <2>2, <1>2, <1>3 DEF Last
  <2> QED BY <2>3, <1>2, CallFields
<1>6. open \in Opens /\ open # "text" /\ open # "stopped" /\ open # "call"
  BY DEF Opens
<1> HIDE DEF said, open, line, c, n
<1>9. SaidIs(said, meant.parts, q, open)
  BY <1>1, <1>2, <1>3, <1>6, SaidWith
<1>10. \A i \in 1..n : q[i].call < N + 1 /\ q[i].full
  <2>1. SUFFICES ASSUME NEW i \in 1..n PROVE q[i].call < N + 1 /\ q[i].full
    OBVIOUS
  <2>2. meant.calls[i].call \in Nat /\ meant.calls[i].call < N
    BY <2>1, <1>1, <1>2, CallFields DEF Speech
  <2>3. i = n \/ meant.calls[i].full
    BY <2>1, <1>1, <1>2 DEF Speech, n
  <2> QED BY <2>1, <2>2, <2>3, <1>1, <1>5
<1>11. Speech(said, N + 1)
  BY <1>1, <1>2, <1>6, <1>9, <1>10, SpeechCalls
<1>12. said.parts = meant.parts /\ said.calls = q /\ said.open = open
  BY <1>9 DEF SaidIs
<1>13. /\ WithBoth(d, a, a.content, d.calls) /\ Fuller(a.calls, d.calls)
  <2>1. \E i \in DOMAIN a.calls : a.calls[i].call = c
    BY <1>1, <1>2, <1>3, <1>5 DEF Heard
  <2>2. /\ WithBoth(ApplyCall(a, c, TRUE), a, a.content, ApplyCall(a, c, TRUE).calls)
        /\ Fuller(a.calls, ApplyCall(a, c, TRUE).calls)
    BY <2>1, <1>1, <1>5, ApplyCallIs
  <2>3. /\ WithBoth(ApplyCall(a, c, FALSE), a, a.content, ApplyCall(a, c, FALSE).calls)
        /\ Fuller(a.calls, ApplyCall(a, c, FALSE).calls)
    BY <2>1, <1>1, <1>5, ApplyCallIs
  <2>4. CASE c \in a.buffered
    <3>1. (c \in a.buffered) = TRUE
      BY <2>4
    <3>2. d = ApplyCall(a, c, TRUE)
      BY <3>1
    <3> QED BY <3>2, <2>2
  <2>5. CASE c \notin a.buffered
    <3>1. (c \in a.buffered) = FALSE
      BY <2>5
    <3>2. d = ApplyCall(a, c, FALSE)
      BY <3>1
    <3> QED BY <3>2, <2>3
  <2> QED BY <2>4, <2>5
<1>14. \A e : e = <<>> => ReadStream(line) = Yield(b, e)
  BY <1>3, OtherLines DEF line
<1> HIDE DEF d
<1>15. WithBoth(b, a, a.content, d.calls)
  <2>1. d \in Accs /\ d.content \in Seq(Nat) /\ d.calls \in Seq(Calls) /\ h \in SUBSET Nat
    <3>1. d \in Accs
      BY <1>13 DEF WithBoth
    <3> QED BY <3>1, AccFields
  <2> HIDE DEF h
  <2>2. WithBoth(b, d, d.content, d.calls)
    BY <2>1, AccWith
  <2> QED BY <2>2, <1>13 DEF WithBoth
<1> HIDE DEF b
<1>16. b \in Accs /\ b.content = a.content /\ b.calls = d.calls /\ Len(b.calls) = n /\ DOMAIN b.calls = 1..n
  BY <1>13, <1>15, <1>2, AccFields DEF WithBoth, Fuller
<1>17. Heard(b, said)
  <2>1. \A i \in DOMAIN b.calls : b.calls[i].call = q[i].call
    BY <1>1, <1>2, <1>3, <1>13, <1>16 DEF Heard, Fuller
  <2>2. Len(b.calls) = Len(said.calls)
    BY <1>12, <1>16 DEF n
  <2> QED BY <2>1, <2>2, <1>1, <1>3, <1>12, <1>16, HeardCalls, ZenonT(30)
<1>18. Later(acc, b)
  <2>1. Len(a.calls) <= Len(d.calls)
    BY <1>16, <1>2
  <2> QED BY <2>1, <1>1, <1>15, LaterCalls
<1>19. \A e : e = <<>> => Gives(b, e)
  BY <1>4, <1>14, LineRead
<1>20. Saying = CallIds(said.calls)
  BY <1>12 DEF Saying
<1> QED BY <1>6, <1>11, <1>12, <1>17, <1>18, <1>19, <1>20 DEF Going, said

\* The stream ends with b, which holds every call and its arguments.
Ending(b) ==
    /\ Later(acc, b) /\ Heard(b, meant)
    /\ meant' \in Saids /\ meant'.parts = meant.parts /\ meant'.calls = meant.calls
    /\ prov # "anthropic" => \A i \in DOMAIN b.calls : b.calls[i].full
    /\ Gives(NewAcc(nextId), Finish(b))

\* At the end the message of the turn says what was said.
LEMMA StopEnds ==
    ASSUME StreamReady, Stop
    PROVE  \E b : Ending(b)
<1> DEFINE n == Len(meant.calls)
           N == nextId
           a == acc
           line == [tag |-> "stop"]
           fresh == NewAcc(N)
<1>1. /\ prov \in Providers /\ N \in Nat /\ a \in Accs /\ Speech(meant, N) /\ Heard(a, meant)
      /\ meant \in Saids
  BY DEF StreamReady, SpeechOK, Speech
<1>2. /\ meant.parts \in Seq(Seq(Nat)) /\ n \in Nat /\ DOMAIN meant.calls = 1..n /\ meant.calls \in Seq(Calls)
      /\ Len(a.calls) = n /\ DOMAIN a.calls = 1..n
  <2>1. meant.parts \in Seq(Seq(Nat)) /\ n \in Nat /\ DOMAIN meant.calls = 1..n /\ meant.calls \in Seq(Calls)
    BY <1>1, SaidFields
  <2>2. DOMAIN a.calls = 1..Len(a.calls)
    BY <1>1, AccFields
  <2> QED BY <2>1, <2>2, <1>1 DEF Heard
<1>3. meant' = [meant EXCEPT !.open = "stopped"] /\ meant.open # "call"
  BY DEF Stop
<1>4. ReadLine(line)
  BY DEF Stop
<1>5. meant' \in Saids /\ meant'.parts = meant.parts /\ meant'.calls = meant.calls
  <2> DEFINE open == "stopped"
             said == meant'
  <2>1. open \in Opens /\ said = [meant EXCEPT !.open = open]
    BY <1>3 DEF Opens
  <2> HIDE DEF open, said
  <2>2. SaidIs(said, meant.parts, meant.calls, open)
    BY <2>1, <1>1, <1>2, SaidWith
  <2> QED BY <2>2 DEF SaidIs, said
<1>6. \A i \in 1..n : meant.calls[i].full
  BY <1>1, <1>2, <1>3 DEF Speech
<1>7. ReadStream(line) = IF prov = "responses"
             THEN Yield(fresh, Finish(ApplyCalls(ApplyMessage(acc, meant.parts), meant.calls)))
             ELSE Yield(fresh, Finish(acc))
  BY <1>1, StopLine
<1> HIDE DEF line, fresh, n
<1>8. CASE prov # "responses"
  <2>1. Gives(fresh, Finish(acc))
    <3>1. ReadStream(line) = Yield(fresh, Finish(acc))
      BY <1>7, <1>8
    <3> QED BY <3>1, <1>4, LineRead
  <2>2. prov # "anthropic" => \A i \in DOMAIN a.calls : a.calls[i].full
    <3>1. prov \in {"chat", "anthropic", "responses", "ollama"}
      BY <1>1, TranscriptAssumption
    <3> QED BY <3>1, <1>1, <1>2, <1>6, <1>8 DEF Heard
  <2>3. Later(acc, acc)
    BY <1>1, MoreTextSelf, LaterText
  <2> QED BY <2>1, <2>2, <2>3, <1>1, <1>5 DEF Ending, fresh
<1>9. CASE prov = "responses"
  <2> DEFINE parts == meant.parts
             d == ApplyMessage(acc, parts)
             b == ApplyCalls(d, meant.calls)
  <2>1. (\A i \in DOMAIN parts : parts[i] # <<>>) /\ parts \in Seq(Seq(Nat))
    BY <1>1, <1>2 DEF Speech
  <2>2. /\ MoreText(d, acc) /\ (parts = <<>> => d = acc)
        /\ (Len(parts) = 1 /\ acc.content = parts[1] => d = acc)
    <3> HIDE DEF parts
    <3> QED BY <2>1, <1>1, ApplyMessageIs
  <2>3. Gives(fresh, Finish(b))
    <3>1. ReadStream(line) = Yield(fresh, Finish(b))
      BY <1>7, <1>9
    <3> HIDE DEF b
    <3> QED BY <3>1, <1>4, LineRead
  <2>4. (parts = <<>> => acc.content = <<>>) /\ (Len(parts) = 1 => acc.content = parts[1])
    BY <1>1 DEF Heard
  <2> HIDE DEF d
  <2>5. d \in Accs /\ d.calls = a.calls /\ d.id = a.id /\ Begins(a.content, d.content)
    BY <2>2 DEF MoreText, WithBoth
  <2>6. (parts = <<>> => d.content = <<>>) /\ (Len(parts) = 1 => d.content = parts[1])
    BY <2>2, <2>4
  <2>7. \A i \in DOMAIN a.calls : a.calls[i].call = meant.calls[i].call
    BY <1>1, <1>9 DEF Heard
  <2>8. /\ WithBoth(b, d, d.content, b.calls) /\ Fuller(d.calls, b.calls)
        /\ \A i \in DOMAIN meant.calls : meant.calls[i].full => b.calls[i].full
    BY <2>5, <2>7, <1>2, ApplyCallsIs DEF n
  <2> HIDE DEF b
  <2>9. b \in Accs /\ b.content = d.content /\ b.id = d.id /\ Len(b.calls) = n /\ DOMAIN b.calls = 1..n
    BY <2>5, <2>8, <1>2, AccFields DEF WithBoth, Fuller
  <2>10. Heard(b, meant)
    <3>1. \A i \in DOMAIN b.calls : b.calls[i].call = meant.calls[i].call
      BY <2>5, <2>7, <2>8, <2>9, <1>2 DEF Fuller
    <3>2. Len(b.calls) = Len(meant.calls)
      BY <2>9 DEF n
    <3> QED BY <3>1, <3>2, <2>6, <2>9, <1>9 DEF Heard
  <2>11. b.calls = <<>> => a.calls = <<>>
    <3>1. b.calls \in Seq(Calls) /\ a.calls \in Seq(Calls)
      BY <2>9, <1>1, AccFields
    <3>2. b.calls = <<>> => n = 0
      BY <3>1, <2>9
    <3>3. n = 0 => a.calls = <<>>
      BY <3>1, <1>2
    <3> QED BY <3>2, <3>3
  <2>12. Later(acc, b)
    BY <2>5, <2>9, <2>11 DEF Later
  <2>13. \A i \in DOMAIN b.calls : b.calls[i].full
    BY <2>8, <2>9, <1>2, <1>6
  <2> QED BY <2>3, <2>10, <2>12, <2>13, <1>5 DEF Ending, fresh
<1> QED BY <1>8, <1>9

-----------------------------------------------------------------------------
(* What the run engine takes of the stream                                 *)

\* The message that an accumulator says.
LEMMA SaidMessage ==
    ASSUME NEW b \in Accs, NEW m \in Msgs, m.role = "assistant", m.blocks = Says(b)
    PROVE  /\ Spoken(m) /\ TextContent(m) = b.content
           /\ HasTools(m) <=> b.calls # <<>>
           /\ b.content # <<>> => m.blocks[1].kind = "text" /\ m.blocks[1].text = b.content
           /\ b.calls = <<>> => Len(m.blocks) = 1
<1> DEFINE s == Says(b)
           n == Len(b.calls)
           none == b.content = <<>>
<1>1. /\ s \in Seq(Blocks) /\ s # <<>> /\ 1 \in DOMAIN s /\ n \in Nat /\ DOMAIN b.calls = 1..n /\ b.content \in Seq(Nat)
      /\ DOMAIN s = 1..Len(s) /\ Len(s) \in Nat
      /\ b.calls = <<>> <=> n = 0
      /\ \A k \in DOMAIN s : k > 1 \/ none => s[k].kind = "request"
  <2>1. s \in Seq(Blocks) /\ s # <<>> /\ 1 \in DOMAIN s
    BY MessageFields
  <2>2. n \in Nat /\ DOMAIN b.calls = 1..n /\ b.content \in Seq(Nat) /\ (b.calls = <<>> <=> n = 0)
    BY AccFields
  <2> QED BY <2>1, <2>2, SaysIs
<1>2. ~none => /\ Len(s) = n + 1 /\ s[1].kind = "text" /\ s[1].text = b.content
               /\ s[1] = TextBlock(b.content)
  <2>1. b.content # <<>> => Len(Says(b)) = Len(b.calls) + 1 /\ Says(b)[1] = TextBlock(b.content)
    BY SaysIs
  <2>2. ~none => Len(s) = n + 1 /\ s[1] = TextBlock(b.content)
    BY <2>1
  <2> HIDE DEF s, n, none
  <2> QED BY <2>2, <1>1, BlockKinds
<1>3. none => Len(s) = n
  <2>1. none => s = Asked(b.calls)
    BY DEF Says
  <2> QED BY <2>1, AskedIs
<1>4. none => s[1].kind = "request"
  BY <1>1
<1> HIDE DEF s, n, none
<1>5. Spoken(m)
  <2>1. s[1].kind \in {"text", "request"} /\ \A k \in DOMAIN s : k > 1 => s[k].kind = "request"
    BY <1>1, <1>2, <1>4
  <2>2. s[1].kind = "text" => s[1].text # <<>>
    BY <1>2, <1>4 DEF none
  <2> QED BY <2>1, <2>2 DEF Spoken, s
<1>6. TextContent(m) = b.content
  <2>1. \A k \in DOMAIN m.blocks : k > 1 => m.blocks[k].kind # "text"
    BY <1>1 DEF s
  <2>2. TextContent(m) = IF s[1].kind = "text" THEN s[1].text ELSE <<>>
    BY <2>1, TextIs DEF s
  <2>3. CASE none
    BY <2>2, <2>3, <1>4 DEF none
  <2>4. CASE ~none
    BY <2>2, <2>4, <1>2
  <2> QED BY <2>3, <2>4
<1>7. HasTools(m) <=> n # 0
  <2>1. CASE n = 0
    <3>1. ~none /\ Len(s) = 1
      BY <2>1, <1>1, <1>2, <1>3
    <3>2. \A k \in DOMAIN s : s[k].kind = "text"
      BY <3>1, <1>1, <1>2
    <3> QED BY <2>1, <3>2 DEF HasTools, s
  <2>2. CASE n # 0
    <3>1. CASE none
      BY <3>1, <2>2, <1>1, <1>4 DEF HasTools, s
    <3>2. CASE ~none
      <4>1. 2 \in DOMAIN s /\ s[2].kind = "request"
        BY <3>2, <2>2, <1>1, <1>2
      <4> QED BY <4>1, <2>2 DEF HasTools, s
    <3> QED BY <3>1, <3>2
  <2> QED BY <2>1, <2>2
<1>8. n = 0 => Len(s) = 1
  BY <1>1, <1>2, <1>3
<1> QED BY <1>1, <1>2, <1>5, <1>6, <1>7, <1>8 DEF s, none

\* new is conv with m after place u: instead of the one shown before, or at the end.
Updated(new, conv, u, m) ==
    /\ new \in Convs /\ Unique(new) /\ Len(conv) <= Len(new)
    /\ \E i \in DOMAIN new :
         /\ i > u /\ new[i] = m
         /\ \A j \in DOMAIN new : j # i => j \in DOMAIN conv /\ new[j] = conv[j]
         /\ i \in DOMAIN conv => conv[i].id = m.id
         /\ i \notin DOMAIN conv => m.id \notin Ids(conv)

\* A new message after the others is an update.
LEMMA UpdatedAtEnd ==
    ASSUME NEW conv \in Convs, Unique(conv), NEW u \in DOMAIN conv, NEW m \in Msgs, m.id \notin Ids(conv)
    PROVE  Updated(Append(conv, m), conv, u, m)
<1> DEFINE c == Append(conv, m)
           n == Len(conv)
<1>1. /\ c \in Convs /\ Len(c) = n + 1 /\ DOMAIN c = 1..(n + 1) /\ c[n + 1] = m
      /\ \A i \in DOMAIN conv : c[i] = conv[i]
      /\ Unique(c)
  BY AppendIs
<1>2. n \in Nat /\ DOMAIN conv = 1..n /\ u \in 1..n
  BY ConvFields
<1> HIDE DEF c, n
<1>3. n + 1 \in DOMAIN c /\ n + 1 > u /\ n <= n + 1 /\ n + 1 \notin DOMAIN conv
  BY <1>1, <1>2
<1>4. \A j \in DOMAIN c : j # n + 1 => j \in DOMAIN conv /\ c[j] = conv[j]
  BY <1>1, <1>2
<1> QED BY <1>1, <1>2, <1>3, <1>4 DEF Updated, c, n

\* So is one in the place of the message with its id.
LEMMA UpdatedAt ==
    ASSUME NEW conv \in Convs, Unique(conv), NEW u \in DOMAIN conv, NEW m \in Msgs, NEW i \in DOMAIN conv,
           i > u, conv[i].id = m.id
    PROVE  Updated([conv EXCEPT ![i] = m], conv, u, m)
<1> DEFINE c == [conv EXCEPT ![i] = m]
<1>1. /\ c \in Convs /\ Len(c) = Len(conv) /\ DOMAIN c = DOMAIN conv
      /\ c[i] = m /\ \A j \in DOMAIN conv : j # i => c[j] = conv[j]
      /\ Unique(c)
  BY ReplaceIs
<1>2. Len(conv) \in Nat
  BY ConvFields
<1> HIDE DEF c
<1> QED BY <1>1, <1>2 DEF Updated, c

\* Nothing is taken of nothing.
LEMMA TakeNothing ==
    ASSUME NEW e, e = <<>>, Take(e)
    PROVE  session' = session /\ streamed' = streamed /\ turn' = turn
BY DEF Take

\* A turn has its fields.
LEMMA TurnFields ==
    ASSUME NEW t \in Turns
    PROVE  t.n \in 1..MaxTurns /\ t.msgs \in Convs /\ t.tools \in BOOLEAN
<1> DEFINE C == Convs
           I == 1..MaxTurns
<1>1. t \in [n : I, msgs : C, tools : BOOLEAN]
  BY DEF Turns
<1> HIDE DEF C, I
<1>2. t.n \in I /\ t.msgs \in C /\ t.tools \in BOOLEAN
  BY <1>1
<1> QED BY <1>2 DEF C, I

TurnIs(v, n, q) == v \in Turns /\ v.n = n /\ v.msgs = q

\* A turn with other messages.
LEMMA TurnWith ==
    ASSUME NEW t \in Turns, NEW q \in Convs, NEW h \in BOOLEAN
    PROVE  TurnIs([t EXCEPT !.msgs = q, !.tools = h], t.n, q)
<1> DEFINE C == Convs
           I == 1..MaxTurns
           v == [t EXCEPT !.msgs = q, !.tools = h]
<1>1. t \in [n : I, msgs : C, tools : BOOLEAN] /\ q \in C
  BY DEF Turns
<1>2. Turns = [n : I, msgs : C, tools : BOOLEAN]
  BY DEF Turns
<1> HIDE DEF C, I
<1>3. v \in [n : I, msgs : C, tools : BOOLEAN] /\ v.n = t.n /\ v.msgs = q
  BY <1>1
<1> QED BY <1>2, <1>3 DEF TurnIs

\* The message m that b says has been taken.
Taken(m, b, u) ==
    /\ m \in Msgs /\ m.id = b.id /\ m.role = "assistant" /\ m.blocks = Says(b)
    /\ streamed' = [i \in {b.id} |-> b.content]
    /\ turn' \in Turns /\ turn'.n = turn.n /\ Len(turn'.msgs) = 1 /\ turn'.msgs[1] = m
    /\ Updated(session', session, u, m)

\* What the run engine and the pump do with a message that is yielded.
LEMMA TakeOne ==
    ASSUME NEW m, NEW out, out = <<m>>, Take(out)
    PROVE  /\ session' = PersistEvents(session, EventsOf(m, SentText(m.id)))
           /\ streamed' = [i \in DOMAIN streamed \union {m.id} |->
                             IF i = m.id THEN TextContent(m) ELSE streamed[i]]
           /\ turn' = [turn EXCEPT !.msgs = Latest(turn.msgs, m),
                         !.tools = turn.tools \/ \E i \in DOMAIN m.blocks : m.blocks[i].kind = "request"]
<1> DEFINE s == <<m>>
<1>1. Len(s) = 1 /\ s[1] = m
  OBVIOUS
<1>2. out = s
  OBVIOUS
<1> HIDE DEF s
<1>3. out # <<>> /\ out[1] = m
  BY <1>1, <1>2
<1> QED BY <1>3 DEF Take

AtMostOne(msgs, id) == Len(msgs) = 0 \/ (Len(msgs) = 1 /\ msgs[1].id = id)

\* The first message of a turn, and the later ones, which have its id.
LEMMA LatestIs ==
    ASSUME NEW msgs \in Convs, NEW m \in Msgs, AtMostOne(msgs, m.id)
    PROVE  Latest(msgs, m) \in Convs /\ Len(Latest(msgs, m)) = 1 /\ Latest(msgs, m)[1] = m
<1> DEFINE none == Len(msgs) = 0
<1>1. Len(msgs) \in Nat /\ DOMAIN msgs = 1..Len(msgs)
  BY ConvFields
<1>2. CASE none
  <2>1. ~Has(msgs, m.id)
    BY <1>1, <1>2 DEF Has
  <2>2. Latest(msgs, m) = Append(msgs, m)
    BY <2>1 DEF Latest
  <2> DEFINE c == Append(msgs, m)
             n == Len(msgs)
  <2>3. c \in Convs /\ Len(c) = n + 1 /\ c[n + 1] = m
    BY AppendIs
  <2>4. n + 1 = 1
    BY <1>1, <1>2
  <2>5. Latest(msgs, m) = c
    BY <2>2
  <2> HIDE DEF none, n, c
  <2> QED BY <2>3, <2>4, <2>5
<1>3. CASE ~none
  <2>1. Len(msgs) = 1 /\ msgs[1].id = m.id /\ 1 \in DOMAIN msgs
    BY <1>1, <1>3 DEF AtMostOne
  <2> HIDE DEF none
  <2>2. Unique(msgs)
    BY <1>1, <2>1 DEF Unique
  <2>3. Has(msgs, m.id) /\ Position(msgs, m.id) = 1
    BY <2>1, <2>2, PositionIs
  <2>4. PICK i \in DOMAIN msgs : i = 1 /\ i = Position(msgs, m.id)
    BY <2>1, <2>3
  <2> DEFINE c == [msgs EXCEPT ![i] = m]
  <2>5. Latest(msgs, m) = c
    BY <2>3, <2>4 DEF Latest
  <2>6. m.id = msgs[i].id
    BY <2>1, <2>4
  <2>7. c \in Convs /\ Len(c) = Len(msgs) /\ c[i] = m
    BY <2>6, ReplaceIs
  <2> HIDE DEF c
  <2> QED BY <2>1, <2>4, <2>5, <2>7
<1> QED BY <1>2, <1>3

Speaks(b) == Says(b) # <<>>

\* The message becomes the one of the turn.
LEMMA TakeTurn ==
    ASSUME turn \in Turns, NEW b \in Accs, Speaks(b), Take(Finish(b)),
           AtMostOne(turn.msgs, b.id)
    PROVE  \E m \in Msgs :
             /\ m.id = b.id /\ m.role = "assistant" /\ m.blocks = Says(b)
             /\ turn' \in Turns /\ turn'.n = turn.n /\ Len(turn'.msgs) = 1 /\ turn'.msgs[1] = m
             /\ session' = PersistEvents(session, EventsOf(m, SentText(m.id)))
             /\ streamed' = [i \in DOMAIN streamed \union {m.id} |->
                               IF i = m.id THEN b.content ELSE streamed[i]]
<1> DEFINE m == Message(b.id, "assistant", Says(b))
           h == turn.tools \/ \E i \in DOMAIN m.blocks : m.blocks[i].kind = "request"
           q == Latest(turn.msgs, m)
           out == Finish(b)
<1>1. out = <<m>> /\ m \in Msgs /\ m.id = b.id /\ m.role = "assistant" /\ m.blocks = Says(b)
  BY FinishIs DEF Speaks
<1>2. Take(out)
  OBVIOUS
<1> HIDE DEF m, out
<1>3. /\ session' = PersistEvents(session, EventsOf(m, SentText(m.id)))
      /\ streamed' = [i \in DOMAIN streamed \union {m.id} |->
                        IF i = m.id THEN TextContent(m) ELSE streamed[i]]
      /\ turn' = [turn EXCEPT !.msgs = q, !.tools = h]
  BY <1>1, <1>2, TakeOne
<1>4. q \in Convs /\ Len(q) = 1 /\ q[1] = m
  <2>1. turn.msgs \in Convs
    BY TurnFields
  <2> QED BY <2>1, <1>1, LatestIs
<1>5. h \in BOOLEAN
  <2>1. turn.tools \in BOOLEAN
    BY TurnFields
  <2> QED BY <2>1
<1> HIDE DEF q
<1>6. turn' \in Turns /\ turn'.n = turn.n /\ turn'.msgs = q
  <2>1. PICK g \in BOOLEAN : g <=> h
    BY <1>5
  <2>2. turn' = [turn EXCEPT !.msgs = q, !.tools = g]
    BY <1>3, <2>1
  <2>3. TurnIs([turn EXCEPT !.msgs = q, !.tools = g], turn.n, q)
    BY <1>4, TurnWith
  <2> QED BY <2>2, <2>3 DEF TurnIs
<1>7. TextContent(m) = b.content
  BY <1>1, SaidMessage
<1>8. streamed' = [i \in DOMAIN streamed \union {m.id} |-> IF i = m.id THEN b.content ELSE streamed[i]]
  BY <1>3, <1>7
<1>9. Len(turn'.msgs) = 1 /\ turn'.msgs[1] = m
  BY <1>4, <1>6
<1> QED BY <1>1, <1>3, <1>6, <1>8, <1>9

\* The first time, the message is new to the pump.
LEMMA TakeFirst ==
    ASSUME session \in Convs, Unique(session), NEW u \in DOMAIN session, turn \in Turns, turn.msgs = <<>>,
           streamed = <<>>, NEW b \in Accs, b.id \notin Ids(session), Speaks(b), Take(Finish(b))
    PROVE  \E m : Taken(m, b, u)
<1>1. PICK m \in Msgs :
             /\ m.id = b.id /\ m.role = "assistant" /\ m.blocks = Says(b)
             /\ turn' \in Turns /\ turn'.n = turn.n /\ Len(turn'.msgs) = 1 /\ turn'.msgs[1] = m
             /\ session' = PersistEvents(session, EventsOf(m, SentText(m.id)))
             /\ streamed' = [i \in DOMAIN streamed \union {m.id} |->
                               IF i = m.id THEN b.content ELSE streamed[i]]
  <2>1. Len(turn.msgs) = 0
    OBVIOUS
  <2> QED BY <2>1, TakeTurn DEF AtMostOne
<1>2. Spoken(m)
  BY <1>1, SaidMessage
<1>3. \A e : e = <<>> => DOMAIN e = {}
  OBVIOUS
<1>4. SentText(m.id) = <<>>
  BY <1>3 DEF SentText
<1>5. session' = Append(session, m)
  <2> DEFINE e == SentText(m.id)
  <2>1. e = <<>> /\ session' = PersistEvents(session, EventsOf(m, e))
    BY <1>1, <1>4
  <2> HIDE DEF e
  <2> QED BY <2>1, <1>1, <1>2, PersistedNew
<1>6. Updated(session', session, u, m)
  BY <1>1, <1>5, UpdatedAtEnd
<1>7. streamed' = [i \in {b.id} |-> b.content]
  <2>1. DOMAIN streamed \union {m.id} = {b.id}
    BY <1>1, <1>3
  <2>2. streamed' = [i \in {b.id} |-> IF i = m.id THEN b.content ELSE streamed[i]]
    BY <2>1, <1>1
  <2> QED BY <2>2, <1>1
<1> QED BY <1>1, <1>6, <1>7 DEF Taken

\* Later the pump has what was shown before.
LEMMA TakeMore ==
    ASSUME session \in Convs, Unique(session), NEW u \in DOMAIN session, turn \in Turns,
           NEW old, Len(turn.msgs) = 1, turn.msgs[1] = old, old.role = "assistant",
           NEW i \in DOMAIN session, i > u, session[i] = old,
           NEW a \in Accs, Shown(old, streamed, a),
           NEW b, Later(a, b), Speaks(b), Take(Finish(b))
    PROVE  \E m : Taken(m, b, u)
<1> DEFINE sent == old.blocks[1].text
<1>1. b \in Accs /\ b.id = a.id /\ Begins(a.content, b.content) /\ (b.calls = <<>> => a.calls = <<>>)
  BY DEF Later
<1>2. /\ old.id = a.id /\ streamed = [x \in {a.id} |-> sent]
      /\ old.blocks[1].kind = "text" /\ sent # <<>>
      /\ Begins(sent, a.content)
      /\ \A k \in DOMAIN old.blocks : k > 1 => old.blocks[k].kind = "request"
      /\ a.calls = <<>> => Len(old.blocks) = 1
  BY DEF Shown, Begins
<1>3. PICK m \in Msgs :
             /\ m.id = b.id /\ m.role = "assistant" /\ m.blocks = Says(b)
             /\ turn' \in Turns /\ turn'.n = turn.n /\ Len(turn'.msgs) = 1 /\ turn'.msgs[1] = m
             /\ session' = PersistEvents(session, EventsOf(m, SentText(m.id)))
             /\ streamed' = [x \in DOMAIN streamed \union {m.id} |->
                               IF x = m.id THEN b.content ELSE streamed[x]]
  BY <1>1, <1>2, TakeTurn DEF AtMostOne
<1>4. Spoken(m) /\ TextContent(m) = b.content /\ (HasTools(m) <=> b.calls # <<>>)
  BY <1>1, <1>3, SaidMessage
<1>5. SentText(m.id) = sent
  BY <1>1, <1>2, <1>3 DEF SentText
<1>6. old \in Msgs /\ old.blocks[1] \in Blocks
  <2>1. old \in Msgs
    BY ConvFields
  <2> QED BY <2>1, MessageFields
<1>7. sent \in Seq(Nat) /\ old.blocks[1] = TextBlock(sent)
  BY <1>2, <1>6, KindSays
<1> HIDE DEF sent
<1>8. Begins(sent, b.content)
  <2>1. a.content \in Seq(Nat) /\ b.content \in Seq(Nat)
    BY <1>1, AccFields
  <2> QED BY <2>1, <1>1, <1>2, <1>7, BeginsThen
<1>9. ShownBefore(session[i], m.id, sent)
  BY <1>1, <1>2, <1>3, <1>6, <1>7 DEF ShownBefore
<1>10. Begins(sent, TextContent(m)) /\ (~HasTools(m) => Len(session[i].blocks) = 1)
  BY <1>1, <1>2, <1>4, <1>8
<1>11. session' = [session EXCEPT ![i] = m]
  <2>1. session' = PersistEvents(session, EventsOf(m, sent))
    BY <1>3, <1>5
  <2> QED BY <2>1, <1>4, <1>9, <1>10, PersistedMore
<1>12. Updated(session', session, u, m)
  <2>1. session[i].id = m.id
    BY <1>1, <1>2, <1>3
  <2>2. Updated([session EXCEPT ![i] = m], session, u, m)
    BY <2>1, UpdatedAt
  <2> QED BY <2>2, <1>11
<1>13. streamed' = [x \in {b.id} |-> b.content]
  <2>1. DOMAIN streamed = {a.id}
    BY <1>2
  <2>2. DOMAIN streamed \union {m.id} = {b.id}
    BY <2>1, <1>1, <1>3
  <2>3. streamed' = [x \in {b.id} |-> IF x = m.id THEN b.content ELSE streamed[x]]
    BY <2>2, <1>3
  <2> QED BY <2>3, <1>3
<1> QED BY <1>3, <1>12, <1>13 DEF Taken

-----------------------------------------------------------------------------
(* A step of the stream keeps the log                                      *)

StreamFrame ==
    /\ prov' = prov /\ stored' = stored /\ history' = history /\ final' = final /\ retries' = retries
    /\ partials' = partials /\ outcome' = outcome /\ replies' = replies /\ faults' = faults
    /\ nextId' = nextId + 1

\* A call is of a conversation when a block of the kind names it.
LEMMA CallsOfIs ==
    ASSUME NEW msgs, NEW kind, NEW c
    PROVE  c \in CallsOf(msgs, kind) <=>
             \E i \in DOMAIN msgs : \E k \in DOMAIN msgs[i].blocks :
                msgs[i].blocks[k].kind = kind /\ msgs[i].blocks[k].call = c
BY DEF CallsOf, ToSet

\* Ids below a number are below a larger one.
LEMMA BelowMore ==
    ASSUME NEW conv \in Convs, NEW n \in Nat, NEW d \in Nat, Below(conv, n)
    PROVE  Below(conv, n + d)
<1>1. SUFFICES ASSUME NEW i \in DOMAIN conv PROVE conv[i].id < n + d
  BY DEF Below
<1>2. conv[i].id \in Nat /\ conv[i].id < n
  BY ConvFields, MessageFields DEF Below
<1> QED BY <1>2

\* The messages of an updated conversation are the old ones and m.
LEMMA UpdatedIs ==
    ASSUME NEW conv \in Convs, NEW new, NEW u \in DOMAIN conv, NEW m, Updated(new, conv, u, m)
    PROVE  /\ new \in Convs /\ Unique(new)
           /\ u \in DOMAIN new /\ new[u] = conv[u]
           /\ \A j \in DOMAIN new : new[j] = m \/ (j \in DOMAIN conv /\ new[j] = conv[j])
           /\ \E i \in DOMAIN new : i > u /\ new[i] = m
           /\ \A j \in DOMAIN conv : j \in DOMAIN new /\ (conv[j].id # m.id => new[j] = conv[j])
           /\ \A c \in Ids(new) : c \in Ids(conv) \/ c = m.id
<1>1. new \in Convs /\ Unique(new) /\ Len(conv) <= Len(new)
  BY DEF Updated
<1>2. PICK i \in DOMAIN new :
         /\ i > u /\ new[i] = m
         /\ \A j \in DOMAIN new : j # i => j \in DOMAIN conv /\ new[j] = conv[j]
         /\ i \in DOMAIN conv => conv[i].id = m.id
         /\ i \notin DOMAIN conv => m.id \notin Ids(conv)
  BY DEF Updated
<1>3. /\ DOMAIN new = 1..Len(new) /\ Len(new) \in Nat /\ DOMAIN conv = 1..Len(conv) /\ Len(conv) \in Nat
  BY <1>1, ConvFields
<1>4. \A j \in DOMAIN conv : j \in DOMAIN new
  BY <1>1, <1>3
<1>5. u \in DOMAIN new /\ u # i
  BY <1>2, <1>3, <1>4
<1> QED BY <1>1, <1>2, <1>4, <1>5 DEF Ids

\* A run is kept by a message that is taken.
LEMMA TakenRun ==
    ASSUME ShapeOK, Clean(session), NEW u \in DOMAIN session, RunAt(u), phase = "stream",
           NEW b \in Accs, NEW m, Taken(m, b, u), b.id \notin Ids(final), b.id < nextId,
           AtMostOne(turn.msgs, b.id),
           StreamFrame, phase' \in {"stream", "turn_over"}
    PROVE  ShapeOK' /\ LogInv'
<1>1. /\ prov \in Providers /\ nextId \in Nat /\ faults \in Nat /\ replies \in Nat
      /\ outcome \in {"none", "finish", "error"}
      /\ stored \in Convs /\ session \in Convs /\ history \in Convs /\ final \in Convs
      /\ Below(stored, nextId) /\ Below(session, nextId) /\ Below(history, nextId) /\ Below(final, nextId)
      /\ turn \in Turns
      /\ retries \in [http : 0..MaxRetries, turn : 0..MaxRetries]
      /\ partials \subseteq Nat
  BY DEF ShapeOK
<1>2. /\ m \in Msgs /\ m.id = b.id /\ m.role = "assistant" /\ m.blocks = Says(b)
      /\ turn' \in Turns /\ Len(turn'.msgs) = 1 /\ turn'.msgs[1] = m
      /\ Updated(session', session, u, m)
  BY DEF Taken
<1>3. /\ session' \in Convs /\ Unique(session')
      /\ u \in DOMAIN session' /\ session'[u] = session[u]
      /\ \A j \in DOMAIN session' : session'[j] = m \/ (j \in DOMAIN session /\ session'[j] = session[j])
      /\ \E i \in DOMAIN session' : i > u /\ session'[i] = m
      /\ \A j \in DOMAIN session : j \in DOMAIN session' /\ (session[j].id # m.id => session'[j] = session[j])
      /\ \A c \in Ids(session') : c \in Ids(session) \/ c = m.id
  <2> DEFINE S == session'
             C == session
  <2>1. Updated(S, C, u, m) /\ C \in Convs /\ u \in DOMAIN C
    BY <1>1, <1>2
  <2> HIDE DEF S, C
  <2>2. /\ S \in Convs /\ Unique(S)
        /\ u \in DOMAIN S /\ S[u] = C[u]
        /\ \A j \in DOMAIN S : S[j] = m \/ (j \in DOMAIN C /\ S[j] = C[j])
        /\ \E i \in DOMAIN S : i > u /\ S[i] = m
        /\ \A j \in DOMAIN C : j \in DOMAIN S /\ (C[j].id # m.id => S[j] = C[j])
        /\ \A c \in Ids(S) : c \in Ids(C) \/ c = m.id
    BY <2>1, UpdatedIs
  <2> QED BY <2>2 DEF S, C
<1>4. /\ prov' = prov /\ stored' = stored /\ history' = history /\ final' = final /\ retries' = retries
      /\ partials' = partials /\ outcome' = outcome /\ replies' = replies /\ faults' = faults
      /\ nextId' = nextId + 1
  BY DEF StreamFrame
<1> DEFINE S == session'
           T == turn'
<1>5. Below(S, nextId + 1)
  <2>1. Below(session, nextId + 1)
    BY <1>1, BelowMore
  <2>2. m.id < nextId + 1
    <3>1. b.id \in Nat
      BY AccFields
    <3> QED BY <3>1, <1>1, <1>2
  <2> QED BY <2>1, <2>2, <1>3 DEF Below
<1>6. ShapeOK'
  <2>1. Below(stored, nextId + 1) /\ Below(history, nextId + 1) /\ Below(final, nextId + 1)
    BY <1>1, BelowMore
  <2> QED BY <2>1, <1>1, <1>2, <1>3, <1>4, <1>5 DEF ShapeOK
<1> HIDE DEF S, T
<1>7. Clean(S)
  <2>1. m.blocks[1].kind # "no_reply"
    <3>1. Spoken(m)
      BY <1>2, SaidMessage
    <3> QED BY <3>1 DEF Spoken
  <2>2. \A i \in DOMAIN S : S[i].blocks[1].kind # "no_reply"
    BY <2>1, <1>3 DEF Clean, S
  <2> QED BY <2>2, <1>3 DEF Clean, S
<1>8. Answers(S, u, partials \cup Ids(final) \cup Ids(T.msgs))
  <2>1. DOMAIN T.msgs = {1} /\ Ids(T.msgs) = {m.id}
    <3>1. T.msgs \in Convs /\ Len(T.msgs) = 1 /\ T.msgs[1] = m
      BY <1>2, TurnFields DEF T
    <3>2. DOMAIN T.msgs = 1..1
      BY <3>1, ConvFields
    <3> QED BY <3>1, <3>2 DEF Ids
  <2>2. Ids(turn.msgs) \subseteq {m.id}
    <3>1. turn.msgs \in Convs
      BY <1>1, TurnFields
    <3>2. DOMAIN turn.msgs = 1..Len(turn.msgs)
      BY <3>1, ConvFields
    <3> QED BY <3>2, <1>2 DEF Ids, AtMostOne
  <2>3. /\ session[u].role = "user"
        /\ \A i \in DOMAIN session : i > u =>
              session[i].role = "assistant" /\ session[i].id \in partials \cup Ids(final) \cup Ids(turn.msgs)
    BY DEF RunAt, Answers
  <2>4. ASSUME NEW i \in DOMAIN S, i > u
        PROVE  S[i].role = "assistant" /\ S[i].id \in partials \cup Ids(final) \cup Ids(T.msgs)
    <3>1. CASE S[i] = m
      BY <3>1, <2>1, <1>2
    <3>2. CASE i \in DOMAIN session /\ S[i] = session[i]
      BY <3>2, <2>1, <2>2, <2>3, <2>4
    <3> QED BY <3>1, <3>2, <1>3 DEF S
  <2> QED BY <2>3, <2>4, <1>3 DEF Answers, S
<1>a. m.id \notin Ids(final)
  BY <1>2
<1>9. Settled(S, u, final)
  <2>1. /\ Unique(final) /\ (final # <<>> => final[1].role = "assistant")
        /\ \A k \in DOMAIN final :
              \/ final[k].role = "assistant" /\ \E i \in DOMAIN session : i > u /\ session[i] = final[k]
              \/ ToolAnswer(final[k]) /\ final[k].id \notin Ids(session)
    BY DEF RunAt, Settled
  <2>2. ASSUME NEW k \in DOMAIN final
        PROVE  \/ final[k].role = "assistant" /\ \E i \in DOMAIN S : i > u /\ S[i] = final[k]
               \/ ToolAnswer(final[k]) /\ final[k].id \notin Ids(S)
    <3>1. final[k].id # m.id
      BY <1>a DEF Ids
    <3>2. CASE final[k].role = "assistant" /\ \E i \in DOMAIN session : i > u /\ session[i] = final[k]
      <4>1. PICK i \in DOMAIN session : i > u /\ session[i] = final[k]
        BY <3>2
      <4>2. i \in DOMAIN S /\ S[i] = session[i]
        BY <4>1, <3>1, <1>3 DEF S
      <4> QED BY <3>2, <4>1, <4>2
    <3>3. CASE ToolAnswer(final[k]) /\ final[k].id \notin Ids(session)
      <4>1. final[k].id \notin Ids(S)
        BY <3>1, <3>3, <1>3 DEF S
      <4> QED BY <3>3, <4>1
    <3> QED BY <3>2, <3>3, <2>1
  <2> QED BY <2>1, <2>2 DEF Settled
<1>10. T.msgs # <<>> /\ Len(T.msgs) = 1 /\ Mirrored(S, u, final, T.msgs[1])
  <2>1. Mirrored(S, u, final, m)
    BY <1>2, <1>3, <1>a DEF Mirrored, S
  <2>2. T.msgs \in Convs /\ Len(T.msgs) = 1 /\ T.msgs[1] = m
    BY <1>2, TurnFields DEF T
  <2> DEFINE q == T.msgs
  <2> HIDE DEF q
  <2>3. q # <<>>
    <3>1. Len(q) = 1
      BY <2>2 DEF q
    <3> QED BY <3>1
  <2> QED BY <2>1, <2>2, <2>3 DEF q
<1>11. RunAt(u)'
  <2>1. (phase' = "request") = FALSE /\ (phase' = "idle") = FALSE
    OBVIOUS
  <2> QED BY <2>1, <1>4, <1>8, <1>9, <1>10 DEF RunAt, S, T
<1>12. LogInv'
  <2>1. (phase' = "idle") = FALSE
    OBVIOUS
  <2>2. FinishedRunStored'
    BY <2>1 DEF FinishedRunStored
  <2>3. \E w \in DOMAIN session' : RunAt(w)'
    BY <1>3, <1>11
  <2> QED BY <2>1, <2>2, <2>3, <1>7 DEF LogInv, S
<1> QED BY <1>6, <1>12

\* Calls have numbers.
LEMMA CallsNat ==
    ASSUME NEW conv \in Convs, NEW kind \in {"request", "response"}, NEW c \in CallsOf(conv, kind)
    PROVE  c \in Nat
<1>1. PICK i \in DOMAIN conv : \E k \in DOMAIN conv[i].blocks :
         conv[i].blocks[k].kind = kind /\ conv[i].blocks[k].call = c
  BY CallsOfIs
<1>2. PICK k \in DOMAIN conv[i].blocks : conv[i].blocks[k].kind = kind /\ conv[i].blocks[k].call = c
  BY <1>1
<1>3. conv[i].blocks \in Seq(Blocks)
  BY ConvFields, MessageFields
<1>4. conv[i].blocks[k] \in Blocks
  BY <1>3
<1> QED BY <1>2, <1>4, KindSays

\* A run is kept when nothing is taken.
LEMMA QuietRun ==
    ASSUME ShapeOK, Clean(session), NEW u \in DOMAIN session, RunAt(u), phase = "stream",
           session' = session, turn' = turn, StreamFrame, phase' \in {"stream", "turn_over"}
    PROVE  ShapeOK' /\ LogInv'
<1>1. /\ nextId \in Nat /\ stored \in Convs /\ session \in Convs /\ history \in Convs /\ final \in Convs
      /\ Below(stored, nextId) /\ Below(session, nextId) /\ Below(history, nextId) /\ Below(final, nextId)
  BY DEF ShapeOK
<1>2. /\ prov' = prov /\ stored' = stored /\ history' = history /\ final' = final /\ retries' = retries
      /\ partials' = partials /\ outcome' = outcome /\ replies' = replies /\ faults' = faults
      /\ nextId' = nextId + 1
  BY DEF StreamFrame
<1>3. ShapeOK'
  <2>1. /\ Below(stored, nextId + 1) /\ Below(session, nextId + 1)
        /\ Below(history, nextId + 1) /\ Below(final, nextId + 1)
    BY <1>1, BelowMore
  <2> QED BY <2>1, <1>1, <1>2 DEF ShapeOK
<1>4. (phase' = "idle") = FALSE /\ (phase' = "request") = FALSE
  OBVIOUS
<1>5. RunAt(u)'
  <2>1. Answers(session, u, partials \cup Ids(final) \cup Ids(turn.msgs)) /\ Settled(session, u, final)
    BY DEF RunAt
  <2>2. turn.msgs = <<>> \/ (Len(turn.msgs) = 1 /\ Mirrored(session, u, final, turn.msgs[1]))
    BY DEF RunAt
  <2> DEFINE M == turn.msgs = <<>> \/ (Len(turn.msgs) = 1 /\ Mirrored(session, u, final, turn.msgs[1]))
  <2>3. M
    BY <2>2
  <2>4. M'
    BY <2>3, <1>2
  <2>5. (Answers(session, u, partials \cup Ids(final) \cup Ids(turn.msgs)) /\ Settled(session, u, final))'
    BY <2>1, <1>2
  <2> QED BY <2>4, <2>5, <1>4 DEF RunAt
<1>6. FinishedRunStored'
  BY <1>4 DEF FinishedRunStored
<1>7. \E w \in DOMAIN session' : RunAt(w)'
  BY <1>5
<1> QED BY <1>3, <1>4, <1>6, <1>7 DEF LogInv

\* The calls that a message asks for are those of the accumulator.
LEMMA SaysCalls ==
    ASSUME NEW b \in Accs, NEW k \in DOMAIN Says(b), Says(b)[k].kind = "request"
    PROVE  \E i \in DOMAIN b.calls : Says(b)[k].call = b.calls[i].call
<1> DEFINE s == Says(b)
           q == Asked(b.calls)
           n == Len(b.calls)
           none == b.content = <<>>
<1>1. n \in Nat /\ DOMAIN b.calls = 1..n /\ b.content \in Seq(Nat) /\ s \in Seq(Blocks)
  BY AccFields, SaysIs
<1>2. DOMAIN q = 1..n /\ \A i \in 1..n : q[i].call = b.calls[i].call
  BY <1>1, AskedIs
<1>3. CASE none
  <2>1. s = q
    BY <1>3 DEF Says
  <2> HIDE DEF s, q, n, none
  <2>2. k \in 1..n /\ s[k].call = b.calls[k].call
    BY <2>1, <1>2 DEF s
  <2> QED BY <2>2, <1>1 DEF s
<1>4. CASE ~none
  <2>1. b.content # <<>> => /\ Len(Says(b)) = Len(b.calls) + 1 /\ Says(b)[1] = TextBlock(b.content)
                            /\ \A i \in DOMAIN b.calls : Says(b)[i + 1] = Asked(b.calls)[i]
    BY SaysIs
  <2>2. Len(s) = n + 1 /\ s[1] = TextBlock(b.content) /\ \A i \in 1..n : s[i + 1] = q[i]
    BY <2>1, <1>1, <1>4
  <2> HIDE DEF s, q, n, none
  <2>3. DOMAIN s = 1..(n + 1)
    BY <2>2, <1>1
  <2>4. s[1].kind = "text"
    BY <2>2, <1>1, BlockKinds
  <2>5. k # 1
    BY <2>4 DEF s
  <2>6. k - 1 \in 1..n /\ k = (k - 1) + 1
    BY <2>3, <2>5, <1>1 DEF s
  <2>7. s[k] = q[k - 1]
    BY <2>2, <2>6
  <2> QED BY <2>6, <2>7, <1>1, <1>2 DEF s
<1> QED BY <1>3, <1>4

\* Calls stay in order when a message is taken.
LEMMA TakenPairs ==
    ASSUME ShapeOK, PairInv, phase = "stream", NEW u \in DOMAIN session,
           NEW b \in Accs, NEW m, Taken(m, b, u), StreamFrame,
           NEW said \in Saids, said = meant', Heard(b, said),
           Saying \subseteq CallIds(said.calls), CallIds(said.calls) \subseteq Saying \cup {nextId},
           NEW X, X = CallIds(said.calls)
    PROVE  PairInv'
<1>1. SUFFICES ASSUME prov = "responses"
               PROVE  /\ PairOrder(session')
                      /\ PairOrder(history')
                      /\ Answered' \subseteq Answered
                      /\ \A c \in Answered : c < nextId'
                      /\ Answered \cap X = {}
                      /\ CallsOf(turn'.msgs, "request") \subseteq X
  <2>1. prov' = prov
    BY DEF StreamFrame
  <2>2. Saying' = X
    BY DEF Saying
  <2> QED BY <2>1, <2>2 DEF PairInv
<1>2. /\ nextId \in Nat /\ session \in Convs /\ history \in Convs /\ final \in Convs
  BY DEF ShapeOK
<1>3. /\ PairOrder(session) /\ PairOrder(history)
      /\ \A c \in Answered : c < nextId
      /\ Answered \cap Saying = {}
  BY <1>1 DEF PairInv
<1>4. /\ m \in Msgs /\ m.id = b.id /\ m.role = "assistant" /\ m.blocks = Says(b)
      /\ turn' \in Turns /\ Len(turn'.msgs) = 1 /\ turn'.msgs[1] = m
      /\ Updated(session', session, u, m)
  BY DEF Taken
<1> DEFINE S == session'
           C == session
           q == turn'.msgs
<1>5. \A j \in DOMAIN S : S[j] = m \/ (j \in DOMAIN C /\ S[j] = C[j])
  <2>1. Updated(S, C, u, m) /\ C \in Convs /\ u \in DOMAIN C
    BY <1>2, <1>4
  <2> HIDE DEF S, C
  <2>2. /\ S \in Convs /\ Unique(S)
        /\ u \in DOMAIN S /\ S[u] = C[u]
        /\ \A j \in DOMAIN S : S[j] = m \/ (j \in DOMAIN C /\ S[j] = C[j])
        /\ \E i \in DOMAIN S : i > u /\ S[i] = m
        /\ \A j \in DOMAIN C : j \in DOMAIN S /\ (C[j].id # m.id => S[j] = C[j])
        /\ \A c \in Ids(S) : c \in Ids(C) \/ c = m.id
    BY <2>1, UpdatedIs
  <2> QED BY <2>2
<1>6. Spoken(m)
  BY <1>4, SaidMessage
<1>7. \A k \in DOMAIN m.blocks : m.blocks[k].kind # "response"
  <2>1. m.blocks \in Seq(Blocks)
    BY <1>4, MessageFields
  <2>2. DOMAIN m.blocks = 1..Len(m.blocks) /\ Len(m.blocks) \in Nat
    BY <2>1
  <2> QED BY <2>2, <1>6 DEF Spoken
<1>8. \A k \in DOMAIN m.blocks : m.blocks[k].kind = "request" => m.blocks[k].call \in X
  <2>1. SUFFICES ASSUME NEW k \in DOMAIN m.blocks, m.blocks[k].kind = "request" PROVE m.blocks[k].call \in X
    OBVIOUS
  <2>2. PICK i \in DOMAIN b.calls : m.blocks[k].call = b.calls[i].call
    BY <2>1, <1>4, SaysCalls
  <2>3. b.calls[i].call = said.calls[i].call /\ Len(b.calls) = Len(said.calls)
    BY <1>1 DEF Heard
  <2>4. i \in DOMAIN said.calls
    <3>1. Len(b.calls) \in Nat /\ DOMAIN b.calls = 1..Len(b.calls)
      BY AccFields
    <3>2. i \in 1..Len(said.calls)
      BY <3>1, <2>3
    <3>3. DOMAIN said.calls = 1..Len(said.calls)
      BY SaidFields
    <3> QED BY <3>2, <3>3
  <2> QED BY <2>2, <2>3, <2>4 DEF CallIds
<1>9. q \in Convs /\ DOMAIN q = {1} /\ q[1] = m
  <2>1. q \in Convs /\ Len(q) = 1
    BY <1>4, TurnFields
  <2> QED BY <2>1, <1>4, ConvFields
<1>10. Answered \cap X = {}
  BY <1>2, <1>3
<1>11. ASSUME NEW c, c \in CallsOf(S, "response") PROVE c \in CallsOf(C, "response")
  <2>1. PICK i \in DOMAIN S : \E k \in DOMAIN S[i].blocks : S[i].blocks[k].kind = "response" /\ S[i].blocks[k].call = c
    BY <1>11, CallsOfIs
  <2>2. i \in DOMAIN C /\ S[i] = C[i]
    BY <2>1, <1>5, <1>7
  <2> QED BY <2>1, <2>2, CallsOfIs
<1>12. Answered' \subseteq Answered
  BY <1>11 DEF Answered, StreamFrame
<1>13. PairOrder(S)
  <2>1. SUFFICES ASSUME NEW i \in DOMAIN S, NEW j \in DOMAIN S,
                        NEW k \in DOMAIN S[i].blocks, NEW l \in DOMAIN S[j].blocks,
                        S[i].blocks[k].kind = "request", S[j].blocks[l].kind = "response",
                        S[i].blocks[k].call = S[j].blocks[l].call
                 PROVE  i < j
    BY DEF PairOrder
  <2>2. j \in DOMAIN C /\ S[j] = C[j]
    BY <2>1, <1>5, <1>7
  <2>3. S[j].blocks[l].call \in Answered
    <3>1. S[j].blocks[l].call \in CallsOf(C, "response")
      BY <2>1, <2>2, CallsOfIs
    <3> QED BY <3>1 DEF Answered
  <2>4. S[i] # m
    <3>1. SUFFICES ASSUME S[i] = m PROVE FALSE
      OBVIOUS
    <3>2. S[i].blocks[k].call \in X
      BY <3>1, <2>1, <1>8
    <3> QED BY <3>2, <2>1, <2>3, <1>10
  <2>5. i \in DOMAIN C /\ S[i] = C[i]
    BY <2>4, <1>5
  <2> QED BY <2>1, <2>2, <2>5, <1>3 DEF PairOrder
<1>14. PairOrder(history') /\ \A c \in Answered : c < nextId'
  <2>1. history' = history /\ nextId' = nextId + 1
    BY DEF StreamFrame
  <2>2. ASSUME NEW c \in Answered PROVE c \in Nat /\ c < nextId
    <3>1. c \in CallsOf(session, "response") \/ c \in CallsOf(history, "response") \/ c \in CallsOf(final, "response")
      BY <2>2 DEF Answered
    <3> QED BY <3>1, <2>2, <1>2, <1>3, CallsNat
  <2>3. ASSUME NEW c \in Answered PROVE c < nextId + 1
    BY <2>2, <1>2
  <2> QED BY <2>1, <2>3, <1>3
<1>15. CallsOf(q, "request") \subseteq X
  <2>1. SUFFICES ASSUME NEW c, c \in CallsOf(q, "request") PROVE c \in X
    OBVIOUS
  <2>2. PICK i \in DOMAIN q : \E k \in DOMAIN q[i].blocks : q[i].blocks[k].kind = "request" /\ q[i].blocks[k].call = c
    BY <2>1, CallsOfIs
  <2>3. i = 1
    BY <2>2, <1>9
  <2> QED BY <2>2, <2>3, <1>8, <1>9
<1> QED BY <1>10, <1>12, <1>13, <1>14, <1>15

-----------------------------------------------------------------------------
(* The stream keeps the invariant                                          *)

\* What the invariant says during a stream.
LEMMA StreamHas ==
    ASSUME TranscriptInv, phase = "stream"
    PROVE  /\ ShapeOK /\ Clean(session) /\ PairInv /\ StreamReady
           /\ acc \in Accs /\ acc.id < nextId /\ acc.id \notin Ids(final) /\ meant.open # "stopped"
           /\ AtMostOne(turn.msgs, acc.id)
           /\ IF turn.msgs = <<>> THEN acc.id \notin Ids(session) /\ streamed = <<>>
              ELSE Shown(turn.msgs[1], streamed, acc)
           /\ \E u \in DOMAIN session : RunAt(u)
           /\ turn \in Turns /\ session \in Convs /\ nextId \in Nat
<1>1. /\ acc \in Accs /\ acc.id < nextId /\ acc.id \notin Ids(final)
      /\ SpeechOK /\ Heard(acc, meant) /\ meant.open # "stopped"
      /\ IF turn.msgs = <<>> THEN acc.id \notin Ids(session) /\ streamed = <<>>
         ELSE Shown(turn.msgs[1], streamed, acc)
  BY DEF TranscriptInv, StreamInv
<1>2. Clean(session) /\ \E u \in DOMAIN session : RunAt(u)
  <2>1. (phase = "idle") = FALSE
    OBVIOUS
  <2> QED BY <2>1 DEF TranscriptInv, LogInv
<1>3. turn \in Turns /\ session \in Convs /\ nextId \in Nat /\ prov \in Providers
  BY DEF TranscriptInv, ShapeOK
<1>4. AtMostOne(turn.msgs, acc.id)
  <2> DEFINE q == turn.msgs
             none == q = <<>>
  <2>1. q \in Convs /\ Len(q) \in Nat
    BY <1>3, TurnFields, ConvFields
  <2>2. CASE none
    <3>1. Len(q) = 0
      BY <2>2
    <3> QED BY <3>1 DEF AtMostOne
  <2>3. CASE ~none
    <3>1. Shown(q[1], streamed, acc)
      BY <1>1, <2>3
    <3>2. Len(q) = 1
      <4>1. none \/ Len(q) = 1
        BY <1>2 DEF RunAt
      <4> QED BY <4>1, <2>3
    <3> QED BY <3>1, <3>2 DEF AtMostOne, Shown
  <2> QED BY <2>2, <2>3
<1>5. StreamReady
  BY <1>1, <1>3 DEF StreamReady
<1> QED BY <1>1, <1>2, <1>3, <1>4, <1>5 DEF TranscriptInv

\* A message of a later accumulator is taken.
LEMMA Takes ==
    ASSUME TranscriptInv, phase = "stream", NEW u \in DOMAIN session, RunAt(u),
           NEW b, Later(acc, b), Speaks(b), Take(Finish(b))
    PROVE  \E m : Taken(m, b, u)
<1>1. /\ acc \in Accs /\ turn \in Turns /\ session \in Convs /\ Unique(session)
      /\ b \in Accs /\ b.id = acc.id
  BY StreamHas DEF Clean, Later
<1>2. CASE turn.msgs = <<>>
  <2>1. acc.id \notin Ids(session) /\ streamed = <<>>
    BY <1>2, StreamHas
  <2>2. b.id \notin Ids(session)
    BY <1>1, <2>1
  <2> QED BY <1>1, <1>2, <2>1, <2>2, TakeFirst
<1>3. CASE turn.msgs # <<>>
  <2> DEFINE old == turn.msgs[1]
  <2>1. Shown(old, streamed, acc)
    BY <1>3, StreamHas
  <2>2. Len(turn.msgs) = 1 /\ Mirrored(session, u, final, old)
    <3>1. phase \in {"stream", "turn_over"}
      OBVIOUS
    <3> QED BY <1>3, <3>1 DEF RunAt
  <2> HIDE DEF old
  <2>3. PICK i \in DOMAIN session : i > u /\ session[i] = old
    BY <2>2 DEF Mirrored
  <2>4. old.role = "assistant"
    BY <2>2 DEF Mirrored
  <2>5. turn.msgs[1] = old
    BY DEF old
  <2> QED BY <1>1, <2>1, <2>2, <2>3, <2>4, <2>5, TakeMore
<1> QED BY <1>2, <1>3

\* A line within the stream keeps the invariant.
LEMMA GoingInv ==
    ASSUME TranscriptInv, phase = "stream", phase' = "stream", StreamFrame, NEW b, Going(b)
    PROVE  TranscriptInv'
<1> DEFINE said == meant'
           X == CallIds(said.calls)
<1>1. /\ ShapeOK /\ Clean(session) /\ PairInv /\ turn \in Turns /\ session \in Convs /\ nextId \in Nat
      /\ acc \in Accs /\ acc.id < nextId /\ acc.id \notin Ids(final)
      /\ AtMostOne(turn.msgs, acc.id)
  BY StreamHas
<1>2. /\ Later(acc, b) /\ Heard(b, said) /\ Speech(said, nextId + 1) /\ said.open # "stopped"
      /\ Saying \subseteq X /\ X \subseteq Saying \cup {nextId}
      /\ (\A e : e = <<>> => Gives(b, e)) \/ (b.content # <<>> /\ Gives(b, Finish(b)))
  BY DEF Going
<1>3. PICK u \in DOMAIN session : RunAt(u)
  BY StreamHas
<1>4. b \in Accs /\ b.id = acc.id /\ Begins(acc.content, b.content) /\ (b.calls = <<>> => acc.calls = <<>>)
  BY <1>2 DEF Later
<1>5. /\ prov' = prov /\ history' = history /\ final' = final /\ nextId' = nextId + 1
  BY DEF StreamFrame
<1>6. phase' \in {"stream", "turn_over"} /\ phase' # "turn_over"
  OBVIOUS
<1>7. StreamUnderstood' /\ Numbered'
  BY <1>6 DEF StreamUnderstood, Numbered
<1>8. said \in Saids
  BY <1>2 DEF Speech
\* Everything of StreamInv but what has been shown.
<1>9. acc' = b => /\ acc' \in Accs /\ acc'.id < nextId' /\ acc'.id \notin Ids(final')
                  /\ SpeechOK' /\ Heard(acc, meant)' /\ said.open # "stopped"
  <2>1. SUFFICES ASSUME acc' = b
                 PROVE  /\ acc' \in Accs /\ acc'.id < nextId' /\ acc'.id \notin Ids(final')
                        /\ SpeechOK' /\ Heard(acc, meant)' /\ said.open # "stopped"
    OBVIOUS
  <2>2. acc'.id < nextId'
    <3>1. acc.id \in Nat
      BY <1>1, AccFields
    <3> QED BY <3>1, <2>1, <1>1, <1>4, <1>5
  <2>3. SpeechOK'
    <3>1. Speech(said, nextId + 1)
      BY <1>2
    <3> QED BY <3>1, <1>5 DEF SpeechOK, Speech
  <2>4. Heard(acc, meant)'
    BY <2>1, <1>2, <1>5 DEF Heard
  <2> QED BY <2>1, <2>2, <2>3, <2>4, <1>1, <1>2, <1>4, <1>5
<1>10. CASE \A e : e = <<>> => Gives(b, e)
  <2> DEFINE e == <<>>
  <2>1. Gives(b, e)
    BY <1>10
  <2>2. e = <<>>
    OBVIOUS
  <2> HIDE DEF e
  <2>3. acc' = b /\ session' = session /\ streamed' = streamed /\ turn' = turn
    BY <2>1, <2>2, TakeNothing DEF Gives
  <2>4. ShapeOK' /\ LogInv'
    BY <2>3, <1>1, <1>3, <1>6, QuietRun
  <2>5. IF turn.msgs = <<>> THEN b.id \notin Ids(session) /\ streamed = <<>>
        ELSE Shown(turn.msgs[1], streamed, b)
    <3>1. CASE turn.msgs = <<>>
      <4>1. acc.id \notin Ids(session) /\ streamed = <<>>
        BY <3>1, StreamHas
      <4> QED BY <3>1, <4>1, <1>4
    <3>2. CASE turn.msgs # <<>>
      <4> DEFINE m == turn.msgs[1]
                 t == m.blocks[1].text
                 s == streamed
      <4>1. Shown(m, s, acc)
        BY <3>2, StreamHas
      <4> HIDE DEF m, s
      <4>2. /\ m.id = acc.id /\ s = [i \in {acc.id} |-> t]
            /\ m.blocks[1].kind = "text" /\ t # <<>>
            /\ Begins(t, acc.content)
            /\ \A k \in DOMAIN m.blocks : k > 1 => m.blocks[k].kind = "request"
            /\ acc.calls = <<>> => Len(m.blocks) = 1
        BY <4>1 DEF Shown, Begins
      <4>3. t \in Seq(Nat)
        <5>1. turn.msgs \in Convs /\ Len(turn.msgs) = 1
          <6>1. turn.msgs \in Convs
            BY <1>1, TurnFields
          <6>2. Len(turn.msgs) # 0
            <7>1. Len(turn.msgs) \in Nat
              BY <6>1, ConvFields
            <7> QED BY <6>1, <7>1, <3>2 DEF Convs
          <6> QED BY <6>1, <6>2, <1>1 DEF AtMostOne
        <5>2. m \in Msgs
          <6>1. 1 \in DOMAIN turn.msgs
            BY <5>1, ConvFields
          <6> QED BY <5>1, <6>1, ConvFields DEF m
        <5>3. m.blocks[1] \in Blocks
          BY <5>2, MessageFields
        <5> QED BY <5>3, <4>2, KindSays
      <4> HIDE DEF t
      <4>4. Begins(t, b.content)
        <5>1. acc.content \in Seq(Nat) /\ b.content \in Seq(Nat)
          BY <1>1, <1>4, AccFields
        <5> QED BY <5>1, <4>2, <4>3, <1>4, BeginsThen
      <4>5. Shown(m, s, b)
        BY <4>2, <4>4, <1>4 DEF Shown, Begins, t
      <4> QED BY <3>2, <4>5 DEF m, s
    <3> QED BY <3>1, <3>2
  <2>6. StreamInv'
    <3>1. IF turn'.msgs = <<>> THEN acc'.id \notin Ids(session') /\ streamed' = <<>>
          ELSE Shown(turn'.msgs[1], streamed', acc')
      BY <2>3, <2>5
    <3> QED BY <2>3, <3>1, <1>9 DEF StreamInv
  <2>7. PairInv'
    <3>1. \A c \in Answered : prov = "responses" => c < nextId + 1 /\ c # nextId
      <4>1. SUFFICES ASSUME NEW c \in Answered, prov = "responses" PROVE c < nextId + 1 /\ c # nextId
        OBVIOUS
      <4>2. c < nextId
        BY <4>1, <1>1 DEF PairInv
      <4>3. c \in Nat
        <5>1. c \in CallsOf(session, "response") \/ c \in CallsOf(history, "response") \/ c \in CallsOf(final, "response")
          BY <4>1 DEF Answered
        <5> QED BY <5>1, <1>1, CallsNat DEF ShapeOK
      <4> QED BY <4>2, <4>3, <1>1
    <3>2. Answered' = Answered /\ Saying' = X /\ CallsOf(turn.msgs, "request")' = CallsOf(turn.msgs, "request")
      BY <2>3, <1>5 DEF Answered, Saying
    <3> HIDE DEF X, said
    <3>3. prov = "responses" =>
            Answered \cap X = {} /\ CallsOf(turn.msgs, "request") \subseteq X
      <4>1. prov = "responses" => Answered \cap Saying = {} /\ CallsOf(turn.msgs, "request") \subseteq Saying
        BY <1>1 DEF PairInv
      <4> QED BY <4>1, <3>1, <1>2
    <3>4. prov = "responses" => PairOrder(session) /\ PairOrder(history)
      BY <1>1 DEF PairInv
    <3> QED BY <2>3, <3>1, <3>2, <3>3, <3>4, <1>5 DEF PairInv
  <2> QED BY <2>4, <2>6, <2>7, <1>7 DEF TranscriptInv
<1>11. CASE b.content # <<>> /\ Gives(b, Finish(b))
  <2>1. acc' = b /\ Take(Finish(b))
    BY <1>11 DEF Gives
  <2>2. Speaks(b)
    <3>1. Says(b) = <<>> <=> b.content = <<>> /\ b.calls = <<>>
      BY <1>4, SaysIs
    <3> QED BY <3>1, <1>11 DEF Speaks
  <2>3. PICK m : Taken(m, b, u)
    BY <2>1, <2>2, <1>2, <1>3, Takes
  <2>4. ShapeOK' /\ LogInv'
    <3>1. b.id \notin Ids(final) /\ b.id < nextId /\ AtMostOne(turn.msgs, b.id)
      BY <1>1, <1>4
    <3> QED BY <3>1, <2>3, <1>1, <1>3, <1>4, <1>6, TakenRun
  <2>5. PairInv'
    <3>1. X = CallIds(said.calls) /\ said = meant'
      OBVIOUS
    <3> HIDE DEF X, said
    <3> QED BY <3>1, <2>3, <1>1, <1>2, <1>4, <1>8, TakenPairs
  <2>6. StreamInv'
    <3>1. /\ m \in Msgs /\ m.id = b.id /\ m.role = "assistant" /\ m.blocks = Says(b)
          /\ streamed' = [i \in {b.id} |-> b.content]
          /\ turn' \in Turns /\ Len(turn'.msgs) = 1 /\ turn'.msgs[1] = m
      BY <2>3 DEF Taken
    <3>2. /\ Spoken(m) /\ m.blocks[1].kind = "text" /\ m.blocks[1].text = b.content
          /\ b.calls = <<>> => Len(m.blocks) = 1
      BY <3>1, <1>4, <1>11, SaidMessage
    <3>3. Shown(m, streamed', b)
      <4>1. Begins(b.content, b.content)
        BY <1>4, AccFields, BeginsSelf
      <4> DEFINE t == m.blocks[1].text
      <4>2. t = b.content /\ m.blocks[1].kind = "text" /\ streamed' = [i \in {b.id} |-> t] /\ t # <<>>
            /\ \A k \in DOMAIN m.blocks : k > 1 => m.blocks[k].kind = "request"
        BY <3>1, <3>2, <1>11 DEF Spoken
      <4> QED BY <3>1, <3>2, <4>1, <4>2 DEF Shown, Begins
    <3>4. turn'.msgs # <<>>
      <4> DEFINE q == turn'.msgs
      <4>1. Len(q) = 1
        BY <3>1
      <4> HIDE DEF q
      <4>2. q # <<>>
        BY <4>1
      <4> QED BY <4>2 DEF q
    <3>5. IF turn'.msgs = <<>> THEN acc'.id \notin Ids(session') /\ streamed' = <<>>
          ELSE Shown(turn'.msgs[1], streamed', acc')
      BY <3>1, <3>3, <3>4, <2>1
    <3> QED BY <2>1, <3>5, <1>9 DEF StreamInv
  <2> QED BY <2>4, <2>5, <2>6, <1>7 DEF TranscriptInv
<1> QED BY <1>2, <1>10, <1>11

\* The requests of what an accumulator says are its calls.
LEMMA RequestsOf ==
    ASSUME NEW b \in Accs, NEW T, T = {x \in ToSet(Says(b)) : x.kind = "request"}
    PROVE  Only(Says(b), T) = Asked(b.calls)
<1> DEFINE s == Says(b)
           q == Asked(b.calls)
           n == Len(b.calls)
           none == b.content = <<>>
<1>1. n \in Nat /\ DOMAIN b.calls = 1..n /\ b.content \in Seq(Nat) /\ s \in Seq(Blocks)
  BY AccFields, SaysIs
<1>2. q \in Seq(Blocks) /\ Len(q) = n /\ DOMAIN q = 1..n /\ \A i \in 1..n : q[i].kind = "request"
  BY <1>1, AskedIs
<1>3. T = {s[k] : k \in {l \in DOMAIN s : s[l].kind = "request"}}
  BY DEF ToSet
<1>4. CASE none
  <2>1. s = q
    BY <1>4 DEF Says
  <2> HIDE DEF s, q, n, none
  <2>2. \A i \in 1..n : q[i] \in T
    BY <2>1, <1>2, <1>3
  <2>3. q \in Seq(T)
    BY <2>2, <1>2
  <2> QED BY <2>1, <2>3, OnlyAll DEF s, q
<1>5. CASE ~none
  <2>1. b.content # <<>> => /\ Len(Says(b)) = Len(b.calls) + 1 /\ Says(b)[1] = TextBlock(b.content)
                            /\ \A i \in DOMAIN b.calls : Says(b)[i + 1] = Asked(b.calls)[i]
    BY SaysIs
  <2>2. Len(s) = n + 1 /\ s[1] = TextBlock(b.content) /\ \A i \in 1..n : s[i + 1] = q[i]
    BY <2>1, <1>1, <1>5
  <2> HIDE DEF s, q, n, none
  <2>3. DOMAIN s = 1..(n + 1)
    BY <2>2, <1>1
  <2>4. s[1].kind = "text"
    BY <2>2, <1>1, BlockKinds
  <2>5. s # <<>> /\ Head(s) = s[1]
    BY <2>2, <1>1
  <2>6. Head(s) \notin T
    BY <2>4, <2>5, <1>3
  <2>7. Only(Tail(s), T) = Only(s, T)
    BY <2>5, <2>6, <1>1, OnlyTail
  <2>8. Tail(s) = q
    <3> DEFINE t == Tail(s)
    <3>1. t \in Seq(Blocks) /\ Len(t) = n /\ \A i \in 1..n : t[i] = s[i + 1]
      BY <2>2, <2>5, <1>1
    <3> HIDE DEF t
    <3>2. \A i \in 1..n : t[i] = q[i]
      BY <3>1, <2>2
    <3>3. t = q
      BY <3>1, <3>2, <1>2
    <3> QED BY <3>3 DEF t
  <2>9. \A i \in 1..n : i + 1 \in DOMAIN s /\ s[i + 1].kind = "request"
    <3>1. SUFFICES ASSUME NEW i \in 1..n PROVE i + 1 \in DOMAIN s /\ s[i + 1].kind = "request"
      OBVIOUS
    <3>2. i + 1 \in 1..(n + 1)
      BY <1>1
    <3>3. s[i + 1] = q[i] /\ q[i].kind = "request"
      BY <2>2, <1>2
    <3> QED BY <3>2, <3>3, <2>3
  <2>10. \A i \in 1..n : q[i] \in T
    BY <2>2, <2>9, <1>3
  <2>11. q \in Seq(T)
    BY <2>10, <1>2
  <2>12. Only(q, T) = q
    BY <2>11, OnlyAll
  <2> QED BY <2>7, <2>8, <2>12 DEF s, q
<1> QED BY <1>4, <1>5

\* One part is its own text.
LEMMA PartsJoined ==
    ASSUME NEW parts \in Seq(Seq(Nat)), Len(parts) <= 1, NEW text,
           parts = <<>> => text = <<>>, Len(parts) = 1 => text = parts[1]
    PROVE  text = Joined(parts)
<1> DEFINE Z == Seq(Nat)
           none == parts = <<>>
<1>1. parts \in Seq(Z) /\ Len(parts) \in Nat /\ DOMAIN parts = 1..Len(parts)
  OBVIOUS
<1>2. CASE none
  BY <1>2, JoinedNone
<1>3. CASE ~none
  <2> HIDE DEF Z
  <2>1. Len(parts) # 0
    BY <1>1, <1>3
  <2>2. Len(parts) = 1
    BY <2>1, <1>1
  <2>3. \A i \in DOMAIN parts : i > 1 => parts[i] = <<>>
    BY <2>2, <1>1
  <2>4. Joined(parts) = parts[1]
    BY <2>3, <1>1, <1>3, JoinedFirst
  <2> QED BY <2>2, <2>4
<1> QED BY <1>2, <1>3

\* What StreamUnderstood says of the messages of a turn.
Understood(msgs, said) ==
    LET text == Joined([i \in DOMAIN msgs |-> TextContent(msgs[i])])
        blocks == Joined([i \in DOMAIN msgs |-> msgs[i].blocks])
        requests == Only(blocks, {b \in ToSet(blocks) : b.kind = "request"})
    IN /\ prov # "responses" \/ Len(said.parts) <= 1 => text = Joined(said.parts)
       /\ Len(requests) = Len(said.calls)
       /\ prov # "anthropic" => \A i \in DOMAIN requests : requests[i].full

\* The message of an accumulator that holds what was said says it.
LEMMA UnderstoodIs ==
    ASSUME NEW said \in Saids, NEW b \in Accs, Heard(b, said), prov # "responses" => Len(said.parts) <= 1,
           prov # "anthropic" => \A i \in DOMAIN b.calls : b.calls[i].full,
           NEW msgs \in Convs,
           \/ msgs = <<>> /\ ~Speaks(b)
           \/ Len(msgs) = 1 /\ msgs[1].role = "assistant" /\ msgs[1].blocks = Says(b)
    PROVE  Understood(msgs, said)
<1> DEFINE texts == [i \in DOMAIN msgs |-> TextContent(msgs[i])]
           lists == [i \in DOMAIN msgs |-> msgs[i].blocks]
           text == Joined(texts)
           blocks == Joined(lists)
           T == {x \in ToSet(blocks) : x.kind = "request"}
           requests == Only(blocks, T)
           none == msgs = <<>>
           Z == Seq(Nat)
           Y == Seq(Blocks)
<1>1. said.parts \in Seq(Seq(Nat)) /\ said.calls \in Seq(Calls) /\ Len(said.calls) \in Nat
  BY SaidFields
<1>2. /\ said.parts = <<>> => b.content = <<>>
      /\ Len(said.parts) = 1 => b.content = said.parts[1]
      /\ Len(b.calls) = Len(said.calls)
  BY DEF Heard
<1>3. text = b.content /\ requests = Asked(b.calls)
  <2>1. CASE none
    <3>1. b.content = <<>> /\ b.calls = <<>>
      <4>1. none => ~Speaks(b)
        <5>1. none => Len(msgs) = 0
          OBVIOUS
        <5> QED BY <5>1
      <4>2. Says(b) = <<>> <=> b.content = <<>> /\ b.calls = <<>>
        BY SaysIs
      <4> QED BY <4>1, <4>2, <2>1 DEF Speaks
    <3>2. DOMAIN msgs = {} /\ DOMAIN <<>> = {}
      <4>1. Len(msgs) = 0
        BY <2>1
      <4> QED BY <4>1, ConvFields
    <3>3. \A f : DOMAIN f = {} /\ f = [i \in DOMAIN f |-> f[i]] => f = <<>>
      OBVIOUS
    <3>4. texts = <<>> /\ lists = <<>>
      BY <3>2, <3>3
    <3>5. text = <<>> /\ blocks = <<>>
      BY <3>4, JoinedNone
    <3>6. requests = <<>>
      <4> HIDE DEF T
      <4> QED BY <3>5, OnlyEmpty
    <3>7. Asked(b.calls) = <<>>
      <4> DEFINE q == Asked(b.calls)
      <4>1. q \in Seq(Blocks) /\ Len(q) = Len(b.calls)
        BY AskedIs
      <4>2. Len(b.calls) = 0
        BY <3>1
      <4> HIDE DEF q
      <4>3. q = <<>>
        BY <4>1, <4>2
      <4> QED BY <4>3 DEF q
    <3> QED BY <3>1, <3>5, <3>6, <3>7
  <2>2. CASE ~none
    <3> DEFINE m == msgs[1]
    <3>1. Len(msgs) = 1 /\ m.role = "assistant" /\ m.blocks = Says(b)
      BY <2>2
    <3>2. DOMAIN msgs = {1} /\ m \in Msgs
      BY <3>1, ConvFields
    <3>3. TextContent(m) = b.content /\ b.content \in Z /\ m.blocks \in Y
      BY <3>1, <3>2, SaidMessage, AccFields, SaysIs
    <3> HIDE DEF m, Z, Y
    <3>4. texts = [i \in 1..1 |-> TextContent(m)] /\ lists = [i \in 1..1 |-> m.blocks]
      BY <3>2 DEF m
    <3> HIDE DEF texts, lists
    <3>5. /\ texts \in Seq(Z) /\ Len(texts) = 1 /\ DOMAIN texts = 1..1 /\ texts[1] = TextContent(m)
          /\ lists \in Seq(Y) /\ Len(lists) = 1 /\ DOMAIN lists = 1..1 /\ lists[1] = m.blocks
      BY <3>3, <3>4
    <3>6. texts # <<>> /\ lists # <<>>
      BY <3>5
    <3>7. text = TextContent(m)
      <4>1. \A i \in DOMAIN texts : i > 1 => texts[i] = <<>>
        BY <3>5
      <4>2. texts \in Seq(Seq(Nat))
        BY <3>5 DEF Z
      <4>3. Joined(texts) = texts[1]
        BY <4>1, <4>2, <3>6, JoinedFirst
      <4> QED BY <4>3, <3>5
    <3>8. blocks = m.blocks
      <4>1. \A i \in DOMAIN lists : i > 1 => lists[i] = <<>>
        BY <3>5
      <4>2. lists \in Seq(Seq(Blocks))
        BY <3>5 DEF Y
      <4>3. Joined(lists) = lists[1]
        BY <4>1, <4>2, <3>6, JoinedFirst
      <4> QED BY <4>3, <3>5
    <3>9. requests = Asked(b.calls)
      <4>1. blocks = Says(b)
        BY <3>1, <3>8
      <4> HIDE DEF blocks
      <4>2. T = {x \in ToSet(Says(b)) : x.kind = "request"}
        BY <4>1
      <4> HIDE DEF T
      <4> QED BY <4>1, <4>2, RequestsOf
    <3> QED BY <3>3, <3>7, <3>9
  <2> QED BY <2>1, <2>2
<1> HIDE DEF text, requests
<1>4. prov # "responses" \/ Len(said.parts) <= 1 => text = Joined(said.parts)
  <2>1. SUFFICES ASSUME Len(said.parts) <= 1 PROVE text = Joined(said.parts)
    OBVIOUS
  <2> DEFINE parts == said.parts
  <2>2. parts \in Seq(Seq(Nat)) /\ Len(parts) <= 1 /\ (parts = <<>> => text = <<>>) /\ (Len(parts) = 1 => text = parts[1])
    BY <2>1, <1>1, <1>2, <1>3
  <2> HIDE DEF parts
  <2>3. text = Joined(parts)
    BY <2>2, PartsJoined
  <2> QED BY <2>3 DEF parts
<1>5. Len(requests) = Len(said.calls)
  BY <1>2, <1>3, AskedIs
<1>6. prov # "anthropic" => \A i \in DOMAIN requests : requests[i].full
  BY <1>3, AskedIs
<1> QED BY <1>4, <1>5, <1>6 DEF Understood, text, requests

\* What has been shown is the beginning of what is said: a stream that has
\* shown something says something.
LEMMA ShownSpeaks ==
    ASSUME NEW a \in Accs, NEW m \in Msgs, NEW sent, Shown(m, sent, a), NEW b, Later(a, b)
    PROVE  Speaks(b)
<1> DEFINE t == m.blocks[1].text
<1>1. m.blocks[1].kind = "text" /\ t # <<>> /\ Begins(t, a.content)
  BY DEF Shown, Begins
<1>2. t \in Seq(Nat)
  BY <1>1, MessageFields, KindSays
<1>3. b \in Accs /\ Begins(a.content, b.content)
  BY DEF Later
<1>4. a.content \in Seq(Nat) /\ b.content \in Seq(Nat)
  BY <1>3, AccFields
<1> HIDE DEF t
<1>5. a.content # <<>>
  BY <1>1, <1>2, <1>4, BeginsFull
<1>6. b.content # <<>>
  BY <1>3, <1>4, <1>5, BeginsFull
<1>7. Says(b) = <<>> <=> b.content = <<>> /\ b.calls = <<>>
  BY <1>3, SaysIs
<1> QED BY <1>6, <1>7 DEF Speaks

\* The end of the stream keeps the invariant.
LEMMA EndingInv ==
    ASSUME TranscriptInv, phase = "stream", phase' = "turn_over", StreamFrame, NEW b, Ending(b)
    PROVE  TranscriptInv'
<1> DEFINE said == meant'
           X == CallIds(said.calls)
<1>1. /\ ShapeOK /\ Clean(session) /\ PairInv /\ turn \in Turns /\ session \in Convs /\ nextId \in Nat
      /\ acc \in Accs /\ acc.id < nextId /\ acc.id \notin Ids(final)
      /\ AtMostOne(turn.msgs, acc.id) /\ StreamReady
  BY StreamHas
<1>2. /\ Later(acc, b) /\ Heard(b, meant)
      /\ said \in Saids /\ said.parts = meant.parts /\ said.calls = meant.calls
      /\ prov # "anthropic" => \A i \in DOMAIN b.calls : b.calls[i].full
      /\ Take(Finish(b))
  BY DEF Ending, Gives
<1>3. PICK u \in DOMAIN session : RunAt(u)
  BY StreamHas
<1>4. b \in Accs /\ b.id = acc.id /\ Begins(acc.content, b.content)
  BY <1>2 DEF Later
<1>5. /\ prov' = prov /\ history' = history /\ final' = final /\ nextId' = nextId + 1
  BY DEF StreamFrame
<1>6. phase' \in {"stream", "turn_over"} /\ phase' # "stream"
  OBVIOUS
<1>7. StreamInv'
  BY <1>6 DEF StreamInv
<1>a. Numbered'
  <2>1. ASSUME NEW c \in Saying PROVE c < nextId + 1
    <3>1. PICK i \in DOMAIN meant.calls : c = meant.calls[i].call
      BY <2>1 DEF Saying, CallIds
    <3>2. meant \in Saids /\ meant.calls[i].call < nextId
      BY <1>1 DEF StreamReady, SpeechOK, Speech
    <3>3. meant.calls \in Seq(Calls)
      BY <3>2, SaidFields
    <3>4. meant.calls[i].call \in Nat
      BY <3>3, CallFields
    <3> QED BY <3>1, <3>2, <3>4, <1>1
  <2>2. Saying' = Saying
    BY <1>2 DEF Saying
  <2> QED BY <2>1, <2>2, <1>5 DEF Numbered
<1>8. Heard(b, said) /\ (prov # "responses" => Len(said.parts) <= 1)
  <2>1. prov # "responses" => Len(meant.parts) <= 1
    BY <1>1 DEF StreamReady, SpeechOK, Speech
  <2> QED BY <1>2, <2>1 DEF Heard
<1>9. X = Saying
  BY <1>2 DEF Saying
<1>10. ASSUME turn'.msgs \in Convs, Understood(turn'.msgs, said) PROVE StreamUnderstood'
  BY <1>5, <1>10 DEF StreamUnderstood, Understood
<1>11. CASE Speaks(b)
  <2>1. PICK m : Taken(m, b, u)
    BY <1>2, <1>3, <1>11, Takes
  <2>2. ShapeOK' /\ LogInv'
    <3>1. b.id \notin Ids(final) /\ b.id < nextId /\ AtMostOne(turn.msgs, b.id)
      BY <1>1, <1>4
    <3> QED BY <3>1, <2>1, <1>1, <1>3, <1>4, <1>6, TakenRun
  <2>3. PairInv'
    <3>1. X = CallIds(said.calls) /\ said = meant' /\ Saying \subseteq X /\ X \subseteq Saying \cup {nextId}
      BY <1>9
    <3> HIDE DEF X, said
    <3> QED BY <3>1, <2>1, <1>1, <1>2, <1>4, <1>8, TakenPairs
  <2>4. StreamUnderstood'
    <3> DEFINE q == turn'.msgs
    <3>1. q \in Convs /\ Len(q) = 1 /\ q[1].role = "assistant" /\ q[1].blocks = Says(b)
      BY <2>1, TurnFields DEF Taken
    <3> HIDE DEF q, said
    <3>2. Understood(q, said)
      BY <3>1, <1>2, <1>4, <1>8, UnderstoodIs
    <3> QED BY <3>1, <3>2, <1>10 DEF q
  <2> QED BY <2>2, <2>3, <2>4, <1>7, <1>a DEF TranscriptInv
<1>12. CASE ~Speaks(b)
  <2>1. Finish(b) = <<>>
    BY <1>4, <1>12, FinishIs DEF Speaks
  <2>2. session' = session /\ streamed' = streamed /\ turn' = turn
    <3> DEFINE e == Finish(b)
    <3>1. e = <<>> /\ Take(e)
      BY <2>1, <1>2
    <3> HIDE DEF e
    <3> QED BY <3>1, TakeNothing
  <2>3. turn.msgs = <<>>
    <3>1. SUFFICES ASSUME turn.msgs # <<>> PROVE FALSE
      OBVIOUS
    <3> DEFINE q == turn.msgs
    <3>2. Shown(q[1], streamed, acc)
      BY <3>1, StreamHas
    <3>3. q \in Convs /\ Len(q) \in Nat
      BY <1>1, TurnFields, ConvFields
    <3>4. q # <<>>
      BY <3>1
    <3> HIDE DEF q
    <3>5. 1 \in DOMAIN q
      BY <3>3, <3>4 DEF Convs
    <3>6. q[1] \in Msgs
      BY <3>3, <3>5, ConvFields
    <3> QED BY <3>2, <3>6, <1>1, <1>2, <1>12, ShownSpeaks
  <2>4. ShapeOK' /\ LogInv'
    BY <2>2, <1>1, <1>3, <1>6, QuietRun
  <2>5. PairInv'
    <3>1. \A c \in Answered : prov = "responses" => c < nextId + 1
      <4>1. SUFFICES ASSUME NEW c \in Answered, prov = "responses" PROVE c < nextId + 1
        OBVIOUS
      <4>2. c < nextId
        BY <4>1, <1>1 DEF PairInv
      <4>3. c \in Nat
        <5>1. c \in CallsOf(session, "response") \/ c \in CallsOf(history, "response") \/ c \in CallsOf(final, "response")
          BY <4>1 DEF Answered
        <5> QED BY <5>1, <1>1, CallsNat DEF ShapeOK
      <4> QED BY <4>2, <4>3, <1>1
    <3>2. Answered' = Answered /\ Saying' = X /\ CallsOf(turn.msgs, "request")' = CallsOf(turn.msgs, "request")
      BY <2>2, <1>5 DEF Answered, Saying
    <3> HIDE DEF X, said
    <3>3. prov = "responses" =>
            Answered \cap X = {} /\ CallsOf(turn.msgs, "request") \subseteq X
      <4>1. prov = "responses" => Answered \cap Saying = {} /\ CallsOf(turn.msgs, "request") \subseteq Saying
        BY <1>1 DEF PairInv
      <4> QED BY <4>1, <1>9
    <3>4. prov = "responses" => PairOrder(session) /\ PairOrder(history)
      BY <1>1 DEF PairInv
    <3> QED BY <2>2, <3>1, <3>2, <3>3, <3>4, <1>5 DEF PairInv
  <2>6. StreamUnderstood'
    <3> DEFINE q == turn'.msgs
    <3>1. q \in Convs
      BY <2>2, <1>1, TurnFields
    <3>2. q = <<>>
      BY <2>2, <2>3
    <3> HIDE DEF q, said
    <3>3. Understood(q, said)
      BY <3>1, <3>2, <1>2, <1>4, <1>8, <1>12, UnderstoodIs
    <3> QED BY <3>1, <3>3, <1>10 DEF q
  <2> QED BY <2>4, <2>5, <2>6, <1>7, <1>a DEF TranscriptInv
<1> QED BY <1>11, <1>12

\* Every line of a stream keeps the invariant.
LEMMA LineFrame ==
    ASSUME NEW line, ReadLine(line)
    PROVE  StreamFrame /\ phase = "stream"
BY DEF ReadLine, StreamFrame

\* Every line of a stream keeps the invariant.
LEMMA LineInv ==
    ASSUME TranscriptInv,
           SayText \/ EndText \/ EndMessageItem \/ StartCall \/ SayArguments \/ EndCall \/ Stop
    PROVE  TranscriptInv'
<1>1. CASE SayText
  <2>1. StreamFrame /\ phase = "stream" /\ phase' = "stream"
    BY <1>1, LineFrame DEF SayText
  <2>2. \E b : Going(b)
    BY <1>1, <2>1, StreamHas, SayTextGoes
  <2> QED BY <2>1, <2>2, GoingInv
<1>2. CASE EndText
  <2>1. StreamFrame /\ phase = "stream" /\ phase' = "stream"
    BY <1>2, LineFrame DEF EndText
  <2>2. \E b : Going(b)
    BY <1>2, <2>1, StreamHas, EndTextGoes
  <2> QED BY <2>1, <2>2, GoingInv
<1>3. CASE EndMessageItem
  <2>1. StreamFrame /\ phase = "stream" /\ phase' = "stream"
    BY <1>3, LineFrame DEF EndMessageItem
  <2>2. \E b : Going(b)
    BY <1>3, <2>1, StreamHas, EndMessageItemGoes
  <2> QED BY <2>1, <2>2, GoingInv
<1>4. CASE StartCall
  <2>1. StreamFrame /\ phase = "stream" /\ phase' = "stream"
    BY <1>4, LineFrame DEF StartCall
  <2>2. \E b : Going(b)
    BY <1>4, <2>1, StreamHas, StartCallGoes
  <2> QED BY <2>1, <2>2, GoingInv
<1>5. CASE SayArguments
  <2>1. StreamFrame /\ phase = "stream" /\ phase' = "stream"
    BY <1>5, LineFrame DEF SayArguments
  <2>2. \E b : Going(b)
    BY <1>5, <2>1, StreamHas, SayArgumentsGoes
  <2> QED BY <2>1, <2>2, GoingInv
<1>6. CASE EndCall
  <2>1. StreamFrame /\ phase = "stream" /\ phase' = "stream"
    BY <1>6, LineFrame DEF EndCall
  <2>2. \E b : Going(b)
    BY <1>6, <2>1, StreamHas, EndCallGoes
  <2> QED BY <2>1, <2>2, GoingInv
<1>7. CASE Stop
  <2>1. StreamFrame /\ phase = "stream" /\ phase' = "turn_over"
    BY <1>7, LineFrame DEF Stop
  <2>2. \E b : Ending(b)
    BY <1>7, <2>1, StreamHas, StopEnds
  <2> QED BY <2>1, <2>2, EndingInv
<1> QED BY <1>1, <1>2, <1>3, <1>4, <1>5, <1>6, <1>7

-----------------------------------------------------------------------------
(* The other steps of a run                                                *)

\* Nothing is in the empty conversation.
LEMMA EmptyConv ==
    ASSUME NEW e, e = <<>>
    PROVE  /\ e \in Convs /\ Len(e) = 0 /\ DOMAIN e = {} /\ Ids(e) = {} /\ Unique(e) /\ Clean(e)
           /\ PairOrder(e) /\ \A n : Below(e, n)
           /\ \A kind : CallsOf(e, kind) = {}
<1>1. e \in Convs /\ Len(e) = 0 /\ DOMAIN e = {}
  BY DEF Convs
<1>2. \A kind : CallsOf(e, kind) = {}
  BY <1>1, CallsOfIs
<1> QED BY <1>1, <1>2 DEF Ids, Unique, Clean, PairOrder, Below

\* A request that is answered opens a stream with nothing in it.
LEMMA PostInv ==
    ASSUME TranscriptInv, Post
    PROVE  TranscriptInv'
<1> DEFINE e == <<>>
           none == "none"
           said == meant'
           a == acc'
<1>1. /\ phase = "request" /\ phase' = "stream"
      /\ a = NewAcc(nextId) /\ nextId' = nextId + 1
      /\ said = [parts |-> e, calls |-> e, open |-> none]
      /\ streamed' = e
      /\ turn' = [turn EXCEPT !.msgs = e, !.tools = FALSE]
      /\ faults' = (IF faults = 0 THEN 0 ELSE MaxFaults)
      /\ prov' = prov /\ stored' = stored /\ session' = session /\ history' = history /\ final' = final
      /\ retries' = retries /\ partials' = partials /\ outcome' = outcome /\ replies' = replies
  BY DEF Post
<1>2. /\ nextId \in Nat /\ turn \in Turns
      /\ stored \in Convs /\ session \in Convs /\ history \in Convs /\ final \in Convs
      /\ Below(stored, nextId) /\ Below(session, nextId) /\ Below(history, nextId) /\ Below(final, nextId)
  BY DEF TranscriptInv, ShapeOK
<1>3. PICK u \in DOMAIN session : RunAt(u)
  <2>1. (phase = "idle") = FALSE
    BY <1>1
  <2> QED BY <2>1 DEF TranscriptInv, LogInv
<1>4. /\ Clean(session)
      /\ prov = "responses" =>
           PairOrder(session) /\ PairOrder(history) /\ \A c \in Answered : c < nextId
  BY DEF TranscriptInv, LogInv, PairInv
<1>5. /\ e = <<>> /\ e \in Convs /\ Len(e) = 0 /\ DOMAIN e = {} /\ Ids(e) = {}
      /\ \A kind : CallsOf(e, kind) = {}
  BY EmptyConv
<1>6. /\ phase' \in {"idle", "request", "stream", "turn_over"} /\ (phase' = "idle") = FALSE
      /\ (phase' = "request") = FALSE /\ (phase' = "turn_over") = FALSE /\ (phase' = "stream") = TRUE
  BY <1>1
<1>7. turn' \in Turns /\ turn'.msgs = e
  <2>1. TurnIs([turn EXCEPT !.msgs = e, !.tools = FALSE], turn.n, e)
    <3> HIDE DEF e
    <3> QED BY <1>2, <1>5, TurnWith
  <2> QED BY <2>1, <1>1 DEF TurnIs
<1>8. ShapeOK'
  <2>1. /\ Below(stored, nextId + 1) /\ Below(session, nextId + 1)
        /\ Below(history, nextId + 1) /\ Below(final, nextId + 1)
    BY <1>2, BelowMore
  <2>2. faults' \in Nat
    BY <1>1, TranscriptAssumption DEF TranscriptInv, ShapeOK
  <2>3. nextId + 1 \in Nat
    BY <1>2
  <2> HIDE DEF e
  <2> QED BY <2>1, <2>2, <2>3, <1>1, <1>2, <1>6, <1>7 DEF TranscriptInv, ShapeOK
<1>9. a \in Accs /\ a.id = nextId /\ a.content = <<>> /\ a.calls = <<>>
  BY <1>1, <1>2, NewAccIs
<1>10. said \in Saids /\ said.parts = <<>> /\ said.calls = <<>> /\ said.open = none
  <2>1. said.parts = <<>> /\ said.calls = <<>> /\ said.open = none
    BY <1>1
  <2>2. said \in Saids
    <3>1. e \in Seq(Seq(Nat)) /\ e \in Seq(Calls) /\ none \in Opens
      BY DEF Opens
    <3> DEFINE Z == Seq(Seq(Nat))
               Y == Seq(Calls)
    <3> HIDE DEF Z, Y, e, none
    <3> QED BY <3>1, <1>1 DEF Saids, Z, Y
  <2> QED BY <2>1, <2>2
<1> HIDE DEF a, said, e
<1>a. said.parts = e /\ said.calls = e /\ a.content = e /\ a.calls = e
  BY <1>9, <1>10 DEF e
<1>11. RunAt(u)'
  <2>1. Answers(session, u, partials \cup Ids(final) \cup Ids(turn.msgs)) /\ Settled(session, u, final)
        /\ Ids(turn.msgs) \subseteq partials
    BY <1>1, <1>3 DEF RunAt
  <2>2. partials \cup Ids(final) \cup Ids(turn.msgs) = partials \cup Ids(final) \cup Ids(e)
    BY <2>1, <1>5
  <2>3. Answers(session, u, partials \cup Ids(final) \cup Ids(e))
    BY <2>1, <2>2
  <2>4. (Answers(session, u, partials \cup Ids(final) \cup Ids(turn.msgs)) /\ Settled(session, u, final))'
    BY <2>1, <2>3, <1>1, <1>7
  <2>5. turn'.msgs = <<>>
    BY <1>7 DEF e
  <2> QED BY <2>4, <2>5, <1>6 DEF RunAt
<1>12. LogInv'
  <2>1. FinishedRunStored'
    BY <1>6 DEF FinishedRunStored
  <2>2. \E w \in DOMAIN session' : RunAt(w)'
    BY <1>1, <1>3, <1>11
  <2>3. Clean(session')
    BY <1>1, <1>4
  <2> QED BY <2>1, <2>2, <2>3, <1>6 DEF LogInv
<1>13. StreamInv'
  <2>1. a.id < nextId' /\ nextId \notin Ids(final) /\ nextId \notin Ids(session)
    <3>1. \A i \in DOMAIN final : final[i].id < nextId
      BY <1>2 DEF Below
    <3>2. \A i \in DOMAIN session : session[i].id < nextId
      BY <1>2 DEF Below
    <3> QED BY <3>1, <3>2, <1>1, <1>2, <1>9 DEF Ids
  <2>2. Speech(said, nextId + 1)
    <3>1. /\ DOMAIN said.parts = {} /\ Len(said.parts) = 0 /\ DOMAIN said.calls = {}
          /\ said.open # "text" /\ said.open # "call"
      BY <1>5, <1>10, <1>a
    <3> QED BY <3>1, <1>10 DEF Speech
  <2>3. SpeechOK'
    BY <2>2, <1>1 DEF SpeechOK, Speech, said
  <2>4. Heard(a, said)
    <3>1. /\ a.content = <<>> /\ Len(said.parts) # 1 /\ DOMAIN a.calls = {} /\ Len(a.calls) = Len(said.calls)
      BY <1>5, <1>9, <1>a
    <3> QED BY <3>1 DEF Heard
  <2>5. Heard(acc, meant)'
    BY <2>4, <1>1 DEF Heard, a, said
  <2>6. turn'.msgs = <<>> /\ streamed' = <<>>
    BY <1>1, <1>7 DEF e
  <2>7. /\ acc' \in Accs /\ acc'.id < nextId' /\ acc'.id \notin Ids(final')
        /\ meant'.open # "stopped" /\ acc'.id \notin Ids(session')
    BY <2>1, <1>1, <1>9, <1>10 DEF a, said
  <2> QED BY <2>3, <2>5, <2>6, <2>7 DEF StreamInv
<1>14. PairInv'
  <2>1. Saying' = {}
    <3>1. CallIds(said.calls) = {}
      BY <1>5, <1>a DEF CallIds
    <3> QED BY <3>1 DEF Saying, said
  <2>2. Answered' = Answered
    BY <1>1 DEF Answered
  <2>3. CallsOf(turn'.msgs, "request") = {}
    BY <1>5, <1>7
  <2>4. ASSUME prov = "responses" PROVE \A c \in Answered : c < nextId + 1
    <3>1. SUFFICES ASSUME NEW c \in Answered PROVE c < nextId + 1
      OBVIOUS
    <3>2. c < nextId
      BY <2>4, <1>4
    <3>3. c \in Nat
      <4>1. c \in CallsOf(session, "response") \/ c \in CallsOf(history, "response") \/ c \in CallsOf(final, "response")
        BY DEF Answered
      <4> QED BY <4>1, <1>2, CallsNat
    <3> QED BY <3>2, <3>3, <1>2
  <2> QED BY <2>1, <2>2, <2>3, <2>4, <1>1, <1>4 DEF PairInv
<1>15. Numbered' /\ StreamUnderstood'
  BY <1>6 DEF Numbered, StreamUnderstood
<1> QED BY <1>8, <1>12, <1>13, <1>14, <1>15 DEF TranscriptInv

\* What a step leaves alone when a request or a stream fails.
FailFrame ==
    /\ prov' = prov /\ session' = session /\ history' = history /\ final' = final /\ acc' = acc
    /\ meant' = meant /\ streamed' = streamed /\ turn' = turn /\ replies' = replies /\ nextId' = nextId
    /\ faults' = faults + 1

\* A run that is tried again keeps its log.
LEMMA AgainRun ==
    ASSUME NEW u \in DOMAIN session, RunAt(u), FailFrame, phase' = "request",
           partials \subseteq partials', Ids(turn.msgs) \subseteq partials'
    PROVE  RunAt(u)'
<1>1. Answers(session, u, partials \cup Ids(final) \cup Ids(turn.msgs)) /\ Settled(session, u, final)
  BY DEF RunAt
<1>2. Answers(session, u, partials' \cup Ids(final) \cup Ids(turn.msgs))
  BY <1>1 DEF Answers
<1>3. (Answers(session, u, partials \cup Ids(final) \cup Ids(turn.msgs)) /\ Settled(session, u, final))'
  BY <1>1, <1>2 DEF FailFrame
<1>4. (phase' \in {"stream", "turn_over"}) = FALSE
  OBVIOUS
<1>5. (Ids(turn.msgs) \subseteq partials)'
  BY DEF FailFrame
<1> QED BY <1>3, <1>4, <1>5 DEF RunAt

\* A failure keeps the invariant, whether the request, the turn or nothing is retried.
LEMMA FailInv ==
    ASSUME TranscriptInv, phase \in {"request", "stream"}, FailFrame,
           \/ /\ phase' = "request" /\ stored' = stored /\ outcome' = outcome
              /\ partials' = partials \cup Ids(turn.msgs)
              /\ retries' \in [http : 0..MaxRetries, turn : 0..MaxRetries]
           \/ /\ phase' = "request" /\ phase = "request" /\ stored' = stored /\ outcome' = outcome
              /\ partials' = partials
              /\ retries' \in [http : 0..MaxRetries, turn : 0..MaxRetries]
           \/ EndWithError
    PROVE  TranscriptInv'
<1>1. /\ prov' = prov /\ session' = session /\ history' = history /\ final' = final
      /\ turn' = turn /\ replies' = replies /\ nextId' = nextId
      /\ faults' = faults + 1
  BY DEF FailFrame
<1>2. /\ nextId \in Nat /\ turn \in Turns /\ faults \in Nat /\ partials \subseteq Nat
      /\ stored \in Convs /\ session \in Convs
      /\ Below(stored, nextId) /\ Below(session, nextId)
      /\ outcome \in {"none", "finish", "error"}
      /\ retries \in [http : 0..MaxRetries, turn : 0..MaxRetries]
  BY DEF TranscriptInv, ShapeOK
<1>3. PICK u \in DOMAIN session : RunAt(u)
  <2>1. (phase = "idle") = FALSE
    OBVIOUS
  <2> QED BY <2>1 DEF TranscriptInv, LogInv
<1>4. Clean(session) /\ Clean(session')
  BY <1>1 DEF TranscriptInv, LogInv
<1>5. Ids(turn.msgs) \subseteq Nat
  <2>1. turn.msgs \in Convs
    BY <1>2, TurnFields
  <2> QED BY <2>1, ConvFields, MessageFields DEF Ids
<1>6. PairInv' /\ StreamInv' /\ Numbered' /\ StreamUnderstood'
  <2>1. phase' \notin {"stream", "turn_over"}
    BY DEF EndWithError
  <2>2. (phase' = "stream") = FALSE /\ (phase' = "turn_over") = FALSE /\ (phase' \in {"stream", "turn_over"}) = FALSE
    BY <2>1
  <2>3. Answered' = Answered
    BY <1>1 DEF Answered
  <2>4. PairInv'
    BY <1>1, <2>2, <2>3 DEF TranscriptInv, PairInv
  <2> QED BY <2>2, <2>4 DEF StreamInv, Numbered, StreamUnderstood
<1>7. CASE /\ phase' = "request" /\ stored' = stored /\ outcome' = outcome
           /\ partials' \in {partials, partials \cup Ids(turn.msgs)}
           /\ Ids(turn.msgs) \subseteq partials'
           /\ retries' \in [http : 0..MaxRetries, turn : 0..MaxRetries]
  <2>1. partials' \subseteq Nat /\ partials \subseteq partials'
    BY <1>2, <1>5, <1>7
  <2>2. ShapeOK'
    <3>1. faults' \in Nat
      BY <1>1, <1>2
    <3> QED BY <2>1, <3>1, <1>1, <1>2, <1>7 DEF TranscriptInv, ShapeOK
  <2>3. RunAt(u)'
    BY <2>1, <1>3, <1>7, AgainRun
  <2>4. (phase' = "idle") = FALSE
    BY <1>7
  <2>5. FinishedRunStored'
    BY <2>4 DEF FinishedRunStored
  <2>6. LogInv'
    <3>1. \E w \in DOMAIN session' : RunAt(w)'
      BY <1>1, <1>3, <2>3
    <3> QED BY <2>4, <2>5, <3>1, <1>4 DEF LogInv
  <2> QED BY <2>2, <2>6, <1>6 DEF TranscriptInv
<1>8. CASE EndWithError
  <2>1. stored' = session /\ outcome' = "error" /\ phase' = "idle" /\ retries' = retries /\ partials' = partials
    BY <1>8 DEF EndWithError
  <2>2. ShapeOK'
    <3>1. faults' \in Nat
      BY <1>1, <1>2
    <3> QED BY <2>1, <3>1, <1>1, <1>2 DEF TranscriptInv, ShapeOK
  <2>3. FinishedRunStored'
    BY <2>1 DEF FinishedRunStored
  <2>4. StoredOK'
    BY <2>1, <1>1 DEF StoredOK
  <2>5. LogInv'
    BY <2>1, <2>3, <2>4, <1>4 DEF LogInv
  <2> QED BY <2>2, <2>5, <1>6 DEF TranscriptInv
<1>9. phase = "request" => Ids(turn.msgs) \subseteq partials
  BY <1>3 DEF RunAt
<1> QED BY <1>7, <1>8, <1>9

\* A request that fails, and a stream that breaks.
LEMMA FailsInv ==
    ASSUME TranscriptInv, PostFails \/ StreamBreaks
    PROVE  TranscriptInv'
<1> DEFINE R == [http : 0..MaxRetries, turn : 0..MaxRetries]
           h == retries.http + 1
           t == retries.turn + 1
<1>1. retries \in R /\ MaxRetries \in Nat
  BY TranscriptAssumption DEF TranscriptInv, ShapeOK
<1>2. FailFrame /\ phase \in {"request", "stream"}
  BY DEF PostFails, StreamBreaks, FailFrame
<1>3. {m.id : m \in ToSet(turn.msgs)} = Ids(turn.msgs)
  BY DEF ToSet, Ids
<1>4. CASE phase = "request" /\ retries.http < MaxRetries /\ retries' = [retries EXCEPT !.http = @ + 1]
           /\ stored' = stored /\ phase' = phase /\ partials' = partials /\ outcome' = outcome
  <2>1. retries' \in R
    BY <1>1, <1>4
  <2>2. phase' = "request"
    BY <1>4
  <2> QED BY <2>1, <2>2, <1>2, <1>4, FailInv
<1>5. CASE retries.turn < MaxRetries /\ retries' = [http |-> 0, turn |-> retries.turn + 1]
           /\ partials' = partials \union {m.id : m \in ToSet(turn.msgs)}
           /\ phase' = "request" /\ stored' = stored /\ outcome' = outcome
  <2>1. retries' \in R
    BY <1>1, <1>5
  <2>2. partials' = partials \cup Ids(turn.msgs)
    BY <1>3, <1>5
  <2> QED BY <2>1, <2>2, <1>2, <1>5, FailInv
<1>6. CASE EndWithError
  BY <1>2, <1>6, FailInv
<1>7. TurnFails \/ (phase = "request" /\ retries.http < MaxRetries /\ retries' = [retries EXCEPT !.http = @ + 1]
           /\ stored' = stored /\ phase' = phase /\ partials' = partials /\ outcome' = outcome)
  BY DEF PostFails, StreamBreaks
<1> QED BY <1>4, <1>5, <1>6, <1>7 DEF TurnFails

-----------------------------------------------------------------------------
(* The end of a run                                                        *)

\* The last message of a user is the one after which there is none.
LEMMA UserIdIs ==
    ASSUME NEW conv \in Convs, NEW u \in DOMAIN conv, conv[u].role = "user",
           \A i \in DOMAIN conv : i > u => conv[i].role # "user"
    PROVE  UserId(conv) = conv[u].id
<1> DEFINE P(i) == conv[i].role = "user" /\ \A j \in DOMAIN conv : conv[j].role = "user" => j <= i
<1>1. \A i \in DOMAIN conv : i \in Nat
  BY ConvFields
<1>2. P(u)
  BY <1>1
<1>3. \A i \in DOMAIN conv : P(i) => i = u
  BY <1>1
<1>4. UserId(conv) = conv[CHOOSE i \in DOMAIN conv : P(i)].id
  BY DEF UserId
<1> HIDE DEF P
<1>5. (CHOOSE i \in DOMAIN conv : P(i)) = u
  BY <1>2, <1>3
<1> QED BY <1>4, <1>5

\* What a conversation that has grown has.
LEMMA GrownHas ==
    ASSUME NEW conv \in Convs, NEW r, NEW msgs, Grown(r, conv, msgs)
    PROVE  /\ r \in Convs /\ Unique(r) /\ Len(conv) \in Nat /\ Len(r) \in Nat
           /\ DOMAIN conv = 1..Len(conv) /\ DOMAIN r = 1..Len(r) /\ Len(conv) <= Len(r)
           /\ \A i \in DOMAIN conv : i \in DOMAIN r /\ r[i] = conv[i]
           /\ \A i \in DOMAIN r : i \notin DOMAIN conv =>
                i > Len(conv) /\ \E k \in DOMAIN msgs : r[i] = msgs[k] /\ ToolAnswer(msgs[k])
           /\ \A k \in DOMAIN msgs : \E i \in DOMAIN r : r[i] = msgs[k]
<1>1. /\ r \in Convs /\ Unique(r) /\ Len(conv) <= Len(r)
      /\ \A i \in DOMAIN conv : r[i] = conv[i]
      /\ \A i \in DOMAIN r : i > Len(conv) => \E k \in DOMAIN msgs : r[i] = msgs[k] /\ ToolAnswer(msgs[k])
      /\ \A k \in DOMAIN msgs : \E i \in DOMAIN r : r[i] = msgs[k]
  BY DEF Grown
<1>2. Len(conv) \in Nat /\ Len(r) \in Nat /\ DOMAIN conv = 1..Len(conv) /\ DOMAIN r = 1..Len(r)
  BY <1>1, ConvFields
<1>3. \A i \in DOMAIN conv : i \in DOMAIN r
  BY <1>1, <1>2
<1>4. \A i \in DOMAIN r : i \notin DOMAIN conv => i > Len(conv)
  BY <1>2
<1> QED BY <1>1, <1>2, <1>3, <1>4

\* A message of a tool is not a placeholder, and not of a user or a model.
LEMMA ToolFields ==
    ASSUME NEW m \in Msgs, ToolAnswer(m)
    PROVE  m.role = "tool" /\ m.role # "user" /\ m.role # "assistant" /\ m.blocks[1].kind # "no_reply"
BY MessageFields DEF ToolAnswer

\* Every message after u is one of msgs, or of an attempt that failed.
AllFinal(r, conv, u, msgs, lost) ==
    /\ \A k \in DOMAIN msgs : \E i \in DOMAIN r : i > u /\ r[i] = msgs[k]
    /\ \A i \in DOMAIN r : i > u => r[i].id \in lost \/ \E k \in DOMAIN msgs : r[i] = msgs[k]
    /\ \A i \in DOMAIN r : i \in DOMAIN conv \/ r[i].blocks[1].kind # "no_reply"
    /\ \A i \in DOMAIN r : i > u => r[i].role # "user"
    /\ (\A i \in DOMAIN r : i > u => r[i].role # "assistant") => r = conv /\ u = Len(conv) /\ msgs = <<>>

\* The final messages are after the user's message in what is merged.
LEMMA FinalStored ==
    ASSUME NEW conv \in Convs, Unique(conv), NEW u \in DOMAIN conv, NEW msgs \in Convs, NEW lost,
           Answers(conv, u, lost \cup Ids(msgs)), Settled(conv, u, msgs), NEW r, Grown(r, conv, msgs)
    PROVE  AllFinal(r, conv, u, msgs, lost)
<1>1. /\ r \in Convs /\ Unique(r) /\ Len(conv) \in Nat /\ Len(r) \in Nat
      /\ DOMAIN conv = 1..Len(conv) /\ DOMAIN r = 1..Len(r) /\ Len(conv) <= Len(r)
      /\ \A i \in DOMAIN conv : i \in DOMAIN r /\ r[i] = conv[i]
      /\ \A i \in DOMAIN r : i \notin DOMAIN conv =>
           i > Len(conv) /\ \E k \in DOMAIN msgs : r[i] = msgs[k] /\ ToolAnswer(msgs[k])
      /\ \A k \in DOMAIN msgs : \E i \in DOMAIN r : r[i] = msgs[k]
  BY GrownHas
<1>2. /\ conv[u].role = "user"
      /\ \A i \in DOMAIN conv : i > u => conv[i].role = "assistant" /\ conv[i].id \in lost \cup Ids(msgs)
  BY DEF Answers
<1>3. /\ msgs # <<>> => msgs[1].role = "assistant"
      /\ \A k \in DOMAIN msgs :
            \/ msgs[k].role = "assistant" /\ \E i \in DOMAIN conv : i > u /\ conv[i] = msgs[k]
            \/ ToolAnswer(msgs[k]) /\ msgs[k].id \notin Ids(conv)
  BY DEF Settled
<1>4. \A k \in DOMAIN msgs : msgs[k] \in Msgs
  BY ConvFields
<1>5. ASSUME NEW k \in DOMAIN msgs PROVE \E i \in DOMAIN r : i > u /\ r[i] = msgs[k]
  <2>1. CASE \E i \in DOMAIN conv : i > u /\ conv[i] = msgs[k]
    BY <2>1, <1>1
  <2>2. CASE msgs[k].id \notin Ids(conv)
    <3>1. PICK i \in DOMAIN r : r[i] = msgs[k]
      BY <1>1
    <3>2. i \notin DOMAIN conv
      BY <3>1, <2>2, <1>1 DEF Ids
    <3>3. i > Len(conv) /\ u <= Len(conv) /\ i \in Nat /\ u \in Nat
      BY <3>1, <3>2, <1>1
    <3>4. i > u
      BY <3>3, <1>1
    <3> QED BY <3>1, <3>4
  <2> QED BY <2>1, <2>2, <1>3
<1>6. ASSUME NEW i \in DOMAIN r, i > u
      PROVE  r[i].id \in lost \/ \E k \in DOMAIN msgs : r[i] = msgs[k]
  <2>1. CASE i \in DOMAIN conv
    <3>1. r[i] = conv[i] /\ conv[i].id \in lost \cup Ids(msgs)
      BY <2>1, <1>1, <1>2, <1>6
    <3>2. ASSUME conv[i].id \in Ids(msgs) PROVE \E k \in DOMAIN msgs : r[i] = msgs[k]
      <4>1. PICK k \in DOMAIN msgs : msgs[k].id = conv[i].id
        BY <3>2 DEF Ids
      <4>2. msgs[k].id \in Ids(conv)
        BY <2>1, <4>1 DEF Ids
      <4>3. PICK j \in DOMAIN conv : conv[j] = msgs[k]
        BY <4>2, <1>3
      <4>4. j = i
        BY <2>1, <4>1, <4>3 DEF Unique
      <4> QED BY <3>1, <4>3, <4>4
    <3> QED BY <3>1, <3>2
  <2>2. CASE i \notin DOMAIN conv
    BY <2>2, <1>1
  <2> QED BY <2>1, <2>2
<1>7. ASSUME NEW i \in DOMAIN r, i > u PROVE r[i].role # "user"
  <2>1. CASE i \in DOMAIN conv
    <3>1. r[i].role = "assistant"
      BY <2>1, <1>1, <1>2, <1>7
    <3> QED BY <3>1
  <2>2. CASE i \notin DOMAIN conv
    <3>1. PICK k \in DOMAIN msgs : r[i] = msgs[k] /\ ToolAnswer(msgs[k])
      BY <2>2, <1>1
    <3> QED BY <3>1, <1>4, ToolFields
  <2> QED BY <2>1, <2>2
<1>a. ASSUME NEW i \in DOMAIN r, i \notin DOMAIN conv PROVE r[i].blocks[1].kind # "no_reply"
  <2>1. PICK k \in DOMAIN msgs : r[i] = msgs[k] /\ ToolAnswer(msgs[k])
    BY <1>a, <1>1
  <2> QED BY <2>1, <1>4, ToolFields
<1>8. ASSUME \A i \in DOMAIN r : i > u => r[i].role # "assistant"
      PROVE  r = conv /\ u = Len(conv) /\ msgs = <<>>
  <2>1. \A i \in DOMAIN conv : ~(i > u)
    BY <1>1, <1>2, <1>8
  <2>2. u = Len(conv)
    <3>1. u \in 1..Len(conv) /\ Len(conv) \in DOMAIN conv
      BY <1>1
    <3> QED BY <2>1, <3>1
  <2>3. msgs = <<>>
    <3>1. SUFFICES ASSUME msgs # <<>> PROVE FALSE
      OBVIOUS
    <3>2. 1 \in DOMAIN msgs
      BY <3>1 DEF Convs
    <3>3. msgs[1].role = "assistant"
      BY <3>1, <1>3
    <3>4. PICK i \in DOMAIN r : i > u /\ r[i] = msgs[1]
      BY <3>2, <1>5
    <3> QED BY <3>3, <3>4, <1>8
  <2>4. Len(r) = Len(conv)
    <3>1. SUFFICES ASSUME Len(r) # Len(conv) PROVE FALSE
      OBVIOUS
    <3>a. u \in 1..Len(conv)
      BY <1>1
    <3>b. Len(r) \in 1..Len(r) /\ Len(r) \notin 1..Len(conv)
      <4> DEFINE n == Len(r)
                 k == Len(conv)
      <4>1. n \in Nat /\ k \in Nat /\ k <= n /\ n # k /\ u \in 1..k
        BY <3>1, <3>a, <1>1
      <4> HIDE DEF n, k
      <4>2. n \in 1..n /\ n \notin 1..k
        BY <4>1
      <4> QED BY <4>2 DEF n, k
    <3>2. Len(r) \in DOMAIN r /\ Len(r) \notin DOMAIN conv
      BY <3>b, <1>1
    <3>3. PICK k \in DOMAIN msgs : r[Len(r)] = msgs[k]
      BY <3>2, <1>1
    <3>4. DOMAIN msgs = {}
      BY <2>3, EmptyConv
    <3> QED BY <3>3, <3>4
  <2>5. r = conv
    <3> DEFINE n == Len(conv)
    <3>1. Len(r) = n /\ Len(conv) = n /\ \A i \in 1..n : r[i] = conv[i]
      BY <2>4, <1>1
    <3>2. r \in Seq(Msgs) /\ conv \in Seq(Msgs)
      BY <1>1 DEF Convs
    <3> HIDE DEF n
    <3> QED BY <3>1, <3>2
  <2> QED BY <2>2, <2>3, <2>5
<1> QED BY <1>5, <1>6, <1>7, <1>a, <1>8 DEF AllFinal

\* The mark of a run without an answer.
LEMMA PlaceholderIs ==
    ASSUME NEW id \in Nat
    PROVE  /\ Placeholder(id) \in Msgs /\ Placeholder(id).id = id /\ Placeholder(id).role = "assistant"
           /\ Placeholder(id).blocks[1].kind = "no_reply"
           /\ Placeholder(id).role # "user"
<1> DEFINE k == [kind |-> "no_reply"]
           s == <<k>>
           role == "assistant"
<1>1. k \in Blocks /\ k.kind = "no_reply"
  BY DEF Blocks, Marks
<1>2. role \in Roles /\ role # "user"
  BY DEF Roles
<1>3. Placeholder(id) = Message(id, role, s)
  BY DEF Placeholder
<1> HIDE DEF k, role
<1>4. s \in Seq(Blocks) /\ s # <<>> /\ s[1] = k
  BY <1>1
<1> HIDE DEF s
<1>5. Message(id, role, s) \in Msgs /\ Message(id, role, s).id = id /\ Message(id, role, s).role = role
      /\ Message(id, role, s).blocks = s
  BY <1>2, <1>4, MessageIs
<1> QED BY <1>1, <1>2, <1>3, <1>4, <1>5 DEF role

\* What FinishedRunStored says of a history, the final messages of the run, and
\* what failed attempts have sent.
Stored(st, msgs, lost) ==
    LET user == Position(st, UserId(st))
        new == {st[i] : i \in (user + 1)..Len(st)}
    IN /\ ToSet(msgs) \subseteq new
       /\ \A m \in new \ ToSet(msgs) :
            \/ m.id \in lost
            \/ m.blocks[1].kind = "no_reply" /\ ~\E n \in new : n # m

\* When the user's message is the last of a user, the messages after it decide.
LEMMA StoredIs ==
    ASSUME NEW st \in Convs, Unique(st), NEW u \in DOMAIN st, st[u].role = "user",
           \A i \in DOMAIN st : i > u => st[i].role # "user",
           NEW msgs, NEW lost,
           \A k \in DOMAIN msgs : \E i \in DOMAIN st : i > u /\ st[i] = msgs[k],
           \A i \in DOMAIN st : i > u =>
              \/ st[i].id \in lost
              \/ \E k \in DOMAIN msgs : st[i] = msgs[k]
              \/ st[i].blocks[1].kind = "no_reply" /\ \A j \in DOMAIN st : j > u => j = i
    PROVE  Stored(st, msgs, lost)
<1> DEFINE user == Position(st, UserId(st))
           new == {st[i] : i \in (user + 1)..Len(st)}
<1>1. user = u
  <2>1. UserId(st) = st[u].id
    BY UserIdIs
  <2>2. Position(st, st[u].id) = u
    BY PositionIs
  <2> QED BY <2>1, <2>2
<1>2. DOMAIN st = 1..Len(st) /\ Len(st) \in Nat
  BY ConvFields
<1>3. \A i : i \in (user + 1)..Len(st) <=> i \in DOMAIN st /\ i > u
  <2> DEFINE n == Len(st)
  <2>1. n \in Nat /\ u \in 1..n
    BY <1>2
  <2> HIDE DEF n
  <2>2. \A i : i \in (u + 1)..n <=> i \in 1..n /\ i > u
    BY <2>1
  <2> QED BY <2>2, <1>1, <1>2 DEF n
<1> HIDE DEF user
<1>4. \A m : m \in new <=> \E i \in DOMAIN st : i > u /\ m = st[i]
  BY <1>3
<1> HIDE DEF new
<1>5. \A m : m \in ToSet(msgs) <=> \E k \in DOMAIN msgs : m = msgs[k]
  BY DEF ToSet
<1>6. ToSet(msgs) \subseteq new
  BY <1>4, <1>5
<1>7. ASSUME NEW m \in new \ ToSet(msgs)
      PROVE  m.id \in lost \/ (m.blocks[1].kind = "no_reply" /\ ~\E n \in new : n # m)
  <2>1. PICK i \in DOMAIN st : i > u /\ m = st[i]
    BY <1>4
  <2>2. CASE st[i].id \in lost
    BY <2>1, <2>2
  <2>3. CASE \E k \in DOMAIN msgs : st[i] = msgs[k]
    BY <2>1, <2>3, <1>5
  <2>4. CASE st[i].blocks[1].kind = "no_reply" /\ \A j \in DOMAIN st : j > u => j = i
    BY <2>1, <2>4, <1>4
  <2> QED BY <2>1, <2>2, <2>3, <2>4
<1> QED BY <1>6, <1>7 DEF Stored, user, new

\* A run that finishes keeps the log, and what it stores is what it should.
LEMMA FinishLog ==
    ASSUME session \in Convs, Clean(session), Below(session, nextId), nextId \in Nat,
           NEW u \in DOMAIN session, NEW msgs \in Convs, Answers(session, u, partials \cup Ids(msgs)),
           Settled(session, u, msgs), nextId \notin Ids(msgs), FinishRun(msgs),
           final' = msgs, partials' = partials, nextId' \in Nat, nextId < nextId', Below(msgs, nextId')
    PROVE  /\ Grown(session', session, msgs)
           /\ stored' \in Convs /\ Below(stored', nextId') /\ session' \in Convs /\ Below(session', nextId')
           /\ phase' = "idle" /\ LogInv'
<1> DEFINE r == session'
           p == Placeholder(nextId)
           N == nextId'
           st == stored'
<1>1. /\ r = MergeMessages(session, msgs)
      /\ st = IF HasAssistantAfter(r, UserId(session)) THEN r ELSE Append(r, p)
      /\ outcome' = "finish" /\ phase' = "idle"
  BY DEF FinishRun
<1>2. Unique(session) /\ \A i \in DOMAIN session : session[i].blocks[1].kind # "no_reply"
  BY DEF Clean
<1>3. Grown(r, session, msgs)
  BY <1>1, <1>2, MergedIs
<1> HIDE DEF r, p, N, st
<1>4. /\ r \in Convs /\ Unique(r) /\ Len(session) \in Nat /\ Len(r) \in Nat
      /\ DOMAIN session = 1..Len(session) /\ DOMAIN r = 1..Len(r) /\ Len(session) <= Len(r)
      /\ \A i \in DOMAIN session : i \in DOMAIN r /\ r[i] = session[i]
      /\ \A i \in DOMAIN r : i \notin DOMAIN session =>
           i > Len(session) /\ \E k \in DOMAIN msgs : r[i] = msgs[k] /\ ToolAnswer(msgs[k])
      /\ \A k \in DOMAIN msgs : \E i \in DOMAIN r : r[i] = msgs[k]
  BY <1>3, GrownHas
<1>a. AllFinal(r, session, u, msgs, partials)
  BY <1>2, <1>3, FinalStored
<1>5. /\ \A k \in DOMAIN msgs : \E i \in DOMAIN r : i > u /\ r[i] = msgs[k]
      /\ \A i \in DOMAIN r : i > u =>
           r[i].id \in partials \/ \E k \in DOMAIN msgs : r[i] = msgs[k]
      /\ \A i \in DOMAIN r : i \in DOMAIN session \/ r[i].blocks[1].kind # "no_reply"
      /\ \A i \in DOMAIN r : i > u => r[i].role # "user"
      /\ (\A i \in DOMAIN r : i > u => r[i].role # "assistant") => r = session /\ u = Len(session) /\ msgs = <<>>
  BY <1>a DEF AllFinal
<1>6. u \in DOMAIN r /\ r[u] = session[u] /\ r[u].role = "user"
  BY <1>4 DEF Answers
<1>7. Clean(r)
  BY <1>2, <1>4, <1>5 DEF Clean
<1>8. \A i \in DOMAIN r : r[i].id < N /\ r[i].id # nextId
  <2>1. SUFFICES ASSUME NEW i \in DOMAIN r PROVE r[i].id < N /\ r[i].id # nextId
    OBVIOUS
  <2>2. CASE i \in DOMAIN session
    <3>1. r[i] = session[i] /\ session[i].id < nextId /\ session[i] \in Msgs
      BY <2>2, <1>4, ConvFields DEF Below
    <3>2. r[i].id \in Nat /\ r[i].id < nextId
      BY <3>1, MessageFields
    <3>3. nextId < N /\ N \in Nat
      BY DEF N
    <3> QED BY <3>2, <3>3
  <2>3. CASE i \notin DOMAIN session
    <3>1. PICK k \in DOMAIN msgs : r[i] = msgs[k]
      BY <2>3, <1>4
    <3> QED BY <3>1 DEF Below, Ids, N
  <2> QED BY <2>2, <2>3
<1>9. nextId \notin Ids(r) /\ Below(r, N)
  BY <1>8 DEF Ids, Below
<1>10. UserId(session) = r[u].id
  <2>1. \A i \in DOMAIN session : i > u => session[i].role # "user"
    BY <1>4, <1>5
  <2>2. session[u].role = "user"
    BY <1>6
  <2> QED BY <2>1, <2>2, <1>6, UserIdIs
<1>11. HasAssistantAfter(r, UserId(session)) <=> \E i \in DOMAIN r : r[i].role = "assistant" /\ i > u
  <2>1. Has(r, r[u].id) /\ Position(r, r[u].id) = u
    BY <1>4, <1>6, PositionIs
  <2> QED BY <2>1, <1>10 DEF HasAssistantAfter
<1>12. /\ p \in Msgs /\ p.id = nextId /\ p.blocks[1].kind = "no_reply" /\ p.role # "user"
  BY PlaceholderIs DEF p
<1>13. /\ st \in Convs /\ Below(st, N) /\ Stored(st, msgs, partials)
       /\ st = r \/ (/\ st = Append(r, p) /\ st[Len(st)].id = nextId)
  <2>1. CASE \E i \in DOMAIN r : r[i].role = "assistant" /\ i > u
    <3>1. st = r
      BY <2>1, <1>1, <1>11
    <3>2. Stored(r, msgs, partials)
      BY <1>4, <1>5, <1>6, StoredIs
    <3> QED BY <3>1, <3>2, <1>4, <1>9
  <2>2. CASE ~\E i \in DOMAIN r : r[i].role = "assistant" /\ i > u
    <3> DEFINE s == Append(r, p)
               n == Len(r)
    <3>1. st = s
      BY <2>2, <1>1, <1>11
    <3>2. /\ s \in Convs /\ Len(s) = n + 1 /\ DOMAIN s = 1..(n + 1) /\ s[n + 1] = p
          /\ \A i \in DOMAIN r : s[i] = r[i]
          /\ Unique(s)
      BY <1>4, <1>9, <1>12, AppendIs
    <3>3. n \in Nat /\ DOMAIN r = 1..n
      BY <1>4
    <3>4. u = n /\ msgs = <<>>
      BY <2>2, <1>5
    <3> HIDE DEF s, n
    <3>5. n \in 1..n
      BY <3>3, <3>4, <1>6
    <3>6. \A i \in DOMAIN s : (i > n <=> i = n + 1) /\ (i # n + 1 => i \in DOMAIN r)
      BY <3>2, <3>3
    <3>7. Below(s, N)
      <4>1. nextId < N
        BY DEF N
      <4> QED BY <4>1, <3>2, <3>6, <1>8, <1>12 DEF Below
    <3>8. Stored(s, msgs, partials)
      <4>1. n \in DOMAIN s /\ s[n].role = "user"
        BY <3>2, <3>3, <3>4, <3>5, <1>6
      <4>2. \A i \in DOMAIN s : i > n => s[i].role # "user"
        BY <3>2, <3>6, <1>12
      <4>3. DOMAIN msgs = {}
        BY <3>4, EmptyConv
      <4>4. \A i \in DOMAIN s : i > n =>
               s[i].blocks[1].kind = "no_reply" /\ \A j \in DOMAIN s : j > n => j = i
        BY <3>2, <3>6, <1>12
      <4> QED BY <4>1, <4>2, <4>3, <4>4, <3>2, StoredIs
    <3>9. s[Len(s)].id = nextId
      BY <3>2, <1>12
    <3> QED BY <3>1, <3>2, <3>7, <3>8, <3>9 DEF s
  <2> QED BY <2>1, <2>2
<1>14. StoredOK'
  <2>1. CASE st = r
    BY <2>1 DEF StoredOK, st, r
  <2>2. CASE st = Append(r, p) /\ st[Len(st)].id = nextId
    <3> DEFINE id == st[Len(st)].id
    <3>1. id = nextId
      BY <2>2
    <3>2. id \in Nat /\ id < N /\ id \notin Ids(r) /\ st = Append(r, Placeholder(id))
      BY <2>2, <3>1, <1>9 DEF N, p
    <3> QED BY <3>2 DEF StoredOK, st, r, N
  <2> QED BY <2>1, <2>2, <1>13
<1>15. FinishedRunStored'
  BY <1>13 DEF FinishedRunStored, Stored, st
<1>16. LogInv'
  BY <1>1, <1>7, <1>14, <1>15 DEF LogInv, r
<1> QED BY <1>1, <1>3, <1>4, <1>9, <1>13, <1>16 DEF r, st, N

-----------------------------------------------------------------------------
(* The tools' answers                                                      *)

\* Something stays, if something of the sequence is in the set.
LEMMA OnlySome ==
    ASSUME NEW S, NEW s \in Seq(S), NEW T, NEW i \in DOMAIN s, s[i] \in T
    PROVE  Only(s, T) # <<>>
<1>1. PICK g : KeepsOf(g, s, T, Len(s)) /\ Only(s, T) = g[Len(s)]
  BY OnlyKeeps
<1> DEFINE n == Len(s)
           K == Seq(S)
           Full(q) == q # <<>>
           Bad == {k \in 0..n : ~ (g[k] \in K /\ (k >= i => Full(g[k])))}
<1>2. n \in Nat /\ i \in 1..n /\ \A k \in 1..n : s[k] \in S
  OBVIOUS
<1>3. /\ <<>> \in K
      /\ \A v \in K, e \in S : Append(v, e) \in K /\ Full(Append(v, e))
  OBVIOUS
<1>4. CASE Bad # {}
  <2>1. PICK k \in Bad : \A j \in Bad : k <= j
    BY <1>4, LeastNumber, Bad \in SUBSET Nat
  <2>2. k \in 0..n /\ ~ (g[k] \in K /\ (k >= i => Full(g[k])))
    BY <2>1
  <2>3. g[k] = IF k = 0 THEN <<>> ELSE IF s[k] \in T THEN Append(g[k - 1], s[k]) ELSE g[k - 1]
    BY <1>1, <2>2 DEF KeepsOf
  <2>4. k # 0
    BY <1>2, <1>3, <2>2, <2>3
  <2>5. k \in 1..n /\ k - 1 \in 0..n /\ k - 1 \notin Bad
    BY <1>2, <2>1, <2>2, <2>4
  <2>6. g[k - 1] \in K /\ (k - 1 >= i => Full(g[k - 1]))
    BY <2>5
  <2> HIDE DEF Bad, K, Full
  <2>7. k >= i => k = i \/ k - 1 >= i
    BY <1>2, <2>5
  <2>8. CASE s[k] \in T
    <3>1. g[k] = Append(g[k - 1], s[k])
      BY <2>3, <2>4, <2>8
    <3> QED BY <3>1, <2>2, <2>5, <2>6, <1>2, <1>3
  <2>9. CASE s[k] \notin T
    <3>1. g[k] = g[k - 1]
      BY <2>3, <2>4, <2>9
    <3>2. k # i
      BY <2>9
    <3> QED BY <3>1, <3>2, <2>2, <2>6, <2>7
  <2> QED BY <2>8, <2>9
<1>5. CASE Bad = {}
  <2>1. n \in 0..n /\ n >= i
    BY <1>2
  <2>2. Full(g[n])
    BY <2>1, <1>5
  <2> QED BY <2>2, <1>1
<1> QED BY <1>4, <1>5

\* What a sequence has.
LEMMA SeqFields ==
    ASSUME NEW S, NEW q \in Seq(S)
    PROVE  /\ Len(q) \in Nat /\ DOMAIN q = 1..Len(q) /\ \A i \in 1..Len(q) : q[i] \in S
           /\ q # <<>> <=> Len(q) # 0
           /\ Len(q) = 1 => q[1] \in S /\ q = <<q[1]>>
<1>1. /\ Len(q) \in Nat /\ DOMAIN q = 1..Len(q) /\ \A i \in 1..Len(q) : q[i] \in S
      /\ q # <<>> <=> Len(q) # 0
  OBVIOUS
<1>2. ASSUME Len(q) = 1 PROVE q[1] \in S /\ q = <<q[1]>>
  <2>1. q[1] \in S
    BY <1>1, <1>2
  <2>2. Len(q) = 1 => q = <<Head(q)>>
    OBVIOUS
  <2>3. Head(q) = q[1]
    BY <1>1, <1>2
  <2> QED BY <1>2, <2>1, <2>2, <2>3
<1> QED BY <1>1, <1>2

\* a answers the requests of m.
Answer(a, m, n) ==
    /\ a \in Msgs /\ a.id = n + 1 /\ ToolAnswer(a)
    /\ \A k \in DOMAIN a.blocks : \E l \in DOMAIN m.blocks :
          m.blocks[l].kind = "request" /\ m.blocks[l].call = a.blocks[k].call

\* The tool message of a message answers its requests.
LEMMA AnswerIs ==
    ASSUME NEW m \in Msgs, NEW n \in Nat, NEW l \in DOMAIN m.blocks, m.blocks[l].kind = "request",
           NEW T, T = {b \in ToSet(m.blocks) : b.kind = "request"},
           NEW ans, ans = Only(m.blocks, T)
    PROVE  Answer(Message(n + 1, "tool", [i \in DOMAIN ans |-> Response(ans[i].call)]), m, n)
<1> DEFINE blocks == [i \in DOMAIN ans |-> Response(ans[i].call)]
           role == "tool"
           a == Message(n + 1, role, blocks)
           k == Len(ans)
           D == Blocks \cap T
<1>1. m.blocks \in Seq(Blocks)
  BY MessageFields
<1>2. \A b : b \in T <=> b.kind = "request" /\ \E i \in DOMAIN m.blocks : b = m.blocks[i]
  BY DEF ToSet
<1>3. ans \in Seq(D)
  BY <1>1, OnlyType
<1>4. ans # <<>>
  <2>1. m.blocks[l] \in T
    BY <1>2
  <2> QED BY <2>1, <1>1, OnlySome
<1>5. \A b \in D : b \in Blocks /\ b \in T
  OBVIOUS
<1> HIDE DEF D
<1>6. k \in Nat /\ k # 0 /\ DOMAIN ans = 1..k /\ \A i \in 1..k : ans[i] \in D
  BY <1>3, <1>4, SeqFields
<1>7. \A i \in 1..k : ans[i] \in Blocks /\ ans[i] \in T
  BY <1>5, <1>6
<1>8. \A i \in 1..k : /\ Response(ans[i].call) \in Blocks /\ Response(ans[i].call).kind = "response"
                      /\ Response(ans[i].call).call = ans[i].call
  <2>1. SUFFICES ASSUME NEW i \in 1..k
                 PROVE  /\ Response(ans[i].call) \in Blocks /\ Response(ans[i].call).kind = "response"
                        /\ Response(ans[i].call).call = ans[i].call
    OBVIOUS
  <2>2. ans[i] \in Blocks /\ ans[i].kind = "request"
    BY <1>2, <1>7
  <2>3. ans[i].call \in Nat
    BY <2>2, KindSays
  <2> QED BY <2>3, BlockKinds
<1> HIDE DEF k
<1>9. DOMAIN blocks = 1..k /\ \A i \in 1..k : blocks[i] = Response(ans[i].call) /\ blocks[i] \in Blocks
  BY <1>6, <1>8
<1>10. blocks \in Seq(Blocks) /\ blocks # <<>> /\ Len(blocks) = k
  <2>1. blocks = [i \in 1..k |-> Response(ans[i].call)]
    BY <1>6
  <2>2. \A i \in 1..k : Response(ans[i].call) \in Blocks
    BY <1>8
  <2> HIDE DEF blocks
  <2>3. blocks \in [1..k -> Blocks]
    BY <2>1, <2>2
  <2>4. blocks \in Seq(Blocks) /\ Len(blocks) = k
    BY <2>3, <1>6
  <2> QED BY <2>4, <1>6
<1>11. role \in Roles /\ role = "tool"
  BY DEF Roles
<1> HIDE DEF blocks, role
<1>12. a \in Msgs /\ a.id = n + 1 /\ a.role = role /\ a.blocks = blocks
  <2>1. n + 1 \in Nat
    OBVIOUS
  <2> QED BY <2>1, <1>10, <1>11, MessageIs
<1> HIDE DEF a
<1>13. ToolAnswer(a)
  BY <1>8, <1>9, <1>11, <1>12 DEF ToolAnswer
<1>14. ASSUME NEW i \in DOMAIN a.blocks
       PROVE  \E j \in DOMAIN m.blocks : m.blocks[j].kind = "request" /\ m.blocks[j].call = a.blocks[i].call
  <2>1. i \in 1..k /\ a.blocks[i].call = ans[i].call /\ ans[i] \in T
    BY <1>7, <1>8, <1>9, <1>12, <1>14
  <2> QED BY <2>1, <1>2
<1>15. Answer(a, m, n)
  BY <1>12, <1>13, <1>14 DEF Answer
<1> QED BY <1>15, <1>11 DEF a, blocks

\* c is conv, the message of the turn, and the answer of the tools if there is one.
Told(c, conv, m, n) ==
    \/ c = Append(conv, m)
    \/ \E a : Answer(a, m, n) /\ c = Append(Append(conv, m), a)

\* A turn of one message gives that message, and an answer if it asks.
LEMMA ToolsTold ==
    ASSUME NEW msgs \in Convs, Len(msgs) = 1, NEW n \in Nat, NEW conv \in Convs
    PROVE  Told(conv \o (msgs \o ToolMessages(msgs, n)), conv, msgs[1], n)
<1> DEFINE m == msgs[1]
           T == {x \in ToSet(msgs) : \E i \in DOMAIN x.blocks : x.blocks[i].kind = "request"}
           asking == Only(msgs, T)
           answer(x) == Only(x.blocks, {b \in ToSet(x.blocks) : b.kind = "request"})
           reply(x, k) == Message(n + k, "tool", [i \in DOMAIN answer(x) |-> Response(answer(x)[i].call)])
           tools == [k \in DOMAIN asking |-> reply(asking[k], k)]
<1>1. tools = ToolMessages(msgs, n)
  BY DEF ToolMessages
<1>2. m \in Msgs /\ msgs = <<m>> /\ conv \in Seq(Msgs)
  <2>1. msgs \in Seq(Msgs) /\ conv \in Seq(Msgs) /\ Len(msgs) = 1
    BY DEF Convs
  <2> QED BY <2>1, SeqFields
<1>3. m \in T <=> \E i \in DOMAIN m.blocks : m.blocks[i].kind = "request"
  BY <1>2 DEF ToSet
<1>4. CASE m \in T
  <2>1. asking = <<m>>
    <3> HIDE DEF T, m
    <3> QED BY <1>2, <1>4, OnlyOne
  <2>2. PICK l \in DOMAIN m.blocks : m.blocks[l].kind = "request"
    BY <1>3, <1>4
  <2>3. Answer(reply(m, 1), m, n)
    BY <1>2, <2>2, AnswerIs
  <2>4. tools = <<reply(m, 1)>>
    <3>1. DOMAIN asking = 1..1 /\ asking[1] = m
      BY <2>1
    <3> HIDE DEF asking, reply
    <3>2. tools = [k \in 1..1 |-> reply(m, 1)]
      <4>1. \A k \in 1..1 : k = 1
        OBVIOUS
      <4> QED BY <3>1, <4>1
    <3> DEFINE x == reply(m, 1)
    <3> HIDE DEF tools, x
    <3>3. tools = [k \in 1..1 |-> x]
      BY <3>2 DEF x
    <3>4. tools = <<x>>
      BY <3>3
    <3> QED BY <3>4 DEF x
  <2> DEFINE a == reply(m, 1)
  <2>5. tools = <<a>> /\ Answer(a, m, n)
    BY <2>3, <2>4
  <2> HIDE DEF tools, a, m
  <2>6. a \in Msgs
    BY <2>5 DEF Answer
  <2>7. conv \o (<<m>> \o <<a>>) = Append(Append(conv, m), a)
    BY <1>2, <2>6
  <2>8. conv \o (msgs \o tools) = Append(Append(conv, m), a)
    BY <1>2, <2>5, <2>7
  <2> QED BY <1>1, <2>5, <2>8 DEF Told, m
<1>5. CASE m \notin T
  <2>1. asking = <<>>
    <3> HIDE DEF T, m
    <3> QED BY <1>2, <1>5, OnlyOne
  <2>2. tools = <<>>
    <3>1. DOMAIN asking = {}
      BY <2>1
    <3> HIDE DEF asking, reply
    <3>2. tools = [k \in {} |-> reply(asking[k], k)]
      BY <3>1
    <3>3. \A f : DOMAIN f = {} /\ f = [i \in DOMAIN f |-> f[i]] => f = <<>>
      OBVIOUS
    <3> QED BY <3>2, <3>3
  <2> HIDE DEF tools, m
  <2>3. conv \o (<<m>> \o <<>>) = Append(conv, m)
    BY <1>2
  <2>4. conv \o (msgs \o tools) = Append(conv, m)
    BY <1>2, <2>2, <2>3
  <2> QED BY <1>1, <2>4 DEF Told, m
<1> QED BY <1>4, <1>5

\* What a conversation with the messages of a turn has.
LEMMA ToldHas ==
    ASSUME NEW conv \in Convs, NEW m \in Msgs, NEW n \in Nat, NEW c, Told(c, conv, m, n)
    PROVE  /\ c \in Convs /\ Len(conv) \in Nat
           /\ \A i \in DOMAIN conv : i \in DOMAIN c /\ i <= Len(conv) /\ c[i] = conv[i]
           /\ \A i \in DOMAIN c : i \notin DOMAIN conv =>
                \/ i = Len(conv) + 1 /\ c[i] = m
                \/ i = Len(conv) + 2 /\ Answer(c[i], m, n)
           /\ Len(conv) + 1 \in DOMAIN c /\ c[Len(conv) + 1] = m
<1> DEFINE s == Append(conv, m)
           k == Len(conv)
<1>1. /\ s \in Convs /\ Len(s) = k + 1 /\ DOMAIN s = 1..(k + 1) /\ s[k + 1] = m
      /\ \A i \in DOMAIN conv : s[i] = conv[i]
  BY AppendIs
<1>2. k \in Nat /\ DOMAIN conv = 1..k
  BY ConvFields
<1> HIDE DEF k, s
<1>3. \A i : i \in 1..k => i \in 1..(k + 1) /\ i <= k
  BY <1>2
<1>4. \A i : i \in 1..(k + 1) /\ i \notin 1..k => i = k + 1
  BY <1>2
<1>5. k + 1 \in 1..(k + 1)
  BY <1>2
<1>6. CASE c = s
  <2>1. \A i \in DOMAIN conv : i \in DOMAIN c /\ i <= k /\ c[i] = conv[i]
    BY <1>1, <1>2, <1>3, <1>6
  <2>2. \A i \in DOMAIN c : i \notin DOMAIN conv => i = k + 1 /\ c[i] = m
    BY <1>1, <1>2, <1>4, <1>6
  <2> QED BY <2>1, <2>2, <1>1, <1>2, <1>5, <1>6 DEF k
<1>7. CASE \E a : Answer(a, m, n) /\ c = Append(s, a)
  <2>1. PICK a : Answer(a, m, n) /\ c = Append(s, a)
    BY <1>7
  <2>2. a \in Msgs
    BY <2>1 DEF Answer
  <2> DEFINE l == Len(s)
             t == Append(s, a)
  <2>3. /\ t \in Convs /\ DOMAIN t = 1..(l + 1) /\ t[l + 1] = a
        /\ \A i \in DOMAIN s : t[i] = s[i]
    BY <2>2, <1>1, AppendIs
  <2>4. c = t /\ l = k + 1
    BY <2>1, <1>1
  <2> HIDE DEF l, t
  <2>5. \A i : i \in 1..k => i \in 1..(l + 1) /\ i \in 1..(k + 1) /\ i <= k
    BY <2>4, <1>2
  <2>6. \A i : i \in 1..(l + 1) /\ i \notin 1..k => i = k + 1 \/ (i = k + 2 /\ i = l + 1)
    BY <2>4, <1>2
  <2>7. k + 1 \in 1..(l + 1) /\ k + 1 \in 1..(k + 1)
    BY <2>4, <1>2
  <2>8. \A i \in DOMAIN conv : i \in DOMAIN c /\ i <= k /\ c[i] = conv[i]
    BY <2>3, <2>4, <2>5, <1>1, <1>2
  <2>9. c[k + 1] = m
    BY <2>3, <2>4, <2>7, <1>1
  <2>10. \A i \in DOMAIN c : i \notin DOMAIN conv =>
            (i = k + 1 /\ c[i] = m) \/ (i = k + 2 /\ Answer(c[i], m, n))
    BY <2>1, <2>3, <2>4, <2>6, <2>9, <1>2
  <2> QED BY <2>3, <2>4, <2>7, <2>8, <2>9, <2>10, <1>2 DEF k
<1> QED BY <1>6, <1>7 DEF Told, s

\* Their ids are the old ones, the one of the turn's message, and the one after n.
LEMMA ToldIds ==
    ASSUME NEW conv \in Convs, NEW m \in Msgs, NEW n \in Nat, NEW c, Told(c, conv, m, n)
    PROVE  /\ Ids(c) \subseteq Ids(conv) \cup {m.id, n + 1} /\ Ids(conv) \subseteq Ids(c) /\ m.id \in Ids(c)
           /\ Unique(conv) /\ Below(conv, n) /\ m.id < n /\ m.id \notin Ids(conv) => Unique(c)
           /\ Below(conv, n) /\ m.id < n => \A N \in Nat : n + 1 < N => Below(c, N)
<1> DEFINE k == Len(conv)
<1>1. /\ c \in Convs /\ k \in Nat
      /\ \A i \in DOMAIN conv : i \in DOMAIN c /\ i <= k /\ c[i] = conv[i]
      /\ \A i \in DOMAIN c : i \notin DOMAIN conv =>
           \/ i = k + 1 /\ c[i] = m
           \/ i = k + 2 /\ Answer(c[i], m, n)
      /\ k + 1 \in DOMAIN c /\ c[k + 1] = m
  BY ToldHas
<1> HIDE DEF k
<1>2. \A i \in DOMAIN c : i \notin DOMAIN conv => (i = k + 1 /\ c[i].id = m.id) \/ (i = k + 2 /\ c[i].id = n + 1)
  BY <1>1 DEF Answer
<1>3. Ids(c) \subseteq Ids(conv) \cup {m.id, n + 1} /\ Ids(conv) \subseteq Ids(c) /\ m.id \in Ids(c)
  <2>1. \A i \in DOMAIN c : c[i].id \in Ids(conv) \/ c[i].id = m.id \/ c[i].id = n + 1
    BY <1>1, <1>2 DEF Ids
  <2>2. \A i \in DOMAIN conv : conv[i].id \in Ids(c)
    BY <1>1 DEF Ids
  <2>3. m.id \in Ids(c)
    BY <1>1 DEF Ids
  <2> QED BY <2>1, <2>2, <2>3 DEF Ids
<1>4. m.id \in Nat /\ \A i \in DOMAIN conv : conv[i].id \in Nat
  BY ConvFields, MessageFields
<1>5. ASSUME Unique(conv), Below(conv, n), m.id < n, m.id \notin Ids(conv) PROVE Unique(c)
  <2>1. \A i \in DOMAIN conv : conv[i].id # m.id /\ conv[i].id < n /\ conv[i].id # n + 1
    BY <1>4, <1>5 DEF Ids, Below
  <2>2. m.id # n + 1
    BY <1>4, <1>5
  <2>3. SUFFICES ASSUME NEW i \in DOMAIN c, NEW j \in DOMAIN c, c[i].id = c[j].id PROVE i = j
    BY DEF Unique
  <2>4. CASE i \in DOMAIN conv /\ j \in DOMAIN conv
    BY <2>3, <2>4, <1>1, <1>5 DEF Unique
  <2>5. CASE i \in DOMAIN conv /\ j \notin DOMAIN conv
    BY <2>1, <2>3, <2>5, <1>1, <1>2
  <2>6. CASE i \notin DOMAIN conv /\ j \in DOMAIN conv
    BY <2>1, <2>3, <2>6, <1>1, <1>2
  <2>7. CASE i \notin DOMAIN conv /\ j \notin DOMAIN conv
    BY <2>2, <2>3, <2>7, <1>2
  <2> QED BY <2>4, <2>5, <2>6, <2>7
<1>6. ASSUME Below(conv, n), m.id < n, NEW N \in Nat, n + 1 < N PROVE Below(c, N)
  <2>1. SUFFICES ASSUME NEW i \in DOMAIN c PROVE c[i].id < N
    BY DEF Below
  <2>2. c[i].id = n + 1 \/ c[i].id = m.id \/ (i \in DOMAIN conv /\ c[i].id = conv[i].id)
    BY <1>1, <1>2
  <2>3. c[i].id = n + 1 \/ (c[i].id \in Nat /\ c[i].id < n)
    BY <2>2, <1>4, <1>6 DEF Below
  <2> QED BY <2>3, <1>6
<1> QED BY <1>3, <1>5, <1>6

\* The final messages of a run stay settled when a turn is added.
LEMMA SettledMore ==
    ASSUME NEW conv \in Convs, NEW u, NEW n \in Nat, Below(conv, n), NEW msgs \in Convs, Settled(conv, u, msgs),
           Below(msgs, n), NEW m \in Msgs, m.id < n, Mirrored(conv, u, msgs, m), NEW c, Told(c, msgs, m, n)
    PROVE  Settled(conv, u, c)
<1> DEFINE k == Len(msgs)
<1>1. /\ c \in Convs /\ k \in Nat
      /\ \A i \in DOMAIN msgs : i \in DOMAIN c /\ i <= k /\ c[i] = msgs[i]
      /\ \A i \in DOMAIN c : i \notin DOMAIN msgs =>
           \/ i = k + 1 /\ c[i] = m
           \/ i = k + 2 /\ Answer(c[i], m, n)
      /\ k + 1 \in DOMAIN c /\ c[k + 1] = m
  BY ToldHas
<1>2. /\ m.role = "assistant" /\ m.id \notin Ids(msgs) /\ \E i \in DOMAIN conv : i > u /\ conv[i] = m
  BY DEF Mirrored
<1>3. /\ Unique(msgs) /\ (msgs # <<>> => msgs[1].role = "assistant")
      /\ \A i \in DOMAIN msgs :
            \/ msgs[i].role = "assistant" /\ \E j \in DOMAIN conv : j > u /\ conv[j] = msgs[i]
            \/ ToolAnswer(msgs[i]) /\ msgs[i].id \notin Ids(conv)
  BY DEF Settled
<1>4. Unique(c)
  BY <1>2, <1>3, ToldIds
<1>5. c[1].role = "assistant"
  <2>1. DOMAIN msgs = 1..k
    BY ConvFields
  <2>2. CASE k = 0
    <3>1. k + 1 = 1
      BY <2>2
    <3> QED BY <3>1, <1>1, <1>2
  <2>3. CASE k # 0
    <3>1. 1 \in DOMAIN msgs
      BY <2>1, <2>3, <1>1
    <3>2. msgs # <<>>
      <4>1. \A e : e = <<>> => DOMAIN e = {}
        BY EmptyConv
      <4> QED BY <3>1, <4>1
    <3> QED BY <3>1, <3>2, <1>1, <1>3
  <2> QED BY <2>2, <2>3
<1>6. n + 1 \notin Ids(conv)
  <2>1. \A i \in DOMAIN conv : conv[i].id \in Nat /\ conv[i].id < n
    BY ConvFields, MessageFields DEF Below
  <2>2. \A i \in DOMAIN conv : conv[i].id # n + 1
    BY <2>1
  <2> QED BY <2>2 DEF Ids
<1>7. ASSUME NEW i \in DOMAIN c
      PROVE  \/ c[i].role = "assistant" /\ \E j \in DOMAIN conv : j > u /\ conv[j] = c[i]
             \/ ToolAnswer(c[i]) /\ c[i].id \notin Ids(conv)
  <2>1. CASE i \in DOMAIN msgs
    BY <2>1, <1>1, <1>3
  <2>2. CASE i \notin DOMAIN msgs
    BY <2>2, <1>1, <1>2, <1>6 DEF Answer
  <2> QED BY <2>1, <2>2
<1> QED BY <1>4, <1>5, <1>7 DEF Settled

\* The turn's calls are new to the conversation, and its answers come after them.
LEMMA PairsTold ==
    ASSUME NEW conv \in Convs, PairOrder(conv), NEW m \in Msgs, NEW n \in Nat, NEW c, Told(c, conv, m, n),
           NEW D, CallsOf(conv, "response") \subseteq D,
           \A k \in DOMAIN m.blocks : m.blocks[k].kind = "response" => m.blocks[k].call \in D,
           \A k \in DOMAIN m.blocks : m.blocks[k].kind = "request" => m.blocks[k].call \notin D
    PROVE  PairOrder(c)
<1> DEFINE k == Len(conv)
<1>1. /\ c \in Convs /\ k \in Nat
      /\ \A i \in DOMAIN conv : i \in DOMAIN c /\ i <= k /\ c[i] = conv[i]
      /\ \A i \in DOMAIN c : i \notin DOMAIN conv =>
           \/ i = k + 1 /\ c[i] = m
           \/ i = k + 2 /\ Answer(c[i], m, n)
  BY ToldHas
<1> HIDE DEF k
<1>2. \A i \in DOMAIN conv : i \in Nat
  BY ConvFields
<1>3. ASSUME NEW i \in DOMAIN c, NEW j \in DOMAIN c,
             NEW x \in DOMAIN c[i].blocks, NEW y \in DOMAIN c[j].blocks,
             c[i].blocks[x].kind = "request", c[j].blocks[y].kind = "response",
             c[i].blocks[x].call = c[j].blocks[y].call
      PROVE  i < j
  <2>1. CASE i \in DOMAIN conv /\ j \in DOMAIN conv
    BY <1>1, <1>3, <2>1 DEF PairOrder
  <2>2. CASE i \in DOMAIN conv /\ j \notin DOMAIN conv
    <3>1. i <= k /\ (j = k + 1 \/ j = k + 2) /\ i \in Nat
      BY <1>1, <1>2, <2>2
    <3> QED BY <3>1, <1>1
  <2>3. CASE i \notin DOMAIN conv
    <3>1. ~ToolAnswer(c[i])
      BY <1>3 DEF ToolAnswer
    <3>2. i = k + 1 /\ c[i] = m
      BY <3>1, <1>1, <2>3 DEF Answer
    <3>3. c[i].blocks[x].call \notin D
      BY <3>2, <1>3
    <3>4. j \notin DOMAIN conv
      <4>1. SUFFICES ASSUME j \in DOMAIN conv PROVE FALSE
        OBVIOUS
      <4>2. c[j].blocks[y].call \in CallsOf(conv, "response")
        BY <4>1, <1>1, <1>3, CallsOfIs
      <4> QED BY <4>2, <3>3, <1>3
    <3>5. c[j] # m
      BY <3>3, <1>3
    <3>6. j = k + 2
      BY <3>4, <3>5, <1>1
    <3> QED BY <3>2, <3>6, <1>1
  <2> QED BY <2>1, <2>2, <2>3
<1> QED BY <1>3 DEF PairOrder

\* What is answered then was answered before, or asked by the turn.
LEMMA ToldCalls ==
    ASSUME NEW conv \in Convs, NEW m \in Msgs, NEW n \in Nat, NEW c, Told(c, conv, m, n),
           NEW D, CallsOf(conv, "response") \subseteq D,
           \A k \in DOMAIN m.blocks : m.blocks[k].kind = "response" => m.blocks[k].call \in D,
           NEW x, x \in CallsOf(c, "response")
    PROVE  x \in D \/ \E l \in DOMAIN m.blocks : m.blocks[l].kind = "request" /\ m.blocks[l].call = x
<1> DEFINE k == Len(conv)
<1>1. /\ c \in Convs /\ k \in Nat
      /\ \A i \in DOMAIN conv : i \in DOMAIN c /\ i <= k /\ c[i] = conv[i]
      /\ \A i \in DOMAIN c : i \notin DOMAIN conv =>
           \/ i = k + 1 /\ c[i] = m
           \/ i = k + 2 /\ Answer(c[i], m, n)
  BY ToldHas
<1> HIDE DEF k
<1>2. PICK i \in DOMAIN c : \E y \in DOMAIN c[i].blocks :
         c[i].blocks[y].kind = "response" /\ c[i].blocks[y].call = x
  BY CallsOfIs
<1>3. CASE i \in DOMAIN conv
  <2>1. x \in CallsOf(conv, "response")
    BY <1>1, <1>2, <1>3, CallsOfIs
  <2> QED BY <2>1
<1>4. CASE i \notin DOMAIN conv /\ c[i] = m
  BY <1>2, <1>4
<1>5. CASE Answer(c[i], m, n)
  BY <1>2, <1>5 DEF Answer
<1> QED BY <1>1, <1>3, <1>4, <1>5

\* The answers of tools come after every call that the pump has.
LEMMA PairsGrown ==
    ASSUME NEW conv \in Convs, PairOrder(conv), NEW msgs \in Convs, NEW r, Grown(r, conv, msgs)
    PROVE  /\ PairOrder(r)
           /\ CallsOf(r, "response") \subseteq CallsOf(conv, "response") \cup CallsOf(msgs, "response")
<1>1. /\ r \in Convs /\ Len(conv) \in Nat /\ DOMAIN conv = 1..Len(conv)
      /\ \A i \in DOMAIN conv : i \in DOMAIN r /\ r[i] = conv[i]
      /\ \A i \in DOMAIN r : i \notin DOMAIN conv =>
           i > Len(conv) /\ \E k \in DOMAIN msgs : r[i] = msgs[k] /\ ToolAnswer(msgs[k])
  BY GrownHas
<1>2. ASSUME NEW i \in DOMAIN r, NEW j \in DOMAIN r,
             NEW x \in DOMAIN r[i].blocks, NEW y \in DOMAIN r[j].blocks,
             r[i].blocks[x].kind = "request", r[j].blocks[y].kind = "response",
             r[i].blocks[x].call = r[j].blocks[y].call
      PROVE  i < j
  <2>1. i \in DOMAIN conv
    <3>1. ~ToolAnswer(r[i])
      BY <1>2 DEF ToolAnswer
    <3> QED BY <3>1, <1>1
  <2>2. CASE j \in DOMAIN conv
    BY <1>1, <1>2, <2>1, <2>2 DEF PairOrder
  <2>3. CASE j \notin DOMAIN conv
    <3>1. j > Len(conv) /\ i \in 1..Len(conv) /\ j \in Nat
      BY <2>1, <2>3, <1>1, ConvFields
    <3> QED BY <3>1, <1>1
  <2> QED BY <2>2, <2>3
<1>3. PairOrder(r)
  BY <1>2 DEF PairOrder
<1>4. ASSUME NEW x, x \in CallsOf(r, "response")
      PROVE  x \in CallsOf(conv, "response") \cup CallsOf(msgs, "response")
  <2>1. PICK i \in DOMAIN r : \E y \in DOMAIN r[i].blocks :
           r[i].blocks[y].kind = "response" /\ r[i].blocks[y].call = x
    BY <1>4, CallsOfIs
  <2>2. CASE i \in DOMAIN conv
    <3>1. x \in CallsOf(conv, "response")
      BY <2>1, <2>2, <1>1, CallsOfIs
    <3> QED BY <3>1
  <2>3. CASE i \notin DOMAIN conv
    <3>1. PICK k \in DOMAIN msgs : r[i] = msgs[k]
      BY <2>3, <1>1
    <3>2. x \in CallsOf(msgs, "response")
      BY <2>1, <3>1, CallsOfIs
    <3> QED BY <3>2
  <2> QED BY <2>2, <2>3
<1> QED BY <1>3, <1>4

\* The state between two replies, or before a request: nothing is streamed.
LEMMA RestInv ==
    ASSUME phase' \in {"idle", "request"}
    PROVE  StreamInv' /\ Numbered' /\ StreamUnderstood'
<1>1. (phase' = "stream") = FALSE /\ (phase' = "turn_over") = FALSE
  OBVIOUS
<1> QED BY <1>1 DEF StreamInv, Numbered, StreamUnderstood

\* What the invariant says when the stream is over.
LEMMA OverHas ==
    ASSUME TranscriptInv, phase = "turn_over"
    PROVE  /\ nextId \in Nat /\ turn \in Turns /\ turn.msgs \in Convs /\ partials \subseteq Nat
           /\ stored \in Convs /\ session \in Convs /\ history \in Convs /\ final \in Convs
           /\ Below(stored, nextId) /\ Below(session, nextId) /\ Below(history, nextId) /\ Below(final, nextId)
           /\ retries \in [http : 0..MaxRetries, turn : 0..MaxRetries]
           /\ prov \in Providers /\ faults \in Nat /\ replies \in Nat
           /\ Clean(session) /\ \E u \in DOMAIN session : RunAt(u)
           /\ nextId \notin Ids(final) /\ nextId \notin Ids(session)
           /\ prov = "responses" => /\ PairOrder(session) /\ PairOrder(history)
                                    /\ Answered \cap Saying = {} /\ CallsOf(turn.msgs, "request") \subseteq Saying
                                    /\ \A c \in Answered : c \in Nat /\ c < nextId
           /\ \A c \in Saying : c < nextId
<1>1. /\ nextId \in Nat /\ turn \in Turns /\ partials \subseteq Nat
      /\ stored \in Convs /\ session \in Convs /\ history \in Convs /\ final \in Convs
      /\ Below(stored, nextId) /\ Below(session, nextId) /\ Below(history, nextId) /\ Below(final, nextId)
      /\ retries \in [http : 0..MaxRetries, turn : 0..MaxRetries]
      /\ prov \in Providers /\ faults \in Nat /\ replies \in Nat
  BY DEF TranscriptInv, ShapeOK
<1>2. turn.msgs \in Convs
  BY <1>1, TurnFields
<1>3. Clean(session) /\ \E u \in DOMAIN session : RunAt(u)
  <2>1. (phase = "idle") = FALSE
    OBVIOUS
  <2> QED BY <2>1 DEF TranscriptInv, LogInv
<1>4. ASSUME NEW conv \in Convs, Below(conv, nextId) PROVE nextId \notin Ids(conv)
  <2>1. \A i \in DOMAIN conv : conv[i].id \in Nat /\ conv[i].id < nextId
    BY <1>4, ConvFields, MessageFields DEF Below
  <2>2. \A i \in DOMAIN conv : conv[i].id # nextId
    BY <2>1, <1>1
  <2> QED BY <2>2 DEF Ids
<1>5. prov = "responses" => /\ PairOrder(session) /\ PairOrder(history)
                            /\ Answered \cap Saying = {} /\ CallsOf(turn.msgs, "request") \subseteq Saying
                            /\ \A c \in Answered : c < nextId
  BY DEF TranscriptInv, PairInv
<1>6. \A c \in Answered : c \in Nat
  <2>1. SUFFICES ASSUME NEW c \in Answered PROVE c \in Nat
    OBVIOUS
  <2>2. c \in CallsOf(session, "response") \/ c \in CallsOf(history, "response") \/ c \in CallsOf(final, "response")
    BY DEF Answered
  <2> QED BY <2>2, <1>1, CallsNat
<1>7. \A c \in Saying : c < nextId
  BY DEF TranscriptInv, Numbered
<1> QED BY <1>1, <1>2, <1>3, <1>4, <1>5, <1>6, <1>7

\* The model has said nothing more: the run ends.
LEMMA EmptyTurnInv ==
    ASSUME TranscriptInv, EmptyTurn
    PROVE  TranscriptInv'
<1> DEFINE N == nextId + 1
<1>1. /\ phase = "turn_over" /\ turn.msgs = <<>> /\ nextId' = N /\ final' = final
      /\ prov' = prov /\ replies' = replies /\ faults' = faults
  BY DEF EmptyTurn
<1>2. /\ nextId \in Nat /\ turn \in Turns /\ turn.msgs \in Convs /\ partials \subseteq Nat
      /\ stored \in Convs /\ session \in Convs /\ history \in Convs /\ final \in Convs
      /\ Below(stored, nextId) /\ Below(session, nextId) /\ Below(history, nextId) /\ Below(final, nextId)
      /\ retries \in [http : 0..MaxRetries, turn : 0..MaxRetries]
      /\ prov \in Providers /\ faults \in Nat /\ replies \in Nat
      /\ Clean(session) /\ nextId \notin Ids(final)
      /\ prov = "responses" => /\ PairOrder(session) /\ PairOrder(history)
                               /\ \A c \in Answered : c \in Nat /\ c < nextId
  BY <1>1, OverHas
<1>3. PICK u \in DOMAIN session : RunAt(u)
  BY <1>1, OverHas
<1>4. N \in Nat /\ nextId < N
  BY <1>2
<1>5. /\ Below(stored, N) /\ Below(session, N) /\ Below(history, N) /\ Below(final, N)
  BY <1>2, BelowMore
<1>6. prov = "responses" => \A c \in Answered : c < N
  <2>1. \A c \in Nat : c < nextId => c < N
    BY <1>2
  <2> QED BY <2>1, <1>2
<1> HIDE DEF N
<1>7. CASE EndWithError /\ UNCHANGED <<session, history, turn>>
  <2>1. /\ stored' = session /\ outcome' = "error" /\ phase' = "idle" /\ retries' = retries /\ partials' = partials
        /\ session' = session /\ history' = history /\ turn' = turn
    BY <1>7 DEF EndWithError
  <2>2. ShapeOK'
    BY <2>1, <1>1, <1>2, <1>4, <1>5 DEF ShapeOK
  <2>3. LogInv'
    <3>1. FinishedRunStored'
      BY <2>1 DEF FinishedRunStored
    <3>2. StoredOK'
      BY <2>1 DEF StoredOK
    <3> QED BY <2>1, <3>1, <3>2, <1>2 DEF LogInv
  <2>4. PairInv'
    <3>1. Answered' = Answered
      BY <2>1, <1>1 DEF Answered
    <3>2. (phase' \in {"stream", "turn_over"}) = FALSE
      BY <2>1
    <3> QED BY <2>1, <3>1, <3>2, <1>1, <1>2, <1>6 DEF PairInv
  <2>5. StreamInv' /\ Numbered' /\ StreamUnderstood'
    BY <2>1, RestInv
  <2> QED BY <2>2, <2>3, <2>4, <2>5 DEF TranscriptInv
<1>8. CASE FinishRun(final) /\ UNCHANGED partials
  <2>1. partials' = partials /\ outcome' = "finish" /\ history' = history /\ turn' = turn /\ retries' = retries
    BY <1>8 DEF FinishRun
  <2>2. Answers(session, u, partials \cup Ids(final))
    <3>1. Ids(turn.msgs) = {}
      BY <1>1, EmptyConv
    <3>2. Answers(session, u, partials \cup Ids(final) \cup Ids(turn.msgs))
      BY <1>3 DEF RunAt
    <3>3. partials \cup Ids(final) \cup Ids(turn.msgs) = partials \cup Ids(final)
      BY <3>1
    <3> QED BY <3>2, <3>3
  <2>3. Settled(session, u, final)
    BY <1>3 DEF RunAt
  <2>4. /\ Grown(session', session, final)
        /\ stored' \in Convs /\ Below(stored', nextId') /\ session' \in Convs /\ Below(session', nextId')
        /\ phase' = "idle" /\ LogInv'
    <3>1. FinishRun(final)
      BY <1>8
    <3> QED BY <2>1, <2>2, <2>3, <3>1, <1>1, <1>2, <1>4, <1>5, FinishLog
  <2>5. ShapeOK'
    BY <2>1, <2>4, <1>1, <1>2, <1>4, <1>5 DEF ShapeOK
  <2>6. PairInv'
    <3>1. SUFFICES ASSUME prov = "responses"
                   PROVE  PairOrder(session') /\ PairOrder(history) /\ \A c \in Answered' : c < N
      <4>1. (phase' \in {"stream", "turn_over"}) = FALSE
        BY <2>4
      <4> QED BY <4>1, <2>1, <1>1 DEF PairInv
    <3>2. PairOrder(session) /\ PairOrder(history) /\ \A c \in Answered : c < N
      BY <3>1, <1>2, <1>6
    <3>3. /\ PairOrder(session')
          /\ CallsOf(session', "response") \subseteq CallsOf(session, "response") \cup CallsOf(final, "response")
      BY <3>2, <2>4, <1>2, PairsGrown
    <3>4. Answered' \subseteq Answered
      BY <3>3, <2>1, <1>1 DEF Answered
    <3> QED BY <3>2, <3>3, <3>4
  <2>7. StreamInv' /\ Numbered' /\ StreamUnderstood'
    BY <2>4, RestInv
  <2> QED BY <2>4, <2>5, <2>6, <2>7 DEF TranscriptInv
<1> QED BY <1>7, <1>8 DEF EmptyTurn

\* The model has said something: its tools answer, and the run goes on or ends.
LEMMA ExecuteTurnInv ==
    ASSUME TranscriptInv, ExecuteTurn
    PROVE  TranscriptInv'
<1> DEFINE N == nextId + MaxLines + 1
           m == turn.msgs[1]
           said == turn.msgs \o ToolMessages(turn.msgs, nextId)
           c == final \o said
           h == history \o said
<1>1. /\ phase = "turn_over" /\ turn.msgs # <<>> /\ nextId' = N /\ final' = c
      /\ prov' = prov /\ replies' = replies /\ faults' = faults /\ partials' = partials
  BY DEF ExecuteTurn
<1>2. /\ nextId \in Nat /\ turn \in Turns /\ turn.msgs \in Convs /\ partials \subseteq Nat
      /\ stored \in Convs /\ session \in Convs /\ history \in Convs /\ final \in Convs
      /\ Below(stored, nextId) /\ Below(session, nextId) /\ Below(history, nextId) /\ Below(final, nextId)
      /\ retries \in [http : 0..MaxRetries, turn : 0..MaxRetries]
      /\ prov \in Providers /\ faults \in Nat /\ replies \in Nat
      /\ Clean(session) /\ nextId \notin Ids(final)
      /\ prov = "responses" => /\ PairOrder(session) /\ PairOrder(history)
                               /\ Answered \cap Saying = {} /\ CallsOf(turn.msgs, "request") \subseteq Saying
                               /\ \A x \in Answered : x \in Nat /\ x < nextId
      /\ \A x \in Saying : x < nextId
  BY <1>1, OverHas
<1>3. PICK u \in DOMAIN session : RunAt(u)
  BY <1>1, OverHas
<1>4. Len(turn.msgs) = 1 /\ Mirrored(session, u, final, m)
  <2>1. turn.msgs = <<>> \/ (Len(turn.msgs) = 1 /\ Mirrored(session, u, final, turn.msgs[1]))
    BY <1>1, <1>3 DEF RunAt
  <2> QED BY <2>1, <1>1
<1>5. MaxLines \in Nat \ {0}
  BY TranscriptAssumption
<1>6. /\ N \in Nat /\ nextId + 1 < N /\ nextId < N /\ MaxLines + 1 \in Nat /\ N = nextId + (MaxLines + 1)
      /\ \A x \in Nat : x < nextId => x < N
  BY <1>2, <1>5
<1>7. /\ Below(stored, N) /\ Below(session, N) /\ Below(history, N)
  BY <1>2, <1>6, BelowMore
<1>8. m \in Msgs /\ DOMAIN turn.msgs = {1}
  BY <1>2, <1>4, ConvFields
<1>9. Told(c, final, m, nextId) /\ Told(h, history, m, nextId)
  <2>1. /\ Told(final \o (turn.msgs \o ToolMessages(turn.msgs, nextId)), final, turn.msgs[1], nextId)
        /\ Told(history \o (turn.msgs \o ToolMessages(turn.msgs, nextId)), history, turn.msgs[1], nextId)
    BY <1>2, <1>4, ToolsTold
  <2> QED BY <2>1
<1>10. /\ turn.tools /\ turn.n < MaxTurns
             => /\ history' = h
                /\ turn' = [n |-> turn.n + 1, msgs |-> <<>>, tools |-> FALSE]
                /\ retries' = [http |-> 0, turn |-> 0]
                /\ phase' = "request"
                /\ stored' = stored /\ session' = session /\ outcome' = outcome
       /\ ~(turn.tools /\ turn.n < MaxTurns) => FinishRun(c)
  BY DEF ExecuteTurn
<1> HIDE DEF said, c, h, N
<1>11. PICK at \in DOMAIN session : at > u /\ session[at] = m
  BY <1>4 DEF Mirrored
<1>12. m.id < nextId /\ m.id \in Nat /\ m.id \notin Ids(final)
  BY <1>2, <1>4, <1>8, <1>11, MessageFields DEF Below, Mirrored
<1>a. Ids(turn.msgs) = {m.id}
  BY <1>8 DEF Ids
<1> HIDE DEF m
<1>13. /\ Ids(c) \subseteq Ids(final) \cup {m.id, nextId + 1} /\ Ids(final) \subseteq Ids(c) /\ m.id \in Ids(c)
       /\ Below(c, N) /\ c \in Convs /\ Below(h, N) /\ h \in Convs
  <2>1. /\ Ids(c) \subseteq Ids(final) \cup {m.id, nextId + 1} /\ Ids(final) \subseteq Ids(c) /\ m.id \in Ids(c)
        /\ Below(c, N)
    BY <1>2, <1>6, <1>8, <1>9, <1>12, ToldIds
  <2>2. Below(h, N)
    BY <1>2, <1>6, <1>8, <1>9, <1>12, ToldIds
  <2>3. c \in Convs /\ h \in Convs
    BY <1>2, <1>8, <1>9, ToldHas
  <2> QED BY <2>1, <2>2, <2>3
<1>14. Settled(session, u, c)
  <2>1. Settled(session, u, final)
    BY <1>3 DEF RunAt
  <2> QED BY <2>1, <1>2, <1>4, <1>8, <1>9, <1>12, SettledMore DEF m
<1>15. Answers(session, u, partials \cup Ids(c))
  <2>1. Answers(session, u, partials \cup Ids(final) \cup Ids(turn.msgs))
    BY <1>3 DEF RunAt
  <2>2. partials \cup Ids(final) \cup Ids(turn.msgs) \subseteq partials \cup Ids(c)
    BY <1>13, <1>a
  <2> QED BY <2>1, <2>2 DEF Answers
<1>16. nextId \notin Ids(c)
  <2>1. nextId # nextId + 1 /\ nextId # m.id
    BY <1>2, <1>12
  <2> QED BY <2>1, <1>2, <1>13
<1>17. ASSUME prov = "responses"
       PROVE  /\ PairOrder(session) /\ PairOrder(history) /\ PairOrder(h)
              /\ \A x \in Answered \cup CallsOf(c, "response") \cup CallsOf(h, "response") : x < N
  <2>1. /\ PairOrder(session) /\ PairOrder(history)
        /\ Answered \cap Saying = {} /\ CallsOf(turn.msgs, "request") \subseteq Saying
        /\ \A x \in Answered : x \in Nat /\ x < nextId
    BY <1>2, <1>17
  <2>2. \A k \in DOMAIN m.blocks : m.blocks[k].kind = "response" => m.blocks[k].call \in Answered
    <3>1. \A k \in DOMAIN m.blocks : m.blocks[k].kind = "response" => m.blocks[k].call \in CallsOf(session, "response")
      BY <1>11, CallsOfIs
    <3> QED BY <3>1 DEF Answered
  <2>3. \A k \in DOMAIN m.blocks : m.blocks[k].kind = "request" => m.blocks[k].call \in CallsOf(turn.msgs, "request")
    BY <1>8, CallsOfIs DEF m
  <2>4. \A k \in DOMAIN m.blocks : m.blocks[k].kind = "request" =>
          m.blocks[k].call \notin Answered /\ m.blocks[k].call < nextId /\ m.blocks[k].call \in Nat
    <3>1. \A x \in CallsOf(turn.msgs, "request") : x \in Nat
      BY <1>2, CallsNat
    <3> QED BY <3>1, <2>1, <2>3, <1>2
  <2>5. CallsOf(history, "response") \subseteq Answered /\ CallsOf(final, "response") \subseteq Answered
    BY DEF Answered
  <2>6. PairOrder(h)
    BY <2>1, <2>2, <2>4, <2>5, <1>2, <1>8, <1>9, PairsTold
  <2>7. ASSUME NEW x, x \in CallsOf(c, "response") \/ x \in CallsOf(h, "response") PROVE x < N
    <3>1. x \in Answered \/ \E l \in DOMAIN m.blocks : m.blocks[l].kind = "request" /\ m.blocks[l].call = x
      BY <2>2, <2>5, <2>7, <1>2, <1>8, <1>9, ToldCalls
    <3>2. x \in Nat /\ x < nextId
      BY <3>1, <2>1, <2>4
    <3> QED BY <3>2, <1>6
  <2>8. \A x \in Answered : x < N
    BY <2>1, <1>6
  <2> QED BY <2>1, <2>6, <2>7, <2>8
<1>18. CASE turn.tools /\ turn.n < MaxTurns
  <2> DEFINE e == <<>>
             t == [n |-> turn.n + 1, msgs |-> e, tools |-> FALSE]
  <2>1. /\ history' = h /\ turn' = t
        /\ retries' = [http |-> 0, turn |-> 0]
        /\ phase' = "request"
        /\ stored' = stored /\ session' = session /\ outcome' = outcome
    BY <1>10, <1>18
  <2>2. t \in Turns /\ turn'.msgs = e
    <3>1. turn.n + 1 \in 1..MaxTurns
      <4>1. turn.n \in 1..MaxTurns /\ MaxTurns \in Nat
        BY <1>2, TurnFields, TranscriptAssumption
      <4> QED BY <4>1, <1>18
    <3>2. e \in Convs
      BY EmptyConv
    <3>3. t.msgs = e
      OBVIOUS
    <3> DEFINE C == Convs
               I == 1..MaxTurns
               n == turn.n + 1
    <3>4. e \in C /\ n \in I /\ t = [n |-> n, msgs |-> e, tools |-> FALSE] /\ Turns = [n : I, msgs : C, tools : BOOLEAN]
      BY <3>1, <3>2 DEF Turns
    <3> HIDE DEF C, I, n, e, t
    <3>5. t \in Turns
      BY <3>4
    <3> QED BY <3>3, <3>5, <2>1
  <2> HIDE DEF e, t
  <2>3. /\ DOMAIN e = {} /\ Ids(e) = {} /\ CallsOf(e, "request") = {}
    BY EmptyConv DEF e
  <2>4. ShapeOK'
    <3>1. retries' \in [http : 0..MaxRetries, turn : 0..MaxRetries]
      BY <2>1, TranscriptAssumption
    <3>2. outcome' \in {"none", "finish", "error"}
      BY <2>1 DEF TranscriptInv, ShapeOK
    <3> QED BY <2>1, <2>2, <3>1, <3>2, <1>1, <1>2, <1>6, <1>7, <1>13 DEF ShapeOK
  <2>5. RunAt(u)'
    <3>1. (phase' \in {"stream", "turn_over"}) = FALSE
      BY <2>1
    <3>2. Ids(turn'.msgs) = {}
      BY <2>2, <2>3
    <3>3. partials \cup Ids(c) \cup Ids(turn'.msgs) = partials \cup Ids(c)
      BY <3>2
    <3>4. Answers(session, u, partials \cup Ids(c) \cup Ids(turn'.msgs))
      BY <3>3, <1>15
    <3>5. (Answers(session, u, partials \cup Ids(final) \cup Ids(turn.msgs)) /\ Settled(session, u, final))'
      BY <3>4, <2>1, <1>1, <1>14
    <3>6. (Ids(turn.msgs) \subseteq partials)'
      BY <3>2
    <3> QED BY <3>1, <3>5, <3>6 DEF RunAt
  <2>6. LogInv'
    <3>1. (phase' = "idle") = FALSE
      BY <2>1
    <3>2. FinishedRunStored'
      BY <3>1 DEF FinishedRunStored
    <3>3. \E w \in DOMAIN session' : RunAt(w)'
      BY <2>1, <2>5
    <3> QED BY <2>1, <3>1, <3>2, <3>3, <1>2 DEF LogInv
  <2>7. PairInv'
    <3>1. (phase' \in {"stream", "turn_over"}) = FALSE
      BY <2>1
    <3>2. Answered' \subseteq Answered \cup CallsOf(c, "response") \cup CallsOf(h, "response")
      BY <2>1, <1>1 DEF Answered
    <3> QED BY <3>1, <3>2, <2>1, <1>1, <1>17 DEF PairInv
  <2>8. StreamInv' /\ Numbered' /\ StreamUnderstood'
    BY <2>1, RestInv
  <2> QED BY <2>4, <2>6, <2>7, <2>8 DEF TranscriptInv
<1>19. CASE ~(turn.tools /\ turn.n < MaxTurns)
  <2>1. FinishRun(c)
    BY <1>10, <1>19
  <2>2. outcome' = "finish" /\ history' = history /\ turn' = turn /\ retries' = retries
    BY <2>1 DEF FinishRun
  <2>3. /\ Grown(session', session, c)
        /\ stored' \in Convs /\ Below(stored', nextId') /\ session' \in Convs /\ Below(session', nextId')
        /\ phase' = "idle" /\ LogInv'
    BY <2>1, <1>1, <1>2, <1>6, <1>13, <1>14, <1>15, <1>16, FinishLog
  <2>4. ShapeOK'
    BY <2>2, <2>3, <1>1, <1>2, <1>6, <1>7, <1>13 DEF ShapeOK
  <2>5. PairInv'
    <3>1. (phase' \in {"stream", "turn_over"}) = FALSE
      BY <2>3
    <3>2. ASSUME prov = "responses"
          PROVE  PairOrder(session') /\ PairOrder(history) /\ \A x \in Answered' : x < N
      <4>1. /\ PairOrder(session) /\ PairOrder(history)
            /\ \A x \in Answered \cup CallsOf(c, "response") \cup CallsOf(h, "response") : x < N
        BY <3>2, <1>17
      <4>2. /\ PairOrder(session')
            /\ CallsOf(session', "response") \subseteq CallsOf(session, "response") \cup CallsOf(c, "response")
        BY <4>1, <2>3, <1>2, <1>13, PairsGrown
      <4>3. Answered' \subseteq Answered \cup CallsOf(c, "response")
        BY <4>2, <2>2, <1>1 DEF Answered
      <4> QED BY <4>1, <4>2, <4>3
    <3> QED BY <3>1, <3>2, <2>2, <1>1 DEF PairInv
  <2>6. StreamInv' /\ Numbered' /\ StreamUnderstood'
    BY <2>3, RestInv
  <2> QED BY <2>3, <2>4, <2>5, <2>6 DEF TranscriptInv
<1> QED BY <1>18, <1>19

\* A sequence of elements of another set.
LEMMA SeqInto ==
    ASSUME NEW S, NEW s \in Seq(S), NEW T, \A i \in DOMAIN s : s[i] \in T
    PROVE  s \in Seq(T)
<1> DEFINE n == Len(s)
<1>1. n \in Nat /\ DOMAIN s = 1..n /\ s = [i \in 1..n |-> s[i]]
  OBVIOUS
<1> HIDE DEF n
<1>2. s \in [1..n -> T]
  BY <1>1
<1> QED BY <1>1, <1>2

-----------------------------------------------------------------------------
(* Preparing a reply                                                       *)

\* The placeholder of the last run goes, and nothing else.
LEMMA StripIs ==
    ASSUME stored \in Convs, session \in Convs, Clean(session), StoredOK
    PROVE  StripPlaceholders(stored) = session
<1> DEFINE T == {m \in ToSet(stored) : m.blocks[1].kind # "no_reply"}
<1>1. StripPlaceholders(stored) = Only(stored, T)
  BY DEF StripPlaceholders
<1>2. \A m : m \in T <=> m.blocks[1].kind # "no_reply" /\ \E i \in DOMAIN stored : m = stored[i]
  BY DEF ToSet
<1>3. session \in Seq(Msgs) /\ stored \in Seq(Msgs) /\ \A i \in DOMAIN session : session[i].blocks[1].kind # "no_reply"
  BY DEF Convs, Clean
<1> HIDE DEF T
<1>4. CASE stored = session
  <2>1. \A i \in DOMAIN session : session[i] \in T
    BY <1>2, <1>3, <1>4
  <2>2. session \in Seq(T)
    BY <2>1, <1>3, SeqInto
  <2> QED BY <2>2, <1>1, <1>4, OnlyAll
<1>5. ASSUME NEW id \in Nat, stored = Append(session, Placeholder(id))
      PROVE  StripPlaceholders(stored) = session
  <2> DEFINE p == Placeholder(id)
  <2>1. p \in Msgs /\ p.blocks[1].kind = "no_reply"
    BY PlaceholderIs
  <2>2. stored = Append(session, p)
    BY <1>5
  <2> HIDE DEF p
  <2>3. \A i \in DOMAIN session : i \in DOMAIN stored /\ stored[i] = session[i]
    BY <1>3, <2>1, <2>2
  <2>4. \A i \in DOMAIN session : session[i] \in T
    BY <1>2, <1>3, <2>3
  <2>5. session \in Seq(T)
    BY <2>4, <1>3, SeqInto
  <2>6. p \notin T
    BY <2>1, <1>2
  <2>7. Only(Append(session, p), T) = Only(session, T)
    BY <1>3, <2>1, <2>6, OnlyAppend
  <2>8. Only(session, T) = session
    BY <2>5, OnlyAll
  <2> QED BY <1>1, <2>2, <2>7, <2>8
<1> QED BY <1>4, <1>5 DEF StoredOK

\* c is conv, or a summary with number n and the end of conv, from place d + 2 on.
Compacted(c, conv, n) ==
    \/ c = conv
    \/ \E d \in Nat, s \in Msgs :
         /\ s.id = n /\ \A k \in DOMAIN s.blocks : s.blocks[k].kind = "summary"
         /\ c \in Convs /\ 1 \in DOMAIN c /\ c[1] = s
         /\ \A i \in DOMAIN c : i # 1 => i > 1 /\ i + d \in DOMAIN conv /\ c[i] = conv[i + d]

\* The summary is a message without text or calls.
LEMMA SummaryIs ==
    ASSUME NEW n \in Nat, NEW s, s = Message(n, "system", <<[kind |-> "summary"]>>)
    PROVE  s \in Msgs /\ s.id = n /\ \A k \in DOMAIN s.blocks : s.blocks[k].kind = "summary"
<1> DEFINE b == [kind |-> "summary"]
           q == <<b>>
           role == "system"
<1>1. b \in Blocks /\ b.kind = "summary"
  BY DEF Blocks, Marks
<1>2. role \in Roles
  BY DEF Roles
<1>3. s = Message(n, role, q)
  OBVIOUS
<1> HIDE DEF b, role
<1>4. q \in Seq(Blocks) /\ q # <<>> /\ \A k \in DOMAIN q : q[k] = b
  BY <1>1
<1> HIDE DEF q
<1>5. s \in Msgs /\ s.id = n /\ s.blocks = q
  BY <1>2, <1>3, <1>4, MessageIs
<1> QED BY <1>1, <1>4, <1>5

\* The end of a sequence after another element.
LEMMA LastOnes ==
    ASSUME NEW S, NEW q \in Seq(S), NEW s \in S, NEW k \in Nat, k <= Len(q), k # 0
    PROVE  LET c == <<s>> \o SubSeq(q, Len(q) - k + 1, Len(q))
           IN  /\ c \in Seq(S) /\ 1 \in DOMAIN c /\ c[1] = s
               /\ \A i \in DOMAIN c : i # 1 =>
                    i > 1 /\ i + (Len(q) - k - 1) \in DOMAIN q /\ c[i] = q[i + (Len(q) - k - 1)]
<1> DEFINE n == Len(q)
           e == SubSeq(q, n - k + 1, n)
           c == <<s>> \o e
<1>1. n \in Nat /\ DOMAIN q = 1..n /\ \A i \in 1..n : q[i] \in S
  OBVIOUS
<1>2. e \in Seq(S) /\ Len(e) = k /\ \A i \in 1..k : e[i] = q[n - k + i]
  <2>1. n - k + 1 \in 1..(n + 1)
    BY <1>1
  <2>2. e = [i \in 1..k |-> q[n - k + i]]
    BY <1>1, <2>1
  <2>3. \A i \in 1..k : q[n - k + i] \in S
    <3>1. \A i \in 1..k : n - k + i \in 1..n
      BY <1>1
    <3> HIDE DEF n
    <3> QED BY <1>1, <3>1
  <2> HIDE DEF e, n
  <2>4. e \in [1..k -> S]
    BY <2>2, <2>3
  <2>5. e \in Seq(S) /\ Len(e) = k
    BY <2>4
  <2> QED BY <2>2, <2>5
<1> HIDE DEF e, n
<1>3. /\ c \in Seq(S) /\ Len(c) = k + 1 /\ DOMAIN c = 1..(k + 1) /\ c[1] = s
      /\ \A i \in 2..(k + 1) : c[i] = e[i - 1]
  BY <1>2
<1>4. 1 \in DOMAIN c
  BY <1>3
<1>5. ASSUME NEW i \in DOMAIN c, i # 1
      PROVE  i > 1 /\ i + (n - k - 1) \in DOMAIN q /\ c[i] = q[i + (n - k - 1)]
  <2>1. i \in 2..(k + 1) /\ i - 1 \in 1..k /\ i > 1
    BY <1>3, <1>5
  <2>2. c[i] = q[n - k + (i - 1)]
    BY <2>1, <1>2, <1>3
  <2>3. n - k + (i - 1) = i + (n - k - 1) /\ i + (n - k - 1) \in 1..n
    BY <2>1, <1>1
  <2> QED BY <2>1, <2>2, <2>3, <1>1
<1> QED BY <1>3, <1>4, <1>5 DEF c, e, n

\* Compaction gives the history, or a summary and its end.
LEMMA CompactIs ==
    ASSUME NEW conv \in Convs, NEW n \in Nat
    PROVE  Compacted(Compact(conv, n), conv, n)
<1> DEFINE k == PreserveRecent
           s == Message(n, "system", <<[kind |-> "summary"]>>)
           c == <<s>> \o SubSeq(conv, Len(conv) - k + 1, Len(conv))
           d == Len(conv) - k - 1
<1>1. Compact(conv, n) = conv \/ (Len(conv) > k /\ k # 0 /\ Compact(conv, n) = c)
  <2>1. CASE Threshold = 0 \/ Len(conv) < Threshold \/ k = 0 \/ Len(conv) <= k
    BY <2>1 DEF Compact
  <2>2. CASE ~ (Threshold = 0 \/ Len(conv) < Threshold \/ k = 0 \/ Len(conv) <= k)
    <3>1. Len(conv) > k /\ k # 0
      BY <2>2, ConvFields, TranscriptAssumption
    <3> QED BY <3>1, <2>2 DEF Compact
  <2> QED BY <2>1, <2>2
<1>2. s \in Msgs /\ s.id = n /\ \A j \in DOMAIN s.blocks : s.blocks[j].kind = "summary"
  BY SummaryIs
<1>3. k \in Nat /\ Len(conv) \in Nat
  BY ConvFields, TranscriptAssumption
<1>4. CASE Len(conv) > k /\ k # 0 /\ Compact(conv, n) = c
  <2>1. conv \in Seq(Msgs)
    BY DEF Convs
  <2>2. k <= Len(conv) /\ d \in Nat
    BY <1>3, <1>4
  <2> HIDE DEF s, k
  <2>3. /\ c \in Seq(Msgs) /\ 1 \in DOMAIN c /\ c[1] = s
        /\ \A i \in DOMAIN c : i # 1 => i > 1 /\ i + d \in DOMAIN conv /\ c[i] = conv[i + d]
    BY <1>2, <1>3, <1>4, <2>1, <2>2, LastOnes, SMTT(30)
  <2> HIDE DEF c, d
  <2>4. c \in Convs
    BY <2>3 DEF Convs
  <2>5. Compacted(c, conv, n)
    BY <1>2, <2>2, <2>3, <2>4 DEF Compacted
  <2> QED BY <2>5, <1>4
<1>5. CASE Compact(conv, n) = conv
  BY <1>5 DEF Compacted
<1> QED BY <1>1, <1>4, <1>5

\* What is compacted is a history like the one it comes from.
LEMMA CompactedHas ==
    ASSUME NEW conv \in Convs, Clean(conv), NEW n \in Nat, Below(conv, n), NEW c, Compacted(c, conv, n)
    PROVE  /\ c \in Convs /\ Clean(c) /\ Below(c, n + 1)
           /\ PairOrder(conv) => PairOrder(c)
           /\ \A x : x \in CallsOf(c, "response") => x \in CallsOf(conv, "response")
<1>1. CASE c = conv
  BY <1>1, BelowMore
<1>2. ASSUME NEW d \in Nat, NEW s \in Msgs,
             s.id = n, \A k \in DOMAIN s.blocks : s.blocks[k].kind = "summary",
             c \in Convs, 1 \in DOMAIN c, c[1] = s,
             \A i \in DOMAIN c : i # 1 => i > 1 /\ i + d \in DOMAIN conv /\ c[i] = conv[i + d]
      PROVE  /\ Clean(c) /\ Below(c, n + 1)
             /\ PairOrder(conv) => PairOrder(c)
             /\ \A x : x \in CallsOf(c, "response") => x \in CallsOf(conv, "response")
  <2>1. \A i \in DOMAIN c : i \in Nat
    BY <1>2, ConvFields
  <2>2. \A i \in DOMAIN conv : conv[i].id \in Nat /\ conv[i].id < n /\ conv[i].id < n + 1
    BY ConvFields, MessageFields DEF Below
  <2>3. \A i \in DOMAIN c : i # 1 => c[i].id # n /\ c[i].id < n + 1
    BY <1>2, <2>2
  <2>4. Below(c, n + 1)
    <3>1. n < n + 1
      OBVIOUS
    <3> QED BY <3>1, <1>2, <2>3 DEF Below
  <2>5. Clean(c)
    <3>1. ASSUME NEW i \in DOMAIN c, NEW j \in DOMAIN c, c[i].id = c[j].id PROVE i = j
      <4>1. CASE i = 1
        BY <4>1, <3>1, <1>2, <2>3
      <4>2. CASE j = 1
        BY <4>2, <3>1, <1>2, <2>3
      <4>3. CASE i # 1 /\ j # 1
        <5>1. i + d = j + d
          BY <4>3, <3>1, <1>2 DEF Clean, Unique
        <5> QED BY <5>1, <2>1
      <4> QED BY <4>1, <4>2, <4>3
    <3>2. ASSUME NEW i \in DOMAIN c PROVE c[i].blocks[1].kind # "no_reply"
      <4>1. CASE i = 1
        <5>1. s.blocks[1].kind = "summary"
          BY <1>2, MessageFields
        <5> QED BY <5>1, <4>1, <1>2
      <4>2. CASE i # 1
        BY <4>2, <1>2 DEF Clean
      <4> QED BY <4>1, <4>2
    <3> QED BY <3>1, <3>2 DEF Clean, Unique
  <2>6. ASSUME NEW i \in DOMAIN c, NEW k \in DOMAIN c[i].blocks, c[i].blocks[k].kind \in {"request", "response"}
        PROVE  i # 1
    BY <2>6, <1>2
  <2>7. ASSUME PairOrder(conv) PROVE PairOrder(c)
    <3>1. SUFFICES ASSUME NEW i \in DOMAIN c, NEW j \in DOMAIN c,
                   NEW k \in DOMAIN c[i].blocks, NEW l \in DOMAIN c[j].blocks,
                   c[i].blocks[k].kind = "request", c[j].blocks[l].kind = "response",
                   c[i].blocks[k].call = c[j].blocks[l].call
                   PROVE  i < j
      BY DEF PairOrder
    <3>2. i # 1 /\ j # 1
      BY <2>6, <3>1
    <3>3. /\ i + d \in DOMAIN conv /\ j + d \in DOMAIN conv
          /\ c[i] = conv[i + d] /\ c[j] = conv[j + d]
      BY <1>2, <3>2
    <3>4. i + d < j + d
      BY <2>7, <3>1, <3>3 DEF PairOrder
    <3> QED BY <3>4, <2>1
  <2>8. ASSUME NEW x, x \in CallsOf(c, "response") PROVE x \in CallsOf(conv, "response")
    <3>1. PICK i \in DOMAIN c : \E k \in DOMAIN c[i].blocks :
             c[i].blocks[k].kind = "response" /\ c[i].blocks[k].call = x
      BY <2>8, CallsOfIs
    <3>2. i # 1
      BY <2>6, <3>1
    <3>3. i + d \in DOMAIN conv /\ c[i] = conv[i + d]
      BY <1>2, <3>2
    <3> QED BY <3>1, <3>3, CallsOfIs
  <2> QED BY <2>4, <2>5, <2>7, <2>8
<1> QED BY <1>1, <1>2 DEF Compacted

\* What the user says.
LEMMA UserIs ==
    ASSUME NEW id \in Nat, NEW t \in Seq(Nat), NEW m, m = Message(id, "user", <<TextBlock(t)>>)
    PROVE  /\ m \in Msgs /\ m.id = id /\ m.role = "user" /\ \A k \in DOMAIN m.blocks : m.blocks[k].kind = "text"
<1> DEFINE b == TextBlock(t)
           q == <<b>>
           role == "user"
<1>1. b \in Blocks /\ b.kind = "text"
  BY BlockKinds DEF TextBlock
<1>2. role \in Roles /\ role = "user"
  BY DEF Roles
<1>3. m = Message(id, role, q)
  OBVIOUS
<1> HIDE DEF b, role
<1>4. q \in Seq(Blocks) /\ q # <<>> /\ \A k \in DOMAIN q : q[k] = b
  BY <1>1
<1> HIDE DEF q
<1>5. m \in Msgs /\ m.id = id /\ m.role = role /\ m.blocks = q
  BY <1>2, <1>3, <1>4, MessageIs
<1> QED BY <1>1, <1>2, <1>4, <1>5

\* What is answered in c is answered in conv, if the messages with answers are its.
LEMMA SameCalls ==
    ASSUME NEW conv, NEW c,
           \A i \in DOMAIN c : \A l \in DOMAIN c[i].blocks :
              c[i].blocks[l].kind \in {"request", "response"} => i \in DOMAIN conv /\ c[i] = conv[i],
           NEW x, x \in CallsOf(c, "response")
    PROVE  x \in CallsOf(conv, "response")
<1>1. PICK i \in DOMAIN c : \E l \in DOMAIN c[i].blocks :
         c[i].blocks[l].kind = "response" /\ c[i].blocks[l].call = x
  BY CallsOfIs
<1>2. i \in DOMAIN conv /\ c[i] = conv[i]
  BY <1>1
<1> QED BY <1>1, <1>2, CallsOfIs

\* A message of the user keeps a history in order.
LEMMA UserAdded ==
    ASSUME NEW conv \in Convs, Clean(conv), NEW n \in Nat, Below(conv, n), NEW m \in Msgs, m.id = n,
           \A k \in DOMAIN m.blocks : m.blocks[k].kind = "text",
           NEW c, c = Append(conv, m)
    PROVE  /\ c \in Convs /\ Clean(c) /\ Below(c, n + 1)
           /\ PairOrder(conv) => PairOrder(c)
           /\ \A x : x \in CallsOf(c, "response") => x \in CallsOf(conv, "response")
           /\ Len(conv) + 1 \in DOMAIN c /\ c[Len(conv) + 1] = m /\ \A i \in DOMAIN c : i <= Len(conv) + 1
<1> DEFINE k == Len(conv)
<1>1. /\ c \in Convs /\ k \in Nat /\ DOMAIN conv = 1..k /\ DOMAIN c = 1..(k + 1) /\ c[k + 1] = m
      /\ \A i \in DOMAIN conv : c[i] = conv[i]
      /\ Unique(conv) /\ m.id \notin Ids(conv) => Unique(c)
  BY AppendIs, ConvFields
<1> HIDE DEF k
<1>2. \A i \in DOMAIN conv : conv[i].id \in Nat /\ conv[i].id < n
  BY ConvFields, MessageFields DEF Below
<1>3. \A i \in DOMAIN c : (i \in DOMAIN conv /\ c[i] = conv[i]) \/ (i = k + 1 /\ c[i] = m)
  BY <1>1
<1>4. Below(c, n + 1)
  <2>1. n < n + 1 /\ \A x \in Nat : x < n => x < n + 1
    OBVIOUS
  <2> QED BY <2>1, <1>2, <1>3 DEF Below
<1>5. Clean(c)
  <2>1. m.id \notin Ids(conv)
    BY <1>2 DEF Ids
  <2>2. m.blocks[1].kind = "text"
    BY MessageFields
  <2> QED BY <2>1, <2>2, <1>1, <1>3 DEF Clean
<1>6. ASSUME NEW i \in DOMAIN c, NEW l \in DOMAIN c[i].blocks, c[i].blocks[l].kind \in {"request", "response"}
      PROVE  i \in DOMAIN conv /\ c[i] = conv[i]
  BY <1>3, <1>6
<1>7. ASSUME PairOrder(conv) PROVE PairOrder(c)
  BY <1>6, <1>7 DEF PairOrder
<1>8. \A x : x \in CallsOf(c, "response") => x \in CallsOf(conv, "response")
  BY <1>6, SameCalls
<1>9. k + 1 \in DOMAIN c /\ \A i \in DOMAIN c : i <= k + 1
  BY <1>1
<1> QED BY <1>1, <1>4, <1>5, <1>7, <1>8, <1>9 DEF k

\* A reply begins: the history is cut to size and the user's message added to both copies.
LEMMA PrepareInv ==
    ASSUME TranscriptInv, Prepare
    PROVE  TranscriptInv'
<1> DEFINE conv == Compact(StripPlaceholders(stored), nextId)
           t == <<nextId + 1>>
           user == Message(nextId + 1, "user", <<TextBlock(t)>>)
           user2 == [user EXCEPT !.id = nextId + 2]
           e == <<>>
           lost == {}
           none == "none"
           first == [n |-> 1, msgs |-> e, tools |-> FALSE]
           N == nextId + 3
<1>1. /\ phase = "idle" /\ phase' = "request"
      /\ session' = Append(conv, user) /\ history' = Append(conv, user2)
      /\ nextId' = N /\ replies' = replies + 1
      /\ final' = e /\ partials' = lost /\ outcome' = none
      /\ turn' = first
      /\ retries' = [http |-> 0, turn |-> 0]
      /\ prov' = prov /\ stored' = stored /\ faults' = faults
  BY DEF Prepare
<1>2. /\ nextId \in Nat /\ stored \in Convs /\ session \in Convs
      /\ Below(stored, nextId) /\ Below(session, nextId)
      /\ prov \in Providers /\ faults \in Nat /\ replies \in Nat
  BY DEF TranscriptInv, ShapeOK
<1>3. Clean(session) /\ StoredOK
  BY <1>1 DEF TranscriptInv, LogInv
<1>4. StripPlaceholders(stored) = session
  BY <1>2, <1>3, StripIs
<1>5. Compacted(conv, session, nextId)
  BY <1>2, <1>4, CompactIs
<1> HIDE DEF conv
<1>6. /\ conv \in Convs /\ Clean(conv) /\ Below(conv, nextId + 1)
      /\ PairOrder(session) => PairOrder(conv)
      /\ \A x : x \in CallsOf(conv, "response") => x \in CallsOf(session, "response")
  BY <1>2, <1>3, <1>5, CompactedHas
<1>7. t \in Seq(Nat) /\ nextId + 1 \in Nat /\ nextId + 2 \in Nat /\ N \in Nat
  BY <1>2
<1>8. user2 = Message(nextId + 2, "user", <<TextBlock(t)>>)
  BY DEF Message
<1> HIDE DEF t
<1>9. /\ user \in Msgs /\ user.id = nextId + 1 /\ user.role = "user"
      /\ \A k \in DOMAIN user.blocks : user.blocks[k].kind = "text"
  BY <1>7, UserIs
<1>10. /\ user2 \in Msgs /\ user2.id = nextId + 2
       /\ \A k \in DOMAIN user2.blocks : user2.blocks[k].kind = "text"
  BY <1>7, <1>8, UserIs
<1> HIDE DEF user, user2
<1>11. Below(conv, nextId + 2)
  <2>1. Below(conv, (nextId + 1) + 1)
    BY <1>6, <1>7, BelowMore
  <2>2. (nextId + 1) + 1 = nextId + 2
    BY <1>2
  <2> QED BY <2>1, <2>2
<1>u. PICK u : u = Len(conv) + 1
  OBVIOUS
<1>12. /\ session' \in Convs /\ Clean(session') /\ Below(session', (nextId + 1) + 1)
       /\ PairOrder(conv) => PairOrder(session')
       /\ \A x : x \in CallsOf(session', "response") => x \in CallsOf(conv, "response")
       /\ u \in DOMAIN session' /\ session'[u] = user /\ \A i \in DOMAIN session' : i <= u
  <2> DEFINE c == session'
  <2> DEFINE n == nextId + 1
  <2>1. c = Append(conv, user) /\ conv \in Convs /\ Clean(conv) /\ Below(conv, n) /\ n \in Nat /\ user.id = n
    BY <1>1, <1>6, <1>7, <1>9
  <2> HIDE DEF c, n
  <2>a. user \in Msgs /\ \A i \in DOMAIN user.blocks : user.blocks[i].kind = "text"
    BY <1>9
  <2>2. /\ c \in Convs /\ Clean(c) /\ Below(c, n + 1)
        /\ PairOrder(conv) => PairOrder(c)
        /\ \A x : x \in CallsOf(c, "response") => x \in CallsOf(conv, "response")
        /\ Len(conv) + 1 \in DOMAIN c /\ c[Len(conv) + 1] = user /\ \A i \in DOMAIN c : i <= Len(conv) + 1
    BY <2>1, <2>a, UserAdded
  <2> QED BY <2>2, <1>u DEF c, n
<1>13. /\ history' \in Convs /\ Below(history', (nextId + 2) + 1)
       /\ PairOrder(conv) => PairOrder(history')
       /\ \A x : x \in CallsOf(history', "response") => x \in CallsOf(conv, "response")
  <2> DEFINE c == history'
  <2>1. c = Append(conv, user2)
    BY <1>1
  <2> HIDE DEF c
  <2>2. /\ c \in Convs /\ Clean(c) /\ Below(c, (nextId + 2) + 1)
        /\ PairOrder(conv) => PairOrder(c)
        /\ \A x : x \in CallsOf(c, "response") => x \in CallsOf(conv, "response")
        /\ Len(conv) + 1 \in DOMAIN c /\ c[Len(conv) + 1] = user2 /\ \A i \in DOMAIN c : i <= Len(conv) + 1
    BY <2>1, <1>6, <1>7, <1>10, <1>11, UserAdded
  <2> QED BY <2>2 DEF c
<1>14. /\ e \in Convs /\ DOMAIN e = {} /\ Ids(e) = {} /\ Unique(e) /\ \A n : Below(e, n)
       /\ CallsOf(e, "response") = {} /\ CallsOf(e, "request") = {}
       /\ (e = <<>>) = TRUE
  BY EmptyConv
<1>15. first \in Turns /\ first.msgs = e
  <2> DEFINE C == Convs
             I == 1..MaxTurns
  <2>1. e \in C /\ 1 \in I /\ Turns = [n : I, msgs : C, tools : BOOLEAN]
    BY <1>14, TranscriptAssumption DEF Turns
  <2> HIDE DEF C, I, e
  <2>2. first \in [n : I, msgs : C, tools : BOOLEAN] /\ first.msgs = e
    BY <2>1
  <2> QED BY <2>1, <2>2
<1> HIDE DEF e, first
<1>16. ShapeOK'
  <2>1. (nextId + 1) + 1 + 1 = N /\ (nextId + 2) + 1 = N /\ nextId + 3 = N /\ (nextId + 1) + 1 \in Nat
    BY <1>2
  <2>2. Below(session', N) /\ Below(history', N) /\ Below(stored, N) /\ Below(e, N)
    <3>1. Below(session', (nextId + 1) + 1 + 1)
      BY <1>12, <2>1, BelowMore
    <3>2. Below(stored, nextId + 3)
      BY <1>2, BelowMore
    <3> QED BY <3>1, <3>2, <2>1, <1>13, <1>14
  <2>3. retries' \in [http : 0..MaxRetries, turn : 0..MaxRetries]
    BY <1>1, TranscriptAssumption
  <2>4. outcome' \in {"none", "finish", "error"}
    BY <1>1
  <2>5. partials' \subseteq Nat
    BY <1>1
  <2>6. replies' \in Nat
    BY <1>1, <1>2
  <2> HIDE DEF N, lost, none
  <2> QED BY <2>2, <2>3, <2>4, <2>5, <2>6, <1>1, <1>2, <1>7, <1>12, <1>13, <1>14, <1>15 DEF ShapeOK
<1> HIDE DEF N, lost, none
<1>17. RunAt(u)'
  <2>1. (phase' \in {"stream", "turn_over"}) = FALSE
    BY <1>1
  <2>2. turn'.msgs = e /\ final' = e
    BY <1>1, <1>15
  <2>3. u \in Nat /\ \A i \in DOMAIN session' : i \in Nat
    BY <1>6, <1>12, ConvFields
  <2>4. ASSUME NEW ids PROVE Answers(session', u, ids)
    <3>1. \A i \in DOMAIN session' : ~ (i > u)
      BY <2>3, <1>12
    <3> QED BY <3>1, <1>9, <1>12 DEF Answers
  <2>5. Settled(session', u, e)
    BY <1>14 DEF Settled
  <2>6. Answers(session', u, partials' \cup Ids(e) \cup Ids(e))
    BY <2>4
  <2>7. (Answers(session, u, partials \cup Ids(final) \cup Ids(turn.msgs)) /\ Settled(session, u, final))'
    BY <2>2, <2>5, <2>6
  <2>8. (Ids(turn.msgs) \subseteq partials)'
    BY <2>2, <1>14
  <2> QED BY <2>1, <2>7, <2>8 DEF RunAt
<1>18. LogInv'
  <2>1. (phase' = "idle") = FALSE
    BY <1>1
  <2>2. FinishedRunStored'
    BY <2>1 DEF FinishedRunStored
  <2>3. \E w \in DOMAIN session' : RunAt(w)'
    BY <1>12, <1>17
  <2> QED BY <2>1, <2>2, <2>3, <1>12 DEF LogInv
<1>19. PairInv'
  <2>1. (phase' \in {"stream", "turn_over"}) = FALSE
    BY <1>1
  <2>2. SUFFICES ASSUME prov = "responses"
                 PROVE  PairOrder(session') /\ PairOrder(history') /\ \A c \in Answered' : c < nextId'
    BY <2>1, <1>1 DEF PairInv
  <2>3. PairOrder(session) /\ \A c \in Answered : c < nextId
    BY <2>2 DEF TranscriptInv, PairInv
  <2>4. ASSUME NEW c \in Answered' PROVE c < nextId'
    <3>1. c \in CallsOf(session', "response") \/ c \in CallsOf(history', "response") \/ c \in CallsOf(e, "response")
      BY <2>4, <1>1 DEF Answered
    <3>2. c \in CallsOf(session, "response")
      BY <3>1, <1>6, <1>12, <1>13, <1>14
    <3>3. c \in Nat /\ c < nextId
      BY <3>2, <2>3, <1>2, CallsNat DEF Answered
    <3> QED BY <3>3, <1>1, <1>2 DEF N
  <2> QED BY <2>3, <2>4, <1>6, <1>12, <1>13
<1>20. StreamInv' /\ Numbered' /\ StreamUnderstood'
  BY <1>1, RestInv
<1> QED BY <1>16, <1>18, <1>19, <1>20 DEF TranscriptInv

-----------------------------------------------------------------------------
(* Every step keeps the invariant                                          *)

\* A session begins with nothing.
LEMMA InitInv ==
    ASSUME Init
    PROVE  TranscriptInv
<1> DEFINE e == <<>>
           none == "none"
           first == [n |-> 1, msgs |-> e, tools |-> FALSE]
<1>1. /\ prov \in Providers
      /\ stored = e /\ session = e /\ history = e /\ final = e
      /\ turn = first
      /\ retries = [http |-> 0, turn |-> 0]
      /\ partials = {} /\ outcome = none /\ replies = 0 /\ faults = 0
      /\ nextId = 1 /\ phase = "idle"
  BY DEF Init
<1>2. /\ e \in Convs /\ Clean(e) /\ PairOrder(e) /\ \A n : Below(e, n)
      /\ CallsOf(e, "response") = {} /\ CallsOf(e, "request") = {}
  BY EmptyConv
<1>3. first \in Turns
  <2> DEFINE C == Convs
             I == 1..MaxTurns
  <2>1. e \in C /\ 1 \in I /\ Turns = [n : I, msgs : C, tools : BOOLEAN]
    BY <1>2, TranscriptAssumption DEF Turns
  <2> HIDE DEF C, I, e
  <2>2. first \in [n : I, msgs : C, tools : BOOLEAN]
    BY <2>1
  <2> QED BY <2>1, <2>2
<1>4. outcome \in {"none", "finish", "error"} /\ (outcome = "finish") = FALSE
  BY <1>1
<1>5. /\ retries \in [http : 0..MaxRetries, turn : 0..MaxRetries]
      /\ partials \subseteq Nat /\ nextId \in Nat /\ replies \in Nat /\ faults \in Nat
  BY <1>1, TranscriptAssumption
<1> HIDE DEF e, first, none
<1>6. ShapeOK
  BY <1>1, <1>2, <1>3, <1>4, <1>5 DEF ShapeOK
<1>7. LogInv
  BY <1>1, <1>2, <1>4 DEF LogInv, StoredOK, FinishedRunStored
<1>8. (phase \in {"stream", "turn_over"}) = FALSE /\ (phase = "stream") = FALSE /\ (phase = "turn_over") = FALSE
  BY <1>1
<1>9. PairInv
  <2>1. Answered = {}
    BY <1>1, <1>2 DEF Answered
  <2> QED BY <2>1, <1>1, <1>2, <1>8 DEF PairInv
<1>10. StreamInv /\ Numbered /\ StreamUnderstood
  BY <1>8 DEF StreamInv, Numbered, StreamUnderstood
<1> QED BY <1>6, <1>7, <1>9, <1>10 DEF TranscriptInv

\* The invariant is about the variables only.
LEMMA StutterInv ==
    ASSUME TranscriptInv, UNCHANGED vars
    PROVE  TranscriptInv'
<1>1. /\ prov' = prov /\ stored' = stored /\ session' = session /\ history' = history /\ final' = final
      /\ acc' = acc /\ meant' = meant /\ streamed' = streamed /\ turn' = turn /\ retries' = retries
      /\ partials' = partials /\ outcome' = outcome /\ replies' = replies /\ faults' = faults
      /\ nextId' = nextId /\ phase' = phase
  BY DEF vars
<1>2. ShapeOK /\ LogInv /\ StreamInv /\ PairInv /\ Numbered /\ StreamUnderstood
  BY DEF TranscriptInv
<1>3. ShapeOK'
  BY <1>1, <1>2 DEF ShapeOK
<1>4. LogInv'
  <2>1. StoredOK' <=> StoredOK
    BY <1>1 DEF StoredOK
  <2>2. FinishedRunStored' <=> FinishedRunStored
    BY <1>1 DEF FinishedRunStored
  <2>3. \A u : RunAt(u)' <=> RunAt(u)
    BY <1>1 DEF RunAt
  <2> QED BY <1>1, <1>2, <2>1, <2>2, <2>3 DEF LogInv
<1>5. StreamInv'
  <2>1. SpeechOK' <=> SpeechOK
    BY <1>1 DEF SpeechOK, Speech
  <2>2. Heard(acc, meant)' <=> Heard(acc, meant)
    BY <1>1 DEF Heard
  <2> QED BY <1>1, <1>2, <2>1, <2>2 DEF StreamInv
<1>6. PairInv'
  <2>1. Answered' = Answered /\ Saying' = Saying
    BY <1>1 DEF Answered, Saying
  <2> QED BY <1>1, <1>2, <2>1 DEF PairInv
<1>7. Numbered'
  BY <1>1, <1>2 DEF Numbered, Saying
<1>8. StreamUnderstood'
  BY <1>1, <1>2 DEF StreamUnderstood
<1> QED BY <1>3, <1>4, <1>5, <1>6, <1>7, <1>8 DEF TranscriptInv

\* Every step keeps the invariant.
LEMMA NextInv ==
    ASSUME TranscriptInv, Next
    PROVE  TranscriptInv'
<1>1. CASE Prepare
  BY <1>1, PrepareInv
<1>2. CASE Post
  BY <1>2, PostInv
<1>3. CASE PostFails \/ StreamBreaks
  BY <1>3, FailsInv
<1>4. CASE SayText \/ EndText \/ EndMessageItem \/ StartCall \/ SayArguments \/ EndCall \/ Stop
  BY <1>4, LineInv
<1>5. CASE EmptyTurn
  BY <1>5, EmptyTurnInv
<1>6. CASE ExecuteTurn
  BY <1>6, ExecuteTurnInv
<1> QED BY <1>1, <1>2, <1>3, <1>4, <1>5, <1>6 DEF Next

-----------------------------------------------------------------------------
(* What the invariant says                                                 *)

\* The message of the turn is in the pump's copy, found by its id.
LEMMA MirrorFollows ==
    ASSUME TranscriptInv
    PROVE  MirrorInStep
<1>1. SUFFICES ASSUME phase \in {"stream", "turn_over"}, NEW i \in DOMAIN turn.msgs
               PROVE  LET m == turn.msgs[i] IN Has(session, m.id) /\ session[Position(session, m.id)] = m
  BY DEF MirrorInStep
<1>2. (phase = "idle") = FALSE
  BY <1>1
<1>3. PICK u \in DOMAIN session : RunAt(u)
  BY <1>2 DEF TranscriptInv, LogInv
<1>4. session \in Convs /\ Unique(session) /\ turn.msgs \in Convs
  <2>1. session \in Convs /\ Unique(session) /\ turn \in Turns
    BY DEF TranscriptInv, ShapeOK, LogInv, Clean
  <2> QED BY <2>1, TurnFields
<1>5. turn.msgs = <<>> \/ (Len(turn.msgs) = 1 /\ Mirrored(session, u, final, turn.msgs[1]))
  BY <1>1, <1>3 DEF RunAt
<1>6. i \in 1..Len(turn.msgs) /\ (turn.msgs = <<>> => Len(turn.msgs) = 0)
  BY <1>1, <1>4, ConvFields
<1>7. i = 1 /\ Mirrored(session, u, final, turn.msgs[1])
  BY <1>5, <1>6
<1>8. PICK j \in DOMAIN session : session[j] = turn.msgs[i]
  BY <1>7 DEF Mirrored
<1>9. Has(session, session[j].id) /\ Position(session, session[j].id) = j
  BY <1>4, PositionIs
<1> QED BY <1>8, <1>9

\* What is stored is the pump's copy, and a placeholder with a new id at most.
LEMMA SaveFollows ==
    ASSUME TranscriptInv
    PROVE  SaveSucceeds
<1>1. SUFFICES ASSUME phase = "idle" PROVE Unique(stored)
  BY DEF SaveSucceeds, Unique
<1>2. StoredOK /\ Unique(session) /\ session \in Convs
  BY <1>1 DEF TranscriptInv, LogInv, Clean, ShapeOK
<1>3. ASSUME NEW id \in Nat, id \notin Ids(session), stored = Append(session, Placeholder(id))
      PROVE  Unique(stored)
  <2> DEFINE p == Placeholder(id)
  <2>1. p \in Msgs /\ p.id = id
    BY PlaceholderIs
  <2>2. stored = Append(session, p) /\ id \notin Ids(session)
    BY <1>3
  <2> HIDE DEF p
  <2>3. Unique(Append(session, p))
    BY <2>1, <2>2, <1>2, AppendIs
  <2> QED BY <2>2, <2>3
<1>4. CASE stored = session
  BY <1>2, <1>4
<1> QED BY <1>2, <1>3, <1>4 DEF StoredOK

\* The places of a conversation.
LEMMA PlacesAre ==
    ASSUME NEW conv, NEW i, NEW k
    PROVE  <<i, k>> \in BlocksOf(conv) <=> i \in DOMAIN conv /\ k \in DOMAIN conv[i].blocks
BY DEF BlocksOf

\* A place is a pair of message and block.
LEMMA PlaceIs ==
    ASSUME NEW conv, NEW x \in BlocksOf(conv)
    PROVE  \E i \in DOMAIN conv : \E k \in DOMAIN conv[i].blocks : x = <<i, k>>
BY DEF BlocksOf

\* What is sent is paired, since a call stands before each of its answers.
LEMMA PairedFollows ==
    ASSUME TranscriptInv
    PROVE  ResponsesPaired
<1> DEFINE conv == history
           answered == CallsOf(conv, "response")
           block(x) == conv[x[1]].blocks[x[2]]
           P(x) == \/ block(x).kind = "request" /\ block(x).call \in answered
                   \/ block(x).kind = "response" /\ block(x).call \in CalledBefore(conv, x) \intersect answered
           kept == {x \in BlocksOf(conv) : P(x)}
           items == [x \in kept |-> block(x)]
           Answers2(x, y) ==
             /\ block(y).call = block(x).call /\ block(y).kind # block(x).kind
             /\ block(x).kind = "request" => Before(x, y)
             /\ block(x).kind = "response" => Before(y, x)
<1>1. SUFFICES ASSUME phase = "request", prov = "responses", NEW x \in kept
               PROVE  \E y \in kept : Answers2(x, y)
  <2> DEFINE Paired == \A x \in DOMAIN items : \E y \in DOMAIN items :
                          items[y].call = items[x].call /\ items[y].kind # items[x].kind
                          /\ (items[x].kind = "request" => Before(x, y))
                          /\ (items[x].kind = "response" => Before(y, x))
  <2>1. items = ResponsesItems(history)
    BY DEF ResponsesItems
  <2>2. (\A x \in kept : \E y \in kept : Answers2(x, y)) => Paired
    <3>1. DOMAIN items = kept /\ \A x \in kept : items[x] = block(x)
      OBVIOUS
    <3> HIDE DEF items, kept, block
    <3> QED BY <3>1
  <2>3. (phase = "request" /\ prov = "responses" => Paired) => ResponsesPaired
    <3> HIDE DEF items
    <3> QED BY <2>1 DEF ResponsesPaired
  <2> QED BY <2>2, <2>3
<1>2. PairOrder(conv)
  BY <1>1 DEF TranscriptInv, PairInv
<1>3. x \in BlocksOf(conv) /\ P(x)
  BY <1>1
<1>a. PICK i \in DOMAIN conv : \E k \in DOMAIN conv[i].blocks : x = <<i, k>>
  BY <1>3, PlaceIs
<1>4. PICK k \in DOMAIN conv[i].blocks : x = <<i, k>>
  BY <1>a
<1>5. block(x) = conv[i].blocks[k]
  BY <1>4
<1>6. CASE block(x).kind = "request" /\ block(x).call \in answered
  <2>1. PICK j \in DOMAIN conv : \E n \in DOMAIN conv[j].blocks :
           conv[j].blocks[n].kind = "response" /\ conv[j].blocks[n].call = block(x).call
    BY <1>6, CallsOfIs
  <2>2. PICK n \in DOMAIN conv[j].blocks :
           conv[j].blocks[n].kind = "response" /\ conv[j].blocks[n].call = block(x).call
    BY <2>1
  <2> DEFINE y == <<j, n>>
  <2>3. block(y) = conv[j].blocks[n] /\ y \in BlocksOf(conv)
    BY PlacesAre
  <2>4. i < j
    BY <1>2, <1>5, <1>6, <2>2 DEF PairOrder
  <2>5. Before(x, y)
    BY <1>4, <2>4 DEF Before
  <2>6. block(y).call \in CalledBefore(conv, y)
    BY <1>3, <1>6, <2>2, <2>3, <2>5 DEF CalledBefore
  <2>7. block(y).kind = "response" /\ block(y).call = block(x).call
    BY <2>2, <2>3
  <2> HIDE DEF y, answered, block
  <2>8. y \in kept
    BY <1>6, <2>3, <2>6, <2>7
  <2>9. Answers2(x, y)
    BY <1>6, <2>5, <2>7
  <2> QED BY <2>8, <2>9
<1>7. CASE block(x).kind = "response" /\ block(x).call \in CalledBefore(conv, x) \intersect answered
  <2>1. PICK y \in BlocksOf(conv) : Before(y, x) /\ block(y).kind = "request" /\ block(y).call = block(x).call
    BY <1>7 DEF CalledBefore
  <2> HIDE DEF answered, block
  <2>2. y \in kept
    BY <1>7, <2>1
  <2>3. Answers2(x, y)
    BY <1>7, <2>1
  <2> QED BY <2>2, <2>3
<1> QED BY <1>3, <1>6, <1>7

\* The counters and conversations have their shape.
LEMMA TypeFollows ==
    ASSUME TranscriptInv
    PROVE  TypeOK
<1>1. /\ phase \in {"idle", "request", "stream", "turn_over"}
      /\ outcome \in {"none", "finish", "error"}
      /\ turn \in Turns /\ retries \in [http : 0..MaxRetries, turn : 0..MaxRetries]
      /\ stored \in Convs /\ session \in Convs /\ history \in Convs /\ final \in Convs
      /\ Below(stored, nextId) /\ Below(session, nextId) /\ Below(history, nextId) /\ Below(final, nextId)
  BY DEF TranscriptInv, ShapeOK
<1>2. turn.n \in 1..MaxTurns /\ turn.tools \in BOOLEAN
  BY <1>1, TurnFields
<1>3. retries.http \in 0..MaxRetries /\ retries.turn \in 0..MaxRetries
  BY <1>1
<1>4. ASSUME NEW conv \in {stored, session, history, final}, NEW i \in DOMAIN conv
      PROVE  conv[i].blocks # <<>> /\ conv[i].id < nextId
  <2>1. conv \in Convs /\ Below(conv, nextId)
    BY <1>1
  <2>2. conv[i] \in Msgs
    BY <2>1, ConvFields
  <2> QED BY <2>1, <2>2, MessageFields DEF Below
<1> QED BY <1>1, <1>2, <1>3, <1>4 DEF TypeOK

-----------------------------------------------------------------------------
(* The theorems                                                            *)

\* The invariant holds of every reply, run and stream: the pump's copy of the
\* history holds the turn's message as the provider last sent it, the
\* accumulator what the model has said, and every call comes before its answers.
THEOREM TranscriptIsKept == Spec => []TranscriptInv
<1>1. Init => TranscriptInv
  BY InitInv
<1>2. TranscriptInv /\ [Next]_vars => TranscriptInv'
  BY NextInv, StutterInv
<1> QED BY <1>1, <1>2, PTL DEF Spec

\* While a model talks, persist_core_event has made of the deltas and messages
\* sent by emit_provider_message the very message of the turn.
THEOREM PumpMirrorsStream == Spec => []MirrorInStep
<1>1. TranscriptInv => MirrorInStep
  BY MirrorFollows
<1> QED BY <1>1, TranscriptIsKept, PTL

\* A stream read to its end has become messages with the text and the tool calls
\* that the model meant, through each provider's accumulator.
THEOREM StreamsAreUnderstood == Spec => []StreamUnderstood
<1>1. TranscriptInv => StreamUnderstood
  BY DEF TranscriptInv
<1> QED BY <1>1, TranscriptIsKept, PTL

\* finalize_pumped_session stores the final messages of a run that finished after
\* its user message, with what failed attempts left and a placeholder at most.
THEOREM RunsAreStored == Spec => []FinishedRunStored
<1>1. TranscriptInv => FinishedRunStored
  BY DEF TranscriptInv, LogInv
<1> QED BY <1>1, TranscriptIsKept, PTL

\* The primary key (session_id, message_id) is never hit twice by a save, whatever
\* was streamed, retried and merged.
THEOREM SavesSucceed == Spec => []SaveSucceeds
<1>1. TranscriptInv => SaveSucceeds
  BY SaveFollows
<1> QED BY <1>1, TranscriptIsKept, PTL

\* responses_input_items_from_messages sends no call without a later output and
\* no output without an earlier call.
THEOREM CallsArePaired == Spec => []ResponsesPaired
<1>1. TranscriptInv => ResponsesPaired
  BY PairedFollows
<1> QED BY <1>1, TranscriptIsKept, PTL

\* Counters and conversations keep their shape.
THEOREM TranscriptTyped == Spec => []TypeOK
<1>1. TranscriptInv => TypeOK
  BY TypeFollows
<1> QED BY <1>1, TranscriptIsKept, PTL
=============================================================================

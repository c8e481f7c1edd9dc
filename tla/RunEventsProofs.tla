--------------------------- MODULE RunEventsProofs ---------------------------
(***************************************************************************)
(* The replay of run events has no gap and no repetition, for any number   *)
(* of clients, events and places in a subscription.                        *)
(***************************************************************************)
EXTENDS RunEvents, FilteringProofs

Events == 1..MaxEvents

Increasing(s) == \A i, j \in DOMAIN s : i < j => s[i] < s[j]
Holds(s, e) == \E i \in DOMAIN s : s[i] = e

\* What of the file is wanted after number n: in order, all above n, none
\* that the pump has not handled; while the pump is between append and
\* publish, the event it is about to publish is the last of them.
WantedInv(n, wanted) ==
    /\ Increasing(wanted)
    /\ \A i \in DOMAIN wanted : wanted[i] > n /\ wanted[i] <= made
    /\ publishing /\ made > n => Len(wanted) > 0 /\ wanted[Len(wanted)] = made

FileInv == \A n \in 0..MaxEvents : WantedInv(n, EventsAfter(log, n))

\* How much of wanted the client was sent, or will be sent of its backlog.
Taken(c) == Len(got[c]) + Len(backlog[c])

\* A request that has not begun has no subscription and nothing in it.
NewClient(c) ==
    pc[c] = "new" => c \notin subs /\ chan[c] = <<>> /\ got[c] = <<>> /\ backlog[c] = <<>>

\* The client was sent the beginning of wanted; last_seq is where it ends.
SentInv(c, wanted) ==
    /\ Len(got[c]) <= Len(wanted)
    /\ \A i \in 1..Len(got[c]) : got[c][i] = wanted[i]
    /\ pc[c] # "over" => last[c] = IF got[c] = <<>> THEN after[c] ELSE wanted[Len(got[c])]

\* The backlog goes on where the client is.
BacklogInv(c, wanted) ==
    /\ Taken(c) <= Len(wanted)
    /\ \A i \in 1..Len(backlog[c]) : backlog[c][i] = wanted[Len(got[c]) + i]
    /\ pc[c] = "subscribed" => got[c] = <<>> /\ backlog[c] = <<>>
    /\ pc[c] = "live" => backlog[c] = <<>>

\* The subscription is in order and holds nothing the file does not; the
\* event the pump is about to publish is not in it yet.
ChanInv(c, wanted) ==
    /\ Increasing(chan[c])
    /\ \A i \in DOMAIN chan[c] :
          /\ chan[c][i] <= made
          /\ publishing => chan[c][i] < made
          /\ chan[c][i] > after[c] => Holds(wanted, chan[c][i])

\* Once the backlog is loaded, what it left out comes through the
\* subscription: all of it while the client is subscribed (but for the event
\* about to be published), and without a gap when it is not any more.
JoinInv(c, wanted) ==
    \A j \in DOMAIN wanted : j > Taken(c) =>
        /\ c \in subs => \/ Holds(chan[c], wanted[j])
                         \/ publishing /\ wanted[j] = made
        /\ \A i \in DOMAIN chan[c] :
              wanted[j] <= chan[c][i] => Holds(chan[c], wanted[j])

ClientInv(c, wanted) ==
    /\ NewClient(c)
    /\ pc[c] # "new" => SentInv(c, wanted)
    /\ pc[c] \in {"subscribed", "backlog", "live"} =>
          BacklogInv(c, wanted) /\ ChanInv(c, wanted)
    /\ pc[c] \in {"backlog", "live"} => JoinInv(c, wanted)

\* The inductive invariant.
ReplayInv ==
    /\ FileInv
    /\ \A c \in Clients : ClientInv(c, EventsAfter(log, after[c]))

-----------------------------------------------------------------------------
(* What the file holds for a client                                        *)

\* The events wanted are events.
LEMMA WantedType ==
    ASSUME NEW s \in Seq(Events), NEW n
    PROVE  EventsAfter(s, n) \in Seq(Events)
<1> DEFINE T == {e \in 1..MaxEvents : e > n}
<1>1. Only(s, T) \in Seq(Events \cap T)
  BY OnlyType
<1>2. Seq(Events \cap T) \subseteq Seq(Events)
  BY SeqMonotonic
<1> QED
  BY <1>1, <1>2 DEF EventsAfter

\* An event that is appended is wanted if its number is above the client's.
LEMMA WantedAppend ==
    ASSUME NEW s \in Seq(Events), NEW e \in Events, NEW n
    PROVE  EventsAfter(Append(s, e), n) =
              IF e > n THEN Append(EventsAfter(s, n), e) ELSE EventsAfter(s, n)
<1> DEFINE T == {x \in 1..MaxEvents : x > n}
<1>1. Only(Append(s, e), T) = IF e \in T THEN Append(Only(s, T), e) ELSE Only(s, T)
  BY OnlyAppend
<1>2. e \in T <=> e > n
  BY DEF Events
<1> QED
  BY <1>1, <1>2 DEF EventsAfter

\* The number of a client that asks for all of an empty file
LEMMA WantedEmpty ==
    ASSUME NEW n
    PROVE  EventsAfter(<<>>, n) = <<>>
BY OnlyEmpty DEF EventsAfter

\* Appending an event above all of an increasing sequence keeps it so.
LEMMA IncreasingAppend ==
    ASSUME NEW s \in Seq(Events), NEW e \in Events, Increasing(s),
           \A i \in DOMAIN s : s[i] < e
    PROVE  Increasing(Append(s, e))
BY DEF Increasing, Events

\* The tail of an increasing sequence is increasing, and holds everything
\* the sequence holds above its head.
LEMMA IncreasingTail ==
    ASSUME NEW s \in Seq(Events), s # <<>>, Increasing(s)
    PROVE  /\ Increasing(Tail(s))
           /\ \A e \in Events : Holds(s, e) /\ e > Head(s) => Holds(Tail(s), e)
           /\ \A i \in DOMAIN Tail(s) : i + 1 \in DOMAIN s /\ Tail(s)[i] = s[i + 1] /\ Tail(s)[i] > Head(s)
<1>1. Tail(s) \in Seq(Events) /\ Len(Tail(s)) = Len(s) - 1 /\ Head(s) = s[1]
  OBVIOUS
<1>2. \A i \in DOMAIN Tail(s) : i + 1 \in DOMAIN s /\ Tail(s)[i] = s[i + 1]
  OBVIOUS
<1>3. \A i \in DOMAIN Tail(s) : Tail(s)[i] > Head(s)
  BY <1>1, <1>2 DEF Increasing, Events
<1>4. Increasing(Tail(s))
  BY <1>1, <1>2 DEF Increasing, Events
<1>5. ASSUME NEW e \in Events, Holds(s, e), e > Head(s)
      PROVE  Holds(Tail(s), e)
  <2>1. PICK i \in DOMAIN s : s[i] = e
    BY <1>5 DEF Holds
  <2>2. i # 1 /\ i \in 1..Len(s)
    BY <1>1, <1>5, <2>1 DEF Events
  <2>3. i - 1 \in DOMAIN Tail(s) /\ Tail(s)[i - 1] = e
    BY <1>1, <1>2, <2>1, <2>2
  <2> QED
    BY <2>3 DEF Holds
<1> QED
  BY <1>2, <1>3, <1>4, <1>5

-----------------------------------------------------------------------------
(* Types                                                                   *)

LEMMA TypeInit ==
    Init => TypeOK
<1>1. 0 \in 0..MaxEvents /\ 0 <= ChannelCap /\ Len(<<>>) = 0
  BY EventsAssumption
<1>2. <<>> \in Seq(1..MaxEvents)
  OBVIOUS
<1> SUFFICES ASSUME Init PROVE TypeOK
  OBVIOUS
<1>3. /\ chan \in [Clients -> Seq(1..MaxEvents)]
      /\ backlog \in [Clients -> Seq(1..MaxEvents)]
      /\ got \in [Clients -> Seq(1..MaxEvents)]
      /\ log \in Seq(1..MaxEvents)
  BY <1>2 DEF Init
<1>4. \A c \in Clients : Len(chan[c]) <= ChannelCap
  BY <1>1 DEF Init
<1> QED
  BY <1>1, <1>3, <1>4 DEF Init, TypeOK

\* Every step keeps every variable in its type.
LEMMA TypeStep ==
    TypeOK /\ [Next]_vars => TypeOK'
<1> SUFFICES ASSUME TypeOK, [Next]_vars PROVE TypeOK'
  OBVIOUS
<1> USE EventsAssumption DEF TypeOK, vars, pumpVars, taskVars
<1>1. CASE AppendEvent
  BY <1>1 DEF AppendEvent
<1>2. CASE AppendFails
  BY <1>2 DEF AppendFails
<1>3. CASE Publish
  <2>1. made \in 1..MaxEvents
    BY <1>3 DEF Publish
  <2>2. ASSUME NEW c \in Clients
        PROVE  /\ chan'[c] \in Seq(1..MaxEvents)
               /\ Len(chan'[c]) <= ChannelCap
    <3>1. CASE chan'[c] = chan[c]
      BY <3>1
    <3>2. CASE chan'[c] = Append(chan[c], made) /\ Len(chan[c]) < ChannelCap
      BY <2>1, <3>2
    <3> QED
      BY <1>3, <3>1, <3>2 DEF Publish, CanTake
  <2>3. chan' \in [Clients -> Seq(1..MaxEvents)]
    <3>1. chan' = [c \in Clients |-> chan'[c]]
      BY <1>3, Zenon DEF Publish
    <3> QED
      BY <2>2, <3>1
  <2>4. subs' \subseteq Clients
    BY <1>3 DEF Publish
  <2> QED
    BY <1>3, <2>2, <2>3, <2>4 DEF Publish
<1>4. ASSUME NEW c \in Clients, NEW n \in 0..MaxEvents, Subscribe(c, n) PROVE TypeOK'
  BY <1>4 DEF Subscribe
<1>5. ASSUME NEW c \in Clients, LoadAfter(c) PROVE TypeOK'
  <2>1. EventsAfter(log, after[c]) \in Seq(1..MaxEvents)
    BY WantedType DEF Events
  <2> QED
    BY <1>5, <2>1 DEF LoadAfter
<1>6. ASSUME NEW c \in Clients, LoadFails(c) PROVE TypeOK'
  BY <1>6 DEF LoadFails, Return
<1>7. ASSUME NEW c \in Clients, SendBacklog(c) PROVE TypeOK'
  <2>1. /\ backlog[c] \in Seq(1..MaxEvents) /\ backlog[c] # <<>>
        /\ got[c] \in Seq(1..MaxEvents) /\ last[c] \in 0..MaxEvents
    BY <1>7 DEF SendBacklog
  <2>2. /\ Head(backlog[c]) \in 1..MaxEvents
        /\ Tail(backlog[c]) \in Seq(1..MaxEvents)
        /\ Append(got[c], Head(backlog[c])) \in Seq(1..MaxEvents)
    BY <2>1
  <2>3. /\ backlog' = [backlog EXCEPT ![c] = Tail(backlog[c])]
        /\ got' = [got EXCEPT ![c] = Append(got[c], Head(backlog[c]))]
        /\ pc' = pc \/ pc' = [pc EXCEPT ![c] = "over"]
        /\ ended' = ended \/ ended' = [ended EXCEPT ![c] = "terminal"]
        /\ UNCHANGED <<made, publishing, log, subs, chan, after>>
    BY <1>7 DEF SendBacklog, Deliver, Return
  <2>4. \/ last' = [last EXCEPT ![c] = last[c]]
        \/ last' = [last EXCEPT ![c] = Head(backlog[c])]
    BY <1>7 DEF SendBacklog, Deliver
  <2>5. last' \in [Clients -> 0..MaxEvents]
    <3>1. last \in [Clients -> 0..MaxEvents] /\ Head(backlog[c]) \in 0..MaxEvents
      BY <2>2
    <3> HIDE DEF TypeOK
    <3> QED
      BY <2>1, <2>4, <3>1
  <2>6. /\ pc' \in [Clients -> {"new", "subscribed", "backlog", "live", "over"}]
        /\ ended' \in [Clients -> {"no", "unchecked", "error", "terminal",
                                     "finished", "closed", "gone"}]
    BY <2>3
  <2>7. /\ chan' \in [Clients -> Seq(1..MaxEvents)]
        /\ backlog' \in [Clients -> Seq(1..MaxEvents)]
        /\ got' \in [Clients -> Seq(1..MaxEvents)]
    <3>1. /\ chan \in [Clients -> Seq(1..MaxEvents)]
          /\ backlog \in [Clients -> Seq(1..MaxEvents)]
          /\ got \in [Clients -> Seq(1..MaxEvents)]
      OBVIOUS
    <3> HIDE DEF TypeOK
    <3> QED
      BY <2>2, <2>3, <3>1
  <2>8. \A k \in Clients : Len(chan'[k]) <= ChannelCap
    BY <2>2, <2>3
  <2> QED
    BY <2>3, <2>5, <2>6, <2>7, <2>8
<1>8. ASSUME NEW c \in Clients, CheckTerminal(c) PROVE TypeOK'
  BY <1>8 DEF CheckTerminal, Return
<1>9. ASSUME NEW c \in Clients, CheckFails(c) PROVE TypeOK'
  BY <1>9 DEF CheckFails
<1>10. ASSUME NEW c \in Clients, Receive(c) PROVE TypeOK'
  <2>1. /\ chan[c] \in Seq(1..MaxEvents) /\ chan[c] # <<>>
        /\ Len(chan[c]) <= ChannelCap
        /\ got[c] \in Seq(1..MaxEvents) /\ last[c] \in 0..MaxEvents
    BY <1>10 DEF Receive
  <2>2. /\ Head(chan[c]) \in 1..MaxEvents
        /\ Tail(chan[c]) \in Seq(1..MaxEvents) /\ Len(Tail(chan[c])) <= ChannelCap
        /\ Append(got[c], Head(chan[c])) \in Seq(1..MaxEvents)
    BY <2>1
  <2>3. /\ chan' = [chan EXCEPT ![c] = Tail(chan[c])]
        /\ got' = got \/ got' = [got EXCEPT ![c] = Append(got[c], Head(chan[c]))]
        /\ pc' = pc \/ pc' = [pc EXCEPT ![c] = "over"]
        /\ ended' = ended \/ ended' = [ended EXCEPT ![c] = "terminal"]
        /\ UNCHANGED <<made, publishing, log, subs, backlog, after>>
    BY <1>10 DEF Receive, Deliver, Return
  <2>4. \/ last' = last
        \/ last' = [last EXCEPT ![c] = last[c]]
        \/ last' = [last EXCEPT ![c] = Head(chan[c])]
    BY <1>10 DEF Receive, Deliver
  <2>5. last' \in [Clients -> 0..MaxEvents]
    <3>1. last \in [Clients -> 0..MaxEvents] /\ Head(chan[c]) \in 0..MaxEvents
      BY <2>2
    <3> HIDE DEF TypeOK
    <3> QED
      BY <2>1, <2>4, <3>1
  <2>6. /\ pc' \in [Clients -> {"new", "subscribed", "backlog", "live", "over"}]
        /\ ended' \in [Clients -> {"no", "unchecked", "error", "terminal",
                                     "finished", "closed", "gone"}]
    BY <2>3
  <2>7. /\ chan' \in [Clients -> Seq(1..MaxEvents)]
        /\ backlog' \in [Clients -> Seq(1..MaxEvents)]
        /\ got' \in [Clients -> Seq(1..MaxEvents)]
    <3>1. /\ chan \in [Clients -> Seq(1..MaxEvents)]
          /\ backlog \in [Clients -> Seq(1..MaxEvents)]
          /\ got \in [Clients -> Seq(1..MaxEvents)]
      OBVIOUS
    <3> HIDE DEF TypeOK
    <3> QED
      BY <2>2, <2>3, <3>1
  <2>8. \A k \in Clients : Len(chan'[k]) <= ChannelCap
    BY <2>2, <2>3
  <2> QED
    BY <2>3, <2>5, <2>6, <2>7, <2>8
<1>11. ASSUME NEW c \in Clients, LiveClosed(c) PROVE TypeOK'
  BY <1>11 DEF LiveClosed, Return
<1>12. ASSUME NEW c \in Clients, ClientGone(c) PROVE TypeOK'
  BY <1>12 DEF ClientGone, Return
<1>13. CASE UNCHANGED vars
  BY <1>13
<1> HIDE DEF TypeOK, vars, pumpVars, taskVars
<1> QED
  BY <1>1, <1>2, <1>3, <1>4, <1>5, <1>6, <1>7, <1>8, <1>9, <1>10, <1>11,
     <1>12, <1>13
     DEF Next, Quiet

-----------------------------------------------------------------------------
(* The invariant                                                           *)

\* The file keeps its invariant.
LEMMA FileStep ==
    ASSUME TypeOK, FileInv, [Next]_vars
    PROVE  FileInv'
<1> DEFINE W(n) == EventsAfter(log, n)
<1>1. \A n \in 0..MaxEvents : W(n) \in Seq(Events)
  BY WantedType DEF TypeOK, Events
<1>2. CASE AppendEvent
  <2>1. made + 1 \in Events /\ made' = made + 1 /\ log' = Append(log, made + 1)
    BY <1>2, EventsAssumption DEF AppendEvent, TypeOK, Events
  <2>2. SUFFICES ASSUME NEW n \in 0..MaxEvents
                 PROVE  WantedInv(n, EventsAfter(log, n))'
    BY DEF FileInv
  <2>3. EventsAfter(log', n) = IF made + 1 > n THEN Append(W(n), made + 1) ELSE W(n)
    BY <2>1, WantedAppend DEF TypeOK, Events
  <2>4. Increasing(W(n)) /\ \A i \in DOMAIN W(n) : W(n)[i] > n /\ W(n)[i] <= made
    BY DEF FileInv, WantedInv
  <2>5. \A i \in DOMAIN W(n) : W(n)[i] \in Events
    BY <1>1
  <2>6. W(n) \in Seq(Events)
    BY <1>1
  <2> HIDE DEF W
  <2>7. CASE made + 1 > n
    <3>1. Increasing(Append(W(n), made + 1))
      BY <2>1, <2>4, <2>5, <2>6, IncreasingAppend DEF Events, TypeOK
    <3>2. \A i \in DOMAIN Append(W(n), made + 1) :
             Append(W(n), made + 1)[i] > n /\ Append(W(n), made + 1)[i] <= made + 1
      BY <2>1, <2>4, <2>5, <2>6, <2>7 DEF Events, TypeOK
    <3>3. LET V == Append(W(n), made + 1) IN Len(V) > 0 /\ V[Len(V)] = made + 1
      BY <2>1, <2>6
    <3>4. EventsAfter(log', n) = Append(W(n), made + 1)
      BY <2>3, <2>7
    <3> QED
      BY <2>1, <3>1, <3>2, <3>3, <3>4 DEF WantedInv
  <2>8. CASE ~ (made + 1 > n)
    <3>1. EventsAfter(log', n) = W(n) /\ ~ (made' > n)
      BY <2>1, <2>3, <2>8
    <3>2. \A i \in DOMAIN W(n) : W(n)[i] <= made'
      BY <2>1, <2>4, <2>5 DEF Events, TypeOK
    <3> QED
      BY <2>4, <3>1, <3>2 DEF WantedInv
  <2> QED
    BY <2>7, <2>8 DEF TypeOK
<1>3. CASE AppendFails
  <2>1. made' = made + 1 /\ log' = log /\ ~ publishing'
    BY <1>3 DEF AppendFails
  <2>2. \A n \in 0..MaxEvents : \A i \in DOMAIN W(n) : W(n)[i] \in Events
    BY <1>1
  <2>3. \A n \in 0..MaxEvents : \A i \in DOMAIN W(n) : W(n)[i] <= made => W(n)[i] <= made + 1
    BY <2>2 DEF Events, TypeOK
  <2> QED
    BY <2>1, <2>3 DEF FileInv, WantedInv
<1>4. CASE Publish
  BY <1>4 DEF Publish, FileInv, WantedInv
<1>5. CASE UNCHANGED pumpVars
  BY <1>5 DEF pumpVars, FileInv, WantedInv
<1> QED
  BY <1>2, <1>3, <1>4, <1>5
     DEF Next, Subscribe, LoadAfter, LoadFails, SendBacklog, CheckTerminal,
         CheckFails, Receive, LiveClosed, ClientGone, Quiet, vars

\* A client none of whose variables changes keeps its invariant.
LEMMA ClientFrame ==
    ASSUME NEW d \in Clients, NEW W, ClientInv(d, W),
           UNCHANGED <<made, publishing, pc[d], after[d], last[d], backlog[d], got[d], chan[d]>>,
           d \in subs' <=> d \in subs
    PROVE  ClientInv(d, W)'
BY DEF ClientInv, NewClient, SentInv, BacklogInv, ChanInv, JoinInv, Taken

\* An event is appended to the file, which only the pump does.
LEMMA AppendClient ==
    ASSUME TypeOK, AppendEvent, NEW d \in Clients, NEW W \in Seq(Events), ClientInv(d, W),
           NEW V, V = IF made + 1 > after[d] THEN Append(W, made + 1) ELSE W
    PROVE  ClientInv(d, V)'
<1>1. /\ made' = made + 1 /\ made \in Nat /\ ~ publishing /\ publishing'
      /\ UNCHANGED <<pc, after, last, backlog, got, chan, subs>>
  BY DEF AppendEvent, TypeOK, taskVars
<1>a. Events \subseteq Nat /\ made + 1 \in Events
  BY EventsAssumption DEF Events, AppendEvent, TypeOK
<1>2. /\ V \in Seq(Events) /\ Len(V) >= Len(W) /\ Len(W) \in Nat
      /\ \A i \in 1..Len(W) : i \in DOMAIN V /\ V[i] = W[i]
      /\ \A i \in DOMAIN V : i \in DOMAIN W \/ (i = Len(W) + 1 /\ V[i] = made + 1)
  <2>1. CASE V = W
    BY <2>1
  <2>2. CASE V = Append(W, made + 1)
    BY <1>a, <2>2
  <2> QED
    BY <2>1, <2>2
<1>3. /\ got[d] \in Seq(Events) /\ backlog[d] \in Seq(Events) /\ chan[d] \in Seq(Events)
      /\ Len(got[d]) \in Nat /\ Len(backlog[d]) \in Nat
      /\ \A i \in DOMAIN chan[d] : chan[d][i] \in Nat
  <2>1. /\ got[d] \in Seq(Events) /\ backlog[d] \in Seq(Events) /\ chan[d] \in Seq(Events)
    BY DEF TypeOK, Events
  <2>2. \A i \in DOMAIN chan[d] : chan[d][i] \in Events
    BY <2>1
  <2>3. Len(got[d]) \in Nat /\ Len(backlog[d]) \in Nat
    BY <2>1
  <2> QED
    BY <1>a, <2>1, <2>2, <2>3
<1>4. NewClient(d)'
  BY <1>1 DEF ClientInv, NewClient
<1>5. ASSUME pc[d] # "new" PROVE SentInv(d, V)'
  BY <1>1, <1>2, <1>3, <1>5 DEF ClientInv, SentInv
<1>6. ASSUME pc[d] \in {"subscribed", "backlog", "live"}
      PROVE  BacklogInv(d, V)' /\ ChanInv(d, V)'
  <2>1. BacklogInv(d, V)'
    <3>1. BacklogInv(d, W) /\ SentInv(d, W)
      BY <1>6 DEF ClientInv
    <3> DEFINE g == Len(got[d])
               b == Len(backlog[d])
               w == Len(W)
    <3>a. g \in Nat /\ b \in Nat /\ w \in Nat /\ g + b <= w
      BY <3>1, <1>2, <1>3 DEF BacklogInv, Taken
    <3>b. Len(V) \in Nat /\ Len(V) >= w
      BY <1>2
    <3> HIDE DEF g, b, w
    <3>c. g + b <= Len(V) /\ \A i \in 1..b : g + i \in 1..w
      BY <3>a, <3>b
    <3>2. \A i \in 1..Len(backlog[d]) : Len(got[d]) + i \in 1..Len(W)
      BY <3>c DEF g, b, w
    <3>3. \A i \in 1..Len(backlog[d]) : backlog[d][i] = V[Len(got[d]) + i]
      BY <3>1, <3>2, <1>2 DEF BacklogInv
    <3>4. Taken(d) <= Len(V)
      BY <3>c DEF Taken, g, b
    <3> QED
      BY <3>1, <3>3, <3>4, <1>1 DEF BacklogInv, Taken
  <2>2. ChanInv(d, V)'
    <3>1. ChanInv(d, W)
      BY <1>6 DEF ClientInv
    <3>2. \A e : Holds(W, e) => Holds(V, e)
      <4>1. DOMAIN W = 1..Len(W)
        OBVIOUS
      <4> QED
        BY <1>2, <4>1 DEF Holds
    <3> QED
      BY <3>1, <3>2, <1>1, <1>3 DEF ChanInv
  <2> QED
    BY <2>1, <2>2
<1>7. ASSUME pc[d] \in {"backlog", "live"} PROVE JoinInv(d, V)'
  <2>1. JoinInv(d, W) /\ ChanInv(d, W)
    BY <1>7 DEF ClientInv
  <2>2. ASSUME NEW j \in DOMAIN V, j > Taken(d)
        PROVE  /\ d \in subs => Holds(chan[d], V[j]) \/ V[j] = made'
               /\ \A i \in DOMAIN chan[d] : V[j] <= chan[d][i] => Holds(chan[d], V[j])
    <3>1. CASE j \in DOMAIN W
      BY <1>1, <1>2, <2>1, <2>2, <3>1 DEF JoinInv
    <3>2. CASE V[j] = made + 1
      <4>1. \A i \in DOMAIN chan[d] : chan[d][i] \in Nat /\ chan[d][i] <= made
        BY <1>3, <2>1 DEF ChanInv
      <4> QED
        BY <1>1, <3>2, <4>1
    <3> QED
      BY <1>2, <3>1, <3>2
  <2> QED
    BY <1>1, <2>2 DEF JoinInv, Taken
<1> QED
  BY <1>1, <1>4, <1>5, <1>6, <1>7 DEF ClientInv

\* The sequences of a client hold events, which are numbers.
LEMMA ClientTypes ==
    ASSUME TypeOK, NEW d \in Clients
    PROVE  /\ Events \subseteq Nat
           /\ got[d] \in Seq(Events) /\ backlog[d] \in Seq(Events) /\ chan[d] \in Seq(Events)
           /\ Len(got[d]) \in Nat /\ Len(backlog[d]) \in Nat /\ Len(chan[d]) \in Nat
           /\ \A i \in DOMAIN chan[d] : chan[d][i] \in Events
           /\ after[d] \in Nat /\ last[d] \in Nat /\ made \in Nat
<1>1. Events \subseteq Nat
  BY EventsAssumption DEF Events
<1>2. /\ got[d] \in Seq(Events) /\ backlog[d] \in Seq(Events) /\ chan[d] \in Seq(Events)
  BY DEF TypeOK, Events
<1>3. /\ Len(got[d]) \in Nat /\ Len(backlog[d]) \in Nat /\ Len(chan[d]) \in Nat
  BY <1>2
<1>4. \A i \in DOMAIN chan[d] : chan[d][i] \in Events
  BY <1>2
<1>5. after[d] \in Nat /\ last[d] \in Nat /\ made \in Nat
  BY DEF TypeOK
<1> QED
  BY <1>1, <1>2, <1>3, <1>4, <1>5

\* An event that is not written is in no file and no subscription.
LEMMA FailClient ==
    ASSUME TypeOK, AppendFails, NEW d \in Clients, NEW W, ClientInv(d, W)
    PROVE  ClientInv(d, W)'
<1>1. /\ made' = made + 1 /\ made \in Nat /\ ~ publishing /\ ~ publishing'
      /\ UNCHANGED <<pc, after, last, backlog, got, chan, subs>>
  BY DEF AppendFails, TypeOK, taskVars
<1>2. \A i \in DOMAIN chan[d] : chan[d][i] \in Nat
  BY ClientTypes
<1>3. ChanInv(d, W) => ChanInv(d, W)'
  BY <1>1, <1>2 DEF ChanInv
<1>4. JoinInv(d, W) => JoinInv(d, W)'
  BY <1>1 DEF JoinInv, Taken
<1>5. BacklogInv(d, W) => BacklogInv(d, W)'
  BY <1>1 DEF BacklogInv, Taken
<1>6. SentInv(d, W) => SentInv(d, W)'
  BY <1>1 DEF SentInv
<1> QED
  BY <1>1, <1>3, <1>4, <1>5, <1>6 DEF ClientInv, NewClient

\* The event is put into the subscription, or the subscription is cut off.
LEMMA PublishClient ==
    ASSUME TypeOK, Publish, NEW d \in Clients, NEW W \in Seq(Events),
           WantedInv(after[d], W), ClientInv(d, W)
    PROVE  ClientInv(d, W)'
<1>1. /\ publishing /\ ~ publishing'
      /\ UNCHANGED <<made, pc, after, last, backlog, got>>
      /\ made \in Events
  BY EventsAssumption DEF Publish, taskVars, TypeOK, Events
<1>2. \/ d \in subs /\ chan'[d] = Append(chan[d], made)
      \/ d \notin subs' /\ chan'[d] = chan[d]
  BY DEF Publish
<1>3. SentInv(d, W) => SentInv(d, W)'
  BY <1>1 DEF SentInv
<1>4. BacklogInv(d, W) => BacklogInv(d, W)'
  BY <1>1 DEF BacklogInv, Taken
<1>5. CASE d \in subs /\ chan'[d] = Append(chan[d], made)
  <2>1. /\ chan[d] \in Seq(Events)
        /\ \A i \in DOMAIN chan'[d] :
              \/ i \in DOMAIN chan[d] /\ chan'[d][i] = chan[d][i]
              \/ chan'[d][i] = made
        /\ \A i \in DOMAIN chan[d] : i \in DOMAIN chan'[d] /\ chan'[d][i] = chan[d][i]
        /\ Holds(chan'[d], made)
    <3>1. chan[d] \in Seq(Events)
      BY ClientTypes
    <3>2. Len(chan[d]) + 1 \in DOMAIN chan'[d] /\ chan'[d][Len(chan[d]) + 1] = made
      BY <1>1, <1>5, <3>1
    <3>3. Holds(chan'[d], made)
      BY <3>2 DEF Holds
    <3> QED
      BY <1>1, <1>5, <3>1, <3>3
  <2>2. NewClient(d)'
    BY <1>1, <1>5 DEF ClientInv, NewClient
  <2>3. ASSUME ChanInv(d, W) PROVE ChanInv(d, W)'
    <3>1. \A i \in DOMAIN chan[d] : chan[d][i] < made
      BY <1>1, <2>3 DEF ChanInv
    <3>2. Increasing(chan'[d])
      BY <1>1, <1>5, <2>1, <2>3, <3>1, IncreasingAppend DEF ChanInv
    <3>3. made > after[d] => Holds(W, made)
      <4>1. Len(W) > 0 => Len(W) \in DOMAIN W
        OBVIOUS
      <4> QED
        BY <1>1, <4>1 DEF WantedInv, Holds
    <3>4. made <= made
      BY <1>1, ClientTypes
    <3> QED
      BY <1>1, <2>1, <2>3, <3>2, <3>3, <3>4 DEF ChanInv
  <2>4. ASSUME JoinInv(d, W) PROVE JoinInv(d, W)'
    <3>1. \A e : Holds(chan[d], e) => Holds(chan'[d], e)
      BY <2>1 DEF Holds
    <3>2. \A j \in DOMAIN W : j > Taken(d) => Holds(chan'[d], W[j])
      BY <1>5, <2>1, <2>4, <3>1 DEF JoinInv
    <3> QED
      BY <1>1, <3>2 DEF JoinInv, Taken
  <2> QED
    BY <1>1, <1>3, <1>4, <2>2, <2>3, <2>4 DEF ClientInv
<1>6. CASE d \notin subs' /\ chan'[d] = chan[d]
  <2>1. NewClient(d)'
    BY <1>1, <1>6 DEF ClientInv, NewClient
  <2>2. ChanInv(d, W) => ChanInv(d, W)'
    BY <1>1, <1>6 DEF ChanInv
  <2>3. JoinInv(d, W) => JoinInv(d, W)'
    BY <1>1, <1>6 DEF JoinInv, Taken
  <2> QED
    BY <1>1, <1>3, <1>4, <2>1, <2>2, <2>3 DEF ClientInv
<1> QED
  BY <1>2, <1>5, <1>6

\* The client subscribes; nothing was sent and nothing is in the subscription.
LEMMA SubscribeClient ==
    ASSUME TypeOK, NEW d \in Clients, NEW n \in 0..MaxEvents, Subscribe(d, n),
           NEW V, V \in Seq(Events), NEW W, ClientInv(d, W)
    PROVE  ClientInv(d, V)'
<1>1. /\ pc[d] = "new" /\ pc'[d] = "subscribed" /\ after'[d] = n /\ last'[d] = n
      /\ UNCHANGED <<chan, backlog, got>>
  BY DEF Subscribe, TypeOK
<1>2. chan[d] = <<>> /\ got[d] = <<>> /\ backlog[d] = <<>>
  BY <1>1 DEF ClientInv, NewClient
<1>3. Len(V) \in Nat
  OBVIOUS
<1>4. SentInv(d, V)'
  BY <1>1, <1>2, <1>3 DEF SentInv
<1>5. BacklogInv(d, V)'
  BY <1>1, <1>2, <1>3 DEF BacklogInv, Taken
<1>6. ChanInv(d, V)'
  BY <1>1, <1>2 DEF ChanInv, Increasing
<1> QED
  BY <1>1, <1>4, <1>5, <1>6 DEF ClientInv, NewClient

\* The backlog is loaded: all of the file that the client wants.
LEMMA LoadClient ==
    ASSUME TypeOK, NEW d \in Clients, LoadAfter(d), NEW W \in Seq(Events),
           W = EventsAfter(log, after[d]), ClientInv(d, W)
    PROVE  ClientInv(d, W)'
<1>1. /\ pc[d] = "subscribed" /\ pc'[d] = "backlog" /\ backlog'[d] = W
      /\ UNCHANGED <<chan, got, after, last, made, publishing, subs>>
  BY DEF LoadAfter, TypeOK, pumpVars
<1>2. SentInv(d, W) /\ BacklogInv(d, W) /\ ChanInv(d, W)
  BY <1>1 DEF ClientInv
<1>3. got[d] = <<>> /\ Len(W) \in Nat
  BY <1>1, <1>2 DEF BacklogInv
<1>4. SentInv(d, W)' /\ ChanInv(d, W)'
  BY <1>1, <1>2 DEF SentInv, ChanInv
<1>5. BacklogInv(d, W)'
  BY <1>1, <1>3 DEF BacklogInv, Taken
<1>6. JoinInv(d, W)'
  BY <1>1, <1>3 DEF JoinInv, Taken
<1> QED
  BY <1>1, <1>4, <1>5, <1>6 DEF ClientInv, NewClient

\* What appending an element does
LEMMA AppendFacts ==
    ASSUME NEW S, NEW s \in Seq(S), NEW e \in S
    PROVE  /\ Len(Append(s, e)) = Len(s) + 1
           /\ Append(s, e)[Len(s) + 1] = e
           /\ Append(s, e) # <<>>
           /\ \A i \in 1..Len(s) : Append(s, e)[i] = s[i]
OBVIOUS

\* The task of a request returns: all that matters is what the client was sent.
LEMMA ReturnClient ==
    ASSUME NEW d \in Clients, NEW W, ClientInv(d, W), pc[d] # "new", pc'[d] = "over",
           UNCHANGED got[d]
    PROVE  ClientInv(d, W)'
BY DEF ClientInv, NewClient, SentInv

\* The backlog is sent: the task turns to the subscription.
LEMMA LiveClient ==
    ASSUME NEW d \in Clients, NEW W, ClientInv(d, W),
           pc[d] = "backlog", backlog[d] = <<>>, pc'[d] = "live",
           UNCHANGED <<made, publishing, subs, chan, after, last, backlog, got>>
    PROVE  ClientInv(d, W)'
BY DEF ClientInv, NewClient, SentInv, BacklogInv, ChanInv, JoinInv, Taken

\* An event is sent that is the next one the client wants.
LEMMA DeliverNext ==
    ASSUME TypeOK, NEW d \in Clients, NEW W \in Seq(Events), NEW e,
           Increasing(W), \A i \in DOMAIN W : W[i] > after[d],
           SentInv(d, W), pc[d] # "over", Deliver(d, e),
           Len(got[d]) < Len(W), e = W[Len(got[d]) + 1], UNCHANGED after
    PROVE  SentInv(d, W)' /\ Len(got'[d]) = Len(got[d]) + 1
<1> DEFINE n == Len(got[d])
<1>1. n \in Nat /\ Len(W) \in Nat /\ n + 1 \in DOMAIN W /\ got[d] \in Seq(Events)
  BY ClientTypes
<1>2. e \in Events /\ e \in Nat
  BY <1>1, ClientTypes
<1>3. got'[d] = Append(got[d], e)
  BY DEF Deliver, TypeOK
<1>4. /\ Len(got'[d]) = n + 1 /\ got'[d][n + 1] = e /\ got'[d] # <<>>
      /\ \A i \in 1..n : got'[d][i] = got[d][i]
  BY <1>1, <1>2, <1>3, AppendFacts
<1>5. e > last[d]
  <2>1. CASE got[d] = <<>>
    BY <1>1, <2>1 DEF SentInv
  <2>2. CASE got[d] # <<>>
    <3>1. n \in DOMAIN W /\ n < n + 1 /\ last[d] = W[n]
      BY <1>1, <2>2 DEF SentInv
    <3>2. W[n] < W[n + 1]
      BY <1>1, <3>1 DEF Increasing
    <3>3. W[n] \in Nat /\ e \in Nat
      BY <1>1, <1>2, <3>1, ClientTypes
    <3> QED
      BY <3>1, <3>2, <3>3
  <2> QED
    BY <2>1, <2>2
<1>6. last'[d] = e
  BY <1>5 DEF Deliver, TypeOK
<1> HIDE DEF n
<1>7. \A i \in 1..(n + 1) : i = n + 1 \/ i \in 1..n
  BY <1>1 DEF n
<1>8. \A i \in 1..n : got[d][i] = W[i]
  BY DEF SentInv, n
<1>9. n + 1 <= Len(W)
  BY <1>1 DEF n
<1> QED
  BY <1>4, <1>6, <1>7, <1>8, <1>9 DEF SentInv, n

\* The head of the backlog is the next event the client wants.
LEMMA SendClient ==
    ASSUME TypeOK, NEW d \in Clients, NEW W \in Seq(Events), WantedInv(after[d], W),
           SendBacklog(d), ClientInv(d, W)
    PROVE  ClientInv(d, W)'
<1>1. /\ pc[d] = "backlog" /\ backlog[d] # <<>> /\ backlog'[d] = Tail(backlog[d])
      /\ Deliver(d, Head(backlog[d]))
      /\ UNCHANGED <<made, publishing, subs, chan, after>>
      /\ pc'[d] \in {"backlog", "over"}
  BY DEF SendBacklog, Deliver, Return, TypeOK, pumpVars
<1>2. SentInv(d, W) /\ BacklogInv(d, W) /\ ChanInv(d, W) /\ JoinInv(d, W)
  BY <1>1 DEF ClientInv
<1> DEFINE n == Len(got[d])
           b == Len(backlog[d])
<1>3. /\ n \in Nat /\ b \in Nat /\ b > 0 /\ Len(W) \in Nat /\ backlog[d] \in Seq(Events)
      /\ Head(backlog[d]) = backlog[d][1] /\ Len(backlog'[d]) = b - 1
      /\ \A i \in 1..(b - 1) : i + 1 \in 1..b /\ backlog'[d][i] = backlog[d][i + 1]
  BY <1>1, ClientTypes
<1>4. n + b <= Len(W) /\ \A i \in 1..b : backlog[d][i] = W[n + i]
  BY <1>2 DEF BacklogInv, Taken
<1> HIDE DEF n, b
<1>5. n < Len(W) /\ Head(backlog[d]) = W[n + 1]
  BY <1>3, <1>4
<1>6. SentInv(d, W)' /\ Len(got'[d]) = n + 1
  BY <1>1, <1>2, <1>5, DeliverNext DEF WantedInv, n
<1>7. Taken(d)' = n + b /\ Taken(d) = n + b
  <2>1. Taken(d)' = Len(got'[d]) + Len(backlog'[d])
    BY DEF Taken
  <2>2. (n + 1) + (b - 1) = n + b
    BY <1>3
  <2> QED
    BY <1>3, <1>6, <2>1, <2>2 DEF Taken, n, b
<1>8. BacklogInv(d, W)'
  <2>1. ASSUME NEW i \in 1..(b - 1)
        PROVE  backlog'[d][i] = W[(n + 1) + i]
    <3>1. backlog[d][i + 1] = W[n + (i + 1)] /\ backlog'[d][i] = backlog[d][i + 1]
      BY <1>3, <1>4
    <3>2. n + (i + 1) = (n + 1) + i
      BY <1>3
    <3> QED
      BY <3>1, <3>2
  <2> QED
    BY <1>1, <1>3, <1>4, <1>6, <1>7, <2>1 DEF BacklogInv
<1>9. ChanInv(d, W)'
  BY <1>1, <1>2 DEF ChanInv
<1>10. JoinInv(d, W)'
  BY <1>1, <1>2, <1>7 DEF JoinInv
<1> QED
  BY <1>1, <1>6, <1>8, <1>9, <1>10 DEF ClientInv, NewClient

\* The head of the subscription is the next event the client wants, or one
\* that it has been sent, which is skipped.
LEMMA ReceiveClient ==
    ASSUME TypeOK, NEW d \in Clients, NEW W \in Seq(Events), WantedInv(after[d], W),
           Receive(d), ClientInv(d, W)
    PROVE  ClientInv(d, W)'
<1> DEFINE h == Head(chan[d])
           n == Len(got[d])
<1>1. /\ pc[d] = "live" /\ chan[d] # <<>> /\ chan'[d] = Tail(chan[d])
      /\ IF h > last[d] THEN Deliver(d, h) ELSE UNCHANGED <<pc, last, got, ended>>
      /\ UNCHANGED <<made, publishing, subs, backlog, after>>
      /\ pc'[d] \in {"live", "over"}
  BY DEF Receive, Deliver, Return, TypeOK, pumpVars
<1>2. SentInv(d, W) /\ BacklogInv(d, W) /\ ChanInv(d, W) /\ JoinInv(d, W)
  BY <1>1 DEF ClientInv
<1>3. /\ n \in Nat /\ Len(W) \in Nat /\ chan[d] \in Seq(Events) /\ n <= Len(W)
      /\ h \in Events /\ 1 \in DOMAIN chan[d] /\ chan[d][1] = h
      /\ last[d] \in Nat /\ after[d] \in Nat /\ h \in Nat
      /\ \A j \in DOMAIN W : W[j] \in Events /\ W[j] \in Nat
  <2>1. h \in Events /\ 1 \in DOMAIN chan[d] /\ chan[d][1] = h
    BY <1>1, ClientTypes
  <2>2. n <= Len(W)
    BY <1>2 DEF SentInv
  <2> QED
    BY <2>1, <2>2, ClientTypes
<1>4. backlog[d] = <<>> /\ backlog'[d] = <<>> /\ Taken(d) = n
  <2>1. backlog[d] = <<>>
    BY <1>1, <1>2 DEF BacklogInv
  <2> QED
    BY <1>1, <1>3, <2>1 DEF Taken
<1>5. /\ Increasing(chan'[d])
      /\ \A e \in Events : Holds(chan[d], e) /\ e > h => Holds(chan'[d], e)
      /\ \A i \in DOMAIN chan'[d] : /\ i + 1 \in DOMAIN chan[d]
                                    /\ chan'[d][i] = chan[d][i + 1]
                                    /\ chan'[d][i] > h
  BY <1>1, <1>2, <1>3, IncreasingTail DEF ChanInv
<1>6. ChanInv(d, W)'
  BY <1>1, <1>2, <1>5 DEF ChanInv
<1>7. \A j \in DOMAIN W : j > n => W[j] > last[d]
  <2>1. SUFFICES ASSUME NEW j \in DOMAIN W, j > n PROVE W[j] > last[d]
    OBVIOUS
  <2>2. CASE got[d] = <<>>
    BY <1>1, <1>2, <2>2 DEF SentInv, WantedInv
  <2>3. CASE got[d] # <<>>
    <3>1. n # 0
      BY <2>3, ClientTypes
    <3>2. n \in DOMAIN W /\ last[d] = W[n]
      BY <1>1, <1>2, <1>3, <2>3, <3>1 DEF SentInv
    <3>3. W[n] < W[j]
      BY <2>1, <3>2 DEF WantedInv, Increasing
    <3> QED
      BY <1>3, <3>2, <3>3
  <2> QED
    BY <2>2, <2>3
<1>8. CASE ~ (h > last[d])
  <2>1. UNCHANGED <<pc[d], last[d], got[d]>>
    BY <1>1, <1>8
  <2>2. SentInv(d, W)' /\ BacklogInv(d, W)' /\ Taken(d)' = n
    BY <1>1, <1>2, <1>4, <2>1 DEF SentInv, BacklogInv, Taken
  <2>3. ASSUME NEW j \in DOMAIN W, j > n
        PROVE  Holds(chan[d], W[j]) => Holds(chan'[d], W[j])
    <3>1. W[j] > h
      BY <1>3, <1>7, <1>8, <2>3
    <3> QED
      BY <1>3, <1>5, <3>1
  <2>4. JoinInv(d, W)'
    BY <1>1, <1>2, <1>4, <1>5, <2>2, <2>3 DEF JoinInv
  <2> QED
    BY <1>1, <1>6, <2>1, <2>2, <2>4 DEF ClientInv, NewClient
<1>9. CASE h > last[d]
  <2>1. Deliver(d, h)
    BY <1>1, <1>9
  <2>2. h > after[d]
    <3>1. CASE got[d] = <<>>
      BY <1>1, <1>2, <1>9, <3>1 DEF SentInv
    <3>2. CASE got[d] # <<>>
      <4>1. n # 0
        BY <3>2, ClientTypes
      <4>2. n \in DOMAIN W /\ last[d] = W[n]
        BY <1>1, <1>2, <1>3, <3>2, <4>1 DEF SentInv
      <4>3. W[n] > after[d]
        BY <4>2 DEF WantedInv
      <4> QED
        BY <1>3, <1>9, <4>2, <4>3
    <3> QED
      BY <3>1, <3>2
  <2>3. PICK p \in DOMAIN W : W[p] = h
    BY <1>2, <1>3, <2>2 DEF ChanInv, Holds
  <2>4. p > n
    <3>1. SUFFICES ASSUME p <= n PROVE FALSE
      BY <1>3, <2>3
    <3>2. n \in DOMAIN W /\ n # 0 /\ got[d] # <<>>
      BY <1>3, <2>3, <3>1
    <3>3. last[d] = W[n]
      BY <1>1, <1>2, <3>2 DEF SentInv
    <3>4. p = n \/ W[p] < W[n]
      BY <1>3, <2>3, <3>1, <3>2 DEF WantedInv, Increasing
    <3> QED
      BY <1>3, <1>9, <2>3, <3>2, <3>3, <3>4
  <2>5. n + 1 \in DOMAIN W /\ n + 1 > n /\ n < Len(W)
    BY <1>3, <2>3, <2>4
  <2>6. W[n + 1] <= h
    <3>1. p = n + 1 \/ W[n + 1] < W[p]
      BY <1>3, <2>3, <2>4, <2>5 DEF WantedInv, Increasing
    <3> QED
      BY <1>3, <2>3, <2>5, <3>1
  <2>7. Holds(chan[d], W[n + 1])
    BY <1>2, <1>3, <1>4, <2>5, <2>6 DEF JoinInv
  <2>8. h = W[n + 1]
    <3>1. PICK k \in DOMAIN chan[d] : chan[d][k] = W[n + 1]
      BY <2>7 DEF Holds
    <3>2. k = 1 \/ h < chan[d][k]
      BY <1>2, <1>3, <3>1 DEF ChanInv, Increasing
    <3> QED
      BY <1>3, <2>5, <2>6, <3>1, <3>2
  <2>9. SentInv(d, W)' /\ Len(got'[d]) = n + 1
    BY <1>1, <1>2, <2>1, <2>5, <2>8, DeliverNext DEF WantedInv
  <2>10. Taken(d)' = n + 1
    BY <1>3, <1>4, <2>9 DEF Taken
  <2>11. BacklogInv(d, W)'
    BY <1>1, <1>3, <1>4, <2>5, <2>10 DEF BacklogInv
  <2>12. ASSUME NEW j \in DOMAIN W, j > n + 1
         PROVE  j > n /\ (Holds(chan[d], W[j]) => Holds(chan'[d], W[j]))
    <3>1. W[j] > h
      BY <1>3, <2>5, <2>8, <2>12 DEF WantedInv, Increasing
    <3> QED
      BY <1>3, <1>5, <2>12, <3>1
  <2>13. JoinInv(d, W)'
    BY <1>1, <1>2, <1>4, <1>5, <2>10, <2>12 DEF JoinInv
  <2> QED
    BY <1>1, <1>6, <2>9, <2>11, <2>13 DEF ClientInv, NewClient
<1> QED
  BY <1>8, <1>9

\* Every step keeps the invariant of every client.
LEMMA ClientStep ==
    ASSUME TypeOK, ReplayInv, [Next]_vars, NEW d \in Clients
    PROVE  ClientInv(d, EventsAfter(log, after[d]))'
<1>1. PICK W \in Seq(Events) : W = EventsAfter(log, after[d]) /\ ClientInv(d, W)
  <2>1. EventsAfter(log, after[d]) \in Seq(Events)
    BY WantedType DEF TypeOK, Events
  <2> QED
    BY <2>1 DEF ReplayInv
<1>a. WantedInv(after[d], W)
  BY <1>1 DEF ReplayInv, FileInv, TypeOK
<1>b. PICK V : V = EventsAfter(log', after'[d])
  OBVIOUS
<1>2. SUFFICES ClientInv(d, V)'
  BY <1>b DEF ClientInv, NewClient, SentInv, BacklogInv, ChanInv, JoinInv, Taken
<1>3. CASE AppendEvent
  <2>1. /\ log' = Append(log, made + 1) /\ after' = after
        /\ log \in Seq(Events) /\ made + 1 \in Events
    BY <1>3, EventsAssumption DEF AppendEvent, TypeOK, Events, taskVars
  <2>2. V = IF made + 1 > after[d] THEN Append(W, made + 1) ELSE W
    BY <1>1, <1>b, <2>1, WantedAppend
  <2> QED
    BY <1>1, <1>3, <2>2, AppendClient
<1>4. ASSUME V = W, ClientInv(d, W)' PROVE ClientInv(d, V)'
  BY <1>4 DEF ClientInv, NewClient, SentInv, BacklogInv, ChanInv, JoinInv, Taken
<1>5. CASE AppendFails
  <2>1. V = W
    BY <1>1, <1>b, <1>5 DEF AppendFails, taskVars
  <2>2. ClientInv(d, W)'
    BY <1>1, <1>5, FailClient
  <2> QED
    BY <1>4, <2>1, <2>2
<1>6. CASE Publish
  <2>1. V = W
    BY <1>1, <1>b, <1>6 DEF Publish, taskVars
  <2>2. ClientInv(d, W)'
    BY <1>1, <1>a, <1>6, PublishClient
  <2> QED
    BY <1>4, <2>1, <2>2
<1>7. CASE UNCHANGED vars
  <2>1. V = W
    BY <1>1, <1>b, <1>7 DEF vars, pumpVars, taskVars
  <2>2. ClientInv(d, W)'
    BY <1>1, <1>7, ClientFrame DEF vars, pumpVars, taskVars
  <2> QED
    BY <1>4, <2>1, <2>2
<1>8. ASSUME NEW c \in Clients, NEW n \in 0..MaxEvents, Subscribe(c, n)
      PROVE  ClientInv(d, V)'
  <2>1. CASE c = d
    <3>1. V \in Seq(Events)
      BY <1>b, <1>8, WantedType DEF Subscribe, pumpVars, TypeOK, Events
    <3> QED
      BY <1>1, <1>a, <1>b, <1>8, <2>1, <3>1, SubscribeClient
  <2>2. CASE c # d
    <3>1. /\ after'[d] = after[d] /\ log' = log /\ (d \in subs' <=> d \in subs)
          /\ UNCHANGED <<made, publishing, pc[d], last[d], backlog[d], got[d], chan[d]>>
      BY <1>8, <2>2 DEF Subscribe, pumpVars, TypeOK
    <3>2. V = W
      BY <1>1, <1>b, <3>1
    <3> QED
      BY <1>1, <1>4, <3>1, <3>2, ClientFrame
  <2> QED
    BY <2>1, <2>2
<1>9. ASSUME NEW c \in Clients,
             \/ LoadAfter(c) \/ LoadFails(c) \/ SendBacklog(c) \/ CheckTerminal(c)
             \/ CheckFails(c) \/ Receive(c) \/ LiveClosed(c) \/ ClientGone(c)
      PROVE  ClientInv(d, V)'
  <2>1. V = W
    BY <1>1, <1>b, <1>9 DEF LoadAfter, LoadFails, SendBacklog, CheckTerminal, CheckFails,
          Receive, LiveClosed, ClientGone, pumpVars
  <2>2. CASE c # d
    <3>1. /\ d \in subs' <=> d \in subs
          /\ UNCHANGED <<made, publishing, after[d], backlog[d], chan[d]>>
      BY <1>9, <2>2 DEF LoadAfter, LoadFails, SendBacklog, CheckTerminal,
            CheckFails, Receive, LiveClosed, ClientGone, pumpVars, TypeOK
    <3>2. UNCHANGED <<pc[d], last[d], got[d]>>
      BY <1>9, <2>2 DEF LoadAfter, LoadFails, SendBacklog, CheckTerminal,
            CheckFails, Receive, LiveClosed, ClientGone, TypeOK, Deliver, Return
    <3> QED
      BY <1>1, <1>4, <2>1, <3>1, <3>2, ClientFrame
  <2>3. CASE c = d /\ LoadAfter(c)
    BY <1>1, <1>4, <2>1, <2>3, LoadClient
  <2>4. CASE c = d /\ SendBacklog(c)
    BY <1>1, <1>a, <1>4, <2>1, <2>4, SendClient
  <2>5. CASE c = d /\ Receive(c)
    BY <1>1, <1>a, <1>4, <2>1, <2>5, ReceiveClient
  <2>6. CASE c = d /\ (CheckTerminal(c) \/ CheckFails(c))
    <3>1. CASE pc'[d] = "over"
      <4>1. pc[d] # "new" /\ UNCHANGED got[d]
        BY <2>6 DEF CheckTerminal, CheckFails
      <4> QED
        BY <1>1, <1>4, <2>1, <3>1, <4>1, ReturnClient
    <3>2. CASE pc'[d] = "live"
      <4>1. /\ pc[d] = "backlog" /\ backlog[d] = <<>>
            /\ UNCHANGED <<made, publishing, subs, chan, after, last, backlog, got>>
        BY <2>6 DEF CheckTerminal, CheckFails, pumpVars
      <4> QED
        BY <1>1, <1>4, <2>1, <3>2, <4>1, LiveClient
    <3> QED
      BY <2>6, <3>1, <3>2 DEF CheckTerminal, CheckFails, Return, TypeOK
  <2>7. CASE c = d /\ (LoadFails(c) \/ LiveClosed(c) \/ ClientGone(c))
    <3>1. pc[d] # "new" /\ pc'[d] = "over" /\ UNCHANGED got[d]
      BY <2>7 DEF LoadFails, LiveClosed, ClientGone, Return, TypeOK
    <3> QED
      BY <1>1, <1>4, <2>1, <3>1, ReturnClient
  <2> QED
    BY <1>9, <2>2, <2>3, <2>4, <2>5, <2>6, <2>7
<1> QED
  BY <1>3, <1>5, <1>6, <1>7, <1>8, <1>9 DEF Next, Quiet

\* The invariant is inductive.
LEMMA ReplayStep ==
    TypeOK /\ ReplayInv /\ [Next]_vars => ReplayInv'
<1> SUFFICES ASSUME TypeOK, ReplayInv, [Next]_vars PROVE ReplayInv'
  OBVIOUS
<1>1. FileInv'
  BY FileStep DEF ReplayInv
<1>2. \A d \in Clients : ClientInv(d, EventsAfter(log, after[d]))'
  BY ClientStep
<1> QED
  BY <1>1, <1>2 DEF ReplayInv

LEMMA ReplayInit ==
    Init => ReplayInv
<1> SUFFICES ASSUME Init PROVE ReplayInv
  OBVIOUS
<1>1. \A n : EventsAfter(log, n) = <<>>
  BY WantedEmpty DEF Init
<1>2. FileInv
  BY <1>1 DEF Init, FileInv, WantedInv, Increasing
<1>3. \A c \in Clients : ClientInv(c, EventsAfter(log, after[c]))
  BY DEF Init, ClientInv, NewClient
<1> QED
  BY <1>2, <1>3 DEF ReplayInv

\* What the client was sent is a prefix of what it wants.
LEMMA ReplaySuffices ==
    TypeOK /\ ReplayInv => GapFree
<1> SUFFICES ASSUME TypeOK, ReplayInv, NEW c \in Clients, pc[c] # "new"
             PROVE  IsPrefix(got[c], EventsAfter(log, after[c]))
  BY DEF GapFree
<1> DEFINE W == EventsAfter(log, after[c])
<1>1. W \in Seq(Events) /\ got[c] \in Seq(Events)
  BY WantedType DEF TypeOK, Events
<1>2. Len(got[c]) <= Len(W) /\ \A i \in 1..Len(got[c]) : got[c][i] = W[i]
  BY DEF ReplayInv, ClientInv, SentInv
<1> HIDE DEF W
<1>3. SubSeq(got[c], 1, Len(got[c])) = SubSeq(W, 1, Len(got[c]))
  BY <1>1, <1>2
<1> QED
  BY <1>2, <1>3 DEF IsPrefix, W

-----------------------------------------------------------------------------
\* Every variable of the run's file, its subscriptions and the requests keeps
\* its type, and no subscription holds more than its channel can.
THEOREM EventTypes == Spec => []TypeOK
<1> QED
  BY TypeInit, TypeStep, PTL DEF Spec

\* What stream_run_events has sent is always the beginning of what the file
\* holds after after_seq, however the appends and publications of the pump
\* interleave with the four steps of a request: nothing twice, nothing out of
\* order, nothing left out.
THEOREM ReplayHasNoGap == Spec => []GapFree
<1> QED
  BY TypeInit, TypeStep, ReplayInit, ReplayStep, ReplaySuffices, PTL DEF Spec
=============================================================================

---------------------------- MODULE ServerProofs ----------------------------
(***************************************************************************)
(* The server's side of a reply, for any tree of sub-agents.               *)
(***************************************************************************)
EXTENDS ReplyFlow, FilteringProofs

-----------------------------------------------------------------------------
(* Types                                                                   *)

Acts == {"none", "created", "live", "over", "marked", "closed", "lost"}
Outcomes == {"none", "completed", "cancelled", "error"}
Statuses == {"none", "Queued", "Running"} \cup Terminal

\* What the core makes are events.
LEMMA EventTypes ==
    /\ \A r \in RunIds, n \in Nat, kind \in {"message", "finish", "error"} :
          Event(r, kind, n) \in Events
    /\ Event(Root, "response", 0) \in Events
    /\ \A n \in Nat, k \in Kids, st \in {"running", "completed", "failed"} :
          SessionEvent(Parent[k], n, k, st) \in Events
<1>1. \A r \in RunIds, n \in Nat, kind \in {"message", "finish", "error"} :
         [run |-> r, type |-> kind, seq |-> n, kid |-> None, status |-> "none"] \in Events
  BY DEF Events
<1>2. [run |-> Root, type |-> "response", seq |-> 0, kid |-> None, status |-> "none"] \in Events
  BY DEF Events
<1>3. \A n \in Nat, k \in Kids, st \in {"running", "completed", "failed"} :
         [run |-> Parent[k], type |-> "sub_agent_session", seq |-> n, kid |-> k, status |-> st] \in Events
  BY TreeAssumption DEF Events
<1> QED
  BY <1>1, <1>2, <1>3 DEF Event, SessionEvent

\* What the fields of an event can be.
LEMMA EventFields ==
    ASSUME NEW e \in Events
    PROVE  /\ e.run \in RunIds /\ e.seq \in Nat
           /\ e.type \in {"message", "finish", "error", "response", "sub_agent_session"}
           /\ e.type = "sub_agent_session" => e.kid \in Kids /\ e.run = Parent[e.kid]
           /\ e.type = "response" => e.run = Root
BY DEF Events, RunIds

\* Numbering an event keeps the types.
LEMMA NumberTypes ==
    ASSUME CoreTypeOK, NEW t \in RunIds, NEW r \in RunIds, NEW e \in Events, Number(t, r, e)
    PROVE  seq' \in [RunIds -> Nat] /\ hold' \in [RunIds -> Events \cup {None}]
BY DEF CoreTypeOK, Number

\* The actions of SubAgents keep the types of the core.
LEMMA CoreStepTypes ==
    ASSUME CoreTypeOK, NEW r \in RunIds, CoreStep(r)
    PROVE  CoreTypeOK'
<1> USE TreeAssumption DEF CoreTypeOK
<1>1. CASE Write(r)
  <2>1. hold[r] \in Events
    BY <1>1 DEF Write
  <2> QED
    BY <1>1, <2>1 DEF Write, poolVars
<1>2. CASE SendMessage(r)
  <2>1. Event(r, "message", seq[r]) \in Events
    BY EventTypes
  <2>2. seq' \in [RunIds -> Nat] /\ hold' \in [RunIds -> Events \cup {None}]
    BY <1>2, <2>1, NumberTypes DEF SendMessage
  <2>3. sent' \in [RunIds -> 0..MaxMessages]
    BY <1>2 DEF SendMessage
  <2> QED
    BY <1>2, <2>2, <2>3 DEF SendMessage, poolVars
<1>3. ASSUME NEW how \in {"completed", "cancelled", "error"}, EndRun(r, how)
      PROVE  CoreTypeOK'
  <2>1. Event(r, IF how = "error" THEN "error" ELSE "finish", seq[r]) \in Events
    BY EventTypes
  <2>2. seq' \in [RunIds -> Nat] /\ hold' \in [RunIds -> Events \cup {None}]
    BY <1>3, <2>1, NumberTypes DEF EndRun
  <2> QED
    BY <1>3, <2>2 DEF EndRun, poolVars
<1>4. CASE r \in Kids /\ MarkRunning(r)
  BY <1>4 DEF MarkRunning, RunIds, Terminal
<1>5. CASE r \in Kids /\ MarkEnded(r)
  <2>1. status' \in [Kids -> {"none", "Queued", "Running"} \cup Terminal]
    BY <1>5 DEF MarkEnded, Terminal
  <2> QED
    BY <1>5, <2>1 DEF MarkEnded, RunIds
<1>6. CASE r \in Kids /\ SendClosing(r)
  <2>1. Parent[r] \in RunIds
    BY <1>6
  <2>2. SessionEvent(Parent[r], seq[Parent[r]], r,
                     IF outcome[r] = "completed" THEN "completed" ELSE "failed") \in Events
    BY <1>6, <2>1, EventTypes
  <2>3. seq' \in [RunIds -> Nat] /\ hold' \in [RunIds -> Events \cup {None}]
    BY <1>6, <2>1, <2>2, NumberTypes DEF SendClosing
  <2> QED
    BY <1>6, <2>3 DEF SendClosing, poolVars
<1>7. CASE ReturnFromSubagent(r)
  BY <1>7 DEF ReturnFromSubagent, poolVars
<1> QED
  BY <1>1, <1>2, <1>3, <1>4, <1>5, <1>6, <1>7 DEF CoreStep

LEMMA CoreChoiceTypes ==
    ASSUME CoreTypeOK, NEW r \in RunIds, CoreChoice(r)
    PROVE  CoreTypeOK'
<1> USE TreeAssumption DEF CoreTypeOK
<1>1. CASE TimeoutInSubagent(r)
  <2>1. Event(r, "error", seq[r]) \in Events
    BY EventTypes
  <2>2. seq' \in [RunIds -> Nat] /\ hold' \in [RunIds -> Events \cup {None}]
    BY <1>1, <2>1, NumberTypes DEF TimeoutInSubagent
  <2> QED
    BY <1>1, <2>2 DEF TimeoutInSubagent, poolVars
<1>2. CASE r \in Kids /\ Spawn(r)
  <2>1. Parent[r] \in RunIds
    BY <1>2
  <2>2. SessionEvent(Parent[r], seq[Parent[r]], r, "running") \in Events
    BY <1>2, <2>1, EventTypes
  <2>3. seq' \in [RunIds -> Nat] /\ hold' \in [RunIds -> Events \cup {None}]
    BY <1>2, <2>1, <2>2, NumberTypes DEF Spawn
  <2>4. waitFor' \in [RunIds -> Kids \cup {None}]
    BY <1>2, <2>1 DEF Spawn
  <2>5. act' \in [RunIds -> Acts]
    BY <1>2 DEF Spawn, RunIds, Acts
  <2>6. status' \in [Kids -> Statuses]
    BY <1>2 DEF Spawn, Statuses
  <2> QED
    BY <1>2, <2>3, <2>4, <2>5, <2>6 DEF Spawn, Acts, Statuses
<1>3. CASE r \in Kids /\ WorkerFails(r)
  <2>1. act' \in [RunIds -> Acts]
    BY <1>3 DEF WorkerFails, RunIds, Acts
  <2>2. status' \in [Kids -> Statuses]
    BY <1>3 DEF WorkerFails, Statuses, Terminal
  <2> QED
    BY <1>3, <2>1, <2>2 DEF WorkerFails, Acts, Statuses
<1>4. ASSUME NEW targets, CancelSubagents(r, targets)
      PROVE  CoreTypeOK'
  <2>1. status' \in [Kids -> Statuses]
    BY <1>4 DEF CancelSubagents, Statuses, Terminal
  <2>2. cancels' \in 0..MaxCancels
    BY <1>4 DEF CancelSubagents
  <2> QED
    BY <1>4, <2>1, <2>2 DEF CancelSubagents, Statuses
<1> QED
  BY <1>1, <1>2, <1>3, <1>4 DEF CoreChoice

\* What the reader does with a line: it is passed on, which a run of the
\* first two levels always gets while the root's channel is registered, or
\* it is dropped; the tables stay tables.
LEMMA RouteTypes ==
    ASSUME CoreTypeOK, RouterTypeOK, listening \in BOOLEAN, Route
    PROVE  /\ CoreTypeOK' /\ RouterTypeOK'
           /\ senders' \subseteq senders
           /\ out # <<>> /\ out' = Tail(out) /\ Head(out) \in Events
           /\ \/ chan' = Append(chan, Head(out)) /\ senders # {} /\ listening
              \/ chan' = chan /\ (senders # {} /\ listening => Head(out).run \notin {Root} \cup DirectKids)
<1> DEFINE e == Head(out)
           table == RoutesAfterSession(e)
           parent == IF table[e.run] # None THEN table[e.run] ELSE PrefixRun(e.run)
           exact == e.run \in senders
           target == CASE exact -> e.run
                       [] ~exact /\ parent \in senders -> parent
                       [] OTHER -> None
           table2 == IF IsTerminal(e) /\ parent # None THEN [table EXCEPT ![e.run] = None] ELSE table
           terminal2 == IF IsTerminal(e) /\ parent = None
                        THEN parentTerminal \cup {e.run} ELSE parentTerminal
<1>1. /\ out # <<>> /\ e \in Events /\ out' = Tail(out) /\ out' \in Seq(Events)
      /\ UNCHANGED <<alive, act, waitFor, sent, outcome, poolVars, seq, hold, listening>>
  <2>1. /\ out # <<>> /\ out' = Tail(out)
        /\ UNCHANGED <<alive, act, waitFor, sent, outcome, poolVars, seq, hold, listening>>
    BY DEF Route
  <2> QED
    BY <2>1 DEF CoreTypeOK
<1>2. PICK remove \in BOOLEAN :
      /\ target # None /\ listening => Len(chan) < ChannelCap
      /\ remove => target # None
      /\ routed' = routed \cup {e}
      /\ chan' = IF target # None /\ listening THEN Append(chan, e) ELSE chan
      /\ dropped' = IF target = None THEN dropped \cup {e} ELSE dropped
      /\ senders' = IF remove THEN senders \ {target} ELSE senders
      /\ childToParent' = IF remove THEN [k \in RunIds |-> IF table2[k] = target THEN None ELSE table2[k]]
                          ELSE table2
      /\ parentTerminal' = IF remove THEN terminal2 \ {target} ELSE terminal2
  BY DEF Route
<1>3. /\ e.run \in RunIds /\ e.seq \in Nat
      /\ e.type = "sub_agent_session" => e.kid \in Kids /\ e.run = Parent[e.kid]
  BY <1>1, EventFields
<1> HIDE DEF e
<1>4. /\ table \in [RunIds -> RunIds \cup {None}]
      /\ \A r \in RunIds : table[r] # None => r \in Kids /\ table[r] = Parent[r]
  BY <1>3, TreeAssumption DEF RouterTypeOK, RoutesAfterSession, RunIds
<1> HIDE DEF table
<1>5. /\ table2 \in [RunIds -> RunIds \cup {None}]
      /\ \A r \in RunIds : table2[r] # None => r \in Kids /\ table2[r] = Parent[r]
  BY <1>3, <1>4
<1>6. /\ parent \in RunIds \cup {None} /\ target \in senders \cup {None}
      /\ Root \in senders => (e.run \in {Root} \cup DirectKids => target = Root)
      /\ Root # None
  BY <1>3, <1>4, TreeAssumption DEF RouterTypeOK, PrefixRun, DirectKids, RunIds
<1>7. terminal2 \subseteq RunIds
  BY <1>3 DEF RouterTypeOK
<1> HIDE DEF table2, parent, target, terminal2
<1>8. /\ childToParent' \in [RunIds -> RunIds \cup {None}]
      /\ \A r \in RunIds : childToParent'[r] # None => r \in Kids /\ childToParent'[r] = Parent[r]
  BY <1>2, <1>5
<1>9. chan' \in Seq(Events) /\ Len(chan') <= ChannelCap
  BY <1>1, <1>2, ChannelAssumption DEF RouterTypeOK
<1>10. RouterTypeOK'
  BY <1>1, <1>2, <1>7, <1>8, <1>9 DEF RouterTypeOK
<1>11. CoreTypeOK'
  BY <1>1 DEF CoreTypeOK, poolVars
<1>12. senders = {} \/ senders = {Root}
  BY DEF RouterTypeOK
<1>13. \/ chan' = Append(chan, e) /\ senders # {} /\ listening
       \/ chan' = chan /\ (senders # {} /\ listening => e.run \notin {Root} \cup DirectKids)
  BY <1>2, <1>6, <1>12
<1> QED
  BY <1>1, <1>2, <1>10, <1>11, <1>13 DEF e

\* One turn of the pump: what it logs, and what becomes of the channel.
LEMMA PumpTypes ==
    ASSUME RouterTypeOK, PumpTypeOK, Pump
    PROVE  /\ RouterTypeOK' /\ PumpTypeOK'
           /\ pump = "on" /\ chan # <<>> /\ Head(chan) \in Events
           /\ \E changed \in BOOLEAN :
                 log' = [log EXCEPT ![Head(chan).run] = @ \o Dispatched(Head(chan), changed)]
           /\ \/ pump' = "on" /\ chan' = Tail(chan) /\ listening' = listening
              \/ pump' = "done" /\ chan' = <<>> /\ ~ listening'
<1> DEFINE e == Head(chan)
<1>1. /\ pump = "on" /\ chan # <<>> /\ e \in Events
      /\ UNCHANGED <<senders, childToParent, parentTerminal, routed, dropped, answered>>
      /\ Tail(chan) \in Seq(Events) /\ Len(Tail(chan)) <= ChannelCap
      /\ <<>> \in Seq(Events) /\ Len(<<>>) <= ChannelCap
  <2>1. /\ pump = "on" /\ chan # <<>>
        /\ UNCHANGED <<senders, childToParent, parentTerminal, routed, dropped, answered>>
    BY DEF Pump
  <2> QED
    BY <2>1, ChannelAssumption DEF RouterTypeOK
<1>2. PICK saved \in BOOLEAN :
      /\ saved \/ (Saves(e) /\ saveFails < MaxSaveFails)
      /\ bound' = BoundAfter(e, saved)
      /\ session' = IF Saves(e) /\ saved THEN SessionAfter(e) ELSE session
      /\ saveFails' = IF saved THEN saveFails ELSE saveFails + 1
  BY DEF Pump
<1>3. PICK changed \in BOOLEAN : log' = [log EXCEPT ![e.run] = @ \o Dispatched(e, changed)]
  BY DEF Pump
<1>4. /\ seenTerm' = (seenTerm \/ EndsReply(e))
      /\ \/ pump' = "on" /\ chan' = Tail(chan) /\ listening' = listening
         \/ pump' = "done" /\ chan' = <<>> /\ listening' = FALSE
  BY DEF Pump
<1>5. /\ e.run \in RunIds /\ e.seq \in Nat
      /\ e.type \in {"message", "finish", "error", "response", "sub_agent_session"}
      /\ e.type = "sub_agent_session" => e.kid \in Kids /\ e.run = Parent[e.kid]
  BY <1>1, EventFields
<1> HIDE DEF e
<1>6. Dispatched(e, changed) \in Seq(Logged)
  <2>1. /\ [type |-> "diff_ready", seq |-> e.seq] \in Logged
        /\ [type |-> e.type, seq |-> e.seq + 1] \in Logged
        /\ [type |-> e.type, seq |-> e.seq] \in Logged
    BY <1>5 DEF Logged
  <2> QED
    BY <2>1 DEF Dispatched
<1>7. log' \in [RunIds -> Seq(Logged)]
  BY <1>3, <1>5, <1>6 DEF PumpTypeOK
<1>8. bound' \subseteq Kids
  BY <1>2, <1>5 DEF BoundAfter, PumpTypeOK
<1>9. Saves(e) => SessionAfter(e) \in [Kids -> {"absent", "task", "streamed", "finished", "closing"}]
  BY <1>5 DEF Saves, SessionAfter, PumpTypeOK
<1>10. saveFails' \in 0..MaxSaveFails
  BY <1>2, SaveAssumption DEF PumpTypeOK
<1>11. PumpTypeOK'
  BY <1>1, <1>2, <1>4, <1>7, <1>8, <1>9, <1>10 DEF PumpTypeOK
<1>12. RouterTypeOK'
  BY <1>1, <1>4 DEF RouterTypeOK
<1> QED
  BY <1>1, <1>3, <1>4, <1>11, <1>12 DEF e

LEMMA TypeStep ==
    TypeOK /\ [Next]_vars => TypeOK'
<1> SUFFICES ASSUME TypeOK, [Next]_vars PROVE TypeOK'
  OBVIOUS
<1>1. CoreTypeOK /\ RouterTypeOK /\ PumpTypeOK
  BY DEF TypeOK
<1>2. UNCHANGED routerVars => RouterTypeOK'
  BY <1>1 DEF routerVars, RouterTypeOK
<1>3. UNCHANGED <<pumpVars, listening>> => PumpTypeOK'
  BY <1>1 DEF pumpVars, PumpTypeOK
<1>4. UNCHANGED coreVars => CoreTypeOK'
  BY <1>1 DEF coreVars, poolVars, CoreTypeOK
<1>5. CASE Register
  BY <1>1, <1>4, <1>5 DEF Register, RouterTypeOK, PumpTypeOK, TypeOK
<1>6. CASE Accept
  <2>1. CoreTypeOK'
    BY <1>1, <1>6 DEF Accept, StartRoot, CoreTypeOK, RunIds, poolVars
  <2> QED
    BY <1>2, <1>3, <1>6, <2>1 DEF Accept, TypeOK
<1>7. CASE WriteAnswer
  <2>1. Event(Root, "response", 0) \in Events
    BY EventTypes DEF RunIds
  <2>2. out' \in Seq(Events)
    BY <1>1, <1>7, <2>1 DEF WriteAnswer, CoreTypeOK
  <2>3. CoreTypeOK'
    BY <1>1, <1>7, <2>2 DEF WriteAnswer, CoreTypeOK, poolVars
  <2>4. PumpTypeOK'
    BY <1>1, <1>7 DEF WriteAnswer, PumpTypeOK
  <2> QED
    BY <1>2, <1>7, <2>3, <2>4 DEF WriteAnswer, TypeOK
<1>8. CASE CallFails
  <2>1. <<>> \in Seq(Events) /\ Len(<<>>) <= ChannelCap
    BY ChannelAssumption
  <2> QED
    BY <1>1, <1>4, <1>8, <2>1 DEF CallFails, RouterTypeOK, PumpTypeOK, TypeOK
<1>9. ASSUME NEW r \in RunIds, RunStep(r) \/ RunChoice(r)
      PROVE  TypeOK'
  BY <1>1, <1>2, <1>3, <1>9, CoreStepTypes, CoreChoiceTypes DEF RunStep, RunChoice, TypeOK
<1>10. CASE ReadAnswer
  <2>1. out' \in Seq(Events)
    BY <1>1, <1>10 DEF ReadAnswer, CoreTypeOK
  <2>2. CoreTypeOK'
    BY <1>1, <1>10, <2>1 DEF ReadAnswer, CoreTypeOK, poolVars
  <2>3. PumpTypeOK'
    BY <1>1, <1>10 DEF ReadAnswer, PumpTypeOK
  <2> QED
    BY <1>2, <1>10, <2>2, <2>3 DEF ReadAnswer, TypeOK
<1>11. CASE Route /\ UNCHANGED pumpVars
  <2>1. listening' = listening /\ listening \in BOOLEAN
    BY <1>1, <1>11 DEF Route, PumpTypeOK
  <2>2. CoreTypeOK' /\ RouterTypeOK'
    BY <1>1, <1>11, <2>1, RouteTypes
  <2> QED
    BY <1>3, <1>11, <2>1, <2>2 DEF TypeOK
<1>12. CASE CloseTransport /\ UNCHANGED pumpVars
  BY <1>1, <1>3, <1>4, <1>12 DEF CloseTransport, RouterTypeOK, TypeOK
<1>13. CASE Pump
  <2>1. UNCHANGED coreVars
    BY <1>13 DEF Pump
  <2> QED
    BY <1>1, <1>4, <1>13, <2>1, PumpTypes DEF TypeOK
<1>14. CASE PumpClosed
  BY <1>1, <1>2, <1>4, <1>14 DEF PumpClosed, PumpTypeOK, TypeOK
<1>15. CASE CoreCrash
  <2>1. CoreTypeOK'
    BY <1>1, <1>15 DEF CoreCrash, Crash, CoreTypeOK, poolVars
  <2> QED
    BY <1>2, <1>3, <1>15, <2>1 DEF CoreCrash, TypeOK
<1>16. CASE UNCHANGED vars
  BY <1>2, <1>3, <1>4, <1>16 DEF vars, TypeOK
<1> QED
  BY <1>5, <1>6, <1>7, <1>8, <1>9, <1>10, <1>11, <1>12, <1>13, <1>14, <1>15, <1>16
     DEF Next, ReaderStep, PumpStep, Quiet

LEMMA TypeInit ==
    Init => TypeOK
<1> SUFFICES ASSUME Init PROVE TypeOK
  OBVIOUS
<1>1. <<>> \in Seq(Events) /\ Len(<<>>) <= ChannelCap /\ <<>> \in Seq(Logged)
  BY ChannelAssumption
<1>2. CoreTypeOK
  BY <1>1, TreeAssumption DEF Init, CoreInit, poolVars, CoreTypeOK, RunIds
<1>3. RouterTypeOK
  BY <1>1 DEF Init, RouterInit, RouterTypeOK
<1>4. PumpTypeOK
  <2>1. /\ listening = TRUE /\ pump = "idle" /\ answered = FALSE /\ bound = {} /\ seenTerm = FALSE
        /\ log = [r \in RunIds |-> <<>>] /\ session = [k \in Kids |-> "absent"] /\ saveFails = 0
    BY DEF Init, RouterInit
  <2>2. log \in [RunIds -> Seq(Logged)]
    BY <1>1, <2>1
  <2>3. saveFails \in 0..MaxSaveFails
    BY <2>1, SaveAssumption
  <2> QED
    BY <2>1, <2>2, <2>3 DEF PumpTypeOK
<1> QED
  BY <1>2, <1>3, <1>4 DEF TypeOK

-----------------------------------------------------------------------------
(* The log of a sub-agent                                                  *)

\* The events of run k, and the sub-agents whose context only their own
\* thread numbers events in.
Of(k) == {e \in Events : e.run = k}
Leaves == {k \in DirectKids : \A j \in Kids : Parent[j] # k}

\* A thread holds an event of its own run or of its parent's.
HeldOK ==
    \A t \in RunIds : hold[t] # None =>
        hold[t].run = t \/ (t \in Kids /\ hold[t].run = Parent[t])

\* Before the call nothing has happened.
IdleOK ==
    pump = "idle" =>
        /\ senders = {} /\ out = <<>> /\ chan = <<>>
        /\ \A r \in RunIds : /\ act[r] = "none" /\ waitFor[r] = None /\ hold[r] = None
                             /\ seq[r] = 1 /\ log[r] = <<>>

ListenOK == listening <=> pump \notin {"done", "failed"}

Holds(k) == hold[k] # None /\ hold[k].run = k

\* The numbers of a sub-agent go up by one along the whole way: through the
\* log, the channel, and, as long as the root's channel is registered, the
\* pipe, the event its thread holds, and the next number.
OrderOK(k) ==
    LET n == Len(log[k])
        c == Only(chan, Of(k))
        o == Only(out, Of(k))
    IN  /\ \A i \in DOMAIN log[k] : log[k][i].seq = i
        /\ pump \in {"calling", "on"} =>
             /\ \A i \in DOMAIN c : c[i].seq = n + i
             /\ senders # {} =>
                  /\ \A i \in DOMAIN o : o[i].seq = n + Len(c) + i
                  /\ Holds(k) => hold[k].seq = n + Len(c) + Len(o) + 1
                  /\ seq[k] = n + Len(c) + Len(o) + (IF Holds(k) THEN 2 ELSE 1)

\* The inductive invariant.
FlowInv == HeldOK /\ IdleOK /\ ListenOK /\ \A k \in Leaves : OrderOK(k)

\* What a step of the core does to numbers and lines: a held event is
\* written, an event is numbered and held, or neither.
Writes == \E t \in RunIds :
    /\ hold[t] # None
    /\ out' = Append(out, hold[t]) /\ hold' = [hold EXCEPT ![t] = None] /\ seq' = seq
Numbers == \E t, q \in RunIds, e \in Events :
    /\ hold[t] = None /\ Number(t, q, e) /\ e.run = q /\ e.seq = seq[q]
    /\ q = t \/ (t \in Kids /\ q = Parent[t])
    /\ out' = out

LEMMA CoreEffect ==
    ASSUME CoreTypeOK, NEW r \in RunIds, CoreStep(r) \/ CoreChoice(r)
    PROVE  Writes \/ Numbers \/ UNCHANGED <<hold, seq, out>>
<1> DEFINE Same == UNCHANGED <<hold, seq, out>>
<1>1. /\ \A q, n : /\ Event(q, "message", n).run = q /\ Event(q, "message", n).seq = n
                  /\ Event(q, "finish", n).run = q /\ Event(q, "finish", n).seq = n
                  /\ Event(q, "error", n).run = q /\ Event(q, "error", n).seq = n
      /\ \A q, n, k, st : SessionEvent(q, n, k, st).run = q /\ SessionEvent(q, n, k, st).seq = n
  BY DEF Event, SessionEvent
<1>2. \A q \in RunIds : seq[q] \in Nat
  BY DEF CoreTypeOK
<1>3. Write(r) => Writes
  BY DEF Write, Writes
<1>4. SendMessage(r) => Numbers
  BY <1>1, <1>2, EventTypes DEF SendMessage, Unblocked, Numbers
<1>5. ASSUME NEW how \in {"completed", "cancelled", "error"}, EndRun(r, how)
      PROVE  Numbers
  <2> DEFINE e == Event(r, IF how = "error" THEN "error" ELSE "finish", seq[r])
  <2>1. e \in Events /\ e.run = r /\ e.seq = seq[r]
    BY <1>1, <1>2, EventTypes
  <2>2. Number(r, r, e) /\ hold[r] = None /\ out' = out
    BY <1>5 DEF EndRun, Unblocked
  <2> QED
    BY <2>1, <2>2 DEF Numbers
<1>6. ASSUME r \in Kids, SendClosing(r)
      PROVE  Numbers
  <2> DEFINE p == Parent[r]
             e == SessionEvent(p, seq[p], r, IF outcome[r] = "completed" THEN "completed" ELSE "failed")
  <2>1. p \in RunIds
    BY <1>6, TreeAssumption
  <2>2. e \in Events /\ e.run = p /\ e.seq = seq[p]
    BY <1>1, <1>2, <1>6, <2>1, EventTypes
  <2>3. Number(r, p, e) /\ hold[r] = None /\ out' = out
    BY <1>6 DEF SendClosing, Unblocked
  <2> QED
    BY <1>6, <2>1, <2>2, <2>3 DEF Numbers
<1>7. ASSUME r \in Kids, Spawn(r)
      PROVE  Numbers
  <2> DEFINE p == Parent[r]
             e == SessionEvent(p, seq[p], r, "running")
  <2>1. p \in RunIds
    BY <1>7, TreeAssumption
  <2>2. e \in Events /\ e.run = p /\ e.seq = seq[p]
    BY <1>1, <1>2, <1>7, <2>1, EventTypes
  <2>3. Number(p, p, e) /\ hold[p] = None /\ out' = out
    BY <1>7 DEF Spawn, Unblocked
  <2> QED
    BY <2>1, <2>2, <2>3 DEF Numbers
<1>8. TimeoutInSubagent(r) => Numbers
  <2> SUFFICES ASSUME TimeoutInSubagent(r) PROVE Numbers
    OBVIOUS
  <2>1. Number(r, r, Event(r, "error", seq[r])) /\ hold[r] = None /\ out' = out
    BY DEF TimeoutInSubagent
  <2>2. Event(r, "error", seq[r]) \in Events
    BY <1>2, EventTypes
  <2> QED
    BY <1>1, <2>1, <2>2 DEF Numbers
<1>9. ReturnFromSubagent(r) => Same
  BY DEF ReturnFromSubagent
<1>10. r \in Kids /\ (MarkRunning(r) \/ MarkEnded(r) \/ WorkerFails(r)) => Same
  BY DEF MarkRunning, MarkEnded, WorkerFails
<1>11. \A targets : CancelSubagents(r, targets) => Same
  BY DEF CancelSubagents
<1> QED
  BY <1>3, <1>4, <1>5, <1>6, <1>7, <1>8, <1>9, <1>10, <1>11 DEF CoreStep, CoreChoice

\* OrderOK in other words, with the numbers by name.
LEMMA OrderUnfolds ==
    ASSUME TypeOK, NEW k \in Leaves
    PROVE  /\ k \in RunIds /\ k # Root /\ k \in DirectKids /\ k \in Kids
           /\ Only(chan, Of(k)) \in Seq(Of(k)) /\ Only(out, Of(k)) \in Seq(Of(k))
           /\ log[k] \in Seq(Logged)
           /\ seq[k] \in Nat
<1>1. k \in RunIds /\ k # Root /\ k \in DirectKids /\ k \in Kids
  BY TreeAssumption DEF Leaves, DirectKids, RunIds
<1>2. Events \cap Of(k) = Of(k)
  BY DEF Of
<1>3. Only(chan, Of(k)) \in Seq(Of(k)) /\ Only(out, Of(k)) \in Seq(Of(k))
  BY <1>2, OnlyType DEF TypeOK, RouterTypeOK, CoreTypeOK
<1> QED
  BY <1>1, <1>3 DEF TypeOK, PumpTypeOK, CoreTypeOK

\* A step of the core moves the line of a sub-agent's events on at its end.
LEMMA CoreOrder ==
    ASSUME TypeOK, HeldOK, NEW k \in Leaves, OrderOK(k),
           Writes \/ Numbers \/ UNCHANGED <<hold, seq, out>>,
           UNCHANGED <<log, chan, pump, senders>>
    PROVE  OrderOK(k)' /\ HeldOK'
<1> DEFINE n == Len(log[k])
           c == Only(chan, Of(k))
           o == Only(out, Of(k))
<1>1. /\ k \in RunIds /\ k # Root /\ k \in DirectKids /\ k \in Kids
      /\ c \in Seq(Of(k)) /\ o \in Seq(Of(k)) /\ seq[k] \in Nat
      /\ n \in Nat /\ Len(c) \in Nat /\ Len(o) \in Nat
  BY OrderUnfolds
<1>2. /\ out \in Seq(Events) /\ hold \in [RunIds -> Events \cup {None}] /\ seq \in [RunIds -> Nat]
  BY DEF TypeOK, CoreTypeOK
<1>3. \A t \in RunIds : t # k /\ hold[t] # None => hold[t] \notin Of(k)
  BY <1>1 DEF HeldOK, Of, Leaves
<1>4. Holds(k) <=> hold[k] # None /\ hold[k] \in Of(k)
  BY <1>1, <1>2 DEF Holds, Of
<1>5. CASE UNCHANGED <<hold, seq, out>>
  BY <1>5 DEF OrderOK, Holds, HeldOK
<1>6. CASE Writes
  <2>1. PICK t \in RunIds : /\ hold[t] # None
                            /\ out' = Append(out, hold[t])
                            /\ hold' = [hold EXCEPT ![t] = None] /\ seq' = seq
    BY <1>6 DEF Writes
  <2>2. HeldOK'
    BY <1>2, <2>1 DEF HeldOK
  <2>3. Only(out', Of(k)) = IF hold[t] \in Of(k) THEN Append(o, hold[t]) ELSE o
    BY <1>2, <2>1, OnlyAppend
  <2>4. CASE t = k /\ Holds(k)
    <3>1. Only(out', Of(k)) = Append(o, hold[k]) /\ ~ Holds(k)'
      BY <1>1, <1>2, <1>4, <2>1, <2>3, <2>4 DEF Holds
    <3> DEFINE p == Append(o, hold[k])
    <3>2. /\ Len(p) = Len(o) + 1 /\ p[Len(o) + 1] = hold[k]
          /\ \A i \in DOMAIN p : (i \in DOMAIN o /\ p[i] = o[i]) \/ i = Len(o) + 1
      BY <1>1, <1>4, <2>4
    <3> HIDE DEF p
    <3>3. Only(out', Of(k)) = p
      BY <3>1 DEF p
    <3> DEFINE lo == Len(o)
               lc == Len(c)
    <3>4. /\ pump \in {"calling", "on"} /\ senders # {} =>
              /\ \A i \in DOMAIN p : p[i].seq = n + lc + i
              /\ seq[k] = n + lc + Len(p) + 1
      <4> SUFFICES ASSUME pump \in {"calling", "on"}, senders # {}
                   PROVE  /\ \A i \in DOMAIN p : p[i].seq = n + lc + i
                          /\ seq[k] = n + lc + Len(p) + 1
        OBVIOUS
      <4>1. /\ \A i \in DOMAIN o : o[i].seq = n + lc + i
            /\ hold[k].seq = n + lc + lo + 1
            /\ seq[k] = n + lc + lo + 2
        BY <2>4 DEF OrderOK
      <4> HIDE DEF n
      <4>2. /\ n \in Nat /\ lc \in Nat /\ lo \in Nat /\ Len(p) = lo + 1 /\ p[lo + 1] = hold[k]
            /\ \A i \in DOMAIN p : (i \in DOMAIN o /\ p[i] = o[i]) \/ i = lo + 1
        BY <1>1, <3>2
      <4> HIDE DEF lc, lo, o, c
      <4> QED
        BY <4>1, <4>2
    <3>5. OrderOK(k)'
      BY <2>1, <3>1, <3>3, <3>4 DEF OrderOK
    <3> QED
      BY <2>2, <3>5
  <2>5. CASE ~ (t = k /\ Holds(k))
    <3>1. hold[t] \notin Of(k)
      BY <1>3, <1>4, <2>1, <2>5
    <3>2. Only(out', Of(k)) = o
      BY <2>3, <3>1
    <3>3. Holds(k)' <=> Holds(k)
      BY <1>1, <1>2, <2>1, <2>5 DEF Holds
    <3>4. Holds(k) => hold'[k] = hold[k]
      BY <1>1, <1>2, <2>1, <2>5
    <3>5. OrderOK(k)'
      BY <2>1, <3>2, <3>3, <3>4 DEF OrderOK
    <3> QED
      BY <2>2, <3>5
  <2> QED
    BY <2>4, <2>5
<1>7. CASE Numbers
  <2>1. PICK t \in RunIds, q \in RunIds, e \in Events :
            /\ hold[t] = None /\ Number(t, q, e) /\ e.run = q /\ e.seq = seq[q]
            /\ q = t \/ (t \in Kids /\ q = Parent[t])
            /\ out' = out
    BY <1>7 DEF Numbers
  <2>2. hold' = [hold EXCEPT ![t] = e] /\ seq' = [seq EXCEPT ![q] = @ + 1]
    BY <2>1 DEF Number
  <2>3. HeldOK'
    BY <1>2, <2>1, <2>2 DEF HeldOK
  <2>4. e # None
    BY <2>1, NoneIsNoEvent
  <2>5. CASE q = k
    <3>1. t = k
      BY <1>1, <2>1, <2>5 DEF Leaves
    <3>2. ~ Holds(k) /\ Holds(k)' /\ hold'[k].seq = seq[k] /\ seq'[k] = seq[k] + 1
      BY <1>1, <1>2, <2>1, <2>2, <2>4, <2>5, <3>1 DEF Holds
    <3> DEFINE lo == Len(o)
               lc == Len(c)
    <3>3. pump \in {"calling", "on"} /\ senders # {} =>
             /\ \A i \in DOMAIN o : o[i].seq = n + lc + i
             /\ seq[k] = n + lc + lo + 1
      BY <3>2 DEF OrderOK
    <3>4. lo \in Nat /\ lc \in Nat /\ n \in Nat
      BY <1>1
    <3> HIDE DEF lo, lc, n
    <3>5. pump \in {"calling", "on"} /\ senders # {} =>
             /\ hold'[k].seq = n + lc + lo + 1
             /\ seq'[k] = n + lc + lo + 2
      BY <3>2, <3>3, <3>4
    <3>6. OrderOK(k)'
      BY <2>1, <3>2, <3>3, <3>5 DEF OrderOK, n, lo, lc
    <3> QED
      BY <2>3, <3>6
  <2>6. CASE q # k
    <3>1. seq'[k] = seq[k]
      BY <1>1, <1>2, <2>2, <2>6
    <3>2. Holds(k)' <=> Holds(k)
      BY <1>1, <1>2, <2>1, <2>2, <2>6 DEF Holds
    <3>3. Holds(k) => hold'[k] = hold[k]
      BY <1>1, <1>2, <2>1, <2>2 DEF Holds
    <3>4. OrderOK(k)'
      BY <2>1, <3>1, <3>2, <3>3 DEF OrderOK
    <3> QED
      BY <2>3, <3>4
  <2> QED
    BY <2>5, <2>6
<1> QED
  BY <1>5, <1>6, <1>7

\* The answer of the request is a line of the root's.
LEMMA AnswerOrder ==
    ASSUME TypeOK, NEW k \in Leaves, OrderOK(k), UNCHANGED <<log, chan, senders, hold, seq>>,
           \/ out' = Append(out, Event(Root, "response", 0)) /\ pump' = pump
           \/ /\ out # <<>> /\ Head(out).type = "response" /\ out' = Tail(out)
              /\ pump' = IF pump = "calling" THEN "on" ELSE pump
    PROVE  OrderOK(k)'
<1>1. k # Root /\ out \in Seq(Events)
  BY OrderUnfolds DEF TypeOK, CoreTypeOK
<1>2. Only(out', Of(k)) = Only(out, Of(k))
  <2>1. CASE out' = Append(out, Event(Root, "response", 0))
    <3>1. Event(Root, "response", 0) \in Events /\ Event(Root, "response", 0) \notin Of(k)
      BY <1>1, EventTypes DEF Event, Of
    <3> QED
      BY <1>1, <2>1, <3>1, OnlyAppend
  <2>2. CASE out # <<>> /\ Head(out).type = "response" /\ out' = Tail(out)
    <3>1. Head(out) \in Events
      BY <1>1, <2>2
    <3>2. Head(out) \notin Of(k)
      BY <1>1, <2>2, <3>1, EventFields DEF Of
    <3> QED
      BY <1>1, <2>2, <3>2, OnlyTail
  <2> QED
    BY <2>1, <2>2
<1> QED
  BY <1>2 DEF OrderOK, Holds

\* A line is routed: an event of the sub-agent goes from the head of the
\* pipe to the end of the channel.
LEMMA RouteOrder ==
    ASSUME TypeOK, NEW k \in Leaves, OrderOK(k), ListenOK, Route,
           UNCHANGED <<log, pump>>
    PROVE  OrderOK(k)'
<1> DEFINE n == Len(log[k])
           c == Only(chan, Of(k))
           o == Only(out, Of(k))
           h == Head(out)
<1>1. /\ k \in RunIds /\ k \in DirectKids
      /\ c \in Seq(Of(k)) /\ o \in Seq(Of(k)) /\ n \in Nat
      /\ out \in Seq(Events) /\ chan \in Seq(Events)
  BY OrderUnfolds DEF TypeOK, CoreTypeOK, RouterTypeOK
<1>2. /\ senders' \subseteq senders
      /\ out # <<>> /\ out' = Tail(out) /\ h \in Events
      /\ \/ chan' = Append(chan, h) /\ senders # {} /\ listening
         \/ chan' = chan /\ (senders # {} /\ listening => h.run \notin {Root} \cup DirectKids)
  BY RouteTypes DEF TypeOK, PumpTypeOK
<1>3. UNCHANGED <<hold, seq>>
  BY DEF Route
<1>4. IF h \in Of(k)
      THEN o # <<>> /\ Head(o) = h /\ Only(out', Of(k)) = Tail(o)
      ELSE Only(out', Of(k)) = o
  BY <1>1, <1>2, OnlyTail
<1>5. CASE h \notin Of(k)
  <2>1. Only(chan', Of(k)) = c
    <3>1. Only(Append(chan, h), Of(k)) = c
      BY <1>1, <1>2, <1>5, OnlyAppend
    <3> HIDE DEF h
    <3> QED
      BY <1>2, <3>1
  <2>2. Only(out', Of(k)) = o /\ (senders' # {} => senders # {})
    BY <1>2, <1>4, <1>5
  <2>3. Holds(k)' <=> Holds(k)
    BY <1>3 DEF Holds
  <2> HIDE DEF c, o, h
  <2>4. OrderOK(k) <=>
          /\ \A i \in DOMAIN log[k] : log[k][i].seq = i
          /\ pump \in {"calling", "on"} =>
               /\ \A i \in DOMAIN c : c[i].seq = n + i
               /\ senders # {} =>
                    /\ \A i \in DOMAIN o : o[i].seq = n + Len(c) + i
                    /\ Holds(k) => hold[k].seq = n + Len(c) + Len(o) + 1
                    /\ seq[k] = n + Len(c) + Len(o) + (IF Holds(k) THEN 2 ELSE 1)
    BY DEF OrderOK, c, o
  <2> QED
    BY <1>3, <2>1, <2>2, <2>3, <2>4 DEF OrderOK
<1>6. CASE h \in Of(k) /\ chan' = Append(chan, h) /\ senders # {} /\ listening
  <2>1. Only(chan', Of(k)) = Append(c, h)
    <3>1. Only(Append(chan, h), Of(k)) = Append(c, h)
      <4> HIDE DEF h
      <4> QED
        BY <1>1, <1>2, <1>6, OnlyAppend
    <3> QED
      BY <1>6, <3>1
  <2>2. pump \in {"calling", "on"} => OrderOK(k)'
    <3> SUFFICES ASSUME pump \in {"calling", "on"} PROVE OrderOK(k)'
      OBVIOUS
    <3> DEFINE p == Append(c, h)
               r == Tail(o)
               lc == Len(c)
               lo == Len(o)
    <3>1. /\ o # <<>> /\ h = o[1] /\ 1 \in DOMAIN o
          /\ lc \in Nat /\ lo \in Nat /\ Len(p) = lc + 1 /\ Len(r) + 1 = lo /\ Len(r) \in Nat
          /\ \A i \in DOMAIN p : \/ i \in DOMAIN c /\ p[i] = c[i]
                                 \/ i = lc + 1 /\ p[i] = h
          /\ \A i \in DOMAIN r : i + 1 \in DOMAIN o /\ r[i] = o[i + 1] /\ i \in Nat
      <4>1. o # <<>> /\ h = Head(o) /\ o \in Seq(Of(k)) /\ c \in Seq(Of(k)) /\ h \in Of(k)
        BY <1>1, <1>4, <1>6
      <4> HIDE DEF c, o, h
      <4>2. lc \in Nat /\ lo \in Nat /\ h = o[1] /\ 1 \in DOMAIN o
        BY <4>1
      <4>3. /\ Len(p) = lc + 1
            /\ \A i \in DOMAIN p : \/ i \in DOMAIN c /\ p[i] = c[i]
                                   \/ i = lc + 1 /\ p[i] = h
        BY <4>1
      <4>4. /\ Len(r) + 1 = lo /\ Len(r) \in Nat
            /\ \A i \in DOMAIN r : i + 1 \in DOMAIN o /\ r[i] = o[i + 1] /\ i \in Nat
        BY <4>1
      <4> QED
        BY <4>1, <4>2, <4>3, <4>4
    <3>2. /\ \A i \in DOMAIN log[k] : log[k][i].seq = i
          /\ \A i \in DOMAIN c : c[i].seq = n + i
          /\ \A i \in DOMAIN o : o[i].seq = n + lc + i
          /\ Holds(k) => hold[k].seq = n + lc + lo + 1
          /\ seq[k] = n + lc + lo + (IF Holds(k) THEN 2 ELSE 1)
      BY <1>6 DEF OrderOK
    <3> DEFINE lr == Len(r)
               lp == Len(p)
    <3>a. n \in Nat /\ lr \in Nat /\ lp = lc + 1 /\ lr + 1 = lo
      BY <1>1, <3>1
    <3> HIDE DEF p, r, c, o, n, h, lc, lo, lr, lp
    <3>b. h.seq = n + lc + 1
      BY <3>1, <3>2
    <3>3. \A i \in DOMAIN p : p[i].seq = n + i
      <4>1. ASSUME NEW i \in DOMAIN p, i \in DOMAIN c, p[i] = c[i]
            PROVE  p[i].seq = n + i
        BY <3>2, <4>1
      <4>2. n + (lc + 1) = n + lc + 1
        BY <3>1, <3>a
      <4> QED
        BY <3>1, <3>b, <4>1, <4>2
    <3>4. \A i \in DOMAIN r : r[i].seq = n + lp + i
      BY <3>1, <3>2, <3>a
    <3>5. n + lp + lr = n + lc + lo
      BY <3>1, <3>a
    <3>6. Only(chan', Of(k)) = p /\ Only(out', Of(k)) = r
      BY <1>4, <1>6, <2>1 DEF p, r
    <3>7. /\ Holds(k) => hold[k].seq = n + lp + lr + 1
          /\ seq[k] = n + lp + lr + (IF Holds(k) THEN 2 ELSE 1)
      BY <3>2, <3>5
    <3> QED
      BY <1>3, <3>2, <3>3, <3>4, <3>6, <3>7 DEF OrderOK, Holds, n, lp, lr
  <2>3. pump \notin {"calling", "on"} => OrderOK(k)'
    BY DEF OrderOK
  <2> QED
    BY <2>2, <2>3
<1>7. CASE h \in Of(k) /\ chan' = chan /\ ~ (senders # {} /\ listening)
  <2>1. senders' = {} \/ pump \notin {"calling", "on"}
    BY <1>2, <1>7 DEF ListenOK
  <2> QED
    BY <1>7, <2>1 DEF OrderOK
<1>8. h \in Of(k) => h.run = k
  BY DEF Of
<1> QED
  BY <1>1, <1>2, <1>5, <1>6, <1>7, <1>8

\* The pump logs the first event of the channel.
LEMMA PumpOrder ==
    ASSUME TypeOK, NEW k \in Leaves, OrderOK(k), Pump
    PROVE  OrderOK(k)'
<1> DEFINE n == Len(log[k])
           c == Only(chan, Of(k))
           e == Head(chan)
<1>1. /\ k \in RunIds /\ k # Root /\ c \in Seq(Of(k)) /\ n \in Nat
      /\ chan \in Seq(Events) /\ log \in [RunIds -> Seq(Logged)]
  BY OrderUnfolds DEF TypeOK, RouterTypeOK, PumpTypeOK
<1>2. /\ pump = "on" /\ chan # <<>> /\ e \in Events
      /\ \/ pump' = "on" /\ chan' = Tail(chan)
         \/ pump' = "done"
  BY PumpTypes DEF TypeOK
<1>3. PICK changed \in BOOLEAN : log' = [log EXCEPT ![e.run] = @ \o Dispatched(e, changed)]
  BY PumpTypes DEF TypeOK
<1>4. UNCHANGED <<hold, seq, out, senders>>
  BY DEF Pump, coreVars
<1>5. IF e \in Of(k)
      THEN c # <<>> /\ Head(c) = e /\ Only(Tail(chan), Of(k)) = Tail(c)
      ELSE Only(Tail(chan), Of(k)) = c
  BY <1>1, <1>2, OnlyTail
<1>6. CASE e \notin Of(k)
  <2>1. log'[k] = log[k]
    BY <1>1, <1>2, <1>3, <1>6 DEF Of
  <2>2. CASE pump' = "on"
    <3>1. Only(chan', Of(k)) = c
      BY <1>2, <1>5, <1>6, <2>2
    <3> QED
      BY <1>2, <1>4, <2>1, <3>1 DEF OrderOK, Holds
  <2>3. CASE pump' = "done"
    BY <2>1, <2>3 DEF OrderOK
  <2> QED
    BY <1>2, <2>2, <2>3
<1>7. CASE e \in Of(k)
  <2> DEFINE x == [type |-> e.type, seq |-> e.seq]
             g == Append(log[k], x)
             r == Tail(c)
             lc == Len(c)
             lg == Len(g)
             lr == Len(r)
  <2>1. Dispatched(e, changed) = <<x>>
    BY <1>1, <1>7 DEF Dispatched, EndsReply, Of
  <2>2. e.run = k /\ log'[k] = g
    <3>1. e.run = k /\ log'[k] = log[k] \o <<x>>
      BY <1>1, <1>3, <1>7, <2>1 DEF Of
    <3>2. x \in Logged
      BY <1>2, EventFields DEF Logged
    <3> HIDE DEF x
    <3>3. log[k] \o <<x>> = Append(log[k], x)
      BY <1>1, <3>2
    <3> QED
      BY <3>1, <3>3
  <2>3. /\ 1 \in DOMAIN c /\ e = c[1] /\ lc \in Nat /\ lr \in Nat /\ lr + 1 = lc /\ lg = n + 1
        /\ \A i \in DOMAIN g : \/ i \in DOMAIN log[k] /\ g[i] = log[k][i]
                               \/ i = n + 1 /\ g[i] = x
        /\ \A i \in DOMAIN r : i + 1 \in DOMAIN c /\ r[i] = c[i + 1] /\ i \in Nat
    <3> HIDE DEF x, e, c
    <3>1. c \in Seq(Of(k)) /\ c # <<>> /\ Head(c) = e
      BY <1>1, <1>5, <1>7
    <3>2. /\ 1 \in DOMAIN c /\ e = c[1] /\ lc \in Nat /\ lr \in Nat /\ lr + 1 = lc
          /\ \A i \in DOMAIN r : i + 1 \in DOMAIN c /\ r[i] = c[i + 1] /\ i \in Nat
      BY <3>1
    <3>3. log[k] \in Seq(Logged)
      BY <1>1
    <3>4. /\ lg = n + 1
          /\ \A i \in DOMAIN g : \/ i \in DOMAIN log[k] /\ g[i] = log[k][i]
                                 \/ i = n + 1 /\ g[i] = x
      BY <3>3
    <3> QED
      BY <3>2, <3>4
  <2>4. x.seq = e.seq
    OBVIOUS
  <2>5. /\ \A i \in DOMAIN log[k] : log[k][i].seq = i
        /\ \A i \in DOMAIN c : c[i].seq = n + i
    BY <1>2 DEF OrderOK
  <2>6. n \in Nat
    BY <1>1
  <2>7. senders # {} =>
           /\ \A i \in DOMAIN Only(out, Of(k)) : Only(out, Of(k))[i].seq = n + lc + i
           /\ Holds(k) => hold[k].seq = n + lc + Len(Only(out, Of(k))) + 1
           /\ seq[k] = n + lc + Len(Only(out, Of(k))) + (IF Holds(k) THEN 2 ELSE 1)
    BY <1>2 DEF OrderOK
  <2>8. CASE pump' = "on"
    <3>1. Only(chan', Of(k)) = r
      BY <1>2, <1>5, <1>7, <2>8
    <3> HIDE DEF g, r, lc, lg, lr, c, n, x, e
    <3>2. \A i \in DOMAIN g : g[i].seq = i
      BY <2>3, <2>4, <2>5, <2>6
    <3>3. \A i \in DOMAIN r : r[i].seq = lg + i
      BY <2>3, <2>5, <2>6
    <3>4. n + lc = lg + lr
      BY <2>3, <2>6
    <3>5. senders # {} =>
             /\ \A i \in DOMAIN Only(out, Of(k)) : Only(out, Of(k))[i].seq = lg + lr + i
             /\ Holds(k) => hold[k].seq = lg + lr + Len(Only(out, Of(k))) + 1
             /\ seq[k] = lg + lr + Len(Only(out, Of(k))) + (IF Holds(k) THEN 2 ELSE 1)
      BY <2>7, <3>4
    <3> QED
      BY <1>4, <2>2, <2>8, <3>1, <3>2, <3>3, <3>5 DEF OrderOK, Holds, lg, lr
  <2>9. CASE pump' = "done"
    <3> HIDE DEF g, r, lc, lg, lr, c, n, x, e
    <3>1. \A i \in DOMAIN g : g[i].seq = i
      BY <2>3, <2>4, <2>5, <2>6
    <3> QED
      BY <2>2, <2>9, <3>1 DEF OrderOK
  <2> QED
    BY <1>2, <2>8, <2>9
<1> QED
  BY <1>6, <1>7

\* No run takes a step before the call.
LEMMA IdleIsStill ==
    ASSUME IdleOK, pump = "idle", NEW r \in RunIds
    PROVE  ~ CoreStep(r) /\ ~ CoreChoice(r)
<1>1. /\ \A q \in RunIds : act[q] = "none" /\ waitFor[q] = None /\ hold[q] = None
      /\ \A k \in Kids : k \in RunIds /\ Parent[k] \in RunIds
  BY TreeAssumption DEF IdleOK, RunIds
<1>2. ~ CoreStep(r)
  BY <1>1 DEF CoreStep, Write, SendMessage, EndRun, MarkRunning, MarkEnded, SendClosing,
              ReturnFromSubagent, Unblocked
<1>3. ~ CoreChoice(r)
  BY <1>1 DEF CoreChoice, TimeoutInSubagent, Spawn, WorkerFails, CancelSubagents, Unblocked
<1> QED
  BY <1>2, <1>3

\* The invariant is inductive.
LEMMA FlowStep ==
    TypeOK /\ FlowInv /\ [Next]_vars => FlowInv'
<1> SUFFICES ASSUME TypeOK, FlowInv, [Next]_vars PROVE FlowInv'
  OBVIOUS
<1>1. HeldOK /\ IdleOK /\ ListenOK /\ \A k \in Leaves : OrderOK(k)
  BY DEF FlowInv
<1>2. CASE Register
  <2>1. UNCHANGED <<hold, seq, out, log, chan, listening>> /\ pump = "idle" /\ pump' = "calling"
    BY <1>2 DEF Register, coreVars
  <2>2. ASSUME NEW k \in Leaves PROVE OrderOK(k)'
    <3>1. k \in RunIds
      BY OrderUnfolds
    <3>2. /\ log[k] = <<>> /\ chan = <<>> /\ out = <<>> /\ ~ Holds(k) /\ seq[k] = 1
          /\ Only(<<>>, Of(k)) = <<>>
      BY <1>1, <2>1, <3>1, OnlyEmpty DEF IdleOK, Holds
    <3> QED
      BY <2>1, <3>2 DEF OrderOK, Holds
  <2> QED
    BY <1>1, <2>1, <2>2 DEF FlowInv, HeldOK, IdleOK, ListenOK
<1>3. CASE Accept
  <2>1. UNCHANGED <<hold, seq, out, log, chan, listening, pump, senders>> /\ pump # "idle"
    BY <1>3 DEF Accept, StartRoot, pumpVars, routerVars
  <2>2. HeldOK' /\ ListenOK'
    BY <1>1, <2>1 DEF HeldOK, ListenOK
  <2>3. IdleOK'
    BY <2>1 DEF IdleOK
  <2>4. ASSUME NEW k \in Leaves PROVE OrderOK(k)'
    BY <1>1, <2>1 DEF OrderOK, Holds
  <2> QED
    BY <2>2, <2>3, <2>4 DEF FlowInv
<1>4. CASE WriteAnswer
  <2>1. UNCHANGED <<hold, seq, log, chan, listening, pump, senders, act>>
    BY <1>4 DEF WriteAnswer, routerVars
  <2>2. pump # "idle"
    BY <1>1, <1>4 DEF WriteAnswer, IdleOK, RunIds
  <2>3. \A k \in Leaves : OrderOK(k)'
    BY <1>1, <1>4, <2>1, AnswerOrder DEF WriteAnswer
  <2> QED
    BY <1>1, <2>1, <2>2, <2>3 DEF FlowInv, HeldOK, IdleOK, ListenOK
<1>5. CASE CallFails
  <2>1. UNCHANGED <<hold, log>> /\ pump' = "failed" /\ listening' = FALSE
    BY <1>5 DEF CallFails, coreVars
  <2>2. \A k \in Leaves : OrderOK(k)'
    BY <1>1, <2>1 DEF OrderOK
  <2> QED
    BY <1>1, <2>1, <2>2 DEF FlowInv, HeldOK, IdleOK, ListenOK
<1>6. ASSUME NEW r \in RunIds, RunStep(r) \/ RunChoice(r)
      PROVE  FlowInv'
  <2>1. CoreStep(r) \/ CoreChoice(r)
    BY <1>6 DEF RunStep, RunChoice
  <2>2. pump # "idle"
    BY <1>1, <2>1, IdleIsStill
  <2>3. UNCHANGED <<log, chan, pump, senders, listening>>
    BY <1>6 DEF RunStep, RunChoice, routerVars, pumpVars
  <2>4. Writes \/ Numbers \/ UNCHANGED <<hold, seq, out>>
    BY <2>1, CoreEffect DEF TypeOK
  <2>5. \A k \in Leaves : OrderOK(k)'
    BY <1>1, <2>3, <2>4, CoreOrder
  <2>6. HeldOK'
    <3>1. CASE Writes
      BY <1>1, <3>1 DEF HeldOK, Writes, TypeOK, CoreTypeOK
    <3>2. CASE Numbers
      BY <1>1, <3>2 DEF HeldOK, Numbers, Number, TypeOK, CoreTypeOK
    <3>3. CASE UNCHANGED <<hold, seq, out>>
      BY <1>1, <3>3 DEF HeldOK
    <3> QED
      BY <2>4, <3>1, <3>2, <3>3
  <2> QED
    BY <1>1, <2>2, <2>3, <2>5, <2>6 DEF FlowInv, IdleOK, ListenOK
<1>7. CASE ReadAnswer
  <2>1. /\ UNCHANGED <<hold, seq, log, chan, listening, senders>>
        /\ out # <<>> /\ pump' = IF pump = "calling" THEN "on" ELSE pump
    BY <1>7 DEF ReadAnswer, routerVars
  <2>2. pump # "idle"
    BY <1>1, <2>1 DEF IdleOK
  <2>3. \A k \in Leaves : OrderOK(k)'
    BY <1>1, <1>7, <2>1, AnswerOrder DEF ReadAnswer
  <2> QED
    BY <1>1, <2>1, <2>2, <2>3 DEF FlowInv, HeldOK, IdleOK, ListenOK
<1>8. CASE Route /\ UNCHANGED pumpVars
  <2>1. UNCHANGED <<hold, listening, log, pump>> /\ out # <<>>
    BY <1>8 DEF Route, pumpVars
  <2>2. pump # "idle"
    BY <1>1, <2>1 DEF IdleOK
  <2>3. \A k \in Leaves : OrderOK(k)'
    BY <1>1, <1>8, <2>1, RouteOrder
  <2> QED
    BY <1>1, <2>1, <2>2, <2>3 DEF FlowInv, HeldOK, IdleOK, ListenOK
<1>9. CASE CloseTransport /\ UNCHANGED pumpVars
  <2>1. UNCHANGED <<hold, seq, out, log, chan, listening, pump>> /\ senders' = {} /\ senders # {}
    BY <1>9 DEF CloseTransport, pumpVars, coreVars
  <2>2. HeldOK' /\ ListenOK'
    BY <1>1, <2>1 DEF HeldOK, ListenOK
  <2>3. IdleOK'
    BY <1>1, <2>1 DEF IdleOK
  <2>4. ASSUME NEW k \in Leaves PROVE OrderOK(k)'
    BY <1>1, <2>1 DEF OrderOK
  <2> QED
    BY <2>2, <2>3, <2>4 DEF FlowInv
<1>10. CASE Pump
  <2>1. /\ pump = "on" /\ UNCHANGED hold
        /\ \/ pump' = "on" /\ listening' = listening
           \/ pump' = "done" /\ ~ listening'
    BY <1>10, PumpTypes DEF TypeOK, Pump, coreVars
  <2>2. \A k \in Leaves : OrderOK(k)'
    BY <1>1, <1>10, PumpOrder
  <2> QED
    BY <1>1, <2>1, <2>2 DEF FlowInv, HeldOK, IdleOK, ListenOK
<1>11. CASE PumpClosed
  <2>1. UNCHANGED <<hold, log>> /\ pump' = "done" /\ listening' = FALSE
    BY <1>11 DEF PumpClosed, coreVars
  <2>2. \A k \in Leaves : OrderOK(k)'
    BY <1>1, <2>1 DEF OrderOK
  <2> QED
    BY <1>1, <2>1, <2>2 DEF FlowInv, HeldOK, IdleOK, ListenOK
<1>12. CASE CoreCrash \/ UNCHANGED vars
  <2>1. UNCHANGED <<act, waitFor, hold, seq, out, log, chan, listening, pump, senders>>
    BY <1>12 DEF CoreCrash, Crash, vars, coreVars, routerVars, pumpVars
  <2> QED
    BY <1>1, <2>1 DEF FlowInv, HeldOK, IdleOK, ListenOK, OrderOK, Holds
<1> QED
  BY <1>2, <1>3, <1>4, <1>5, <1>6, <1>7, <1>8, <1>9, <1>10, <1>11, <1>12
     DEF Next, ReaderStep, PumpStep, Quiet

\* Nothing has happened at first.
LEMMA FlowInit ==
    Init => FlowInv
<1> SUFFICES ASSUME Init PROVE FlowInv
  OBVIOUS
<1>1. HeldOK /\ ListenOK
  BY DEF Init, CoreInit, RouterInit, HeldOK, ListenOK
<1>2. IdleOK
  BY DEF Init, CoreInit, RouterInit, IdleOK
<1>3. ASSUME NEW k \in Leaves PROVE OrderOK(k)
  <2>1. k \in RunIds
    BY DEF Leaves, DirectKids, RunIds
  <2> QED
    BY <2>1 DEF Init, OrderOK
<1> QED
  BY <1>1, <1>2, <1>3 DEF FlowInv

\* Every variable of a reply, the reader's tables and the core's runs keeps
\* its type; the routing table names the parent of a sub-agent or nothing.
THEOREM FlowTypes == Spec => []TypeOK
<1> QED
  BY TypeInit, TypeStep, PTL DEF Spec

\* Whatever the routing table, the channel, a failed call or a dead core do
\* with other events: what is logged of a sub-agent without sub-agents of
\* its own is numbered 1, 2, 3 and so on.
THEOREM ChildLogsInOrder == Spec => []ChildLogInOrder
<1>1. FlowInv => ChildLogInOrder
  BY DEF FlowInv, OrderOK, Leaves, ChildLogInOrder
<1> QED
  BY <1>1, TypeInit, TypeStep, FlowInit, FlowStep, PTL DEF Spec

-----------------------------------------------------------------------------
(* What the router keeps                                                   *)

Opening(e) == e.type = "sub_agent_session" /\ e.status = "running"
Closing(e) == e.type = "sub_agent_session" /\ e.status # "running"

Ends(S, r) == \E e \in S : e.run = r /\ IsTerminal(e)
Starts(S, k) == \E e \in S : Opening(e) /\ e.kid = k

Lines(s) == {s[i] : i \in DOMAIN s}

\* An event can come after those of S: behind the terminal event of its run
\* only as the end of a sub-agent's session, which has ended itself; and a
\* sub-agent speaks after its session was opened, once.
Fits(e, S) ==
    /\ e.type # "response" /\ Ends(S, e.run) => Closing(e)
    /\ Closing(e) => Ends(S, e.kid)
    /\ Opening(e) => ~ Starts(S, e.kid)
    /\ e.run \in Kids /\ ~ Closing(e) => Starts(S, e.run)

\* Each line of s can come after S and the lines before it.
LinesFit(S, s) == \A i \in DOMAIN s : Fits(s[i], S \cup {s[j] : j \in 1..(i - 1)})

Written == routed \cup Lines(out)

\* The event a thread holds is the terminal event of its run.
HoldsEnd(r) == hold[r] # None /\ IsTerminal(hold[r])

\* The parent's thread holds the event that opens the session of k.
HoldsStart(k) == LET h == hold[Parent[k]] IN h # None /\ Opening(h) /\ h.kid = k

HeldFits ==
    \A t \in RunIds : hold[t] # None =>
        /\ Closing(hold[t]) \/ hold[t].run = t
        /\ Fits(hold[t], Written)

\* Where a run's task is and what has been written of it.
EndsTold ==
    \A r \in RunIds :
        /\ Ends(Written, r) \/ HoldsEnd(r) => act[r] \notin {"none", "created", "live"}
        /\ act[r] = "over" => Ends(Written, r) \/ HoldsEnd(r)
        /\ act[r] = "marked" => Ends(Written, r)

StartsTold ==
    \A k \in Kids :
        /\ Starts(Written, k) \/ HoldsStart(k) => act[k] # "none"
        /\ act[k] = "created" => Starts(Written, k) \/ HoldsStart(k)
        /\ act[k] = "live" => Starts(Written, k)

\* The order in which the core's threads write.
StoryOK ==
    /\ HeldFits
    /\ LinesFit(routed, out)
    /\ \A e \in routed : Closing(e) => Ends(routed, e.kid)
    /\ EndsTold
    /\ StartsTold

\* Nothing the reply waits for is missing.
Finished ==
    /\ Ends(routed, Root)
    /\ \A k \in DirectKids : Starts(routed, k) => Ends(routed, k)

\* Among the first n events of s is the one that opens the session of k, and
\* ahead of it none that ends the reply.
Announced(s, k, n) ==
    \E i \in DOMAIN s : /\ i <= n
                        /\ Opening(s[i]) /\ s[i].kid = k
                        /\ \A j \in 1..i : ~ EndsReply(s[j])

\* The pump will know of k in time, from the first n events of its channel.
Coming(k, n) == ~ seenTerm /\ Announced(chan, k, n)

\* As long as the channel is registered the table knows every sub-agent
\* that is not over, and so does the pump or it will.
TableOK ==
    /\ pump = "idle" => routed = {}
    /\ senders # {} => \A k \in DirectKids :
          Starts(routed, k) => Ends(routed, k) \/ childToParent[k] = Root
    /\ Root \in parentTerminal \/ seenTerm => Ends(routed, Root)
    /\ Lines(chan) \subseteq routed
    /\ pump \in {"calling", "on"} => \A k \in DirectKids :
          Starts(routed, k) => Ends(routed, k) \/ k \in bound \/ Coming(k, Len(chan))

\* The channel is given up only when all is over.
ClosedOK ==
    pump \notin {"idle", "failed"} /\ (senders = {} \/ pump = "done") =>
        Finished \/ (~ alive /\ out = <<>>)

KeepInv == StoryOK /\ TableOK /\ ClosedOK /\ RouterKeepsEvents

\* Ends and Starts of a set and some more.
LEMMA EndsMore ==
    /\ \A S, T, r : Ends(S \cup T, r) <=> Ends(S, r) \/ Ends(T, r)
    /\ \A S, T, k : Starts(S \cup T, k) <=> Starts(S, k) \/ Starts(T, k)
    /\ \A e, r : Ends({e}, r) <=> e.run = r /\ IsTerminal(e)
    /\ \A e, k : Starts({e}, k) <=> Opening(e) /\ e.kid = k
BY DEF Ends, Starts

\* An event is at most one of these.
LEMMA Kinds ==
    \A e : /\ ~ (Opening(e) /\ Closing(e)) /\ ~ (IsTerminal(e) /\ Opening(e))
           /\ ~ (IsTerminal(e) /\ Closing(e))
           /\ e.type = "response" => ~ IsTerminal(e) /\ ~ Opening(e) /\ ~ Closing(e)
BY DEF Opening, Closing, IsTerminal

\* Fits looks at nothing else of a set.
LEMMA FitsSame ==
    ASSUME NEW S, NEW T, \A r : Ends(S, r) <=> Ends(T, r), \A k : Starts(S, k) <=> Starts(T, k)
    PROVE  \A e : Fits(e, S) <=> Fits(e, T)
BY DEF Fits

\* A line is written at the end.
LEMMA LinesAppend ==
    ASSUME NEW S, NEW s \in Seq(Events), NEW e \in Events
    PROVE  /\ Lines(Append(s, e)) = Lines(s) \cup {e}
           /\ LinesFit(S, s) /\ Fits(e, S \cup Lines(s)) => LinesFit(S, Append(s, e))
<1> DEFINE a == Append(s, e)
<1>1. /\ Len(s) \in Nat /\ DOMAIN s = 1..Len(s) /\ DOMAIN a = 1..(Len(s) + 1)
      /\ a[Len(s) + 1] = e
      /\ \A i \in 1..Len(s) : a[i] = s[i]
  OBVIOUS
<1> HIDE DEF a
<1>2. Lines(a) = Lines(s) \cup {e}
  BY <1>1 DEF Lines
<1>3. ASSUME LinesFit(S, s), Fits(e, S \cup Lines(s)), NEW i \in DOMAIN a
      PROVE  Fits(a[i], S \cup {a[j] : j \in 1..(i - 1)})
  <2>1. CASE i = Len(s) + 1
    <3>1. {a[j] : j \in 1..(i - 1)} = Lines(s)
      BY <1>1, <2>1 DEF Lines
    <3> QED
      BY <1>1, <1>3, <2>1, <3>1
  <2>2. CASE i \in 1..Len(s)
    <3>1. {a[j] : j \in 1..(i - 1)} = {s[j] : j \in 1..(i - 1)}
      BY <1>1, <2>2
    <3> QED
      BY <1>1, <1>3, <2>2, <3>1 DEF LinesFit
  <2> QED
    BY <1>1, <2>1, <2>2
<1> QED
  BY <1>2, <1>3 DEF LinesFit, a

\* A line is read at the beginning.
LEMMA LinesTail ==
    ASSUME NEW S, NEW s \in Seq(Events), s # <<>>
    PROVE  /\ Lines(s) = {Head(s)} \cup Lines(Tail(s))
           /\ LinesFit(S, s) => Fits(Head(s), S) /\ LinesFit(S \cup {Head(s)}, Tail(s))
<1> DEFINE t == Tail(s)
           h == Head(s)
<1>1. /\ Len(s) \in Nat \ {0} /\ DOMAIN s = 1..Len(s) /\ DOMAIN t = 1..(Len(s) - 1)
      /\ h = s[1]
      /\ \A i \in 1..(Len(s) - 1) : t[i] = s[i + 1]
  OBVIOUS
<1> HIDE DEF t, h
<1>2. Lines(s) = {h} \cup Lines(t)
  <2>1. Lines(s) \subseteq {h} \cup Lines(t)
    <3> SUFFICES ASSUME NEW i \in 1..Len(s), s[i] # h PROVE s[i] \in Lines(t)
      BY <1>1 DEF Lines
    <3>1. i - 1 \in 1..(Len(s) - 1) /\ (i - 1) + 1 = i
      BY <1>1
    <3> QED
      BY <1>1, <3>1 DEF Lines
  <2>2. {h} \cup Lines(t) \subseteq Lines(s)
    BY <1>1 DEF Lines
  <2> QED
    BY <2>1, <2>2
<1>3. ASSUME LinesFit(S, s) PROVE Fits(h, S)
  <2>1. {s[j] : j \in 1..(1 - 1)} = {} /\ 1 \in DOMAIN s
    BY <1>1
  <2>2. S \cup {} = S
    OBVIOUS
  <2> QED
    BY <1>1, <1>3, <2>1, <2>2 DEF LinesFit
<1>4. ASSUME LinesFit(S, s), NEW i \in DOMAIN t
      PROVE  Fits(t[i], (S \cup {h}) \cup {t[j] : j \in 1..(i - 1)})
  <2>1. i + 1 \in DOMAIN s /\ t[i] = s[i + 1] /\ i \in Nat
    BY <1>1
  <2>2. {s[j] : j \in 1..((i + 1) - 1)} = {h} \cup {t[j] : j \in 1..(i - 1)}
    <3>1. \A j \in 1..((i + 1) - 1) : j = 1 \/ (j - 1 \in 1..(i - 1) /\ s[j] = t[j - 1])
      BY <1>1, <2>1
    <3>2. \A j \in 1..(i - 1) : j + 1 \in 1..((i + 1) - 1) /\ t[j] = s[j + 1]
      BY <1>1, <2>1
    <3>3. 1 \in 1..((i + 1) - 1)
      BY <1>1, <2>1
    <3>4. \A j \in 1..((i + 1) - 1) : s[j] \in {h} \cup {t[l] : l \in 1..(i - 1)}
      BY <1>1, <3>1
    <3>5. \A j \in 1..(i - 1) : t[j] \in {s[l] : l \in 1..((i + 1) - 1)}
      BY <3>2
    <3>6. h \in {s[l] : l \in 1..((i + 1) - 1)}
      BY <1>1, <3>3
    <3>7. {s[j] : j \in 1..((i + 1) - 1)} \subseteq {h} \cup {t[j] : j \in 1..(i - 1)}
      BY <3>4
    <3>8. {h} \cup {t[j] : j \in 1..(i - 1)} \subseteq {s[j] : j \in 1..((i + 1) - 1)}
      BY <3>5, <3>6
    <3> QED
      BY <3>7, <3>8
  <2>3. S \cup ({h} \cup {t[j] : j \in 1..(i - 1)}) = (S \cup {h}) \cup {t[j] : j \in 1..(i - 1)}
    OBVIOUS
  <2> QED
    BY <1>4, <2>1, <2>2, <2>3 DEF LinesFit
<1> QED
  BY <1>2, <1>3, <1>4 DEF LinesFit, t, h

\* The answer of the request is no event of the story.
LEMMA LinesAnswer ==
    ASSUME NEW S, NEW s, NEW e, e.type = "response", LinesFit(S \cup {e}, s)
    PROVE  LinesFit(S, s)
<1> SUFFICES ASSUME NEW i \in DOMAIN s
             PROVE  Fits(s[i], S \cup {s[j] : j \in 1..(i - 1)})
  BY DEF LinesFit
<1> DEFINE T == {s[j] : j \in 1..(i - 1)}
<1>1. Fits(s[i], (S \cup {e}) \cup T)
  BY DEF LinesFit
<1> HIDE DEF T
<1>2. /\ \A r : Ends((S \cup {e}) \cup T, r) <=> Ends(S \cup T, r)
      /\ \A k : Starts((S \cup {e}) \cup T, k) <=> Starts(S \cup T, k)
  <2>1. \A r : ~ Ends({e}, r)
    BY EndsMore, Kinds
  <2>2. \A k : ~ Starts({e}, k)
    BY EndsMore, Kinds
  <2> QED
    BY <2>1, <2>2, EndsMore
<1>3. Fits(s[i], S \cup T)
  BY <1>1, <1>2, FitsSame
<1> QED
  BY <1>3 DEF T

\* A step that writes, reads and numbers nothing.
LEMMA StillStory ==
    ASSUME StoryOK, UNCHANGED <<hold, out, routed>>, EndsTold', StartsTold'
    PROVE  StoryOK'
BY DEF StoryOK, HeldFits, Written

\* Thread t numbers an event that can come next.
LEMMA NumberStory ==
    ASSUME CoreTypeOK, StoryOK, NEW t \in RunIds, NEW r \in RunIds, NEW e \in Events, Number(t, r, e),
           UNCHANGED <<out, routed>>,
           Fits(e, Written), Closing(e) \/ e.run = t, EndsTold', StartsTold'
    PROVE  StoryOK'
<1>1. hold' = [hold EXCEPT ![t] = e] /\ Written' = Written
  BY DEF Number, Written
<1>2. HeldFits'
  BY <1>1 DEF StoryOK, HeldFits, CoreTypeOK
<1> QED
  BY <1>2 DEF StoryOK

\* What can be numbered.
LEMMA MayFollow ==
    ASSUME NEW S, NEW r \in RunIds, NEW n
    PROVE  /\ \A kind \in {"message", "finish", "error"} :
                ~ Ends(S, r) /\ (r \in Kids => Starts(S, r)) => Fits(Event(r, kind, n), S)
           /\ \A k \in Kids :
                ~ Ends(S, r) /\ (r \in Kids => Starts(S, r)) /\ ~ Starts(S, k)
                    => Fits(SessionEvent(r, n, k, "running"), S)
           /\ \A k \in Kids, st \in {"completed", "failed"} :
                Ends(S, k) => Fits(SessionEvent(r, n, k, st), S)
BY DEF Fits, Event, SessionEvent, Opening, Closing

\* What is numbered is of this kind.
LEMMA Made ==
    /\ \A r, n, kind : Event(r, kind, n).run = r /\ Event(r, kind, n).type = kind
    /\ \A e : e.type \in {"message", "finish", "error"} => ~ Opening(e) /\ ~ Closing(e)
    /\ \A e : IsTerminal(e) <=> e.type \in {"finish", "error"}
    /\ \A r, n, k, st :
          /\ SessionEvent(r, n, k, st).run = r /\ SessionEvent(r, n, k, st).kid = k
          /\ ~ IsTerminal(SessionEvent(r, n, k, st))
          /\ Opening(SessionEvent(r, n, k, st)) <=> st = "running"
          /\ Closing(SessionEvent(r, n, k, st)) <=> st # "running"
BY DEF Event, SessionEvent, IsTerminal, Opening, Closing

\* A held event is written.
LEMMA WriteStory ==
    ASSUME CoreTypeOK, StoryOK, NEW t \in RunIds, Write(t), routed' = routed
    PROVE  StoryOK'
<1> DEFINE x == hold[t]
<1>1. /\ x # None /\ out' = Append(out, x) /\ hold' = [hold EXCEPT ![t] = None] /\ act' = act
      /\ x \in Events /\ out \in Seq(Events)
      /\ hold \in [RunIds -> Events \cup {None}]
  BY DEF Write, CoreTypeOK
<1>2. /\ HeldFits /\ LinesFit(routed, out) /\ EndsTold /\ StartsTold
      /\ \A e \in routed : Closing(e) => Ends(routed, e.kid)
  BY DEF StoryOK
<1>3. /\ Closing(x) \/ x.run = t
      /\ Fits(x, Written)
  BY <1>1, <1>2 DEF HeldFits
<1> HIDE DEF x
<1>4. Written' = Written \cup {x} /\ LinesFit(routed, out)'
  <2>1. Lines(Append(out, x)) = Lines(out) \cup {x}
    BY <1>1, LinesAppend
  <2>2. Fits(x, routed \cup Lines(out))
    BY <1>3 DEF Written
  <2>3. LinesFit(routed, Append(out, x))
    BY <1>1, <1>2, <2>2, LinesAppend
  <2> QED
    BY <1>1, <2>1, <2>3 DEF Written
<1>5. /\ \A r : Ends(Written', r) <=> Ends(Written, r) \/ (x.run = r /\ IsTerminal(x))
      /\ \A k : Starts(Written', k) <=> Starts(Written, k) \/ (Opening(x) /\ x.kid = k)
  BY <1>4, EndsMore
<1>6. /\ IsTerminal(x) => x.run = t /\ HoldsEnd(t)
      /\ HoldsEnd(t) => IsTerminal(x) /\ x.run = t
  BY <1>1, <1>3, Kinds DEF HoldsEnd, x
<1>7. /\ ~ HoldsEnd(t)'
      /\ \A r \in RunIds : r # t => (HoldsEnd(r)' <=> HoldsEnd(r))
  BY <1>1 DEF HoldsEnd
<1>8. EndsTold'
  <2>1. \A r \in RunIds : Ends(Written', r) \/ HoldsEnd(r)' <=> Ends(Written, r) \/ HoldsEnd(r)
    BY <1>5, <1>6, <1>7
  <2>2. \A r \in RunIds : Ends(Written, r) => Ends(Written', r)
    BY <1>5
  <2> QED
    BY <1>1, <1>2, <2>1, <2>2 DEF EndsTold
<1>9. StartsTold'
  <2>1. \A k \in Kids : Parent[k] \in RunIds
    BY TreeAssumption
  <2>2. Opening(x) => x.kid \in Kids /\ x.run = Parent[x.kid] /\ Parent[x.kid] = t
    BY <1>1, <1>3, Kinds, EventFields DEF Opening
  <2>3. Opening(x) => HoldsStart(x.kid)
    BY <1>1, <2>2 DEF HoldsStart, x
  <2>4. \A k \in Kids : Parent[k] = t => /\ ~ HoldsStart(k)'
                                         /\ HoldsStart(k) => Opening(x) /\ x.kid = k
    BY <1>1 DEF HoldsStart, x
  <2>5. \A k \in Kids : Parent[k] # t => (HoldsStart(k)' <=> HoldsStart(k))
    BY <1>1, <2>1 DEF HoldsStart
  <2>6. \A k \in Kids : Starts(Written', k) \/ HoldsStart(k)' <=> Starts(Written, k) \/ HoldsStart(k)
    BY <1>5, <2>3, <2>4, <2>5
  <2>7. \A k \in Kids : Starts(Written, k) => Starts(Written', k)
    BY <1>5
  <2> QED
    BY <1>1, <1>2, <2>6, <2>7 DEF StartsTold
<1>10. HeldFits'
  <2> SUFFICES ASSUME NEW q \in RunIds, hold'[q] # None
               PROVE  /\ Closing(hold'[q]) \/ hold'[q].run = q
                      /\ Fits(hold'[q], Written')
    BY DEF HeldFits
  <2> DEFINE h == hold[q]
  <2>1. q # t /\ hold'[q] = h /\ h \in Events
    BY <1>1
  <2>2. (Closing(h) \/ h.run = q) /\ Fits(h, Written)
    BY <1>2, <2>1 DEF HeldFits
  <2>3. Opening(h) => h.run = q /\ h.run = Parent[h.kid]
    BY <2>1, <2>2, Kinds, EventFields DEF Opening
  <2>4. Opening(x) => x.run = t /\ x.run = Parent[x.kid]
    BY <1>1, <1>3, Kinds, EventFields DEF Opening
  <2> HIDE DEF h
  <2>5. h.type # "response" /\ Ends(Written', h.run) => Closing(h)
    BY <1>5, <1>6, <2>1, <2>2 DEF Fits
  <2>6. Closing(h) => Ends(Written', h.kid)
    BY <1>5, <2>2 DEF Fits
  <2>7. Opening(h) => ~ Starts(Written', h.kid)
    BY <1>5, <2>1, <2>2, <2>3, <2>4 DEF Fits
  <2>8. h.run \in Kids /\ ~ Closing(h) => Starts(Written', h.run)
    BY <1>5, <2>2 DEF Fits
  <2> QED
    BY <2>1, <2>2, <2>5, <2>6, <2>7, <2>8 DEF Fits
<1> QED
  BY <1>1, <1>2, <1>4, <1>8, <1>9, <1>10 DEF StoryOK

\* The steps of a run's thread keep the order.
LEMMA StepStory ==
    ASSUME CoreTypeOK, StoryOK, NEW r \in RunIds, CoreStep(r), routed' = routed
    PROVE  StoryOK'
<1>1. /\ HeldFits /\ EndsTold /\ StartsTold
      /\ hold \in [RunIds -> Events \cup {None}] /\ act \in [RunIds -> Acts]
      /\ \A k \in Kids : k \in RunIds /\ Parent[k] \in RunIds
  BY TreeAssumption DEF StoryOK, CoreTypeOK, Acts, RunIds
<1>2. CASE Write(r)
  BY <1>2, WriteStory
<1>3. CASE SendMessage(r)
  <2> DEFINE e == Event(r, "message", seq[r])
  <2>1. /\ e \in Events /\ Number(r, r, e) /\ hold[r] = None /\ hold' = [hold EXCEPT ![r] = e]
        /\ act[r] = "live" /\ UNCHANGED <<out, act>>
    BY <1>3, EventTypes DEF SendMessage, Unblocked, Number, CoreTypeOK
  <2>a. e.type = "message" /\ e.run = r
    BY Made
  <2>2. /\ ~ IsTerminal(e) /\ ~ Opening(e) /\ ~ Closing(e) /\ e.run = r
    BY <2>a, Made
  <2>3. Fits(e, Written)
    BY <1>1, <2>1, MayFollow DEF EndsTold, StartsTold
  <2> HIDE DEF e
  <2>4. Written' = Written
    BY <2>1 DEF Written
  <2>5. /\ \A q \in RunIds : HoldsEnd(q)' <=> HoldsEnd(q)
        /\ \A k \in Kids : HoldsStart(k)' <=> HoldsStart(k)
    BY <1>1, <2>1, <2>2 DEF HoldsEnd, HoldsStart
  <2>6. EndsTold' /\ StartsTold'
    BY <1>1, <2>1, <2>4, <2>5 DEF EndsTold, StartsTold
  <2> QED
    BY <2>1, <2>2, <2>3, <2>6, NumberStory
<1>4. ASSUME NEW how \in {"completed", "cancelled", "error"}, EndRun(r, how)
      PROVE  StoryOK'
  <2> DEFINE kind == IF how = "error" THEN "error" ELSE "finish"
             e == Event(r, kind, seq[r])
  <2>0. kind \in {"finish", "error"}
    OBVIOUS
  <2> HIDE DEF kind
  <2>1. /\ e \in Events /\ Number(r, r, e) /\ hold[r] = None /\ hold' = [hold EXCEPT ![r] = e]
        /\ act[r] = "live" /\ UNCHANGED out /\ act' = [act EXCEPT ![r] = "over"]
    BY <1>4, <2>0, EventTypes DEF EndRun, Unblocked, Number, CoreTypeOK, kind
  <2>a. e.type = kind /\ e.run = r
    BY Made
  <2>2. /\ IsTerminal(e) /\ ~ Opening(e) /\ ~ Closing(e) /\ e.run = r
    BY <2>0, <2>a, Made
  <2>3. Fits(e, Written)
    BY <1>1, <2>0, <2>1, MayFollow DEF EndsTold, StartsTold
  <2> HIDE DEF e
  <2>4. Written' = Written
    BY <2>1 DEF Written
  <2>5. /\ HoldsEnd(r)'
        /\ \A q \in RunIds : q # r => (HoldsEnd(q)' <=> HoldsEnd(q))
        /\ \A k \in Kids : HoldsStart(k)' <=> HoldsStart(k)
    BY <1>1, <2>1, <2>2, NoneIsNoEvent DEF HoldsEnd, HoldsStart
  <2>6. act'[r] = "over" /\ \A q \in RunIds : q # r => act'[q] = act[q]
    BY <1>1, <2>1
  <2>7. EndsTold' /\ StartsTold'
    BY <1>1, <2>4, <2>5, <2>6 DEF EndsTold, StartsTold
  <2> QED
    BY <2>1, <2>2, <2>3, <2>7, NumberStory
<1>5. CASE r \in Kids /\ MarkRunning(r)
  <2>1. /\ act[r] = "created" /\ hold[Parent[r]] = None /\ act' = [act EXCEPT ![r] = "live"]
        /\ UNCHANGED <<hold, out>>
    BY <1>5 DEF MarkRunning
  <2>2. act'[r] = "live" /\ \A q \in RunIds : q # r => act'[q] = act[q]
    BY <1>1, <2>1
  <2>3. ~ HoldsStart(r)
    BY <2>1 DEF HoldsStart
  <2>4. Written' = Written /\ (\A q : HoldsEnd(q)' <=> HoldsEnd(q)) /\ (\A k : HoldsStart(k)' <=> HoldsStart(k))
    BY <2>1 DEF Written, HoldsEnd, HoldsStart
  <2>5. EndsTold' /\ StartsTold'
    BY <1>1, <1>5, <2>1, <2>2, <2>3, <2>4 DEF EndsTold, StartsTold
  <2> QED
    BY <2>1, <2>5, StillStory
<1>6. CASE r \in Kids /\ MarkEnded(r)
  <2>1. /\ act[r] = "over" /\ hold[r] = None /\ act' = [act EXCEPT ![r] = "marked"]
        /\ UNCHANGED <<hold, out>>
    BY <1>6 DEF MarkEnded, Unblocked
  <2>2. act'[r] = "marked" /\ \A q \in RunIds : q # r => act'[q] = act[q]
    BY <1>1, <2>1
  <2>3. ~ HoldsEnd(r)
    BY <2>1 DEF HoldsEnd
  <2>4. Written' = Written /\ (\A q : HoldsEnd(q)' <=> HoldsEnd(q)) /\ (\A k : HoldsStart(k)' <=> HoldsStart(k))
    BY <2>1 DEF Written, HoldsEnd, HoldsStart
  <2>5. EndsTold' /\ StartsTold'
    BY <1>1, <1>6, <2>1, <2>2, <2>3, <2>4 DEF EndsTold, StartsTold
  <2> QED
    BY <2>1, <2>5, StillStory
<1>7. CASE r \in Kids /\ SendClosing(r)
  <2> DEFINE p == Parent[r]
             st == IF outcome[r] = "completed" THEN "completed" ELSE "failed"
             e == SessionEvent(p, seq[p], r, st)
  <2>0. st \in {"completed", "failed"}
    OBVIOUS
  <2> HIDE DEF st
  <2>1. /\ e \in Events /\ Number(r, p, e) /\ hold[r] = None /\ hold' = [hold EXCEPT ![r] = e]
        /\ act[r] = "marked" /\ UNCHANGED out /\ act' = [act EXCEPT ![r] = "closed"]
    BY <1>1, <1>7, <2>0, EventTypes DEF SendClosing, Unblocked, Number, CoreTypeOK, st
  <2>2. /\ ~ IsTerminal(e) /\ ~ Opening(e) /\ Closing(e)
    BY <2>0, Made
  <2>3. Fits(e, Written)
    BY <1>1, <1>7, <2>0, <2>1, MayFollow DEF EndsTold
  <2> HIDE DEF e
  <2>4. Written' = Written
    BY <2>1 DEF Written
  <2>5. /\ \A q \in RunIds : HoldsEnd(q)' <=> HoldsEnd(q)
        /\ \A k \in Kids : HoldsStart(k)' <=> HoldsStart(k)
    BY <1>1, <2>1, <2>2 DEF HoldsEnd, HoldsStart
  <2>6. act'[r] = "closed" /\ \A q \in RunIds : q # r => act'[q] = act[q]
    BY <1>1, <2>1
  <2>7. EndsTold' /\ StartsTold'
    BY <1>1, <2>4, <2>5, <2>6 DEF EndsTold, StartsTold
  <2> QED
    BY <1>1, <1>7, <2>1, <2>2, <2>3, <2>7, NumberStory
<1>8. CASE ReturnFromSubagent(r)
  <2>1. UNCHANGED <<act, hold, out>>
    BY <1>8 DEF ReturnFromSubagent
  <2>2. EndsTold' /\ StartsTold'
    BY <1>1, <2>1 DEF EndsTold, StartsTold, Written, HoldsEnd, HoldsStart
  <2> QED
    BY <2>1, <2>2, StillStory
<1> QED
  BY <1>2, <1>3, <1>4, <1>5, <1>6, <1>7, <1>8 DEF CoreStep

\* So do the steps others force on it.
LEMMA ChoiceStory ==
    ASSUME CoreTypeOK, StoryOK, NEW r \in RunIds, CoreChoice(r), routed' = routed
    PROVE  StoryOK'
<1>1. /\ HeldFits /\ EndsTold /\ StartsTold
      /\ hold \in [RunIds -> Events \cup {None}] /\ act \in [RunIds -> Acts]
      /\ \A k \in Kids : k \in RunIds /\ Parent[k] \in RunIds
  BY TreeAssumption DEF StoryOK, CoreTypeOK, Acts, RunIds
<1>2. CASE TimeoutInSubagent(r)
  <2> DEFINE e == Event(r, "error", seq[r])
  <2>1. /\ e \in Events /\ Number(r, r, e) /\ hold[r] = None /\ hold' = [hold EXCEPT ![r] = e]
        /\ act[r] = "live" /\ UNCHANGED out
        /\ \A q \in RunIds : act'[q] \in {"over", "lost"} \/ (q # r /\ act'[q] = act[q])
        /\ \A q \in RunIds : q # r => act'[q] \in {"lost", act[q]}
    <3>1. e \in Events
      BY EventTypes DEF CoreTypeOK
    <3>2. /\ Number(r, r, e) /\ hold[r] = None /\ act[r] = "live" /\ UNCHANGED out
          /\ act' = [k \in RunIds |-> CASE k = r -> "over"
                                        [] k \in InsideOf(r) -> "lost"
                                        [] OTHER -> act[k]]
      BY <1>2 DEF TimeoutInSubagent
    <3> QED
      BY <3>1, <3>2 DEF Number
  <2>a. e.type = "error" /\ e.run = r
    BY Made
  <2>2. /\ IsTerminal(e) /\ ~ Opening(e) /\ ~ Closing(e) /\ e.run = r
    BY <2>a, Made
  <2>3. Fits(e, Written)
    BY <1>1, <2>1, MayFollow DEF EndsTold, StartsTold
  <2> HIDE DEF e
  <2>4. Written' = Written
    BY <2>1 DEF Written
  <2>5. /\ HoldsEnd(r)'
        /\ \A q \in RunIds : q # r => (HoldsEnd(q)' <=> HoldsEnd(q))
        /\ \A k \in Kids : HoldsStart(k)' <=> HoldsStart(k)
    BY <1>1, <2>1, <2>2, NoneIsNoEvent DEF HoldsEnd, HoldsStart
  <2>6. EndsTold' /\ StartsTold'
    BY <1>1, <2>1, <2>4, <2>5 DEF EndsTold, StartsTold
  <2> QED
    BY <2>1, <2>2, <2>3, <2>6, NumberStory
<1>3. CASE r \in Kids /\ Spawn(r)
  <2> DEFINE p == Parent[r]
             e == SessionEvent(p, seq[p], r, "running")
  <2>1. /\ e \in Events /\ Number(p, p, e) /\ hold[p] = None /\ hold' = [hold EXCEPT ![p] = e]
        /\ act[p] = "live" /\ act[r] = "none" /\ UNCHANGED out
        /\ act' = [act EXCEPT ![r] = "created"]
    BY <1>1, <1>3, EventTypes DEF Spawn, Unblocked, Number, CoreTypeOK
  <2>2. /\ ~ IsTerminal(e) /\ Opening(e) /\ ~ Closing(e) /\ e.kid = r /\ e.run = p
    BY Made
  <2>3. Fits(e, Written)
    BY <1>1, <1>3, <2>1, MayFollow DEF EndsTold, StartsTold
  <2> HIDE DEF e
  <2>4. Written' = Written
    BY <2>1 DEF Written
  <2>5. /\ \A q \in RunIds : HoldsEnd(q)' <=> HoldsEnd(q)
        /\ HoldsStart(r)'
        /\ \A k \in Kids : k # r => (HoldsStart(k)' <=> HoldsStart(k))
    BY <1>1, <1>3, <2>1, <2>2, NoneIsNoEvent DEF HoldsEnd, HoldsStart
  <2>6. act'[r] = "created" /\ \A q \in RunIds : q # r => act'[q] = act[q]
    BY <1>1, <2>1
  <2>7. EndsTold' /\ StartsTold'
    BY <1>1, <2>1, <2>4, <2>5, <2>6 DEF EndsTold, StartsTold
  <2> QED
    BY <1>1, <1>3, <2>1, <2>2, <2>3, <2>7, NumberStory
<1>4. CASE r \in Kids /\ WorkerFails(r)
  <2>1. /\ act' = [act EXCEPT ![r] = "lost"] /\ UNCHANGED <<hold, out>>
    BY <1>4 DEF WorkerFails
  <2>2. act'[r] = "lost" /\ \A q \in RunIds : q # r => act'[q] = act[q]
    BY <1>1, <2>1
  <2>3. Written' = Written /\ (\A q : HoldsEnd(q)' <=> HoldsEnd(q)) /\ (\A k : HoldsStart(k)' <=> HoldsStart(k))
    BY <2>1 DEF Written, HoldsEnd, HoldsStart
  <2>4. EndsTold' /\ StartsTold'
    BY <1>1, <2>2, <2>3 DEF EndsTold, StartsTold
  <2> QED
    BY <2>1, <2>4, StillStory
<1>5. ASSUME NEW targets, CancelSubagents(r, targets)
      PROVE  StoryOK'
  <2>1. UNCHANGED <<act, hold, out>>
    BY <1>5 DEF CancelSubagents
  <2>2. EndsTold' /\ StartsTold'
    BY <1>1, <2>1 DEF EndsTold, StartsTold, Written, HoldsEnd, HoldsStart
  <2> QED
    BY <2>1, <2>2, StillStory
<1> QED
  BY <1>2, <1>3, <1>4, <1>5 DEF CoreChoice

\* What Route does, as far as the first two levels of runs are concerned:
\* as long as the root's channel is registered their events get into it; the
\* table learns and forgets sub-agents; and the channel is given up when
\* nobody listens or nothing more is expected.
LEMMA RouteEffect ==
    ASSUME TypeOK, Route
    PROVE  LET e == Head(out)
               Leaves2(k) == (Closing(e) /\ e.kid = k) \/ (IsTerminal(e) /\ e.run = k)
               Known(k) == childToParent[k] = Root \/ (Opening(e) /\ e.kid = k)
           IN  /\ out # <<>> /\ e \in Events /\ e.type # "response"
               /\ out' = Tail(out) /\ routed' = routed \cup {e}
               /\ UNCHANGED <<alive, act, hold, listening>>
               /\ chan' = chan \/ (chan' = Append(chan, e) /\ senders # {})
               /\ senders # {} /\ e.run \in {Root} \cup DirectKids =>
                     dropped' = dropped /\ (listening => chan' = Append(chan, e))
               /\ dropped' \in {dropped, dropped \cup {e}}
               /\ \A k \in DirectKids : senders' # {} /\ Known(k) =>
                     childToParent'[k] = Root \/ Leaves2(k)
               /\ Root \in parentTerminal' =>
                     Root \in parentTerminal \/ (e.run = Root /\ IsTerminal(e))
               /\ senders' \subseteq senders
               /\ senders # {} /\ senders' = {} =>
                     \/ ~ listening
                     \/ /\ Root \in parentTerminal \/ (e.run = Root /\ IsTerminal(e))
                        /\ \A k \in DirectKids : Known(k) => Leaves2(k)
<1> DEFINE e == Head(out)
           table == RoutesAfterSession(e)
           parent == IF table[e.run] # None THEN table[e.run] ELSE PrefixRun(e.run)
           exact == e.run \in senders
           target == CASE exact -> e.run
                       [] ~exact /\ parent \in senders -> parent
                       [] OTHER -> None
           table2 == IF IsTerminal(e) /\ parent # None THEN [table EXCEPT ![e.run] = None] ELSE table
           terminal2 == IF IsTerminal(e) /\ parent = None
                        THEN parentTerminal \cup {e.run} ELSE parentTerminal
           remove == /\ target # None
                     /\ \/ ~listening
                        \/ /\ exact
                           /\ IsTerminal(e)
                           /\ Children(table2, target) = {}
                        \/ /\ ~exact
                           /\ target \in terminal2
                           /\ Children(table2, target) = {}
           Leaves2(k) == (Closing(e) /\ e.kid = k) \/ (IsTerminal(e) /\ e.run = k)
           Known(k) == childToParent[k] = Root \/ (Opening(e) /\ e.kid = k)
<1>1. /\ out # <<>> /\ e \in Events /\ e.type # "response" /\ out' = Tail(out)
      /\ UNCHANGED <<alive, act, hold, listening>>
  <2>1. /\ out # <<>> /\ out' = Tail(out) /\ e.type # "response"
        /\ UNCHANGED <<alive, act, hold, listening>>
    BY DEF Route
  <2> QED
    BY <2>1 DEF TypeOK, CoreTypeOK
<1>2. /\ routed' = routed \cup {e}
      /\ chan' = IF target # None /\ listening THEN Append(chan, e) ELSE chan
      /\ dropped' = IF target = None THEN dropped \cup {e} ELSE dropped
      /\ senders' = IF remove THEN senders \ {target} ELSE senders
      /\ childToParent' = IF remove THEN [k \in RunIds |-> IF table2[k] = target THEN None ELSE table2[k]]
                          ELSE table2
      /\ parentTerminal' = IF remove THEN terminal2 \ {target} ELSE terminal2
  BY DEF Route
<1>3. /\ e.run \in RunIds
      /\ e.type = "sub_agent_session" => e.kid \in Kids /\ e.run = Parent[e.kid]
  BY <1>1, EventFields
<1>4. /\ childToParent \in [RunIds -> RunIds \cup {None}]
      /\ senders \subseteq {Root}
      /\ \A r \in RunIds : childToParent[r] # None => r \in Kids /\ childToParent[r] = Parent[r]
      /\ Root # None /\ None \notin RunIds /\ Root \notin Kids
      /\ \A k \in DirectKids : k \in Kids /\ k \in RunIds /\ Parent[k] = Root
  BY TreeAssumption DEF TypeOK, RouterTypeOK, DirectKids, RunIds
<1> HIDE DEF e
<1>5. /\ table \in [RunIds -> RunIds \cup {None}]
      /\ \A r \in RunIds : table[r] # None => r \in Kids /\ table[r] = Parent[r]
      /\ \A k \in DirectKids : Known(k) => table[k] = Root \/ (Closing(e) /\ e.kid = k)
  BY <1>3, <1>4, TreeAssumption DEF RoutesAfterSession, Opening, Closing, RunIds
<1> HIDE DEF table
<1>6. /\ parent \in RunIds \cup {None}
      /\ e.run # Root => parent # None
      /\ e.run \in DirectKids => parent = Root
  BY <1>3, <1>4, <1>5 DEF PrefixRun, RunIds
<1> HIDE DEF parent
<1>7. /\ table2 \in [RunIds -> RunIds \cup {None}]
      /\ \A k \in DirectKids : Known(k) => table2[k] = Root \/ Leaves2(k)
  BY <1>3, <1>4, <1>5
<1>8. Root \in terminal2 => Root \in parentTerminal \/ (e.run = Root /\ IsTerminal(e))
  OBVIOUS
<1>9. /\ target \in senders \cup {None}
      /\ target = None \/ target = Root
      /\ senders # {} /\ e.run \in {Root} \cup DirectKids => target = Root
      /\ target = Root => Root \in senders
      /\ exact => e.run = Root
  BY <1>4, <1>6
<1>10. remove => /\ target = Root
                 /\ \/ ~ listening
                    \/ /\ Root \in terminal2 \/ (e.run = Root /\ IsTerminal(e))
                       /\ Children(table2, Root) = {}
  BY <1>4, <1>9
<1> HIDE DEF table2, target, terminal2, remove, exact
<1>11. chan' = chan \/ (chan' = Append(chan, e) /\ senders # {})
  BY <1>2, <1>4, <1>9
<1>12. senders # {} /\ e.run \in {Root} \cup DirectKids =>
          dropped' = dropped /\ (listening => chan' = Append(chan, e))
  BY <1>2, <1>4, <1>9
<1>13. \A k \in DirectKids : senders' # {} /\ Known(k) => childToParent'[k] = Root \/ Leaves2(k)
  <2>1. senders' # {} => ~ remove
    BY <1>2, <1>4, <1>10
  <2> QED
    BY <1>2, <1>7, <2>1
<1>14. Root \in parentTerminal' => Root \in parentTerminal \/ (e.run = Root /\ IsTerminal(e))
  BY <1>2, <1>8
<1>15. senders' \subseteq senders /\ (senders # {} /\ senders' = {} => remove)
  BY <1>2
<1>16. remove =>
          \/ ~ listening
          \/ /\ Root \in parentTerminal \/ (e.run = Root /\ IsTerminal(e))
             /\ \A k \in DirectKids : Known(k) => Leaves2(k)
  BY <1>4, <1>7, <1>8, <1>10 DEF Children
<1>17. dropped' \in {dropped, dropped \cup {e}}
  BY <1>2
<1> HIDE DEF Leaves2, Known
<1> QED
  BY <1>1, <1>2, <1>11, <1>12, <1>13, <1>14, <1>15, <1>16, <1>17 DEF e, Leaves2, Known

\* Announced looks at a beginning of the channel only.
LEMMA AnnouncedAppend ==
    ASSUME NEW c \in Seq(Events), NEW e \in Events
    PROVE  /\ \A k, n : Announced(c, k, n) => Announced(Append(c, e), k, n)
           /\ Opening(e) /\ (\A x \in Lines(c) : ~ EndsReply(x)) =>
                 Announced(Append(c, e), e.kid, Len(c) + 1)
<1> DEFINE a == Append(c, e)
<1>1. /\ Len(c) \in Nat /\ DOMAIN c = 1..Len(c) /\ DOMAIN a = 1..(Len(c) + 1)
      /\ a[Len(c) + 1] = e
      /\ \A i \in 1..Len(c) : a[i] = c[i]
  OBVIOUS
<1> HIDE DEF a
<1>2. ASSUME NEW k, NEW n, Announced(c, k, n) PROVE Announced(a, k, n)
  <2>1. PICK i \in DOMAIN c : /\ i <= n
                             /\ Opening(c[i]) /\ c[i].kid = k
                             /\ \A j \in 1..i : ~ EndsReply(c[j])
    BY <1>2 DEF Announced
  <2>2. i \in DOMAIN a /\ a[i] = c[i] /\ \A j \in 1..i : a[j] = c[j]
    BY <1>1
  <2> QED
    BY <2>1, <2>2 DEF Announced
<1>3. ASSUME Opening(e), \A x \in Lines(c) : ~ EndsReply(x)
      PROVE  Announced(a, e.kid, Len(c) + 1)
  <2>1. ~ EndsReply(e)
    BY <1>3, Kinds DEF EndsReply
  <2>2. \A j \in 1..(Len(c) + 1) : ~ EndsReply(a[j])
    BY <1>1, <1>3, <2>1 DEF Lines
  <2>3. Len(c) + 1 \in DOMAIN a /\ Len(c) + 1 <= Len(c) + 1
    BY <1>1
  <2> QED
    BY <1>1, <1>3, <2>2, <2>3 DEF Announced
<1> QED
  BY <1>2, <1>3 DEF a

\* What is announced by the rest of the channel.
LEMMA AnnouncedTail ==
    ASSUME NEW c \in Seq(Events), c # <<>>, NEW k, NEW n \in Nat, Announced(c, k, n)
    PROVE  /\ n # 0 /\ ~ EndsReply(Head(c))
           /\ \/ Opening(Head(c)) /\ Head(c).kid = k
              \/ Announced(Tail(c), k, n - 1)
<1> DEFINE t == Tail(c)
           h == Head(c)
<1>1. /\ h = c[1] /\ Len(c) \in Nat \ {0} /\ DOMAIN t = 1..(Len(c) - 1)
      /\ \A i \in DOMAIN t : t[i] = c[i + 1]
      /\ DOMAIN c = 1..Len(c)
  OBVIOUS
<1> HIDE DEF t, h
<1>2. PICK i \in DOMAIN c : /\ i <= n
                           /\ Opening(c[i]) /\ c[i].kid = k
                           /\ \A j \in 1..i : ~ EndsReply(c[j])
  BY DEF Announced
<1>3. i \in Nat /\ i >= 1
  BY <1>1
<1>4. ~ EndsReply(h) /\ n # 0
  BY <1>1, <1>2, <1>3
<1>5. CASE i = 1
  BY <1>1, <1>2, <1>4, <1>5 DEF h
<1>6. CASE i # 1
  <2>1. i - 1 \in DOMAIN t /\ t[i - 1] = c[i] /\ i - 1 <= n - 1
    BY <1>1, <1>2, <1>3, <1>6
  <2>2. \A j \in 1..(i - 1) : t[j] = c[j + 1] /\ j + 1 \in 1..i
    BY <1>1, <1>3
  <2>3. Announced(t, k, n - 1)
    BY <1>2, <2>1, <2>2 DEF Announced
  <2> QED
    BY <1>4, <2>3 DEF t, h
<1> QED
  BY <1>5, <1>6

\* One turn of the pump.
LEMMA PumpEffect ==
    ASSUME TypeOK, Pump
    PROVE  LET e == Head(chan) IN
           /\ pump = "on" /\ chan # <<>> /\ e \in Events
           /\ \E saved \in BOOLEAN :
                 /\ bound' = BoundAfter(e, saved)
                 /\ session' = IF Saves(e) /\ saved THEN SessionAfter(e) ELSE session
                 /\ saveFails' = IF saved THEN saveFails ELSE saveFails + 1
           /\ seenTerm' = (seenTerm \/ EndsReply(e))
           /\ \/ pump' = "on" /\ chan' = Tail(chan)
              \/ pump' = "done" /\ chan' = <<>> /\ seenTerm' /\ bound' = {}
           /\ UNCHANGED <<coreVars, senders, childToParent, parentTerminal, routed, dropped>>
<1> DEFINE e == Head(chan)
<1>1. /\ pump = "on" /\ chan # <<>>
      /\ \E saved \in BOOLEAN :
            /\ bound' = BoundAfter(e, saved)
            /\ session' = IF Saves(e) /\ saved THEN SessionAfter(e) ELSE session
            /\ saveFails' = IF saved THEN saveFails ELSE saveFails + 1
      /\ seenTerm' = (seenTerm \/ EndsReply(e))
      /\ \/ pump' = "on" /\ chan' = Tail(chan)
         \/ pump' = "done" /\ chan' = <<>> /\ seenTerm' /\ bound' = {}
      /\ UNCHANGED <<coreVars, senders, childToParent, parentTerminal, routed, dropped>>
  BY DEF Pump
<1>2. e \in Events
  BY <1>1 DEF TypeOK, RouterTypeOK
<1> QED
  BY <1>1, <1>2

\* The whole of the channel is its first Len(c) events.
LEMMA AnnouncedAll ==
    ASSUME NEW c \in Seq(Events), NEW k, NEW n, Announced(c, k, n)
    PROVE  Announced(c, k, Len(c))
BY DEF Announced

\* A line is routed.
LEMMA RouteKeeps ==
    ASSUME TypeOK, IdleOK, ListenOK, KeepInv, Route, UNCHANGED pumpVars
    PROVE  KeepInv'
<1> DEFINE Leaving(e, k) == (Closing(e) /\ e.kid = k) \/ (IsTerminal(e) /\ e.run = k)
           Known(e, k) == childToParent[k] = Root \/ (Opening(e) /\ e.kid = k)
<1>1. PICK e \in Events :
         /\ e = Head(out)
         /\ out # <<>> /\ e.type # "response"
         /\ out' = Tail(out) /\ routed' = routed \cup {e}
         /\ UNCHANGED <<alive, act, hold, listening>>
         /\ chan' = chan \/ (chan' = Append(chan, e) /\ senders # {})
         /\ senders # {} /\ e.run \in {Root} \cup DirectKids =>
               dropped' = dropped /\ (listening => chan' = Append(chan, e))
         /\ dropped' \in {dropped, dropped \cup {e}}
         /\ \A k \in DirectKids : senders' # {} /\ Known(e, k) =>
               childToParent'[k] = Root \/ Leaving(e, k)
         /\ Root \in parentTerminal' =>
               Root \in parentTerminal \/ (e.run = Root /\ IsTerminal(e))
         /\ senders' \subseteq senders
         /\ senders # {} /\ senders' = {} =>
               \/ ~ listening
               \/ /\ Root \in parentTerminal \/ (e.run = Root /\ IsTerminal(e))
                  /\ \A k \in DirectKids : Known(e, k) => Leaving(e, k)
  BY RouteEffect
<1>2. /\ StoryOK /\ TableOK /\ ClosedOK /\ RouterKeepsEvents
      /\ HeldFits /\ LinesFit(routed, out) /\ EndsTold /\ StartsTold
      /\ \A x \in routed : Closing(x) => Ends(routed, x.kid)
  BY DEF KeepInv, StoryOK
<1>3. UNCHANGED <<pump, bound, seenTerm>> /\ pump # "idle"
  BY <1>1 DEF pumpVars, IdleOK
<1>4. out \in Seq(Events) /\ chan \in Seq(Events)
  BY DEF TypeOK, CoreTypeOK, RouterTypeOK
<1>5. /\ Fits(e, routed) /\ LinesFit(routed', out') /\ Lines(out) = {e} \cup Lines(out')
  BY <1>1, <1>2, <1>4, LinesTail
<1>6. Written' = Written
  BY <1>1, <1>5 DEF Written
<1>7. /\ \A r : Ends(routed', r) <=> Ends(routed, r) \/ (e.run = r /\ IsTerminal(e))
      /\ \A k : Starts(routed', k) <=> Starts(routed, k) \/ (Opening(e) /\ e.kid = k)
  BY <1>1, EndsMore
<1>8. StoryOK'
  <2>1. HeldFits' /\ EndsTold' /\ StartsTold'
    BY <1>1, <1>2, <1>6 DEF HeldFits, EndsTold, StartsTold, HoldsEnd, HoldsStart
  <2>2. \A x \in routed' : Closing(x) => Ends(routed', x.kid)
    BY <1>1, <1>2, <1>5, <1>7 DEF Fits
  <2> QED
    BY <1>5, <2>1, <2>2 DEF StoryOK
\* Behind the root's terminal event no session is opened.
<1>9. \A k \in DirectKids : Opening(e) /\ e.kid = k => e.run = Root /\ ~ Ends(routed, Root)
  BY <1>1, <1>5, Kinds, EventFields DEF Fits, DirectKids, Opening
<1>10. Finished => Finished'
  BY <1>7, <1>9 DEF Finished
<1>11. \A k \in DirectKids : Leaving(e, k) => Ends(routed', k)
  BY <1>5, <1>7 DEF Fits
<1>12. \A k \in DirectKids : senders # {} /\ Starts(routed', k) => Ends(routed, k) \/ Known(e, k)
  BY <1>2, <1>7 DEF TableOK
<1>13. pump \notin {"idle", "failed"} /\ (senders = {} \/ pump = "done") => Finished
  BY <1>1, <1>2 DEF ClosedOK
<1> HIDE DEF Leaving, Known
<1>14. TableOK'
  <2>1. pump' # "idle"
    BY <1>3
  <2>2. senders' # {} => \A k \in DirectKids :
           Starts(routed', k) => Ends(routed', k) \/ childToParent'[k] = Root
    BY <1>1, <1>7, <1>11, <1>12
  <2>3. Root \in parentTerminal' \/ seenTerm' => Ends(routed', Root)
    BY <1>1, <1>2, <1>3, <1>7 DEF TableOK
  <2>4. Lines(chan') \subseteq routed'
    <3>1. Lines(chan) \subseteq routed /\ Lines(Append(chan, e)) = Lines(chan) \cup {e}
      BY <1>2, <1>4, LinesAppend DEF TableOK
    <3> QED
      BY <1>1, <3>1
  <2>5. ASSUME pump \in {"calling", "on"}, NEW k \in DirectKids, Starts(routed', k)
        PROVE  Ends(routed', k) \/ k \in bound' \/ (~ seenTerm' /\ Announced(chan', k, Len(chan')))
    <3>1. CASE Starts(routed, k)
      <4>1. Ends(routed, k) \/ k \in bound \/ (~ seenTerm /\ Announced(chan, k, Len(chan)))
        BY <1>2, <2>5, <3>1 DEF TableOK, Coming
      <4>2. Announced(chan, k, Len(chan)) => Announced(chan', k, Len(chan))
        BY <1>1, <1>4, AnnouncedAppend
      <4>3. chan' \in Seq(Events)
        <5>1. Append(chan, e) \in Seq(Events)
          BY <1>4
        <5> QED
          BY <1>1, <1>4, <5>1
      <4>4. Announced(chan, k, Len(chan)) => Announced(chan', k, Len(chan'))
        BY <4>2, <4>3, AnnouncedAll
      <4> QED
        BY <1>3, <1>7, <4>1, <4>4
    <3>2. CASE Opening(e) /\ e.kid = k
      <4>1. ~ Ends(routed, Root) /\ e.run = Root
        BY <1>9, <3>2
      <4>2. senders # {}
        BY <1>13, <2>5, <4>1 DEF Finished
      <4>3. chan' = Append(chan, e)
        BY <1>1, <2>5, <4>1, <4>2 DEF ListenOK
      <4>4. ~ seenTerm
        BY <1>2, <4>1 DEF TableOK
      <4>5. \A x \in Lines(chan) : ~ EndsReply(x)
        BY <1>2, <4>1 DEF TableOK, Ends, EndsReply
      <4>6. Announced(chan', k, Len(chan) + 1)
        BY <1>4, <3>2, <4>3, <4>5, AnnouncedAppend
      <4>7. chan' \in Seq(Events)
        BY <1>4, <4>3
      <4> QED
        BY <1>3, <4>4, <4>6, <4>7, AnnouncedAll
    <3> QED
      BY <1>7, <2>5, <3>1, <3>2
  <2> QED
    BY <1>3, <2>1, <2>2, <2>3, <2>4, <2>5 DEF TableOK, Coming
<1>15. ClosedOK'
  <2> SUFFICES ASSUME pump' \notin {"idle", "failed"}, senders' = {} \/ pump' = "done"
               PROVE  Finished'
    BY DEF ClosedOK
  <2>1. CASE senders = {} \/ pump = "done"
    BY <1>3, <1>10, <1>13, <2>1
  <2>2. CASE senders # {} /\ pump # "done"
    <3>1. listening /\ senders' = {}
      BY <1>3, <2>2 DEF ListenOK
    <3>2. /\ Root \in parentTerminal \/ (e.run = Root /\ IsTerminal(e))
          /\ \A k \in DirectKids : Known(e, k) => Leaving(e, k)
      BY <1>1, <2>2, <3>1
    <3>3. Ends(routed', Root)
      BY <1>2, <1>7, <3>2 DEF TableOK
    <3>4. \A k \in DirectKids : Starts(routed', k) => Ends(routed', k)
      BY <1>7, <1>11, <1>12, <2>2, <3>2
    <3> QED
      BY <3>3, <3>4 DEF Finished
  <2> QED
    BY <2>1, <2>2
<1>16. RouterKeepsEvents'
  <2> SUFFICES ASSUME pump' # "failed", NEW x \in dropped', x.run \in {Root} \cup DirectKids
               PROVE  Closing(x) /\ Ends(routed', x.kid)
    BY DEF RouterKeepsEvents, WasRouted, Closing, Ends, IsTerminal
  <2>1. CASE x \in dropped
    <3>1. Closing(x) /\ Ends(routed, x.kid)
      BY <1>2, <1>3, <2>1 DEF RouterKeepsEvents, WasRouted, Closing, Ends, IsTerminal
    <3> QED
      BY <1>7, <3>1
  <2>2. CASE x \notin dropped
    <3>1. x = e /\ senders = {}
      BY <1>1, <2>2
    <3>2. Finished
      BY <1>3, <1>13, <3>1
    <3>3. e.run \in DirectKids => e.run \in Kids
      BY DEF DirectKids
    <3>4. Closing(e)
      BY <1>1, <1>5, <3>1, <3>2, <3>3 DEF Fits, Finished
    <3> QED
      BY <1>5, <1>7, <3>1, <3>4 DEF Fits
  <2> QED
    BY <2>1, <2>2
<1> QED
  BY <1>8, <1>14, <1>15, <1>16 DEF KeepInv

\* A sub-agent the pump has to know of is known after its next turn as well.
LEMMA PumpKnows ==
    ASSUME TypeOK, StoryOK, TableOK, Pump, NEW k \in DirectKids, Starts(routed, k)
    PROVE  \/ Ends(routed, k) \/ k \in bound'
           \/ ~ seenTerm' /\ Announced(Tail(chan), k, Len(Tail(chan)))
<1>1. PICK e \in Events, saved \in BOOLEAN :
         /\ e = Head(chan) /\ pump = "on" /\ chan # <<>>
         /\ bound' = BoundAfter(e, saved)
         /\ seenTerm' = (seenTerm \/ EndsReply(e))
  BY PumpEffect
<1>2. /\ chan \in Seq(Events) /\ Len(Tail(chan)) = Len(chan) - 1 /\ Len(chan) \in Nat
      /\ e \in Lines(chan)
  BY <1>1 DEF TypeOK, RouterTypeOK, Lines
<1>3. e \in routed /\ (Closing(e) => Ends(routed, e.kid))
  BY <1>2 DEF TableOK, StoryOK
<1>4. Ends(routed, k) \/ k \in bound \/ (~ seenTerm /\ Announced(chan, k, Len(chan)))
  BY <1>1 DEF TableOK, Coming
<1>5. CASE k \in bound
  <2>1. k \notin bound' => \/ Closing(e) /\ e.kid = k
                           \/ e.type = "finish" /\ e.run = k
    BY <1>1, <1>5 DEF BoundAfter, Closing
  <2> QED
    BY <1>3, <2>1 DEF Ends, IsTerminal
<1>6. CASE ~ seenTerm /\ Announced(chan, k, Len(chan))
  <2>1. /\ ~ EndsReply(e)
        /\ (Opening(e) /\ e.kid = k) \/ Announced(Tail(chan), k, Len(chan) - 1)
    BY <1>1, <1>2, <1>6, AnnouncedTail
  <2>2. CASE Opening(e) /\ e.kid = k
    <3>1. e.type = "sub_agent_session" /\ e.status = "running" /\ e.run = Root
      BY <2>2, EventFields DEF Opening, DirectKids
    <3> QED
      BY <1>1, <2>2, <3>1 DEF BoundAfter
  <2> QED
    BY <1>1, <1>2, <1>6, <2>1, <2>2
<1> QED
  BY <1>4, <1>5, <1>6

\* The pump takes an event.
LEMMA PumpKeeps ==
    ASSUME TypeOK, KeepInv, Pump
    PROVE  KeepInv'
<1>1. /\ StoryOK /\ TableOK /\ ClosedOK /\ RouterKeepsEvents
  BY DEF KeepInv
<1>2. PICK e \in Events :
         /\ e = Head(chan) /\ pump = "on" /\ chan # <<>>
         /\ seenTerm' = (seenTerm \/ EndsReply(e))
         /\ \/ pump' = "on" /\ chan' = Tail(chan)
            \/ pump' = "done" /\ chan' = <<>> /\ seenTerm' /\ bound' = {}
         /\ UNCHANGED <<coreVars, senders, childToParent, parentTerminal, routed, dropped>>
  BY PumpEffect
<1>3. UNCHANGED <<act, hold, out, alive, senders, childToParent, parentTerminal, routed, dropped>>
  BY <1>2 DEF coreVars
<1>4. chan \in Seq(Events) /\ e \in Lines(chan) /\ Lines(Tail(chan)) \subseteq Lines(chan)
  <2>1. chan \in Seq(Events)
    BY DEF TypeOK, RouterTypeOK
  <2>2. Lines(chan) = {e} \cup Lines(Tail(chan))
    BY <1>2, <2>1, LinesTail
  <2> QED
    BY <2>1, <2>2
<1>5. StoryOK'
  BY <1>1, <1>3 DEF StoryOK, HeldFits, EndsTold, StartsTold, HoldsEnd, HoldsStart, Written
<1>6. seenTerm' => Ends(routed, Root)
  BY <1>1, <1>2, <1>4 DEF TableOK, Ends, EndsReply
<1>7. TableOK'
  <2>1. Lines(chan') \subseteq routed
    <3>1. Lines(<<>>) = {}
      BY DEF Lines
    <3> QED
      BY <1>1, <1>2, <1>4, <3>1 DEF TableOK
  <2>2. pump' \in {"calling", "on"} => \A k \in DirectKids : Starts(routed, k) =>
           Ends(routed, k) \/ k \in bound' \/ (~ seenTerm' /\ Announced(chan', k, Len(chan')))
    BY <1>1, <1>2, PumpKnows
  <2>3. pump' # "idle"
    BY <1>2
  <2> QED
    BY <1>1, <1>3, <1>6, <2>1, <2>2, <2>3 DEF TableOK, Coming
<1>8. ClosedOK'
  <2>1. CASE pump' = "done"
    <3>1. \A k \in DirectKids : Starts(routed, k) => Ends(routed, k)
      BY <1>1, <1>2, <2>1, PumpKnows
    <3> QED
      BY <1>2, <1>3, <1>6, <2>1, <3>1 DEF ClosedOK, Finished
  <2>2. CASE pump' = "on"
    BY <1>1, <1>2, <1>3, <2>2 DEF ClosedOK, Finished
  <2> QED
    BY <1>2, <2>1, <2>2
<1>9. RouterKeepsEvents'
  BY <1>1, <1>2, <1>3 DEF RouterKeepsEvents, WasRouted
<1> QED
  BY <1>5, <1>7, <1>8, <1>9 DEF KeepInv

\* A step that routes and pumps nothing.
LEMMA ElsewhereKeeps ==
    ASSUME KeepInv, StoryOK',
           UNCHANGED <<senders, childToParent, parentTerminal, chan, routed, dropped, bound, seenTerm>>,
           \/ pump' = pump
           \/ pump = "calling" /\ pump' = "on",
           pump # "idle",
           alive \/ out # <<>> \/ (out' = out /\ ~ alive')
    PROVE  KeepInv'
<1>1. StoryOK /\ TableOK /\ ClosedOK /\ RouterKeepsEvents
  BY DEF KeepInv
<1>2. TableOK'
  BY <1>1 DEF TableOK, Coming
<1>3. ClosedOK'
  BY <1>1 DEF ClosedOK, Finished
<1>4. RouterKeepsEvents'
  BY <1>1 DEF RouterKeepsEvents, WasRouted
<1> QED
  BY <1>2, <1>3, <1>4 DEF KeepInv

\* The invariant is inductive.
LEMMA KeepStep ==
    TypeOK /\ FlowInv /\ KeepInv /\ [Next]_vars => KeepInv'
<1> SUFFICES ASSUME TypeOK, FlowInv, KeepInv, [Next]_vars PROVE KeepInv'
  OBVIOUS
<1>1. /\ IdleOK /\ ListenOK
      /\ StoryOK /\ TableOK /\ ClosedOK /\ RouterKeepsEvents
      /\ HeldFits /\ LinesFit(routed, out) /\ EndsTold /\ StartsTold
      /\ \A x \in routed : Closing(x) => Ends(routed, x.kid)
      /\ CoreTypeOK
  BY DEF FlowInv, KeepInv, StoryOK, TypeOK
<1>2. CASE Register
  <2>1. /\ UNCHANGED <<act, hold, out, childToParent, parentTerminal, chan, routed, dropped, seenTerm>>
        /\ pump = "idle" /\ pump' = "calling" /\ senders' = senders \cup {Root}
    BY <1>2 DEF Register, coreVars
  <2>2. routed = {}
    BY <1>1, <2>1 DEF TableOK
  <2>3. StoryOK'
    BY <1>1, <2>1 DEF StoryOK, HeldFits, EndsTold, StartsTold, HoldsEnd, HoldsStart, Written
  <2>4. \A k : ~ Starts(routed, k)
    BY <2>2 DEF Starts
  <2>5. TableOK'
    BY <1>1, <2>1, <2>4 DEF TableOK
  <2>6. ClosedOK' /\ RouterKeepsEvents'
    BY <1>1, <2>1 DEF ClosedOK, RouterKeepsEvents, WasRouted
  <2> QED
    BY <2>3, <2>5, <2>6 DEF KeepInv
<1>3. CASE Accept
  <2>1. /\ act[Root] = "none" /\ act' = [act EXCEPT ![Root] = "live"] /\ alive
        /\ UNCHANGED <<hold, out, pump, senders, childToParent, parentTerminal, chan, routed,
                       dropped, bound, seenTerm>>
        /\ pump # "idle"
    BY <1>3 DEF Accept, StartRoot, routerVars, pumpVars
  <2>2. /\ Root \in RunIds /\ Root \notin Kids /\ act'[Root] = "live"
        /\ \A q \in RunIds : q # Root => act'[q] = act[q]
        /\ \A k \in Kids : k \in RunIds
    BY <1>1, <2>1, TreeAssumption DEF RunIds, CoreTypeOK
  <2>3. Written' = Written /\ (\A q : HoldsEnd(q)' <=> HoldsEnd(q)) /\ (\A k : HoldsStart(k)' <=> HoldsStart(k))
    BY <2>1 DEF Written, HoldsEnd, HoldsStart
  <2>4. EndsTold'
    BY <1>1, <2>1, <2>2, <2>3 DEF EndsTold
  <2>5. StartsTold'
    BY <1>1, <2>1, <2>2, <2>3 DEF StartsTold
  <2>6. StoryOK'
    BY <1>1, <2>1, <2>4, <2>5, StillStory
  <2> QED
    BY <2>1, <2>6, ElsewhereKeeps
<1>4. CASE WriteAnswer
  <2> DEFINE e == Event(Root, "response", 0)
  <2>1. /\ alive /\ act[Root] # "none" /\ out' = Append(out, e) /\ out \in Seq(Events)
        /\ UNCHANGED <<act, hold, pump, senders, childToParent, parentTerminal, chan, routed,
                       dropped, bound, seenTerm>>
        /\ pump # "idle"
    BY <1>1, <1>4 DEF WriteAnswer, routerVars, IdleOK, RunIds, CoreTypeOK
  <2>2. e \in Events /\ e.type = "response" /\ e.run = Root
    BY EventTypes DEF Event
  <2>3. ~ IsTerminal(e) /\ ~ Opening(e) /\ ~ Closing(e)
    BY <2>2, Kinds
  <2> HIDE DEF e
  <2>4. Fits(e, Written)
    BY <2>2, <2>3, TreeAssumption DEF Fits
  <2>5. LinesFit(routed', out') /\ Written' = Written \cup {e}
    <3>1. Lines(Append(out, e)) = Lines(out) \cup {e}
      BY <2>1, <2>2, LinesAppend
    <3>2. LinesFit(routed, out) /\ Fits(e, routed \cup Lines(out))
      BY <1>1, <2>4 DEF Written
    <3>3. LinesFit(routed, Append(out, e))
      BY <2>1, <2>2, <3>2, LinesAppend
    <3> QED
      BY <2>1, <3>1, <3>3 DEF Written
  <2>6. /\ \A r : Ends(Written', r) <=> Ends(Written, r)
        /\ \A k : Starts(Written', k) <=> Starts(Written, k)
    BY <2>3, <2>5, EndsMore
  <2>7. \A x : Fits(x, Written') <=> Fits(x, Written)
    BY <2>6, FitsSame
  <2>8. HeldFits'
    BY <1>1, <2>1, <2>7 DEF HeldFits
  <2>9. EndsTold' /\ StartsTold'
    BY <1>1, <2>1, <2>6 DEF EndsTold, StartsTold, HoldsEnd, HoldsStart
  <2>10. StoryOK'
    BY <1>1, <2>1, <2>5, <2>8, <2>9 DEF StoryOK
  <2> QED
    BY <2>1, <2>10, ElsewhereKeeps
<1>5. CASE CallFails
  <2>1. /\ UNCHANGED <<act, hold, out, routed, seenTerm, parentTerminal>>
        /\ pump' = "failed" /\ senders' = senders \ {Root} /\ chan' = <<>>
    BY <1>5 DEF CallFails, coreVars
  <2>2. StoryOK'
    BY <1>1, <2>1 DEF StoryOK, HeldFits, EndsTold, StartsTold, HoldsEnd, HoldsStart, Written
  <2>3. senders' = {} /\ Lines(chan') = {}
    BY <2>1 DEF TypeOK, RouterTypeOK, Lines
  <2> QED
    BY <1>1, <2>1, <2>2, <2>3 DEF KeepInv, TableOK, ClosedOK, RouterKeepsEvents
<1>6. ASSUME NEW r \in RunIds, RunStep(r) \/ RunChoice(r)
      PROVE  KeepInv'
  <2>1. /\ CoreStep(r) \/ CoreChoice(r)
        /\ UNCHANGED <<pump, senders, childToParent, parentTerminal, chan, routed,
                       dropped, bound, seenTerm>>
    BY <1>6 DEF RunStep, RunChoice, routerVars, pumpVars
  <2>2. pump # "idle"
    BY <1>1, <2>1, IdleIsStill
  <2>3. alive
    BY <2>1 DEF CoreStep, CoreChoice, Write, SendMessage, EndRun, MarkRunning, MarkEnded, SendClosing,
                ReturnFromSubagent, TimeoutInSubagent, Spawn, WorkerFails, CancelSubagents, Unblocked
  <2>4. StoryOK'
    BY <1>1, <2>1, StepStory, ChoiceStory
  <2> QED
    BY <2>1, <2>2, <2>3, <2>4, ElsewhereKeeps
<1>7. CASE ReadAnswer
  <2> DEFINE e == Head(out)
  <2>1. /\ out # <<>> /\ out' = Tail(out) /\ e.type = "response" /\ out \in Seq(Events)
        /\ UNCHANGED <<act, hold, senders, childToParent, parentTerminal, chan, routed,
                       dropped, bound, seenTerm>>
        /\ pump' = pump \/ (pump = "calling" /\ pump' = "on")
        /\ pump # "idle"
    BY <1>1, <1>7 DEF ReadAnswer, routerVars, IdleOK, CoreTypeOK
  <2>2. LinesFit(routed \cup {e}, Tail(out)) /\ Lines(out) = {e} \cup Lines(Tail(out))
    BY <1>1, <2>1, LinesTail
  <2>3. ~ IsTerminal(e) /\ ~ Opening(e) /\ ~ Closing(e)
    BY <2>1, Kinds
  <2> HIDE DEF e
  <2>4. LinesFit(routed', out') /\ Written = Written' \cup {e}
    BY <2>1, <2>2, LinesAnswer DEF Written
  <2>5. /\ \A r : Ends(Written', r) <=> Ends(Written, r)
        /\ \A k : Starts(Written', k) <=> Starts(Written, k)
    BY <2>3, <2>4, EndsMore
  <2>6. \A x : Fits(x, Written') <=> Fits(x, Written)
    BY <2>5, FitsSame
  <2>7. HeldFits'
    BY <1>1, <2>1, <2>6 DEF HeldFits
  <2>8. EndsTold' /\ StartsTold'
    BY <1>1, <2>1, <2>5 DEF EndsTold, StartsTold, HoldsEnd, HoldsStart
  <2>9. StoryOK'
    BY <1>1, <2>1, <2>4, <2>7, <2>8 DEF StoryOK
  <2> QED
    BY <2>1, <2>9, ElsewhereKeeps
<1>8. CASE Route /\ UNCHANGED pumpVars
  BY <1>1, <1>8, RouteKeeps
<1>9. CASE CloseTransport /\ UNCHANGED pumpVars
  <2>1. /\ UNCHANGED <<alive, act, hold, out, routed, seenTerm, chan, dropped, pump, bound>>
        /\ senders' = {} /\ parentTerminal' = {} /\ ~ alive /\ out = <<>>
    BY <1>9 DEF CloseTransport, pumpVars, coreVars
  <2>2. StoryOK'
    BY <1>1, <2>1 DEF StoryOK, HeldFits, EndsTold, StartsTold, HoldsEnd, HoldsStart, Written
  <2>3. TableOK'
    BY <1>1, <2>1 DEF TableOK, Coming
  <2>4. ClosedOK' /\ RouterKeepsEvents'
    BY <1>1, <2>1 DEF ClosedOK, RouterKeepsEvents, WasRouted
  <2> QED
    BY <2>2, <2>3, <2>4 DEF KeepInv
<1>10. CASE Pump
  BY <1>10, PumpKeeps
<1>11. CASE PumpClosed
  <2>1. /\ UNCHANGED <<alive, act, hold, out, routed, seenTerm, chan, dropped, senders,
                       childToParent, parentTerminal, bound>>
        /\ pump = "on" /\ pump' = "done" /\ Root \notin senders
    BY <1>11 DEF PumpClosed, coreVars, routerVars
  <2>2. senders = {}
    BY <2>1 DEF TypeOK, RouterTypeOK
  <2>3. StoryOK'
    BY <1>1, <2>1 DEF StoryOK, HeldFits, EndsTold, StartsTold, HoldsEnd, HoldsStart, Written
  <2>4. TableOK' /\ RouterKeepsEvents'
    BY <1>1, <2>1 DEF TableOK, RouterKeepsEvents, WasRouted
  <2>5. ClosedOK'
    BY <1>1, <2>1, <2>2 DEF ClosedOK, Finished
  <2> QED
    BY <2>3, <2>4, <2>5 DEF KeepInv
<1>12. CASE CoreCrash \/ UNCHANGED vars
  <2>1. /\ UNCHANGED <<act, hold, out, routed, seenTerm, chan, dropped, senders,
                       childToParent, parentTerminal, bound, pump>>
        /\ alive \/ alive' = alive
    BY <1>12 DEF CoreCrash, Crash, vars, coreVars, routerVars, pumpVars
  <2>2. StoryOK'
    BY <1>1, <2>1 DEF StoryOK, HeldFits, EndsTold, StartsTold, HoldsEnd, HoldsStart, Written
  <2>3. TableOK' /\ ClosedOK' /\ RouterKeepsEvents'
    BY <1>1, <2>1 DEF TableOK, Coming, ClosedOK, Finished, RouterKeepsEvents, WasRouted
  <2> QED
    BY <2>2, <2>3 DEF KeepInv
<1> QED
  BY <1>2, <1>3, <1>4, <1>5, <1>6, <1>7, <1>8, <1>9, <1>10, <1>11, <1>12
     DEF Next, ReaderStep, PumpStep, Quiet

\* Nothing has been written at first.
LEMMA KeepInit ==
    Init => KeepInv
<1> SUFFICES ASSUME Init PROVE KeepInv
  OBVIOUS
<1>1. /\ act = [r \in RunIds |-> "none"] /\ hold = [r \in RunIds |-> None] /\ out = <<>>
      /\ routed = {} /\ dropped = {} /\ senders = {} /\ parentTerminal = {} /\ chan = <<>>
      /\ pump = "idle" /\ seenTerm = FALSE
  BY DEF Init, CoreInit, RouterInit
<1>2. Written = {} /\ (\A r : ~ Ends({}, r)) /\ (\A k : ~ Starts({}, k)) /\ Lines(<<>>) = {}
  BY <1>1 DEF Written, Ends, Starts, Lines
<1>3. \A k \in Kids : Parent[k] \in RunIds /\ k \in RunIds
  BY TreeAssumption DEF RunIds
<1>4. StoryOK
  BY <1>1, <1>2, <1>3 DEF StoryOK, HeldFits, LinesFit, EndsTold, StartsTold, HoldsEnd, HoldsStart
<1>5. TableOK /\ ClosedOK /\ RouterKeepsEvents
  BY <1>1, <1>2 DEF TableOK, ClosedOK, RouterKeepsEvents
<1> QED
  BY <1>4, <1>5 DEF KeepInv

\* For any tree of sub-agents, whichever of a reply's runs ends first: unless
\* the call failed, no event of the root run or of its own sub-agents is
\* dropped, but for one that closes the session of a sub-agent whose terminal
\* event has been routed.
THEOREM NoEventLost == Spec => []RouterKeepsEvents
<1>1. KeepInv => RouterKeepsEvents
  BY DEF KeepInv
<1> QED
  BY <1>1, TypeInit, TypeStep, FlowInit, FlowStep, KeepInit, KeepStep, PTL DEF Spec

-----------------------------------------------------------------------------
(* What the pump saves                                                     *)

Kept == {"finished", "closing"}

SessionOf(e, k) == e.type = "sub_agent_session" /\ e.kid = k
FinishOf(e, k) == e.type = "finish" /\ e.run = k

\* A finish event of k is in s; the opening of its session is ahead of it.
FinishIn(s, k) == \E i \in DOMAIN s : FinishOf(s[i], k)
AnnouncedFinish(s, k) == \E i \in DOMAIN s : FinishOf(s[i], k) /\ Announced(s, k, i - 1)

\* A finish event of k is still to be pumped, with k bound by then.
FinishComing(k) ==
    \/ k \in bound /\ FinishIn(chan, k)
    \/ ~ seenTerm /\ AnnouncedFinish(chan, k)

\* The session of k is opened once, ahead of all else; what is kept of it
\* stays; and a finish event is saved, now or in time.
SavedFor(k) ==
    /\ k \in bound \/ session[k] # "absent" => Starts(routed, k)
    /\ pump \in {"calling", "on"} =>
         /\ \A i \in DOMAIN chan : Opening(chan[i]) /\ chan[i].kid = k =>
               /\ k \notin bound /\ session[k] \notin Kept
               /\ \A j \in 1..(i - 1) : ~ SessionOf(chan[j], k)
         /\ session[k] \in Kept => k \notin bound
         /\ saveFails = 0 /\ (\E e \in routed : FinishOf(e, k)) =>
               session[k] \in Kept \/ FinishComing(k)
    /\ pump = "done" /\ saveFails = 0 /\ (\E e \in routed : FinishOf(e, k)) =>
         session[k] \in Kept

\* A sub-agent that has said something has been announced.
SpokenStarts == \A e \in routed : e.run \in Kids /\ ~ Closing(e) => Starts(routed, e.run)

SavedInv == SpokenStarts /\ \A k \in DirectKids : SavedFor(k)

LEMMA FinishInAppend ==
    ASSUME NEW s \in Seq(Events), NEW e \in Events, NEW k
    PROVE  /\ FinishIn(s, k) \/ FinishOf(e, k) => FinishIn(Append(s, e), k)
           /\ AnnouncedFinish(s, k) \/ (FinishOf(e, k) /\ Announced(s, k, Len(s))) =>
                 AnnouncedFinish(Append(s, e), k)
<1> DEFINE a == Append(s, e)
<1>1. /\ Len(s) \in Nat /\ DOMAIN s = 1..Len(s) /\ DOMAIN a = 1..(Len(s) + 1)
      /\ a[Len(s) + 1] = e
      /\ \A i \in 1..Len(s) : a[i] = s[i]
      /\ (Len(s) + 1) - 1 = Len(s)
      /\ Len(s) + 1 \in 1..(Len(s) + 1)
      /\ \A n : Announced(s, k, n) => Announced(a, k, n)
  BY AnnouncedAppend
<1> HIDE DEF a
<1>2. FinishIn(s, k) \/ FinishOf(e, k) => FinishIn(a, k)
  BY <1>1 DEF FinishIn
<1>3. AnnouncedFinish(s, k) => AnnouncedFinish(a, k)
  BY <1>1 DEF AnnouncedFinish
<1>4. FinishOf(e, k) /\ Announced(s, k, Len(s)) => AnnouncedFinish(a, k)
  BY <1>1 DEF AnnouncedFinish
<1> QED
  BY <1>2, <1>3, <1>4 DEF a

\* The first event is taken: the finish event, the opening, or another.
LEMMA FinishInTail ==
    ASSUME NEW s \in Seq(Events), s # <<>>, NEW k
    PROVE  /\ FinishIn(s, k) => FinishOf(Head(s), k) \/ FinishIn(Tail(s), k)
           /\ AnnouncedFinish(s, k) =>
                 /\ FinishIn(Tail(s), k) /\ ~ EndsReply(Head(s))
                 /\ (Opening(Head(s)) /\ Head(s).kid = k) \/ AnnouncedFinish(Tail(s), k)
<1> DEFINE t == Tail(s)
           h == Head(s)
<1>1. /\ h = s[1] /\ Len(s) \in Nat \ {0} /\ DOMAIN t = 1..(Len(s) - 1)
      /\ \A i \in DOMAIN t : t[i] = s[i + 1]
      /\ DOMAIN s = 1..Len(s)
  OBVIOUS
<1>2. \A i \in DOMAIN s : i - 1 \in Nat /\ (i = 1 \/ (i - 1 \in DOMAIN t /\ t[i - 1] = s[i]))
  BY <1>1
<1>3. ASSUME NEW n \in Nat, Announced(s, k, n)
      PROVE  /\ n # 0 /\ ~ EndsReply(h)
             /\ (Opening(h) /\ h.kid = k) \/ Announced(t, k, n - 1)
  BY <1>3, AnnouncedTail
<1> HIDE DEF t, h
<1>4. FinishIn(s, k) => FinishOf(h, k) \/ FinishIn(t, k)
  BY <1>1, <1>2 DEF FinishIn
<1>5. ASSUME AnnouncedFinish(s, k)
      PROVE  /\ FinishIn(t, k) /\ ~ EndsReply(h)
             /\ (Opening(h) /\ h.kid = k) \/ AnnouncedFinish(t, k)
  <2>1. PICK i \in DOMAIN s : FinishOf(s[i], k) /\ Announced(s, k, i - 1)
    BY <1>5 DEF AnnouncedFinish
  <2>2. /\ i - 1 # 0 /\ ~ EndsReply(h)
        /\ (Opening(h) /\ h.kid = k) \/ Announced(t, k, (i - 1) - 1)
    BY <1>2, <1>3, <2>1
  <2>3. i - 1 \in DOMAIN t /\ FinishOf(t[i - 1], k)
    BY <1>1, <1>2, <2>1, <2>2
  <2> QED
    BY <2>2, <2>3 DEF FinishIn, AnnouncedFinish
<1> QED
  BY <1>4, <1>5 DEF t, h

\* What there is of a direct sub-agent's session.
LEMMA SessionParts ==
    ASSUME NEW e \in Events, NEW k \in DirectKids
    PROVE  /\ k \in Kids /\ k # Root
           /\ SessionOf(e, k) => e.run = Root /\ (Opening(e) \/ Closing(e))
           /\ (Opening(e) \/ Closing(e)) /\ e.kid = k => SessionOf(e, k)
           /\ FinishOf(e, k) => IsTerminal(e) /\ e.run = k
BY EventFields, TreeAssumption
   DEF DirectKids, SessionOf, FinishOf, Opening, Closing, IsTerminal

\* A line is routed.
LEMMA RouteSaves ==
    ASSUME TypeOK, IdleOK, ListenOK, KeepInv, SavedInv, Route, UNCHANGED pumpVars
    PROVE  SavedInv'
<1>1. PICK e \in Events :
         /\ e = Head(out)
         /\ out # <<>> /\ e.type # "response"
         /\ routed' = routed \cup {e}
         /\ chan' = chan \/ (chan' = Append(chan, e) /\ senders # {})
         /\ senders # {} /\ e.run \in {Root} \cup DirectKids =>
               (listening => chan' = Append(chan, e))
  BY RouteEffect
<1>2. /\ StoryOK /\ TableOK /\ ClosedOK
      /\ LinesFit(routed, out)
      /\ SpokenStarts /\ \A k \in DirectKids : SavedFor(k)
      /\ \A x \in routed : Closing(x) => Ends(routed, x.kid)
  BY DEF KeepInv, StoryOK, SavedInv
<1>3. UNCHANGED <<pump, bound, seenTerm, session, saveFails>>
  BY DEF pumpVars
<1>4. out \in Seq(Events) /\ chan \in Seq(Events)
  BY DEF TypeOK, CoreTypeOK, RouterTypeOK
<1>5. Fits(e, routed)
  BY <1>1, <1>2, <1>4, LinesTail
<1>6. /\ \A r : Ends(routed', r) <=> Ends(routed, r) \/ (e.run = r /\ IsTerminal(e))
      /\ \A k : Starts(routed', k) <=> Starts(routed, k) \/ (Opening(e) /\ e.kid = k)
  BY <1>1, EndsMore
<1>7. SpokenStarts'
  BY <1>1, <1>2, <1>5, <1>6 DEF SpokenStarts, Fits
<1>8. pump \in {"on", "calling", "done"} /\ (senders = {} \/ pump = "done") => Finished
  BY <1>1, <1>2 DEF ClosedOK
<1>9. Lines(chan) \subseteq routed
  BY <1>2 DEF TableOK
<1>10. ASSUME NEW k \in DirectKids PROVE SavedFor(k)'
  <2>1. /\ k \in Kids /\ k # Root
        /\ \A x \in Events : /\ SessionOf(x, k) => x.run = Root /\ (Opening(x) \/ Closing(x))
                             /\ FinishOf(x, k) => IsTerminal(x) /\ x.run = k
    BY SessionParts
  <2>2. SavedFor(k)
    BY <1>2
  <2>3. k \in bound' \/ session'[k] # "absent" => Starts(routed', k)
    BY <1>3, <1>6, <2>2 DEF SavedFor
  \* What has been said of k before its session was opened: nothing.
  <2>4. Opening(e) /\ e.kid = k => /\ k \notin bound /\ session[k] \notin Kept
                                   /\ \A x \in Lines(chan) : ~ SessionOf(x, k)
    <3> SUFFICES ASSUME Opening(e), e.kid = k
                 PROVE  /\ k \notin bound /\ session[k] \notin Kept
                        /\ \A x \in Lines(chan) : ~ SessionOf(x, k)
      OBVIOUS
    <3>1. ~ Starts(routed, k)
      BY <1>5 DEF Fits
    <3>2. \A x \in routed : x.run = k => ~ IsTerminal(x)
      BY <1>2, <2>1, <3>1, Kinds DEF SpokenStarts
    <3>3. \A x \in routed : x.kid = k => ~ Opening(x) /\ ~ Closing(x)
      BY <1>2, <3>1, <3>2 DEF Starts, Ends
    <3>4. \A x \in Lines(chan) : x \in Events /\ x \in routed
      BY <1>4, <1>9 DEF Lines
    <3> QED
      BY <2>1, <2>2, <3>1, <3>3, <3>4 DEF SavedFor, Kept, SessionOf
  <2>5. pump' \in {"calling", "on"} =>
           \A i \in DOMAIN chan' : Opening(chan'[i]) /\ chan'[i].kid = k =>
               /\ k \notin bound' /\ session'[k] \notin Kept
               /\ \A j \in 1..(i - 1) : ~ SessionOf(chan'[j], k)
    <3> SUFFICES ASSUME pump \in {"calling", "on"}, NEW i \in DOMAIN chan',
                        Opening(chan'[i]), chan'[i].kid = k
                 PROVE  /\ k \notin bound /\ session[k] \notin Kept
                        /\ \A j \in 1..(i - 1) : ~ SessionOf(chan'[j], k)
      BY <1>3
    <3>1. CASE i \in DOMAIN chan
      <4>1. /\ Len(chan) \in Nat /\ DOMAIN chan = 1..Len(chan)
            /\ \A j \in 1..Len(chan) : Append(chan, e)[j] = chan[j]
        BY <1>4
      <4>2. i \in 1..Len(chan) /\ \A j \in 1..(i - 1) : j \in 1..Len(chan)
        BY <3>1, <4>1
      <4>3. CASE chan' = chan
        BY <2>2, <3>1, <4>3 DEF SavedFor
      <4>4. CASE chan' = Append(chan, e)
        <5>1. chan'[i] = chan[i] /\ \A j \in 1..(i - 1) : chan'[j] = chan[j]
          BY <4>1, <4>2, <4>4
        <5> QED
          BY <2>2, <3>1, <5>1 DEF SavedFor
      <4> QED
        BY <1>1, <4>3, <4>4
    <3>2. CASE i \notin DOMAIN chan
      <4>a. chan' = Append(chan, e)
        BY <1>1, <3>2
      <4>b. /\ DOMAIN Append(chan, e) = 1..(Len(chan) + 1) /\ DOMAIN chan = 1..Len(chan)
            /\ Len(chan) \in Nat /\ Append(chan, e)[Len(chan) + 1] = e
            /\ \A j \in 1..Len(chan) : Append(chan, e)[j] = chan[j]
        BY <1>4
      <4>c. i \in DOMAIN Append(chan, e)
        BY <4>a
      <4>d. i = Len(chan) + 1
        BY <3>2, <4>b, <4>c
      <4>1. chan' = Append(chan, e) /\ chan'[i] = e /\ \A j \in 1..(i - 1) : chan'[j] \in Lines(chan)
        BY <4>a, <4>b, <4>d DEF Lines
      <4> QED
        BY <2>4, <4>1
    <3> QED
      BY <3>1, <3>2
  <2>6. pump' \in {"calling", "on"} /\ session'[k] \in Kept => k \notin bound'
    BY <1>3, <2>2 DEF SavedFor
  <2>7. ASSUME pump \in {"calling", "on"}, saveFails = 0, NEW x \in routed', FinishOf(x, k)
        PROVE  \/ session[k] \in Kept
               \/ k \in bound /\ FinishIn(chan', k)
               \/ ~ seenTerm /\ AnnouncedFinish(chan', k)
    <3>1. CASE x \in routed
      <4>1. session[k] \in Kept \/ FinishComing(k)
        BY <2>2, <2>7, <3>1 DEF SavedFor
      <4>2. /\ FinishIn(chan, k) => FinishIn(Append(chan, e), k)
            /\ AnnouncedFinish(chan, k) => AnnouncedFinish(Append(chan, e), k)
        BY <1>4, FinishInAppend
      <4> QED
        BY <1>1, <4>1, <4>2 DEF FinishComing
    <3>2. CASE x \notin routed
      <4>1. x = e /\ IsTerminal(e) /\ e.run = k
        BY <1>1, <2>1, <2>7, <3>2
      <4>2. ~ Ends(routed, k) /\ Starts(routed, k)
        BY <1>1, <1>5, <2>1, <4>1, Kinds DEF Fits
      <4>3. k \in bound \/ (~ seenTerm /\ Announced(chan, k, Len(chan)))
        BY <1>2, <2>7, <4>2 DEF TableOK, Coming
      <4>4. senders # {} /\ listening
        BY <1>8, <2>7, <4>2 DEF Finished, ListenOK
      <4>5. chan' = Append(chan, e)
        BY <1>1, <4>1, <4>4
      <4> QED
        BY <1>4, <2>7, <4>1, <4>3, <4>5, FinishInAppend
    <3> QED
      BY <3>1, <3>2
  <2>8. ASSUME pump = "done", saveFails = 0, NEW x \in routed', FinishOf(x, k)
        PROVE  session[k] \in Kept
    <3>1. CASE x \in routed
      BY <2>2, <2>8, <3>1 DEF SavedFor
    <3>2. CASE x \notin routed
      <4>1. x = e /\ IsTerminal(e) /\ e.run = k
        BY <1>1, <2>1, <2>8, <3>2
      <4>2. ~ Ends(routed, k) /\ Starts(routed, k)
        BY <1>1, <1>5, <2>1, <4>1, Kinds DEF Fits
      <4> QED
        BY <1>8, <2>8, <4>2 DEF Finished
    <3> QED
      BY <3>1, <3>2
  <2> QED
    BY <1>3, <2>3, <2>5, <2>6, <2>7, <2>8 DEF SavedFor, FinishComing
<1> QED
  BY <1>7, <1>10 DEF SavedInv

\* What one turn of the pump does to the session and the binding of k.
LEMMA PumpSession ==
    ASSUME TypeOK, NEW k \in DirectKids, NEW e \in Events, NEW saved \in BOOLEAN,
           bound' = BoundAfter(e, saved),
           session' = IF Saves(e) /\ saved THEN SessionAfter(e) ELSE session
    PROVE  /\ SessionOf(e, k) /\ Opening(e) =>
                k \in bound' /\ session'[k] \in {"task", session[k]}
           /\ SessionOf(e, k) /\ Closing(e) =>
                k \notin bound' /\ (saved => session'[k] \in Kept)
           /\ FinishOf(e, k) /\ k \in bound =>
                IF saved THEN k \notin bound' /\ session'[k] \in Kept
                         ELSE k \in bound' /\ session'[k] = session[k]
           /\ ~ SessionOf(e, k) /\ ~ (FinishOf(e, k) /\ k \in bound) =>
                /\ k \in bound' <=> k \in bound
                /\ session'[k] = session[k] \/ (k \in bound /\ session'[k] \notin Kept)
           /\ session'[k] # session[k] => SessionOf(e, k) \/ (e.run = k /\ k \in bound)
<1>1. /\ k \in Kids /\ k # Root
      /\ SessionOf(e, k) => e.run = Root /\ (Opening(e) \/ Closing(e))
  BY SessionParts
<1>2. session \in [Kids -> {"absent", "task", "streamed", "finished", "closing"}]
  BY DEF TypeOK, PumpTypeOK
<1>3. CASE SessionOf(e, k)
  <2>1. e.type = "sub_agent_session" /\ e.run = Root /\ e.kid = k
    BY <1>1, <1>3 DEF SessionOf
  <2>2. Saves(e)
    BY <2>1 DEF Saves
  <2>3. k \in bound' <=> e.status = "running"
    BY <2>1 DEF BoundAfter
  <2>4. session'[k] = IF saved THEN (IF e.status = "running" THEN "task" ELSE "closing") ELSE session[k]
    BY <1>1, <1>2, <2>1, <2>2 DEF SessionAfter
  <2> QED
    BY <1>3, <2>1, <2>3, <2>4 DEF Opening, Closing, FinishOf, Kept
<1>4. CASE ~ SessionOf(e, k) /\ FinishOf(e, k) /\ k \in bound
  <2>1. e.type = "finish" /\ e.run = k
    BY <1>4 DEF FinishOf
  <2>2. Saves(e)
    BY <1>4, <2>1 DEF Saves
  <2>3. bound' = IF saved THEN bound \ {k} ELSE bound
    BY <2>1 DEF BoundAfter
  <2>4. session'[k] = IF saved THEN "finished" ELSE session[k]
    BY <1>1, <1>2, <2>1, <2>2 DEF SessionAfter
  <2> QED
    BY <1>4, <2>1, <2>3, <2>4 DEF Kept
<1>5. CASE ~ SessionOf(e, k) /\ ~ (FinishOf(e, k) /\ k \in bound)
  <2>1. k \in bound' <=> k \in bound
    BY <1>5 DEF BoundAfter, SessionOf, FinishOf
  <2>2. session'[k] = session[k] \/ (e.run = k /\ k \in bound /\ session'[k] = "streamed")
    <3>1. CASE e.type = "sub_agent_session"
      <4>1. e.kid # k
        BY <1>5, <3>1 DEF SessionOf
      <4> QED
        BY <1>1, <1>2, <3>1, <4>1 DEF SessionAfter
    <3>2. CASE e.type = "message"
      BY <1>1, <1>2, <3>2 DEF SessionAfter, Saves
    <3>3. CASE e.type = "finish"
      BY <1>1, <1>2, <1>5, <3>3 DEF SessionAfter, Saves, FinishOf
    <3>4. CASE e.type \notin {"sub_agent_session", "message", "finish"}
      BY <3>4 DEF Saves
    <3> QED
      BY <3>1, <3>2, <3>3, <3>4
  <2> QED
    BY <1>5, <2>1, <2>2 DEF Kept
<1> QED
  BY <1>3, <1>4, <1>5

\* The pump takes an event.
LEMMA PumpSaves ==
    ASSUME TypeOK, KeepInv, SavedInv, Pump
    PROVE  SavedInv'
<1>1. PICK e \in Events, saved \in BOOLEAN :
         /\ e = Head(chan) /\ pump = "on" /\ chan # <<>>
         /\ bound' = BoundAfter(e, saved)
         /\ session' = IF Saves(e) /\ saved THEN SessionAfter(e) ELSE session
         /\ saveFails' = IF saved THEN saveFails ELSE saveFails + 1
         /\ seenTerm' = (seenTerm \/ EndsReply(e))
         /\ \/ pump' = "on" /\ chan' = Tail(chan)
            \/ pump' = "done" /\ chan' = <<>> /\ seenTerm' /\ bound' = {}
         /\ routed' = routed
  BY PumpEffect
<1>2. /\ StoryOK /\ TableOK
      /\ SpokenStarts /\ \A k \in DirectKids : SavedFor(k)
      /\ \A x \in routed : Closing(x) => Ends(routed, x.kid)
  BY DEF KeepInv, StoryOK, SavedInv
<1>3. /\ chan \in Seq(Events) /\ Len(chan) \in Nat \ {0} /\ chan[1] = e
      /\ DOMAIN Tail(chan) = 1..(Len(chan) - 1) /\ DOMAIN chan = 1..Len(chan)
      /\ \A i \in DOMAIN Tail(chan) : Tail(chan)[i] = chan[i + 1]
  BY <1>1 DEF TypeOK, RouterTypeOK
<1>4. e \in routed
  BY <1>2, <1>3 DEF TableOK, Lines
<1>5. saveFails \in Nat
  BY SaveAssumption DEF TypeOK, PumpTypeOK
<1>6. SpokenStarts'
  BY <1>1, <1>2 DEF SpokenStarts
<1>7. ASSUME NEW k \in DirectKids PROVE SavedFor(k)'
  <2>1. /\ k \in Kids /\ k # Root
        /\ SessionOf(e, k) => e.run = Root /\ (Opening(e) \/ Closing(e))
        /\ (Opening(e) \/ Closing(e)) /\ e.kid = k => SessionOf(e, k)
    BY SessionParts
  <2>2. SavedFor(k)
    BY <1>2
  <2>3. /\ SessionOf(e, k) /\ Opening(e) =>
              k \in bound' /\ session'[k] \in {"task", session[k]}
        /\ SessionOf(e, k) /\ Closing(e) =>
              k \notin bound' /\ (saved => session'[k] \in Kept)
        /\ FinishOf(e, k) /\ k \in bound =>
              IF saved THEN k \notin bound' /\ session'[k] \in Kept
                       ELSE k \in bound' /\ session'[k] = session[k]
        /\ ~ SessionOf(e, k) /\ ~ (FinishOf(e, k) /\ k \in bound) =>
              /\ k \in bound' <=> k \in bound
              /\ session'[k] = session[k] \/ (k \in bound /\ session'[k] \notin Kept)
        /\ session'[k] # session[k] => SessionOf(e, k) \/ (e.run = k /\ k \in bound)
    BY <1>1, PumpSession
  <2>4. session[k] \in Kept => k \notin bound
    BY <1>1, <2>2 DEF SavedFor
  <2>5. Opening(e) /\ e.kid = k => session[k] \notin Kept
    BY <1>1, <1>3, <2>2 DEF SavedFor
  \* A session event of k follows the one that opens it.
  <2>6. SessionOf(e, k) => Starts(routed, k)
    <3>1. CASE Opening(e)
      BY <1>4, <3>1 DEF Starts, SessionOf
    <3>2. CASE Closing(e) /\ SessionOf(e, k)
      <4>1. PICK x \in routed : x.run = k /\ IsTerminal(x)
        BY <1>2, <1>4, <3>2 DEF Ends, SessionOf
      <4> QED
        BY <1>2, <2>1, <4>1, Kinds DEF SpokenStarts
    <3> QED
      BY <2>1, <3>1, <3>2
  <2>7. k \in bound' \/ session'[k] # "absent" => Starts(routed', k)
    BY <1>1, <2>2, <2>3, <2>6 DEF SavedFor
  <2>8. ASSUME NEW i \in DOMAIN Tail(chan), Opening(Tail(chan)[i]), Tail(chan)[i].kid = k
        PROVE  /\ k \notin bound' /\ session'[k] \notin Kept
               /\ \A j \in 1..(i - 1) : ~ SessionOf(Tail(chan)[j], k)
    <3>1. i + 1 \in DOMAIN chan /\ Opening(chan[i + 1]) /\ chan[i + 1].kid = k /\ i \in Nat /\ i >= 1
      BY <1>3, <2>8
    <3>2. /\ k \notin bound /\ session[k] \notin Kept
          /\ \A j \in 1..((i + 1) - 1) : ~ SessionOf(chan[j], k)
      BY <1>1, <2>2, <3>1 DEF SavedFor
    <3>3. ~ SessionOf(e, k)
      BY <1>3, <3>1, <3>2
    <3>4. \A j \in 1..(i - 1) : Tail(chan)[j] = chan[j + 1] /\ j + 1 \in 1..((i + 1) - 1)
      BY <1>3, <3>1
    <3> QED
      BY <2>3, <3>2, <3>3, <3>4
  <2>9. session'[k] \in Kept => k \notin bound'
    <3>1. session[k] \in Kept /\ SessionOf(e, k) => ~ Opening(e)
      BY <2>5 DEF SessionOf
    <3>2. "task" \notin Kept
      BY DEF Kept
    <3>3. CASE SessionOf(e, k)
      BY <2>1, <2>3, <3>1, <3>2, <3>3
    <3>4. CASE ~ SessionOf(e, k) /\ FinishOf(e, k) /\ k \in bound
      BY <2>3, <2>4, <3>4
    <3>5. CASE ~ SessionOf(e, k) /\ ~ (FinishOf(e, k) /\ k \in bound)
      BY <2>3, <2>4, <3>5
    <3> QED
      BY <3>3, <3>4, <3>5
  <2>10. ASSUME saveFails' = 0, \E x \in routed' : FinishOf(x, k)
         PROVE  \/ session'[k] \in Kept
                \/ k \in bound' /\ FinishIn(Tail(chan), k)
                \/ ~ seenTerm' /\ AnnouncedFinish(Tail(chan), k)
    <3>1. saved /\ saveFails = 0
      BY <1>1, <1>5, <2>10
    <3>2. session[k] \in Kept \/ FinishComing(k)
      BY <1>1, <2>2, <2>10, <3>1 DEF SavedFor
    <3>3. CASE session[k] \in Kept
      <4>1. session'[k] = session[k] \/ SessionOf(e, k)
        BY <2>3, <2>4, <3>3
      <4>2. ~ (Opening(e) /\ SessionOf(e, k))
        BY <2>5, <3>3 DEF SessionOf
      <4> QED
        BY <2>1, <2>3, <3>1, <3>3, <4>1, <4>2
    <3>4. CASE FinishComing(k)
      <4>1. /\ FinishIn(chan, k) => FinishOf(e, k) \/ FinishIn(Tail(chan), k)
            /\ AnnouncedFinish(chan, k) =>
                  /\ FinishIn(Tail(chan), k) /\ ~ EndsReply(e)
                  /\ (Opening(e) /\ e.kid = k) \/ AnnouncedFinish(Tail(chan), k)
        BY <1>1, <1>3, FinishInTail
      <4>2. k \in bound => k \in bound' \/ session'[k] \in Kept
        BY <2>1, <2>3, <3>1
      <4>3. Opening(e) /\ e.kid = k => k \in bound'
        BY <2>1, <2>3
      <4>4. FinishOf(e, k) /\ k \in bound => session'[k] \in Kept
        BY <2>3, <3>1
      <4> QED
        BY <1>1, <3>4, <4>1, <4>2, <4>3, <4>4 DEF FinishComing
    <3> QED
      BY <3>2, <3>3, <3>4
  <2>11. CASE pump' = "on" /\ chan' = Tail(chan)
    <3>3. \A i \in DOMAIN chan' : Opening(chan'[i]) /\ chan'[i].kid = k =>
             /\ k \notin bound' /\ session'[k] \notin Kept
             /\ \A j \in 1..(i - 1) : ~ SessionOf(chan'[j], k)
      BY <2>8, <2>11
    <3>4. saveFails' = 0 /\ (\E x \in routed' : FinishOf(x, k)) =>
             session'[k] \in Kept \/ FinishComing(k)'
      BY <2>10, <2>11 DEF FinishComing
    <3> QED
      BY <2>7, <2>9, <2>11, <3>3, <3>4 DEF SavedFor
  <2>12. CASE pump' = "done" /\ seenTerm' /\ bound' = {}
    <3>1. saveFails' = 0 /\ (\E x \in routed' : FinishOf(x, k)) => session'[k] \in Kept
      BY <2>10, <2>12
    <3> QED
      BY <2>7, <2>12, <3>1 DEF SavedFor
  <2> QED
    BY <1>1, <2>11, <2>12
<1> QED
  BY <1>6, <1>7 DEF SavedInv

\* The invariant is inductive.
LEMMA SavedStep ==
    TypeOK /\ FlowInv /\ KeepInv /\ SavedInv /\ [Next]_vars => SavedInv'
<1> SUFFICES ASSUME TypeOK, FlowInv, KeepInv, SavedInv, [Next]_vars PROVE SavedInv'
  OBVIOUS
<1>1. IdleOK /\ ListenOK /\ TableOK /\ SpokenStarts /\ \A k \in DirectKids : SavedFor(k)
  BY DEF FlowInv, KeepInv, SavedInv
<1>2. CASE Register
  <2>1. /\ UNCHANGED <<chan, routed, bound, seenTerm, session, saveFails>>
        /\ pump = "idle" /\ pump' = "calling"
    BY <1>2 DEF Register
  <2>2. routed = {} /\ chan = <<>>
    BY <1>1, <2>1 DEF TableOK, IdleOK
  <2>3. \A k : ~ Starts(routed, k)
    BY <2>2 DEF Starts
  <2>4. \A k \in DirectKids : k \notin bound /\ session[k] = "absent"
    BY <1>1, <2>3 DEF SavedFor
  <2>5. ASSUME NEW k \in DirectKids PROVE SavedFor(k)'
    BY <2>1, <2>2, <2>4 DEF SavedFor, Kept
  <2>6. SpokenStarts'
    BY <1>1, <2>1 DEF SpokenStarts
  <2> QED
    BY <2>5, <2>6 DEF SavedInv
<1>3. CASE Route /\ UNCHANGED pumpVars
  BY <1>1, <1>3, RouteSaves
<1>4. CASE Pump
  BY <1>4, PumpSaves
<1>5. CASE CallFails
  <2>1. UNCHANGED <<routed, bound, session>> /\ pump' = "failed"
    BY <1>5 DEF CallFails
  <2> QED
    BY <1>1, <2>1 DEF SavedInv, SpokenStarts, SavedFor
<1>6. CASE PumpClosed
  <2>1. /\ UNCHANGED <<routed, bound, session, saveFails>>
        /\ pump = "on" /\ pump' = "done" /\ chan = <<>>
    BY <1>6 DEF PumpClosed, routerVars
  <2>2. \A k : ~ FinishComing(k)
    BY <2>1 DEF FinishComing, FinishIn, AnnouncedFinish
  <2> QED
    BY <1>1, <2>1, <2>2 DEF SavedInv, SpokenStarts, SavedFor
<1>7. CASE /\ UNCHANGED <<chan, routed, bound, seenTerm, session, saveFails>>
           /\ pump' = pump \/ (pump = "calling" /\ pump' = "on")
  <2>1. \A k : FinishComing(k)' <=> FinishComing(k)
    BY <1>7 DEF FinishComing
  <2> QED
    BY <1>1, <1>7, <2>1 DEF SavedInv, SpokenStarts, SavedFor
<1>8. CASE Accept \/ WriteAnswer \/ ReadAnswer
  BY <1>7, <1>8 DEF Accept, WriteAnswer, ReadAnswer, routerVars, pumpVars
<1>9. CASE \E r \in RunIds : RunStep(r) \/ RunChoice(r)
  BY <1>7, <1>9 DEF RunStep, RunChoice, routerVars, pumpVars
<1>10. CASE CoreCrash \/ UNCHANGED vars \/ (CloseTransport /\ UNCHANGED pumpVars)
  BY <1>7, <1>10 DEF CoreCrash, CloseTransport, vars, coreVars, routerVars, pumpVars
<1> QED
  BY <1>2, <1>3, <1>4, <1>5, <1>6, <1>8, <1>9, <1>10
     DEF Next, ReaderStep, PumpStep, Quiet

\* Nothing has been saved at first.
LEMMA SavedInit ==
    Init => SavedInv
<1> SUFFICES ASSUME Init PROVE SavedInv
  OBVIOUS
<1>1. routed = {} /\ bound = {} /\ pump = "idle" /\ session = [k \in Kids |-> "absent"]
  BY DEF Init, RouterInit
<1>2. \A k \in DirectKids : k \in Kids
  BY DEF DirectKids
<1> QED
  BY <1>1, <1>2 DEF SavedInv, SpokenStarts, SavedFor

\* For any tree of sub-agents: when a reply is over and no save failed, the
\* session of each of its own sub-agents that completed holds its final
\* messages, whether the pump stopped by itself or its channel was closed.
THEOREM CompletedSaved == Spec => []CompletedChildSaved
<1>1. SavedInv => CompletedChildSaved
  <2> SUFFICES ASSUME SavedInv, pump = "done", saveFails = 0, NEW k \in DirectKids,
                      WasRouted(k, {"finish"})
               PROVE  session[k] \in {"finished", "closing"}
    BY DEF CompletedChildSaved
  <2>1. \E e \in routed : FinishOf(e, k)
    BY DEF WasRouted, FinishOf
  <2> QED
    BY <2>1 DEF SavedInv, SavedFor, Kept
<1> QED
  BY <1>1, TypeInit, TypeStep, FlowInit, FlowStep, KeepInit, KeepStep, SavedInit, SavedStep, PTL
     DEF Spec
=============================================================================

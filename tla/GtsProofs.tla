----------------------------- MODULE GtsProofs -----------------------------
(***************************************************************************)
(* What the GTS runtime promises to scripts and to their clients, for any  *)
(* number of requests, web threads, promises, handlers, timers and nested  *)
(* waits: the web server answers every request it takes exactly once,      *)
(* a script that ends before its deadline leaves no work behind, no        *)
(* handler of a promise is forgotten, and a call to a plugin or over a     *)
(* socket gets its own answer.                                             *)
(***************************************************************************)
EXTENDS GtsWeb, GtsAsync, Gtp, FiniteSetTheorems, SequenceTheorems, TLAPS

---------------------------------------------------------------------------
(* The web server                                                          *)

Places == {"idle", "poll", "poll_held", "test", "drain", "drain_full", "drain_held", "recv",
           "handle", "upgrade", "left", "exited"}
Completions == [r : ReqIds, op : ResOps \cup {"close"}]
Responses == [slot : BOOLEAN, stream : {"none", "open", "closed"}, timed : BOOLEAN, body : BOOLEAN,
              answers : {0, 1}, cut : BOOLEAN]

\* The requests whose promises thread t waits for or has yet to drain, and
\* those of them that nobody has settled.
RequestsIn(q) == {q[i].r : i \in DOMAIN q}
Out(t) == thread[t].waiting \cup RequestsIn(thread[t].ready) \cup RequestsIn(thread[t].batch)
Unsettled(t) == {r \in Out(t) : ~settled[r]}
Busy(t) == thread[t].pc \in {"handle", "upgrade"}

\* Requests of the listener, and those it has handed out.
Queued == {backlog[i].id : i \in DOMAIN backlog}
HandedOut == sent \ Queued
Finished(r) == resp[r].answers = 1 \/ resp[r].cut
HeldBy(t, r) == (Busy(t) /\ thread[t].cur = r) \/ r \in Out(t)

ThreadTypeOK(t) ==
    /\ DOMAIN thread[t] = {"pc", "cur", "chain", "batch", "ready", "waiting", "streams",
                           "counter", "served"}
    /\ thread[t].pc \in Places /\ thread[t].counter \in Nat
    /\ thread[t].batch \in Seq(Completions) /\ thread[t].ready \in Seq(Completions)
    /\ thread[t].waiting \subseteq ReqIds /\ thread[t].streams \subseteq ReqIds

WebTypeOK ==
    /\ phase \in {"script", "serving", "over"} /\ mode \in {"count", "single", "workers"}
    /\ backlog \in Seq([id : ReqIds, ask : Asked])
    /\ resp \in [ReqIds -> Responses] /\ settled \in [ReqIds -> BOOLEAN]
    /\ DOMAIN thread = Threads
    /\ \A t \in Threads : ThreadTypeOK(t)

\* Requests are numbered as they come, and the listener holds each once.
BacklogOK ==
    /\ \E n \in 0..MaxRequests : sent = 1..n
    /\ Queued \subseteq sent
    /\ \A i, j \in DOMAIN backlog : backlog[i].id = backlog[j].id => i = j

\* A request that was not handed out is untouched.  One that was has its slot,
\* a stream or its answer, and it has one of the first two only without the
\* third; it is answered, cut off or in the hands of a thread.
RespOK(p) ==
    /\ p.slot => p.answers = 0 /\ p.stream = "none"
    /\ p.stream = "open" => p.answers = 0
    /\ p.timed => p.stream = "open"
ResponsesOK ==
    /\ \A r \in ReqIds : RespOK(resp[r]) /\ (settled[r] => resp[r].answers = 1)
    /\ \A r \in ReqIds \ HandedOut : resp[r] = NewResponse
    /\ \A r \in HandedOut : resp[r].slot \/ resp[r].stream = "open" \/ resp[r].answers = 1
    /\ \A r \in HandedOut : Finished(r) \/ \E t \in Threads : HeldBy(t, r)

\* A thread holds requests that were handed out; its streams are settled or
\* still to be drained; the counter of the serial loop counts at least those
\* that nobody settled, and the loop of count: N is left with a counter of 0.
ThreadOK(t) ==
    /\ Busy(t) => thread[t].cur \in HandedOut
    /\ Out(t) \cup thread[t].streams \subseteq HandedOut
    /\ \A r \in thread[t].streams : settled[r] \/ r \in Out(t)
    /\ t = Main => thread[t].counter >= Cardinality(Unsettled(t))
    /\ thread[t].pc \in {"drain", "recv"} => ~Full(t)
    /\ thread[t].pc = "left" /\ Full(t) => thread[t].counter = 0
    /\ thread[t].pc \in {"idle", "exited"} => Out(t) = {}
    /\ thread[t].pc # "idle" => phase # "script" /\ (t = Main <=> mode # "workers")
    /\ phase = "over" => thread[t].pc \in {"idle", "exited"}

\* The inductive invariant.
WebInv == WebTypeOK /\ BacklogOK /\ ResponsesOK /\ \A t \in Threads : ThreadOK(t)

\* Something can still be sent to the client, or everything was.
Live(p) == p.slot \/ p.stream = "open" \/ p.answers = 1

LEMMA FinishOK ==
    ASSUME NEW p \in Responses, RespOK(p)
    PROVE  /\ Finish(p) \in Responses /\ RespOK(Finish(p))
           /\ p.stream = "open" => Finish(p).answers = 1
           /\ p.answers = 1 => Finish(p) = p
           /\ p.slot => Finish(p).slot
           /\ p.slot \/ Live(p) => Live(Finish(p))
<1>1. CASE p.stream # "open"
  BY <1>1 DEF Finish, RespOK, Live
<1>2. CASE p.stream = "open"
  <2>1. Finish(p) = [slot |-> p.slot, stream |-> "closed", timed |-> FALSE, body |-> p.body,
                     answers |-> p.answers + 1, cut |-> p.cut]
    BY <1>2 DEF Finish, Responses
  <2> QED
    BY <1>2, <2>1 DEF Responses, RespOK, Live
<1> QED
  BY <1>1, <1>2

LEMMA RespondOK ==
    ASSUME NEW p \in Responses, RespOK(p)
    PROVE  /\ Respond(p) \in Responses /\ RespOK(Respond(p))
           /\ p.slot => Respond(p).answers = 1
           /\ ~p.slot => Respond(p) = p
<1>1. CASE p.slot
  <2>1. Respond(p) = [slot |-> FALSE, stream |-> p.stream, timed |-> p.timed, body |-> p.body,
                      answers |-> p.answers + 1, cut |-> p.cut]
    BY <1>1 DEF Respond, Responses
  <2> QED
    BY <1>1, <2>1 DEF Responses, RespOK
<1>2. CASE ~p.slot
  BY <1>2 DEF Respond
<1> QED
  BY <1>1, <1>2

\* What a script does with a response leaves it in order, and an answer stays.
LEMMA UseOK ==
    ASSUME NEW p \in Responses, RespOK(p), NEW op \in ResOps
    PROVE  /\ Use(p, op) \in Responses /\ RespOK(Use(p, op))
           /\ Live(p) => Live(Use(p, op))
           /\ p.answers = 1 => Use(p, op).answers = 1
<1> DEFINE begun == IF p.slot THEN [p EXCEPT !.slot = FALSE, !.stream = "open"] ELSE p
           Fits(q) == /\ q \in Responses /\ RespOK(q) /\ (Live(p) => Live(q))
                      /\ (p.answers = 1 => q.answers = 1)
<1>1. /\ begun \in Responses /\ RespOK(begun) /\ (p.slot \/ p.stream = "open" => begun.stream = "open")
      /\ (p.answers = 1 => begun.answers = 1)
  <2>1. CASE p.slot
    <3>1. begun = [slot |-> FALSE, stream |-> "open", timed |-> p.timed, body |-> p.body,
                   answers |-> p.answers, cut |-> p.cut]
      BY <2>1 DEF Responses
    <3> QED
      BY <2>1, <3>1 DEF Responses, RespOK
  <2>2. CASE ~p.slot
    BY <2>2
  <2> QED
    BY <2>1, <2>2
<1>2. Use(p, op) = CASE op = "send"              -> [p EXCEPT !.body = TRUE]
                     [] op = "begin" /\ Can(p, op) -> begun
                     [] op = "timed" /\ Can(p, op) -> [begun EXCEPT !.timed = TRUE]
                     [] op = "whole" /\ Can(p, op) -> Finish(begun)
                     [] op = "flush"             -> Finish(p)
                     [] OTHER                    -> p
  BY DEF Use
<1> HIDE DEF begun
<1>3. Fits(p)
  OBVIOUS
<1>4. Fits([p EXCEPT !.body = TRUE])
  <2> DEFINE q == [p EXCEPT !.body = TRUE]
  <2>1. q \in Responses
    BY DEF Responses
  <2>2. q.slot = p.slot /\ q.stream = p.stream /\ q.timed = p.timed /\ q.answers = p.answers
    BY DEF Responses
  <2> QED
    BY <2>1, <2>2 DEF RespOK, Live
<1>5. CASE op = "send"
  BY <1>2, <1>4, <1>5
<1>6. CASE op \in {"begin", "timed", "whole"} /\ Can(p, op)
  <2>1. begun.stream = "open"
    BY <1>1, <1>6 DEF Can
  <2>2. Fits(begun)
    BY <1>1, <2>1 DEF Live
  <2>3. Fits([begun EXCEPT !.timed = TRUE])
    <3> DEFINE q == [begun EXCEPT !.timed = TRUE]
    <3>1. q \in Responses
      BY <1>1 DEF Responses
    <3>2. q.slot = begun.slot /\ q.stream = begun.stream /\ q.answers = begun.answers
      BY <1>1 DEF Responses
    <3> QED
      BY <1>1, <2>1, <3>1, <3>2 DEF RespOK, Live
  <2>4. Fits(Finish(begun))
    BY <1>1, <2>1, FinishOK DEF Live
  <2> QED
    BY <1>2, <1>6, <2>2, <2>3, <2>4
<1>7. CASE op = "flush"
  <2>1. Fits(Finish(p))
    BY FinishOK
  <2> QED
    BY <1>2, <1>7, <2>1
<1>8. CASE op \notin {"send", "flush"} /\ ~(op \in {"begin", "timed", "whole"} /\ Can(p, op))
  BY <1>2, <1>3, <1>8
<1> QED
  BY <1>5, <1>6, <1>7, <1>8

\* The chain of handlers is over.
LEMMA AnswerOK ==
    ASSUME NEW p \in Responses, RespOK(p), Live(p)
    PROVE  LET q == Drop(Respond(p))
           IN  /\ q \in Responses /\ RespOK(q) /\ Live(q) /\ (q.answers = 1 \/ q.cut)
               /\ p.answers = 1 => q.answers = 1
<1> DEFINE s == Respond(p)
           q == Drop(s)
<1>1. s \in Responses /\ RespOK(s) /\ (s.answers = 1 \/ s.stream = "open") /\ (p.answers = 1 => s.answers = 1)
  BY RespondOK DEF Live, RespOK
<1> HIDE DEF s
<1>2. CASE s.stream = "open"
  <2>1. q = [slot |-> s.slot, stream |-> s.stream, timed |-> s.timed, body |-> s.body,
             answers |-> s.answers, cut |-> TRUE]
    BY <1>1, <1>2 DEF Drop, Responses
  <2> QED
    BY <1>1, <1>2, <2>1 DEF Responses, RespOK, Live, s
<1>3. CASE s.stream # "open"
  BY <1>1, <1>3 DEF Drop, Live, s
<1> QED
  BY <1>2, <1>3

---------------------------------------------------------------------------
LEMMA RequestsFinite ==
    /\ IsFiniteSet(ReqIds)
    /\ \A S \in SUBSET ReqIds :
          IsFiniteSet(S) /\ Cardinality(S) \in Nat /\ (Cardinality(S) = 0 => S = {})
<1>1. IsFiniteSet(ReqIds)
  BY RequestsAssumption, FS_Interval DEF ReqIds
<1>2. ASSUME NEW S \in SUBSET ReqIds
      PROVE  IsFiniteSet(S) /\ Cardinality(S) \in Nat /\ (Cardinality(S) = 0 => S = {})
  BY <1>1, FS_Subset, FS_CardinalityType, FS_EmptySet
<1> QED
  BY <1>1, <1>2

LEMMA OutIsRequests ==
    ASSUME WebTypeOK, NEW t \in Threads
    PROVE  Out(t) \in SUBSET ReqIds /\ Unsettled(t) \in SUBSET ReqIds
<1>1. ASSUME NEW q \in Seq(Completions)
      PROVE  RequestsIn(q) \subseteq ReqIds
  <2>1. \A i \in DOMAIN q : q[i] \in Completions
    OBVIOUS
  <2> QED
    BY <2>1 DEF RequestsIn, Completions
<1> QED
  BY <1>1 DEF WebTypeOK, ThreadTypeOK, Out, Unsettled

LEMMA SentAreRequests ==
    ASSUME BacklogOK
    PROVE  sent \subseteq ReqIds /\ HandedOut \subseteq ReqIds /\ Queued \subseteq sent
BY RequestsAssumption DEF BacklogOK, HandedOut, ReqIds

\* The property follows from the invariant.
LEMMA WebSuffices == WebInv => AnsweredOnce
<1> SUFFICES ASSUME WebInv
             PROVE  AnsweredOnce
  OBVIOUS
<1> USE DEF WebInv
<1> DEFINE finished == {r \in sent : resp[r].answers = 1 \/ resp[r].cut} \cup Queued
<1>1. \A r \in ReqIds : resp[r].answers <= 1
  BY DEF WebTypeOK, Responses
<1>2. (\A r \in HandedOut : Finished(r)) => finished = sent
  BY SentAreRequests DEF HandedOut, Finished
<1>3. ASSUME phase = "over"
      PROVE  finished = sent
  <2>1. \A t \in Threads, r \in HandedOut : ~HeldBy(t, r)
    BY <1>3 DEF ThreadOK, HeldBy, Busy
  <2> QED
    BY <1>2, <2>1 DEF ResponsesOK
<1>4. ASSUME NEW t \in Threads, thread[t].pc = "left", Full(t)
      PROVE  finished = sent
  <2>1. t = Main /\ \A u \in Threads : u # t => thread[u].pc = "idle"
    BY <1>4 DEF ThreadOK, Full
  <2>2. Unsettled(t) = {}
    <3>1. thread[t].counter = 0 /\ thread[t].counter >= Cardinality(Unsettled(t))
      BY <1>4, <2>1 DEF ThreadOK
    <3> QED
      BY <3>1, OutIsRequests, RequestsFinite
  <2>3. ASSUME NEW r \in HandedOut
        PROVE  Finished(r)
    <3>1. SUFFICES ASSUME NEW u \in Threads, HeldBy(u, r)
                   PROVE  Finished(r)
      BY DEF ResponsesOK
    <3>2. r \in ReqIds
      BY SentAreRequests
    <3>3. CASE u = t
      <4>1. settled[r]
        BY <1>4, <2>2, <3>1, <3>3 DEF HeldBy, Busy, Unsettled
      <4> QED
        BY <3>2, <4>1 DEF ResponsesOK, Finished
    <3>4. CASE u # t
      BY <2>1, <3>1, <3>4 DEF HeldBy, Busy, ThreadOK
    <3> QED
      BY <3>3, <3>4
  <2> QED
    BY <1>2, <2>3
<1> QED
  BY <1>1, <1>3, <1>4 DEF AnsweredOnce, Queued

---------------------------------------------------------------------------
\* A thread that a step does not touch.
LEMMA OtherThread ==
    ASSUME WebInv, NEW u \in Threads, thread'[u] = thread[u], phase' = phase, mode' = mode,
           HandedOut \subseteq HandedOut', \A r \in ReqIds : settled[r] => settled'[r]
    PROVE  ThreadOK(u)' /\ ThreadTypeOK(u)' /\ \A r : HeldBy(u, r)' <=> HeldBy(u, r)
<1>1. Out(u)' = Out(u) /\ (Busy(u)' <=> Busy(u)) /\ (Full(u)' <=> Full(u))
  BY DEF Out, Busy, Full
<1>2. Unsettled(u) \in SUBSET ReqIds /\ Unsettled(u)' \subseteq Unsettled(u)
  BY <1>1, OutIsRequests DEF WebInv, Unsettled
<1>3. Cardinality(Unsettled(u)') <= Cardinality(Unsettled(u))
  BY <1>2, RequestsFinite, FS_Subset
<1>4. thread[u].counter \in Nat /\ Cardinality(Unsettled(u)) \in Nat /\ Cardinality(Unsettled(u)') \in Nat
  BY <1>2, RequestsFinite DEF WebInv, WebTypeOK, ThreadTypeOK
<1>5. ThreadOK(u)
  BY DEF WebInv
<1>6. thread[u].streams \subseteq ReqIds
  BY DEF WebInv, WebTypeOK, ThreadTypeOK
<1>7. ThreadOK(u)'
  BY <1>1, <1>3, <1>4, <1>5, <1>6 DEF ThreadOK
<1>8. ThreadTypeOK(u)'
  BY DEF WebInv, WebTypeOK, ThreadTypeOK
<1> QED
  BY <1>1, <1>7, <1>8 DEF HeldBy

\* A step of one thread keeps the invariant, when it leaves the thread and
\* the responses it touches in order and forgets no request.
LEMMA OneThread ==
    ASSUME WebInv, NEW t \in Threads, UNCHANGED <<phase, mode, backlog, sent>>,
           resp' \in [ReqIds -> Responses], settled' \in [ReqIds -> BOOLEAN],
           DOMAIN thread' = Threads, \A u \in Threads \ {t} : thread'[u] = thread[u],
           ThreadTypeOK(t)', ThreadOK(t)',
           \A r \in ReqIds : (settled[r] => settled'[r]) /\ (settled'[r] => resp'[r].answers = 1),
           \A r \in ReqIds : \/ resp'[r] = resp[r]
                             \/ r \in HandedOut /\ RespOK(resp'[r]) /\ Live(resp'[r]),
           \A r \in HandedOut : Finished(r) \/ HeldBy(t, r) => Finished(r)' \/ HeldBy(t, r)'
    PROVE  WebInv'
<1>1. HandedOut' = HandedOut /\ HandedOut \subseteq ReqIds /\ BacklogOK'
  BY SentAreRequests DEF WebInv, BacklogOK, HandedOut, Queued
<1>2. \A u \in Threads \ {t} : ThreadOK(u)' /\ ThreadTypeOK(u)' /\ \A r : HeldBy(u, r)' <=> HeldBy(u, r)
  BY <1>1, OtherThread
<1>3. WebTypeOK'
  BY <1>2 DEF WebInv, WebTypeOK
<1>4. \A r \in HandedOut : Finished(r)' \/ \E u \in Threads : HeldBy(u, r)'
  BY <1>2 DEF WebInv, ResponsesOK
<1>5. \A r \in ReqIds : RespOK(resp'[r])
  BY DEF WebInv, ResponsesOK
<1>6. \A r \in HandedOut : Live(resp'[r])
  BY <1>1 DEF WebInv, ResponsesOK, Live
<1>7. \A r \in ReqIds \ HandedOut : resp'[r] = NewResponse
  BY DEF WebInv, ResponsesOK
<1>8. ResponsesOK'
  BY <1>1, <1>4, <1>5, <1>6, <1>7 DEF ResponsesOK, Live, RespOK
<1> QED
  BY <1>1, <1>2, <1>3, <1>8 DEF WebInv

\* Only the place of a thread changes.
LEMMA GoOK ==
    ASSUME WebInv, NEW t \in Threads, NEW p \in Places \ {"handle", "upgrade", "idle"}, Go(t, p),
           UNCHANGED <<phase, mode, backlog, sent, resp, settled>>,
           thread[t].pc \notin {"handle", "upgrade", "idle"}, phase = "serving",
           p \in {"drain", "recv"} => ~Full(t),
           p = "left" /\ Full(t) => thread[t].counter = 0,
           p = "exited" => Out(t) = {}
    PROVE  WebInv'
<1>1. DOMAIN thread = Threads /\ ThreadTypeOK(t) /\ ThreadOK(t)
  BY DEF WebInv, WebTypeOK
<1>2. /\ DOMAIN thread' = Threads /\ \A u \in Threads \ {t} : thread'[u] = thread[u]
      /\ thread'[t] = [thread[t] EXCEPT !.pc = p]
  BY <1>1 DEF Go
<1>3. /\ DOMAIN thread'[t] = DOMAIN thread[t] /\ thread'[t].pc = p
      /\ thread'[t].cur = thread[t].cur /\ thread'[t].batch = thread[t].batch
      /\ thread'[t].ready = thread[t].ready /\ thread'[t].waiting = thread[t].waiting
      /\ thread'[t].streams = thread[t].streams /\ thread'[t].counter = thread[t].counter
      /\ thread'[t].served = thread[t].served
  BY <1>1, <1>2 DEF ThreadTypeOK
<1>4. ThreadTypeOK(t)'
  BY <1>1, <1>3 DEF ThreadTypeOK
<1>5. Out(t)' = Out(t) /\ Unsettled(t)' = Unsettled(t) /\ HandedOut' = HandedOut /\ (Full(t)' <=> Full(t))
      /\ ~Busy(t)' /\ ~Busy(t)
  BY <1>3 DEF Out, Unsettled, HandedOut, Queued, Full, Busy
<1>6. ThreadOK(t)'
  BY <1>1, <1>3, <1>5 DEF ThreadOK
<1>7. \A r : (Finished(r)' <=> Finished(r)) /\ (HeldBy(t, r)' <=> HeldBy(t, r))
  BY <1>5 DEF Finished, HeldBy
<1>8. \A r \in ReqIds : settled'[r] => resp'[r].answers = 1
  BY DEF WebInv, ResponsesOK
<1>9. resp' \in [ReqIds -> Responses] /\ settled' \in [ReqIds -> BOOLEAN]
  BY DEF WebInv, WebTypeOK
<1> QED
  BY <1>2, <1>4, <1>6, <1>7, <1>8, <1>9, OneThread

LEMMA TestKeeps ==
    ASSUME WebInv, NEW t \in Threads, TestLoop(t)
    PROVE  WebInv'
<1> PICK p : p = IF Full(t) THEN (IF thread[t].counter = 0 THEN "left" ELSE "drain_full")
                 ELSE IF flag THEN "left" ELSE "drain"
  OBVIOUS
<1>1. Go(t, p)
  BY DEF TestLoop
<1>2. thread[t].pc = "test" /\ phase = "serving" /\ UNCHANGED <<phase, mode, backlog, sent, resp, settled>>
  BY DEF TestLoop, ThreadAt, Serving
<1>3. p \in {"left", "drain_full", "drain"} /\ (p = "drain" => ~Full(t))
      /\ (p = "left" /\ Full(t) => thread[t].counter = 0)
  OBVIOUS
<1> QED
  BY <1>1, <1>2, <1>3, GoOK DEF Places

LEMMA NothingKeeps ==
    ASSUME WebInv, NEW t \in Threads, ReceiveNothing(t)
    PROVE  WebInv'
<1> PICK p : p = IF server THEN "drain_held" ELSE "left"
  OBVIOUS
<1>1. Go(t, p)
  BY DEF ReceiveNothing
<1>2. thread[t].pc = "recv" /\ phase = "serving" /\ UNCHANGED <<phase, mode, backlog, sent, resp, settled>>
  BY DEF ReceiveNothing, ThreadAt, Serving
<1>3. ~Full(t)
  BY <1>2 DEF WebInv, ThreadOK
<1>4. p \in {"left", "drain_held"}
  OBVIOUS
<1> QED
  BY <1>1, <1>2, <1>3, <1>4, GoOK DEF Places

LEMMA DrainedKeeps ==
    ASSUME WebInv, NEW t \in Threads, Drained(t)
    PROVE  WebInv'
<1>1. /\ thread[t].batch = <<>> /\ thread[t].ready = <<>> /\ phase = "serving"
      /\ (t = Main <=> mode # "workers")
      /\ UNCHANGED <<phase, mode, backlog, sent, resp, settled>>
  BY DEF Drained, Serving
<1>2. PICK p : /\ Go(t, p)
               /\ \/ thread[t].pc = "drain" /\ p = IF t = Main THEN "recv" ELSE "poll"
                  \/ thread[t].pc = "drain_full" /\ p = "poll"
                  \/ thread[t].pc = "drain_held" /\ p = IF t = Main THEN "poll" ELSE "poll_held"
                  \/ thread[t].pc = "left" /\ thread[t].waiting = {} /\ p = "exited"
  BY DEF Drained
<1>3. p \in {"recv", "poll", "poll_held", "exited"} /\ thread[t].pc \notin {"handle", "upgrade", "idle"}
  BY <1>2
<1>4. p = "recv" => ~Full(t)
  BY <1>2 DEF WebInv, ThreadOK
<1>5. p = "exited" => Out(t) = {}
  BY <1>1, <1>2 DEF Out, RequestsIn
<1> QED
  BY <1>1, <1>2, <1>3, <1>4, <1>5, GoOK DEF Places

\* Nothing the invariant speaks of changes.
LEMMA WebSame ==
    ASSUME WebInv, UNCHANGED <<phase, mode, backlog, sent, resp, settled, thread>>
    PROVE  WebInv'
<1>1. BacklogOK' /\ HandedOut' = HandedOut
  BY DEF WebInv, BacklogOK, HandedOut, Queued
<1>2. ASSUME NEW u \in Threads
      PROVE  ThreadOK(u)' /\ ThreadTypeOK(u)' /\ \A r : HeldBy(u, r)' <=> HeldBy(u, r)
  BY <1>1, OtherThread
<1>3. WebTypeOK'
  BY <1>2 DEF WebInv, WebTypeOK
<1>4. \A r \in HandedOut : Finished(r)' \/ \E u \in Threads : HeldBy(u, r)'
  BY <1>2 DEF WebInv, ResponsesOK, Finished
<1>5. ResponsesOK'
  BY <1>1, <1>4 DEF WebInv, ResponsesOK
<1> QED
  BY <1>1, <1>2, <1>3, <1>5 DEF WebInv

LEMMA RequestsInAppend ==
    ASSUME NEW q \in Seq(Completions), NEW c \in Completions
    PROVE  RequestsIn(Append(q, c)) = RequestsIn(q) \cup {c.r}
<1>1. /\ DOMAIN Append(q, c) = DOMAIN q \cup {Len(q) + 1}
      /\ \A i \in DOMAIN q : Append(q, c)[i] = q[i]
      /\ Append(q, c)[Len(q) + 1] = c
  OBVIOUS
<1> QED
  BY <1>1 DEF RequestsIn

LEMMA RequestsInTail ==
    ASSUME NEW q \in Seq(Completions), q # <<>>
    PROVE  /\ RequestsIn(Tail(q)) \subseteq RequestsIn(q)
           /\ RequestsIn(q) \subseteq RequestsIn(Tail(q)) \cup {Head(q).r}
           /\ Head(q) \in Completions /\ Head(q).r \in RequestsIn(q)
<1>1. /\ \A i \in DOMAIN Tail(q) : i + 1 \in DOMAIN q /\ Tail(q)[i] = q[i + 1]
      /\ \A i \in DOMAIN q : i = 1 \/ (i - 1 \in DOMAIN Tail(q) /\ Tail(q)[i - 1] = q[i])
      /\ 1 \in DOMAIN q /\ Head(q) = q[1] /\ q[1] \in Completions
  OBVIOUS
<1>2. \A x \in RequestsIn(Tail(q)) : x \in RequestsIn(q)
  BY <1>1 DEF RequestsIn
<1>3. ASSUME NEW x \in RequestsIn(q)
      PROVE  x \in RequestsIn(Tail(q)) \cup {Head(q).r}
  <2>1. PICK i \in DOMAIN q : x = q[i].r
    BY DEF RequestsIn
  <2> QED
    BY <1>1, <2>1 DEF RequestsIn
<1> QED
  BY <1>1, <1>2, <1>3 DEF RequestsIn

\* Completions move from one place of a thread to the next.
LEMMA MoveOK ==
    ASSUME WebInv, NEW t \in Threads, UNCHANGED <<phase, mode, backlog, sent, resp, settled>>,
           DOMAIN thread' = Threads, \A u \in Threads \ {t} : thread'[u] = thread[u],
           ThreadTypeOK(t)', Out(t)' = Out(t),
           thread'[t].pc = thread[t].pc, thread'[t].cur = thread[t].cur,
           thread'[t].streams = thread[t].streams, thread'[t].counter = thread[t].counter,
           thread'[t].served = thread[t].served
    PROVE  WebInv'
<1>1. Unsettled(t)' = Unsettled(t) /\ HandedOut' = HandedOut /\ (Full(t)' <=> Full(t)) /\ (Busy(t)' <=> Busy(t))
  BY DEF Unsettled, HandedOut, Queued, Full, Busy
<1>2. ThreadOK(t)'
  BY <1>1 DEF WebInv, ThreadOK
<1>3. \A r : (Finished(r)' <=> Finished(r)) /\ (HeldBy(t, r)' <=> HeldBy(t, r))
  BY <1>1 DEF Finished, HeldBy
<1>4. \A r \in ReqIds : settled'[r] => resp'[r].answers = 1
  BY DEF WebInv, ResponsesOK
<1>5. resp' \in [ReqIds -> Responses] /\ settled' \in [ReqIds -> BOOLEAN]
  BY DEF WebInv, WebTypeOK
<1> QED
  BY <1>2, <1>3, <1>4, <1>5, OneThread

LEMMA TakeKeeps ==
    ASSUME WebInv, NEW t \in Threads, TakeBatch(t)
    PROVE  WebInv'
<1>1. /\ thread' = [thread EXCEPT ![t].batch = thread[t].ready, ![t].ready = <<>>]
      /\ thread[t].batch = <<>> /\ UNCHANGED <<phase, mode, backlog, sent, resp, settled>>
  BY DEF TakeBatch
<1>2. DOMAIN thread = Threads /\ ThreadTypeOK(t)
  BY DEF WebInv, WebTypeOK
<1>3. /\ DOMAIN thread' = Threads /\ \A u \in Threads \ {t} : thread'[u] = thread[u]
      /\ DOMAIN thread'[t] = DOMAIN thread[t] /\ thread'[t].pc = thread[t].pc
      /\ thread'[t].cur = thread[t].cur /\ thread'[t].batch = thread[t].ready
      /\ thread'[t].ready = <<>> /\ thread'[t].waiting = thread[t].waiting
      /\ thread'[t].streams = thread[t].streams /\ thread'[t].counter = thread[t].counter
      /\ thread'[t].served = thread[t].served
  BY <1>1, <1>2 DEF ThreadTypeOK
<1>4. ThreadTypeOK(t)'
  BY <1>2, <1>3 DEF ThreadTypeOK
<1>5. Out(t)' = Out(t)
  BY <1>1, <1>3 DEF Out, RequestsIn
<1> QED
  BY <1>1, <1>3, <1>4, <1>5, MoveOK

LEMMA SettleKeeps ==
    ASSUME WebInv, NEW t \in Threads, NEW r \in ReqIds, SettlePromise(t, r)
    PROVE  WebInv'
<1>1. PICK op \in ResOps \cup {"close"} :
         thread' = [thread EXCEPT ![t].waiting = @ \ {r}, ![t].ready = Append(@, [r |-> r, op |-> op])]
  BY DEF SettlePromise
<1> DEFINE c == [r |-> r, op |-> op]
<1>2. r \in thread[t].waiting /\ UNCHANGED <<phase, mode, backlog, sent, resp, settled>>
  BY DEF SettlePromise
<1>3. DOMAIN thread = Threads /\ ThreadTypeOK(t)
  BY DEF WebInv, WebTypeOK
<1>4. /\ DOMAIN thread' = Threads /\ \A u \in Threads \ {t} : thread'[u] = thread[u]
      /\ DOMAIN thread'[t] = DOMAIN thread[t] /\ thread'[t].pc = thread[t].pc
      /\ thread'[t].cur = thread[t].cur /\ thread'[t].batch = thread[t].batch
      /\ thread'[t].ready = Append(thread[t].ready, c) /\ thread'[t].waiting = thread[t].waiting \ {r}
      /\ thread'[t].streams = thread[t].streams /\ thread'[t].counter = thread[t].counter
      /\ thread'[t].served = thread[t].served
  BY <1>1, <1>3 DEF ThreadTypeOK
<1>5. c \in Completions /\ c.r = r
  BY DEF Completions
<1> HIDE DEF c
<1>6. ThreadTypeOK(t)'
  BY <1>3, <1>4, <1>5 DEF ThreadTypeOK
<1>7. RequestsIn(thread'[t].ready) = RequestsIn(thread[t].ready) \cup {r}
  BY <1>3, <1>4, <1>5, RequestsInAppend DEF ThreadTypeOK
<1>8. Out(t)' = Out(t)
  BY <1>2, <1>4, <1>7 DEF Out
<1> QED
  BY <1>2, <1>4, <1>6, <1>8, MoveOK

LEMMA PollKeeps ==
    ASSUME WebInv, NEW t \in Threads, PollStreams(t)
    PROVE  WebInv'
<1>1. /\ thread[t].pc \in {"poll", "poll_held"} /\ phase = "serving" /\ (t = Main <=> mode # "workers")
      /\ UNCHANGED <<phase, mode, backlog, sent>>
  BY DEF PollStreams, ThreadAt, Serving
<1>2. PICK late \in SUBSET {r \in thread[t].streams : resp[r].timed /\ ~settled[r]} :
         /\ resp' = [r \in ReqIds |-> IF r \in late THEN Finish(resp[r]) ELSE resp[r]]
         /\ settled' = [r \in ReqIds |-> settled[r] \/ r \in late]
         /\ thread' = [thread EXCEPT
              ![t].pc = IF t = Main \/ @ = "poll_held" THEN "test" ELSE "recv",
              ![t].streams = @ \ (late \cup {r \in @ : settled[r]}),
              ![t].counter = IF t = Main THEN Less(@, Cardinality(late)) ELSE @]
  BY DEF PollStreams
<1>3. DOMAIN thread = Threads /\ ThreadTypeOK(t) /\ ThreadOK(t)
      /\ resp \in [ReqIds -> Responses] /\ settled \in [ReqIds -> BOOLEAN]
  BY DEF WebInv, WebTypeOK
<1>4. /\ DOMAIN thread' = Threads /\ \A u \in Threads \ {t} : thread'[u] = thread[u]
      /\ DOMAIN thread'[t] = DOMAIN thread[t]
      /\ thread'[t].pc = IF t = Main \/ thread[t].pc = "poll_held" THEN "test" ELSE "recv"
      /\ thread'[t].cur = thread[t].cur /\ thread'[t].batch = thread[t].batch
      /\ thread'[t].ready = thread[t].ready /\ thread'[t].waiting = thread[t].waiting
      /\ thread'[t].streams = thread[t].streams \ (late \cup {r \in thread[t].streams : settled[r]})
      /\ thread'[t].counter = IF t = Main THEN Less(thread[t].counter, Cardinality(late))
                                          ELSE thread[t].counter
      /\ thread'[t].served = thread[t].served
  BY <1>2, <1>3 DEF ThreadTypeOK
<1>5. late \in SUBSET ReqIds /\ late \subseteq Unsettled(t) /\ late \subseteq HandedOut
  BY <1>2, <1>3 DEF ThreadTypeOK, ThreadOK, Unsettled
<1>6. Cardinality(late) \in Nat /\ thread[t].counter \in Nat
  BY <1>3, <1>5, RequestsFinite DEF ThreadTypeOK
<1>7. ThreadTypeOK(t)'
  BY <1>3, <1>4, <1>6 DEF ThreadTypeOK, Less, Places
<1>8. Out(t)' = Out(t) /\ Unsettled(t)' = Unsettled(t) \ late /\ HandedOut' = HandedOut /\ ~Busy(t)' /\ ~Busy(t)
  <2>1. Out(t)' = Out(t)
    BY <1>4 DEF Out
  <2>2. Out(t) \subseteq ReqIds
    BY OutIsRequests DEF WebInv
  <2>3. Unsettled(t)' = Unsettled(t) \ late
    BY <1>2, <1>3, <2>1, <2>2 DEF Unsettled
  <2> QED
    BY <1>1, <1>4, <2>1, <2>3 DEF HandedOut, Queued, Busy
<1>9. t = Main => thread'[t].counter >= Cardinality(Unsettled(t)')
  <2>1. Unsettled(t) \in SUBSET ReqIds
    BY OutIsRequests DEF WebInv
  <2>2. Unsettled(t) \cap late = late
    BY <1>5
  <2>3. IsFiniteSet(Unsettled(t))
    BY <2>1, RequestsFinite
  <2>4. Cardinality(Unsettled(t) \ late) = Cardinality(Unsettled(t)) - Cardinality(Unsettled(t) \cap late)
    BY <2>3, FS_Difference
  <2>5. Cardinality(Unsettled(t)) \in Nat
    BY <2>1, RequestsFinite
  <2>6. ASSUME t = Main
        PROVE  Less(thread[t].counter, Cardinality(late)) >= Cardinality(Unsettled(t)) - Cardinality(late)
    <3>1. thread[t].counter >= Cardinality(Unsettled(t))
      BY <1>3, <2>6 DEF ThreadOK
    <3>2. Cardinality(Unsettled(t)) - Cardinality(late) <= 0 \/ thread[t].counter > Cardinality(late)
          \/ thread[t].counter = Cardinality(late)
      BY <1>6, <2>5, <3>1
    <3> QED
      BY <1>6, <2>5, <3>1, <3>2 DEF Less
  <2> QED
    BY <1>4, <1>8, <2>2, <2>4, <2>6
<1>10. thread'[t].pc \in {"test", "recv"} /\ (thread'[t].pc = "recv" => ~Full(t)')
  BY <1>1, <1>4 DEF Full
<1>11. \A r \in thread'[t].streams : r \in Out(t) /\ r \in HandedOut
  BY <1>3, <1>4 DEF ThreadOK
<1>12. ThreadOK(t)'
  BY <1>1, <1>3, <1>8, <1>9, <1>10, <1>11 DEF ThreadOK
<1>13. \A r \in late : /\ Finish(resp[r]) \in Responses /\ RespOK(Finish(resp[r]))
                       /\ Finish(resp[r]).answers = 1
  <2> SUFFICES ASSUME NEW r \in late
               PROVE  /\ Finish(resp[r]) \in Responses /\ RespOK(Finish(resp[r]))
                      /\ Finish(resp[r]).answers = 1
    OBVIOUS
  <2>1. resp[r] \in Responses /\ RespOK(resp[r]) /\ resp[r].timed
    BY <1>2, <1>3, <1>5 DEF WebInv, ResponsesOK
  <2> QED
    BY <2>1, FinishOK DEF RespOK
<1>14. resp' \in [ReqIds -> Responses] /\ settled' \in [ReqIds -> BOOLEAN]
  BY <1>2, <1>3, <1>13
<1>15. \A r \in ReqIds : (settled[r] => settled'[r]) /\ (settled'[r] => resp'[r].answers = 1)
  BY <1>2, <1>13 DEF WebInv, ResponsesOK
<1>16. \A r \in ReqIds : \/ resp'[r] = resp[r]
                         \/ r \in HandedOut /\ RespOK(resp'[r]) /\ Live(resp'[r])
  BY <1>2, <1>5, <1>13 DEF Live
<1>17. \A r \in HandedOut : Finished(r) \/ HeldBy(t, r) => Finished(r)' \/ HeldBy(t, r)'
  BY <1>2, <1>8, <1>13, SentAreRequests DEF WebInv, Finished, HeldBy
<1> QED
  BY <1>1, <1>4, <1>7, <1>12, <1>14, <1>15, <1>16, <1>17, OneThread

\* A thread that is busy with a request puts its response in order, and is
\* done with it or keeps it.
LEMMA HandlerOK ==
    ASSUME WebInv, NEW t \in Threads, Busy(t), NEW r, r = thread[t].cur,
           UNCHANGED <<phase, mode, backlog, sent, settled>>,
           NEW q \in Responses, RespOK(q), Live(q),
           resp[r].answers = 1 => q.answers = 1,
           resp' = [resp EXCEPT ![r] = q],
           DOMAIN thread' = Threads, \A u \in Threads \ {t} : thread'[u] = thread[u],
           ThreadTypeOK(t)', ThreadOK(t)', Out(t) \subseteq Out(t)',
           q.answers = 1 \/ q.cut \/ HeldBy(t, r)'
    PROVE  WebInv'
<1>1. r \in HandedOut /\ r \in ReqIds
  BY SentAreRequests DEF WebInv, ThreadOK
<1>2. resp \in [ReqIds -> Responses] /\ settled \in [ReqIds -> BOOLEAN]
  BY DEF WebInv, WebTypeOK
<1>3. resp' \in [ReqIds -> Responses] /\ resp'[r] = q /\ \A x \in ReqIds \ {r} : resp'[x] = resp[x]
  BY <1>1, <1>2
<1>4. \A x \in ReqIds : settled'[x] => resp'[x].answers = 1
  BY <1>3 DEF WebInv, ResponsesOK
<1>5. ASSUME NEW x \in HandedOut, Finished(x) \/ HeldBy(t, x)
      PROVE  Finished(x)' \/ HeldBy(t, x)'
  <2>1. CASE x = r
    BY <1>3, <2>1 DEF Finished
  <2>2. CASE x # r
    BY <1>3, <1>5, <2>2, SentAreRequests DEF WebInv, Finished, HeldBy
  <2> QED
    BY <2>1, <2>2
<1> QED
  BY <1>1, <1>2, <1>3, <1>4, <1>5, OneThread

\* What the request a thread is busy with looks like.
LEMMA CurrentOK ==
    ASSUME WebInv, NEW t \in Threads, Busy(t)
    PROVE  LET p == resp[thread[t].cur] IN p \in Responses /\ RespOK(p) /\ Live(p)
<1>1. thread[t].cur \in HandedOut /\ thread[t].cur \in ReqIds
  BY SentAreRequests DEF WebInv, ThreadOK
<1> QED
  BY <1>1 DEF WebInv, WebTypeOK, ResponsesOK, Live

LEMMA AnswerKeeps ==
    ASSUME WebInv, NEW t \in Threads, Busy(t), phase = "serving", t = Main <=> mode # "workers",
           UNCHANGED <<phase, mode, backlog, sent>>,
           NEW p \in Responses, RespOK(p), Live(p),
           resp[thread[t].cur].answers = 1 => p.answers = 1,
           Answer(t, p)
    PROVE  WebInv'
<1> PICK q : q = Drop(Respond(p))
  OBVIOUS
<1>1. /\ q \in Responses /\ RespOK(q) /\ Live(q) /\ (q.answers = 1 \/ q.cut)
      /\ (p.answers = 1 => q.answers = 1)
  BY AnswerOK
<1>2. resp' = [resp EXCEPT ![thread[t].cur] = q] /\ thread' = Served(t) /\ settled' = settled
  BY DEF Answer
<1>3. DOMAIN thread = Threads /\ ThreadTypeOK(t) /\ ThreadOK(t)
  BY DEF WebInv, WebTypeOK
<1>4. /\ DOMAIN thread' = Threads /\ \A u \in Threads \ {t} : thread'[u] = thread[u]
      /\ DOMAIN thread'[t] = DOMAIN thread[t] /\ thread'[t].pc = First(t)
      /\ thread'[t].batch = thread[t].batch /\ thread'[t].ready = thread[t].ready
      /\ thread'[t].waiting = thread[t].waiting /\ thread'[t].streams = thread[t].streams
      /\ thread'[t].counter = thread[t].counter
  BY <1>2, <1>3 DEF Served, ThreadTypeOK
<1>5. thread'[t].pc \in {"poll", "test"}
  BY <1>4 DEF First
<1>6. ThreadTypeOK(t)'
  BY <1>3, <1>4, <1>5 DEF ThreadTypeOK, Places
<1>7. Out(t)' = Out(t) /\ Unsettled(t)' = Unsettled(t) /\ HandedOut' = HandedOut /\ ~Busy(t)'
  BY <1>2, <1>4, <1>5 DEF Out, Unsettled, HandedOut, Queued, Busy
<1>8. ThreadOK(t)'
  BY <1>2, <1>3, <1>4, <1>5, <1>7 DEF ThreadOK
<1> QED
  BY <1>1, <1>2, <1>4, <1>6, <1>7, <1>8, HandlerOK

LEMMA LeaveKeeps ==
    ASSUME WebInv, NEW t \in Threads, Busy(t), phase = "serving", t = Main <=> mode # "workers",
           UNCHANGED <<phase, mode, backlog, sent>>,
           NEW p \in Responses, RespOK(p), Live(p),
           resp[thread[t].cur].answers = 1 => p.answers = 1,
           LeaveToPromise(t, p)
    PROVE  WebInv'
<1> PICK r : r = thread[t].cur
  OBVIOUS
<1>1. /\ resp' = [resp EXCEPT ![r] = p] /\ settled' = settled
      /\ thread' = [Served(t) EXCEPT ![t].waiting = @ \cup {r}, ![t].streams = @ \cup {r},
                                     ![t].counter = IF t = Main THEN @ + 1 ELSE @]
  BY DEF LeaveToPromise
<1>2. DOMAIN thread = Threads /\ ThreadTypeOK(t) /\ ThreadOK(t)
  BY DEF WebInv, WebTypeOK
<1>3. /\ DOMAIN Served(t) = Threads /\ \A u \in Threads \ {t} : Served(t)[u] = thread[u]
      /\ DOMAIN Served(t)[t] = DOMAIN thread[t] /\ Served(t)[t].pc = First(t)
      /\ Served(t)[t].batch = thread[t].batch /\ Served(t)[t].ready = thread[t].ready
      /\ Served(t)[t].waiting = thread[t].waiting /\ Served(t)[t].streams = thread[t].streams
      /\ Served(t)[t].counter = thread[t].counter
  BY <1>2 DEF Served, ThreadTypeOK
<1>4. /\ DOMAIN thread' = Threads /\ \A u \in Threads \ {t} : thread'[u] = thread[u]
      /\ DOMAIN thread'[t] = DOMAIN thread[t] /\ thread'[t].pc = First(t)
      /\ thread'[t].batch = thread[t].batch /\ thread'[t].ready = thread[t].ready
      /\ thread'[t].waiting = thread[t].waiting \cup {r}
      /\ thread'[t].streams = thread[t].streams \cup {r}
      /\ thread'[t].counter = IF t = Main THEN thread[t].counter + 1 ELSE thread[t].counter
  BY <1>1, <1>2, <1>3 DEF ThreadTypeOK
<1>5. thread'[t].pc \in {"poll", "test"}
  BY <1>4 DEF First
<1>6. r \in HandedOut /\ r \in ReqIds
  BY SentAreRequests DEF WebInv, ThreadOK
<1>7. ThreadTypeOK(t)'
  BY <1>2, <1>4, <1>5, <1>6 DEF ThreadTypeOK, Places
<1>8. Out(t)' = Out(t) \cup {r} /\ HandedOut' = HandedOut /\ ~Busy(t)'
  BY <1>4, <1>5 DEF Out, HandedOut, Queued, Busy
<1>9. t = Main => thread'[t].counter >= Cardinality(Unsettled(t)')
  <2>1. Unsettled(t) \in SUBSET ReqIds /\ Unsettled(t) \cup {r} \in SUBSET ReqIds
    BY <1>6, OutIsRequests DEF WebInv
  <2>2. Unsettled(t)' \subseteq Unsettled(t) \cup {r}
    BY <1>1, <1>8 DEF Unsettled
  <2> DEFINE U == Unsettled(t)
             V == Unsettled(t)'
  <2>3. IsFiniteSet(U) /\ IsFiniteSet(U \cup {r}) /\ V \in SUBSET ReqIds
        /\ Cardinality(U) \in Nat /\ Cardinality(V) \in Nat
    BY <2>1, <2>2, RequestsFinite
  <2>4. Cardinality(U \cup {r}) <= Cardinality(U) + 1
    BY <2>3, FS_AddElement
  <2>5. Cardinality(U \cup {r}) \in Nat
    BY <2>3, FS_CardinalityType
  <2>6. Cardinality(V) <= Cardinality(U \cup {r})
    BY <2>2, <2>3, FS_Subset
  <2>7. t = Main => thread[t].counter >= Cardinality(U) /\ thread[t].counter \in Nat
    BY <1>2 DEF ThreadOK, ThreadTypeOK
  <2> QED
    BY <1>4, <2>3, <2>4, <2>5, <2>6, <2>7
<1>10. ThreadOK(t)'
  BY <1>1, <1>2, <1>4, <1>5, <1>6, <1>8, <1>9 DEF ThreadOK
<1>11. HeldBy(t, r)'
  BY <1>8 DEF HeldBy
<1> QED
  BY <1>1, <1>4, <1>7, <1>8, <1>10, <1>11, HandlerOK

LEMMA HandlerKeeps ==
    ASSUME WebInv, NEW t \in Threads, RunHandler(t)
    PROVE  WebInv'
<1> PICK r : r = thread[t].cur
  OBVIOUS
<1> PICK p : p = resp[r]
  OBVIOUS
<1>1. /\ Busy(t) /\ phase = "serving" /\ (t = Main <=> mode # "workers")
      /\ UNCHANGED <<phase, mode, backlog, sent>>
  BY DEF RunHandler, ThreadAt, Serving, Busy
<1>2. p \in Responses /\ RespOK(p) /\ Live(p)
  BY <1>1, CurrentOK
<1>3. CASE thread[t].chain = 0
  <2>1. Answer(t, p)
    BY <1>3 DEF RunHandler
  <2> QED
    BY <1>1, <1>2, <2>1, AnswerKeeps
<1>4. CASE thread[t].chain # 0
  <2>1. PICK op \in ResOps : LET q == Use(p, op) IN
           \/ Answer(t, q)
           \/ LeaveToPromise(t, q)
           \/ /\ resp' = [resp EXCEPT ![r] = q] /\ UNCHANGED settled
              /\ thread' = [thread EXCEPT ![t].chain = @ - 1]
    BY <1>4 DEF RunHandler
  <2> PICK q : q = Use(p, op)
    OBVIOUS
  <2>2. q \in Responses /\ RespOK(q) /\ Live(q) /\ (p.answers = 1 => q.answers = 1)
    BY <1>2, UseOK
  <2>3. CASE Answer(t, q)
    BY <1>1, <2>2, <2>3, AnswerKeeps
  <2>4. CASE LeaveToPromise(t, q)
    BY <1>1, <2>2, <2>4, LeaveKeeps
  <2>5. CASE /\ resp' = [resp EXCEPT ![r] = q] /\ UNCHANGED settled
             /\ thread' = [thread EXCEPT ![t].chain = @ - 1]
    <3>1. DOMAIN thread = Threads /\ ThreadTypeOK(t) /\ ThreadOK(t)
      BY DEF WebInv, WebTypeOK
    <3>2. /\ DOMAIN thread' = Threads /\ \A u \in Threads \ {t} : thread'[u] = thread[u]
          /\ DOMAIN thread'[t] = DOMAIN thread[t] /\ thread'[t].pc = thread[t].pc
          /\ thread'[t].cur = thread[t].cur /\ thread'[t].batch = thread[t].batch
          /\ thread'[t].ready = thread[t].ready /\ thread'[t].waiting = thread[t].waiting
          /\ thread'[t].streams = thread[t].streams /\ thread'[t].counter = thread[t].counter
          /\ thread'[t].served = thread[t].served
      BY <2>5, <3>1 DEF ThreadTypeOK
    <3>3. ThreadTypeOK(t)'
      BY <3>1, <3>2 DEF ThreadTypeOK
    <3>4. Out(t)' = Out(t) /\ Unsettled(t)' = Unsettled(t) /\ HandedOut' = HandedOut
          /\ (Busy(t)' <=> Busy(t)) /\ (Full(t)' <=> Full(t))
      BY <1>1, <2>5, <3>2 DEF Out, Unsettled, HandedOut, Queued, Busy, Full
    <3>a. UNCHANGED <<settled, phase, mode>>
      BY <1>1, <2>5
    <3>b. /\ Busy(t)' => thread'[t].cur \in HandedOut'
          /\ Out(t)' \cup thread'[t].streams \subseteq HandedOut'
          /\ \A x \in thread'[t].streams : settled'[x] \/ x \in Out(t)'
      BY <3>1, <3>2, <3>4, <3>a DEF ThreadOK
    <3>c. /\ t = Main => thread'[t].counter >= Cardinality(Unsettled(t)')
          /\ thread'[t].pc \in {"drain", "recv"} => ~Full(t)'
          /\ thread'[t].pc = "left" /\ Full(t)' => thread'[t].counter = 0
      BY <3>1, <3>2, <3>4 DEF ThreadOK
    <3>d. /\ thread'[t].pc \in {"idle", "exited"} => Out(t)' = {}
          /\ thread'[t].pc # "idle" => phase' # "script" /\ (t = Main <=> mode' # "workers")
          /\ phase' = "over" => thread'[t].pc \in {"idle", "exited"}
      BY <3>1, <3>2, <3>4, <3>a DEF ThreadOK
    <3>5. ThreadOK(t)'
      BY <3>b, <3>c, <3>d DEF ThreadOK
    <3>6. HeldBy(t, r)'
      BY <1>1, <3>2, <3>4 DEF HeldBy
    <3> QED
      <4>1. /\ resp' = [resp EXCEPT ![r] = q] /\ UNCHANGED <<phase, mode, backlog, sent, settled>>
            /\ Busy(t) /\ r = thread[t].cur
        BY <1>1, <2>5
      <4>2. resp[r].answers = 1 => q.answers = 1
        BY <1>1, <1>2, <2>2
      <4> QED
        BY <2>2, <3>2, <3>3, <3>4, <3>5, <3>6, <4>1, <4>2, HandlerOK
  <2> QED
    BY <2>1, <2>3, <2>4, <2>5
<1> QED
  BY <1>3, <1>4

LEMMA UpgradeKeeps ==
    ASSUME WebInv, NEW t \in Threads, Upgrade(t)
    PROVE  WebInv'
<1>1. /\ Busy(t) /\ phase = "serving" /\ (t = Main <=> mode # "workers")
      /\ UNCHANGED <<phase, mode, backlog, sent>> /\ Answer(t, resp[thread[t].cur])
  BY DEF Upgrade, ThreadAt, Serving, Busy
<1> QED
  BY <1>1, CurrentOK, AnswerKeeps

\* What a continuation makes of a response that is not answered, or that the
\* stream deadline or the handler itself has answered before.
LEMMA ContinuationOK ==
    ASSUME NEW p \in Responses, RespOK(p), Live(p), NEW op \in ResOps \cup {"close"}
    PROVE  LET p1 == IF op = "close" THEN p ELSE Use(p, op)
               q  == IF p1.slot THEN Respond(p1) ELSE Finish(p1)
           IN  q \in Responses /\ RespOK(q) /\ q.answers = 1
<1> PICK p1 : p1 = IF op = "close" THEN p ELSE Use(p, op)
  OBVIOUS
<1>1. p1 \in Responses /\ RespOK(p1) /\ Live(p1)
  BY UseOK
<1>2. CASE p1.slot
  BY <1>1, <1>2, RespondOK
<1>3. CASE ~p1.slot
  BY <1>1, <1>3, FinishOK DEF Live
<1> QED
  BY <1>2, <1>3

LEMMA CompletionKeeps ==
    ASSUME WebInv, NEW t \in Threads, RunCompletion(t)
    PROVE  WebInv'
<1> PICK c : c = Head(thread[t].batch)
  OBVIOUS
<1> PICK p : p = IF c.op = "close" THEN resp[c.r] ELSE Use(resp[c.r], c.op)
  OBVIOUS
<1> PICK q : q = IF p.slot THEN Respond(p) ELSE Finish(p)
  OBVIOUS
<1>1. /\ thread[t].batch # <<>> /\ UNCHANGED <<phase, mode, backlog, sent>>
      /\ phase = "serving" /\ (t = Main <=> mode # "workers")
  BY DEF RunCompletion, Serving
<1>2. \/ UNCHANGED <<resp, settled, thread>>
      \/ /\ resp' = [resp EXCEPT ![c.r] = q]
         /\ settled' = [settled EXCEPT ![c.r] = TRUE]
         /\ thread' = [thread EXCEPT ![t].batch = Tail(@),
                ![t].counter = IF t = Main /\ ~settled[c.r] THEN Less(@, 1) ELSE @]
  BY DEF RunCompletion
<1>3. CASE UNCHANGED <<resp, settled, thread>>
  BY <1>1, <1>3, WebSame
<1>4. CASE /\ resp' = [resp EXCEPT ![c.r] = q]
           /\ settled' = [settled EXCEPT ![c.r] = TRUE]
           /\ thread' = [thread EXCEPT ![t].batch = Tail(@),
                  ![t].counter = IF t = Main /\ ~settled[c.r] THEN Less(@, 1) ELSE @]
  <2>1. /\ DOMAIN thread = Threads /\ ThreadTypeOK(t) /\ ThreadOK(t)
        /\ resp \in [ReqIds -> Responses] /\ settled \in [ReqIds -> BOOLEAN]
    BY DEF WebInv, WebTypeOK
  <2>2. /\ DOMAIN thread' = Threads /\ \A u \in Threads \ {t} : thread'[u] = thread[u]
        /\ DOMAIN thread'[t] = DOMAIN thread[t] /\ thread'[t].pc = thread[t].pc
        /\ thread'[t].cur = thread[t].cur /\ thread'[t].batch = Tail(thread[t].batch)
        /\ thread'[t].ready = thread[t].ready /\ thread'[t].waiting = thread[t].waiting
        /\ thread'[t].streams = thread[t].streams
        /\ thread'[t].counter = IF t = Main /\ ~settled[c.r] THEN Less(thread[t].counter, 1)
                                                             ELSE thread[t].counter
        /\ thread'[t].served = thread[t].served
    BY <1>4, <2>1 DEF ThreadTypeOK
  <2>3. /\ thread[t].batch \in Seq(Completions)
        /\ RequestsIn(thread'[t].batch) \subseteq RequestsIn(thread[t].batch)
        /\ RequestsIn(thread[t].batch) \subseteq RequestsIn(thread'[t].batch) \cup {c.r}
        /\ c \in Completions /\ c.r \in RequestsIn(thread[t].batch)
    BY <1>1, <2>1, <2>2, RequestsInTail DEF ThreadTypeOK
  <2>4. /\ c.r \in Out(t) /\ c.r \in HandedOut /\ c.r \in ReqIds /\ c.op \in ResOps \cup {"close"}
    BY <2>1, <2>3 DEF Out, ThreadOK, Completions
  <2>5. /\ Out(t)' \subseteq Out(t) /\ Out(t) \subseteq Out(t)' \cup {c.r} /\ HandedOut' = HandedOut
        /\ (Busy(t)' <=> Busy(t)) /\ (Full(t)' <=> Full(t))
    BY <1>1, <2>2, <2>3 DEF Out, HandedOut, Queued, Busy, Full
  <2>6. thread[t].counter \in Nat
    BY <2>1 DEF ThreadTypeOK
  <2>7. ThreadTypeOK(t)'
    <3>1. Tail(thread[t].batch) \in Seq(Completions)
      BY <1>1, <2>3
    <3> QED
      BY <2>1, <2>2, <2>6, <3>1 DEF ThreadTypeOK, Less
  <2>8. Unsettled(t) \in SUBSET ReqIds /\ Unsettled(t)' \subseteq Unsettled(t) \ {c.r}
    <3>1. Unsettled(t) \in SUBSET ReqIds /\ Out(t) \in SUBSET ReqIds
      BY OutIsRequests DEF WebInv
    <3> QED
      BY <1>4, <2>1, <2>4, <2>5, <3>1 DEF Unsettled
  <2>9. t = Main => thread'[t].counter >= Cardinality(Unsettled(t)')
    <3> DEFINE U == Unsettled(t)
               V == Unsettled(t)'
    <3>1. /\ IsFiniteSet(U) /\ IsFiniteSet(U \ {c.r})
          /\ Cardinality(U) \in Nat /\ Cardinality(U \ {c.r}) \in Nat /\ Cardinality(V) \in Nat
          /\ V \subseteq U \ {c.r}
      <4>1. U \ {c.r} \in SUBSET ReqIds /\ V \in SUBSET ReqIds
        BY <2>8
      <4> QED
        BY <2>8, <4>1, RequestsFinite
    <3> HIDE DEF U, V
    <3>2. Cardinality(V) <= Cardinality(U \ {c.r})
      BY <3>1, FS_Subset
    <3>3. Cardinality(U \ {c.r}) = IF c.r \in U THEN Cardinality(U) - 1 ELSE Cardinality(U)
      BY <3>1, FS_RemoveElement
    <3>4. c.r \in U <=> ~settled[c.r]
      BY <2>4 DEF U, Unsettled
    <3>5. t = Main => thread[t].counter >= Cardinality(U)
      BY <2>1 DEF ThreadOK, U
    <3>6. ASSUME t = Main
          PROVE  thread'[t].counter >= Cardinality(V)
      <4>1. CASE settled[c.r]
        BY <2>2, <2>6, <3>1, <3>2, <3>3, <3>4, <3>5, <3>6, <4>1
      <4>2. CASE ~settled[c.r]
        BY <2>2, <2>6, <3>1, <3>2, <3>3, <3>4, <3>5, <3>6, <4>2 DEF Less
      <4> QED
        BY <4>1, <4>2
    <3> QED
      BY <3>6 DEF V
  <2>10. ThreadOK(t)'
    <3>1. \A x \in thread'[t].streams : settled'[x] \/ x \in Out(t)'
      <4>1. \A x \in thread[t].streams : x \in ReqIds
        BY <2>1 DEF ThreadTypeOK
      <4> QED
        BY <1>4, <2>1, <2>2, <2>4, <2>5, <4>1 DEF ThreadOK
    <3>2. thread[t].counter = 0 => thread'[t].counter = 0
      BY <2>2 DEF Less
    <3>3. /\ Busy(t)' => thread'[t].cur \in HandedOut'
          /\ Out(t)' \cup thread'[t].streams \subseteq HandedOut'
      BY <1>1, <2>1, <2>2, <2>5 DEF ThreadOK
    <3>4. /\ thread'[t].pc \in {"drain", "recv"} => ~Full(t)'
          /\ thread'[t].pc = "left" /\ Full(t)' => thread'[t].counter = 0
      BY <2>1, <2>2, <2>5, <3>2 DEF ThreadOK
    <3>5. /\ thread'[t].pc \in {"idle", "exited"} => Out(t)' = {}
          /\ thread'[t].pc # "idle" => phase' # "script" /\ (t = Main <=> mode' # "workers")
          /\ phase' = "over" => thread'[t].pc \in {"idle", "exited"}
      BY <1>1, <2>1, <2>2, <2>5 DEF ThreadOK
    <3> QED
      BY <2>9, <3>1, <3>3, <3>4, <3>5 DEF ThreadOK
  <2>11. resp[c.r] \in Responses /\ RespOK(resp[c.r]) /\ Live(resp[c.r])
    BY <2>1, <2>4 DEF WebInv, ResponsesOK, Live
  <2>12. q \in Responses /\ RespOK(q) /\ q.answers = 1
    BY <2>4, <2>11, ContinuationOK
  <2>13. /\ resp' \in [ReqIds -> Responses] /\ settled' \in [ReqIds -> BOOLEAN]
         /\ resp'[c.r] = q /\ settled'[c.r]
         /\ \A x \in ReqIds \ {c.r} : resp'[x] = resp[x] /\ settled'[x] = settled[x]
    BY <1>4, <2>1, <2>4, <2>12
  <2>14. \A x \in ReqIds : (settled[x] => settled'[x]) /\ (settled'[x] => resp'[x].answers = 1)
    <3>1. \A x \in ReqIds : settled[x] => resp[x].answers = 1
      BY DEF WebInv, ResponsesOK
    <3> QED
      BY <2>12, <2>13, <3>1
  <2>15. \A x \in ReqIds : \/ resp'[x] = resp[x]
                           \/ x \in HandedOut /\ RespOK(resp'[x]) /\ Live(resp'[x])
    BY <2>4, <2>12, <2>13 DEF Live
  <2>16. ASSUME NEW x \in HandedOut, Finished(x) \/ HeldBy(t, x)
         PROVE  Finished(x)' \/ HeldBy(t, x)'
    <3>1. CASE x = c.r
      BY <2>12, <2>13, <3>1 DEF Finished
    <3>2. CASE x # c.r
      <4>1. x \in ReqIds /\ resp'[x] = resp[x]
        BY <2>13, <3>2, SentAreRequests DEF WebInv
      <4> QED
        BY <2>2, <2>5, <2>16, <3>2, <4>1 DEF Finished, HeldBy
    <3> QED
      BY <3>1, <3>2
  <2> QED
    BY <1>1, <2>2, <2>7, <2>10, <2>13, <2>14, <2>15, <2>16, OneThread
<1> QED
  BY <1>2, <1>3, <1>4

\* The listener hands out its oldest request.
LEMMA ReceiveKeeps ==
    ASSUME WebInv, NEW t \in Threads, Receive(t)
    PROVE  WebInv'
<1> PICK h : h = Head(backlog)
  OBVIOUS
<1> PICK r : r = h.id
  OBVIOUS
<1>1. /\ thread[t].pc = "recv" /\ phase = "serving" /\ (t = Main <=> mode # "workers")
      /\ backlog # <<>> /\ backlog' = Tail(backlog) /\ UNCHANGED <<phase, mode, sent, settled>>
      /\ resp' = [resp EXCEPT ![r].slot = TRUE]
  BY DEF Receive, ThreadAt, Serving
<1> PICK pc : pc = IF h.ask.ws THEN "upgrade" ELSE "handle"
  OBVIOUS
<1> PICK chain : chain = ChainLength(h.ask)
  OBVIOUS
<1>2. /\ pc \in {"handle", "upgrade"}
      /\ thread' = [thread EXCEPT ![t].pc = pc, ![t].cur = r, ![t].chain = chain]
  BY DEF Receive
<1>3. /\ DOMAIN thread = Threads /\ ThreadTypeOK(t) /\ ThreadOK(t)
      /\ resp \in [ReqIds -> Responses] /\ settled \in [ReqIds -> BOOLEAN]
      /\ backlog \in Seq([id : ReqIds, ask : Asked])
  BY DEF WebInv, WebTypeOK
<1>4. /\ DOMAIN thread' = Threads /\ \A u \in Threads \ {t} : thread'[u] = thread[u]
      /\ DOMAIN thread'[t] = DOMAIN thread[t] /\ thread'[t].pc = pc
      /\ thread'[t].cur = r /\ thread'[t].batch = thread[t].batch
      /\ thread'[t].ready = thread[t].ready /\ thread'[t].waiting = thread[t].waiting
      /\ thread'[t].streams = thread[t].streams /\ thread'[t].counter = thread[t].counter
      /\ thread'[t].served = thread[t].served
  BY <1>2, <1>3 DEF ThreadTypeOK
<1>5. /\ 1 \in DOMAIN backlog /\ h = backlog[1]
      /\ \A i \in DOMAIN backlog' : i + 1 \in DOMAIN backlog /\ backlog'[i] = backlog[i + 1] /\ i + 1 # 1
      /\ \A i \in DOMAIN backlog : i = 1 \/ (i - 1 \in DOMAIN backlog' /\ backlog'[i - 1] = backlog[i])
      /\ \A i, j \in DOMAIN backlog' : i + 1 = j + 1 => i = j
      /\ backlog' \in Seq([id : ReqIds, ask : Asked])
  BY <1>1, <1>3
<1>6. Queued' = Queued \ {r} /\ r \in Queued
  <2>1. \A i, j \in DOMAIN backlog : backlog[i].id = backlog[j].id => i = j
    BY DEF WebInv, BacklogOK
  <2>2. ASSUME NEW x \in Queued'
        PROVE  x \in Queued \ {r}
    <3>1. PICK i \in DOMAIN backlog' : x = backlog'[i].id
      BY <2>2 DEF Queued
    <3> QED
      BY <1>5, <2>1, <3>1 DEF Queued
  <2>3. ASSUME NEW x \in Queued \ {r}
        PROVE  x \in Queued'
    <3>1. PICK i \in DOMAIN backlog : x = backlog[i].id
      BY <2>3 DEF Queued
    <3> QED
      BY <1>5, <2>3, <3>1 DEF Queued
  <2> QED
    BY <1>5, <2>2, <2>3 DEF Queued
<1>7. /\ HandedOut' = HandedOut \cup {r} /\ r \in ReqIds /\ r \notin HandedOut
      /\ Queued \subseteq sent /\ sent \subseteq ReqIds /\ HandedOut \subseteq ReqIds
  BY <1>1, <1>6, SentAreRequests DEF WebInv, HandedOut
<1>8. BacklogOK'
  BY <1>1, <1>5, <1>6, <1>7 DEF WebInv, BacklogOK
<1>9. \A u \in Threads \ {t} :
         ThreadOK(u)' /\ ThreadTypeOK(u)' /\ \A x : HeldBy(u, x)' <=> HeldBy(u, x)
  BY <1>1, <1>4, <1>7, OtherThread
<1>10. Out(t)' = Out(t) /\ Unsettled(t)' = Unsettled(t) /\ Busy(t)' /\ ~Busy(t)
  BY <1>1, <1>2, <1>4 DEF Out, Unsettled, Busy
<1>11. ThreadTypeOK(t)'
  BY <1>2, <1>3, <1>4 DEF ThreadTypeOK, Places
<1>12. ThreadOK(t)'
  BY <1>1, <1>2, <1>3, <1>4, <1>7, <1>10 DEF ThreadOK
<1>13. resp[r] = NewResponse
  BY <1>7 DEF WebInv, ResponsesOK
<1>14. /\ resp' \in [ReqIds -> Responses] /\ resp'[r].slot /\ RespOK(resp'[r])
       /\ \A x \in ReqIds \ {r} : resp'[x] = resp[x]
  <2> PICK q : q = [resp[r] EXCEPT !.slot = TRUE]
    OBVIOUS
  <2>1. resp' = [resp EXCEPT ![r] = q]
    BY <1>1, <1>3, <1>7
  <2>2. resp[r] \in Responses /\ q \in Responses
    <3>1. resp[r] \in Responses
      BY <1>3, <1>7
    <3>2. \A p \in Responses : [p EXCEPT !.slot = TRUE] \in Responses
      BY DEF Responses
    <3> QED
      BY <3>1, <3>2
  <2>3. q.slot /\ q.stream = resp[r].stream /\ q.timed = resp[r].timed /\ q.answers = resp[r].answers
    BY <2>2 DEF Responses
  <2>4. RespOK(q)
    BY <1>13, <2>3 DEF NewResponse, RespOK
  <2> QED
    BY <1>3, <1>7, <2>1, <2>2, <2>3, <2>4
<1>15. ~settled[r]
  BY <1>7, <1>13 DEF WebInv, ResponsesOK, NewResponse
<1>16. WebTypeOK'
  BY <1>1, <1>3, <1>4, <1>5, <1>9, <1>11, <1>14 DEF WebInv, WebTypeOK
<1>17. ResponsesOK'
  <2>1. \A x \in ReqIds : RespOK(resp'[x]) /\ (settled'[x] => resp'[x].answers = 1)
    BY <1>1, <1>14, <1>15 DEF WebInv, ResponsesOK
  <2>2. \A x \in ReqIds \ HandedOut' : resp'[x] = NewResponse
    BY <1>7, <1>14 DEF WebInv, ResponsesOK
  <2>3. \A x \in HandedOut' : resp'[x].slot \/ resp'[x].stream = "open" \/ resp'[x].answers = 1
    BY <1>7, <1>14 DEF WebInv, ResponsesOK
  <2>4. ASSUME NEW x \in HandedOut'
        PROVE  Finished(x)' \/ \E u \in Threads : HeldBy(u, x)'
    <3>1. CASE x = r
      BY <1>4, <1>10, <3>1 DEF HeldBy
    <3>2. CASE x # r
      <4>1. x \in HandedOut /\ x \in ReqIds /\ resp'[x] = resp[x]
        BY <1>7, <1>14, <2>4, <3>2
      <4>2. CASE Finished(x)
        BY <4>1, <4>2 DEF Finished
      <4>3. CASE \E u \in Threads : HeldBy(u, x)
        BY <1>9, <1>10, <4>3 DEF HeldBy
      <4> QED
        BY <4>1, <4>2, <4>3 DEF WebInv, ResponsesOK
    <3> QED
      BY <3>1, <3>2
  <2> QED
    BY <2>1, <2>2, <2>3, <2>4 DEF ResponsesOK
<1> QED
  BY <1>8, <1>9, <1>12, <1>16, <1>17, <1>11 DEF WebInv

\* The listener takes one more request.
LEMMA SendKeeps ==
    ASSUME WebInv, NEW ask \in Asked, Send(ask)
    PROVE  WebInv'
<1>1. PICK n \in 0..MaxRequests : sent = 1..n
  BY DEF WebInv, BacklogOK
<1>2. Cardinality(sent) = n
  BY <1>1, RequestsAssumption, FS_Interval
<1>3. n < MaxRequests /\ n + 1 \in 1..MaxRequests /\ n + 1 \notin sent
  BY <1>1, <1>2, RequestsAssumption DEF Send
<1> DEFINE e == [id |-> n + 1, ask |-> ask]
<1>4. /\ sent' = sent \cup {n + 1} /\ backlog' = Append(backlog, e)
      /\ UNCHANGED <<phase, mode, resp, settled, thread>>
  BY <1>2 DEF Send
<1>5. sent' = 1..(n + 1)
  BY <1>1, <1>4
<1>6. e \in [id : ReqIds, ask : Asked] /\ e.id = n + 1
  BY <1>3 DEF ReqIds
<1> HIDE DEF e
<1>7. backlog \in Seq([id : ReqIds, ask : Asked])
  BY DEF WebInv, WebTypeOK
<1>8. /\ backlog' \in Seq([id : ReqIds, ask : Asked])
      /\ DOMAIN backlog' = DOMAIN backlog \cup {Len(backlog) + 1}
      /\ \A i \in DOMAIN backlog : backlog'[i] = backlog[i]
      /\ backlog'[Len(backlog) + 1] = e
  BY <1>4, <1>6, <1>7
<1>9. Queued' = Queued \cup {n + 1} /\ Queued \subseteq sent
  BY <1>6, <1>8 DEF Queued, WebInv, BacklogOK
<1>10. HandedOut' = HandedOut
  BY <1>3, <1>4, <1>9 DEF HandedOut
<1>11. BacklogOK'
  <2>1. \A i \in DOMAIN backlog : backlog[i].id \in sent
    BY <1>9 DEF Queued
  <2>2. \A i, j \in DOMAIN backlog' : backlog'[i].id = backlog'[j].id => i = j
    BY <1>3, <1>6, <1>8, <2>1 DEF WebInv, BacklogOK
  <2>3. \E m \in 0..MaxRequests : sent' = 1..m
    BY <1>3, <1>5
  <2> QED
    BY <1>4, <1>9, <2>2, <2>3 DEF BacklogOK
<1>12. \A u \in Threads :
          ThreadOK(u)' /\ ThreadTypeOK(u)' /\ \A x : HeldBy(u, x)' <=> HeldBy(u, x)
  BY <1>4, <1>10, OtherThread
<1>13. WebTypeOK'
  BY <1>4, <1>8, <1>12 DEF WebInv, WebTypeOK
<1>14. \A x \in HandedOut : Finished(x)' \/ \E u \in Threads : HeldBy(u, x)'
  BY <1>4, <1>12 DEF WebInv, ResponsesOK, Finished
<1>15. ResponsesOK'
  BY <1>4, <1>10, <1>14 DEF WebInv, ResponsesOK
<1> QED
  BY <1>11, <1>12, <1>13, <1>15 DEF WebInv

\* The script listens, or its listen is over: threads that hold nothing start,
\* and threads that are done stay.
LEMMA PhaseOK ==
    ASSUME WebInv, UNCHANGED <<backlog, sent, resp, settled>>,
           phase' \in {"serving", "over"}, mode' \in {"count", "single", "workers"},
           DOMAIN thread' = Threads,
           \A t \in Threads :
             /\ DOMAIN thread'[t] = DOMAIN thread[t]
             /\ \A f \in DOMAIN thread[t] \ {"pc"} : thread'[t][f] = thread[t][f]
             /\ thread[t].pc \in {"idle", "exited"}
             /\ thread'[t].pc \in {"idle", "exited", "poll", "test"}
             /\ phase' = "over" => thread'[t].pc \in {"idle", "exited"}
             /\ thread'[t].pc # "idle" => (t = Main <=> mode' # "workers")
    PROVE  WebInv'
<1>1. BacklogOK' /\ HandedOut' = HandedOut
  BY DEF WebInv, BacklogOK, HandedOut, Queued
<1>2. ASSUME NEW t \in Threads
      PROVE  ThreadOK(t)' /\ ThreadTypeOK(t)' /\ \A x : HeldBy(t, x)' <=> HeldBy(t, x)
  <2>1. ThreadTypeOK(t) /\ ThreadOK(t)
    BY DEF WebInv, WebTypeOK
  <2>2. /\ thread'[t].cur = thread[t].cur /\ thread'[t].batch = thread[t].batch
        /\ thread'[t].ready = thread[t].ready /\ thread'[t].waiting = thread[t].waiting
        /\ thread'[t].streams = thread[t].streams /\ thread'[t].counter = thread[t].counter
        /\ thread'[t].served = thread[t].served
    BY <2>1 DEF ThreadTypeOK
  <2>3. Out(t)' = Out(t) /\ Unsettled(t)' = Unsettled(t) /\ ~Busy(t) /\ ~Busy(t)' /\ Out(t) = {}
    BY <2>1, <2>2 DEF Out, Unsettled, Busy, ThreadOK
  <2>4. ThreadTypeOK(t)'
    BY <2>1, <2>2 DEF ThreadTypeOK, Places
  <2>5. ThreadOK(t)'
    BY <1>1, <2>1, <2>2, <2>3 DEF ThreadOK
  <2> QED
    BY <2>3, <2>4, <2>5 DEF HeldBy
<1>3. WebTypeOK'
  BY <1>2 DEF WebInv, WebTypeOK
<1>4. \A x \in HandedOut : Finished(x)' \/ \E u \in Threads : HeldBy(u, x)'
  BY <1>2 DEF WebInv, ResponsesOK, Finished
<1>5. ResponsesOK'
  BY <1>1, <1>4 DEF WebInv, ResponsesOK
<1> QED
  BY <1>1, <1>2, <1>3, <1>5 DEF WebInv

LEMMA ListenKeeps ==
    ASSUME WebInv, Listen
    PROVE  WebInv'
<1>1. /\ phase = "script" /\ phase' = "serving" /\ UNCHANGED <<backlog, sent, resp, settled>>
      /\ mode' \in {"count", "single", "workers"}
      /\ thread' = [t \in Threads |-> [thread[t] EXCEPT !.pc =
                      IF (t = Main) <=> (mode' # "workers") THEN First(t) ELSE @]]
  BY DEF Listen
<1>2. ASSUME NEW t \in Threads
      PROVE  /\ DOMAIN thread'[t] = DOMAIN thread[t]
             /\ \A f \in DOMAIN thread[t] \ {"pc"} : thread'[t][f] = thread[t][f]
             /\ thread[t].pc \in {"idle", "exited"}
             /\ thread'[t].pc \in {"idle", "exited", "poll", "test"}
             /\ thread'[t].pc # "idle" => (t = Main <=> mode' # "workers")
  <2>1. ThreadTypeOK(t) /\ thread[t].pc = "idle"
    BY <1>1 DEF WebInv, WebTypeOK, ThreadOK
  <2>2. thread'[t].pc = IF (t = Main) <=> (mode' # "workers") THEN First(t) ELSE "idle"
    BY <1>1, <2>1 DEF ThreadTypeOK
  <2> QED
    BY <1>1, <2>1, <2>2 DEF First
<1>3. DOMAIN thread' = Threads
  BY <1>1
<1> QED
  BY <1>1, <1>2, <1>3, PhaseOK

LEMMA ReturnKeeps ==
    ASSUME WebInv, ListenReturns
    PROVE  WebInv'
<1>1. /\ phase = "serving" /\ phase' = "over" /\ UNCHANGED <<mode, backlog, sent, resp, settled, thread>>
      /\ \A t \in Threads : (t = Main <=> mode # "workers") => thread[t].pc = "exited"
  BY DEF ListenReturns, Serving
<1>2. ASSUME NEW t \in Threads
      PROVE  thread[t].pc \in {"idle", "exited"} /\ (thread[t].pc # "idle" => (t = Main <=> mode # "workers"))
  BY <1>1 DEF WebInv, ThreadOK
<1>3. DOMAIN thread = Threads /\ mode \in {"count", "single", "workers"}
  BY DEF WebInv, WebTypeOK
<1> QED
  BY <1>1, <1>2, <1>3, PhaseOK

---------------------------------------------------------------------------
LEMMA WebStarts == WebInit => WebInv
<1> SUFFICES ASSUME WebInit
             PROVE  WebInv
  OBVIOUS
<1>1. HandedOut = {} /\ Queued = {} /\ \A t \in Threads : Out(t) = {} /\ Unsettled(t) = {}
  BY DEF WebInit, HandedOut, Queued, Out, Unsettled, RequestsIn
<1>2. NewResponse \in Responses /\ RespOK(NewResponse)
  BY DEF NewResponse, Responses, RespOK
<1>3. BacklogOK
  <2>1. sent = 1..0 /\ 0 \in 0..MaxRequests
    BY RequestsAssumption DEF WebInit
  <2> QED
    BY <1>1, <2>1 DEF WebInit, BacklogOK
<1>4. ResponsesOK
  BY <1>1, <1>2 DEF WebInit, ResponsesOK
<1>5. \A t \in Threads :
         /\ DOMAIN thread[t] = {"pc", "cur", "chain", "batch", "ready", "waiting", "streams",
                                "counter", "served"}
         /\ thread[t].pc = "idle" /\ thread[t].batch = <<>> /\ thread[t].ready = <<>>
         /\ thread[t].waiting = {} /\ thread[t].streams = {} /\ thread[t].counter = 0
  BY DEF WebInit
<1>6. WebTypeOK
  <2>1. \A t \in Threads : ThreadTypeOK(t)
    <3>1. <<>> \in Seq(Completions) /\ 0 \in Nat /\ "idle" \in Places /\ {} \subseteq ReqIds
      BY DEF Places
    <3> QED
      BY <1>5, <3>1, Zenon DEF ThreadTypeOK
  <2> QED
    BY <1>2, <2>1 DEF WebInit, WebTypeOK
<1>7. ASSUME NEW t \in Threads
      PROVE  ThreadOK(t)
  <2>1. Cardinality(Unsettled(t)) = 0
    BY <1>1, FS_EmptySet
  <2>2. phase = "script" /\ ~Busy(t)
    BY <1>5 DEF WebInit, Busy
  <2> QED
    BY <1>1, <1>5, <2>1, <2>2 DEF ThreadOK
<1> QED
  BY <1>3, <1>4, <1>6, <1>7 DEF WebInv

LEMMA WebStep == WebInv /\ [WebNext]_webVars => WebInv'
<1> SUFFICES ASSUME WebInv, [WebNext]_webVars
             PROVE  WebInv'
  OBVIOUS
<1>1. CASE RegisterRoute \/ Interrupt \/ UNCHANGED webVars
  BY <1>1, WebSame DEF RegisterRoute, Interrupt, webVars
<1>2. CASE Listen
  BY <1>2, ListenKeeps
<1>3. CASE ListenReturns
  BY <1>3, ReturnKeeps
<1>4. CASE \E ask \in Asked : Send(ask)
  BY <1>4, SendKeeps
<1>5. ASSUME NEW t \in Threads, ThreadStep(t)
      PROVE  WebInv'
  <2>1. CASE CloseApp(t)
    BY <2>1, WebSame DEF CloseApp
  <2> QED
    BY <1>5, <2>1, PollKeeps, TestKeeps, ReceiveKeeps, NothingKeeps, HandlerKeeps, UpgradeKeeps,
       TakeKeeps, CompletionKeeps, DrainedKeeps, SettleKeeps DEF ThreadStep
<1> QED
  BY <1>1, <1>2, <1>3, <1>4, <1>5 DEF WebNext

\* Whatever the number of workers and of requests: a request is answered at
\* most once, whether its handler, the continuation of its promise or the
\* deadline of its stream comes first, and none that the listener handed out
\* is forgotten when app.listen is over (web_handle_handler_promise,
\* poll_active_streams, web_serve_loop).
THEOREM EachAnsweredOnce == WebSpec => []AnsweredOnce
<1>1. WebInit => WebInv
  BY WebStarts
<1>2. WebInv /\ [WebNext]_webVars => WebInv'
  BY WebStep
<1>3. WebInv => AnsweredOnce
  BY WebSuffices
<1> QED
  BY <1>1, <1>2, <1>3, PTL DEF WebSpec

---------------------------------------------------------------------------
(* The completion queue                                                    *)

\* s is a sequence, whatever its elements are.
IsSeq(s) == s \in Seq({s[i] : i \in DOMAIN s})
Completed == [id : Nat, ok : BOOLEAN]
IdsIn(q) == {q[i].id : i \in DOMAIN q}

\* Completions that were taken from the queue and not yet counted, and those
\* that are not counted at all; calls of setTimeout and setInterval.
IdsAt(k) == IF stack[k].do = "drain" THEN IdsIn(stack[k].batch) ELSE {}
Outstanding == tasks \cup IdsIn(queue) \cup UNION {IdsAt(k) : k \in DOMAIN stack}
Timers == {k \in DOMAIN stack : stack[k].do = "timer"}

\* The script is at the bottom of the stack, and what waits for the end of
\* everything right above its exit.
StackOK ==
    /\ IsSeq(stack)
    /\ \A k \in DOMAIN stack : stack[k].do \in {"script", "exit"} => k = 1
    /\ 2 \in DOMAIN stack /\ stack[1].do = "exit" => stack[2].do = "wait"
    /\ \A k \in DOMAIN stack : "do" \in DOMAIN stack[k]
    /\ \A k \in DOMAIN stack : stack[k].do = "drain" =>
          /\ stack[k] \in [do : {"drain"}, batch : Seq(Completed), busy : BOOLEAN]
          /\ stack[k].busy => stack[k].batch # <<>> /\ stack[k].batch[1].id \notin registered

\* A completion is in one place only.
OncePlaced ==
    /\ IsSeq(promises) /\ queue \in Seq(Completed)
    /\ Outstanding \subseteq Ids /\ registered \subseteq Outstanding
    /\ \A i, j \in DOMAIN queue : queue[i].id = queue[j].id => i = j
    /\ \A k \in DOMAIN stack : stack[k].do = "drain" =>
          \A i, j \in DOMAIN stack[k].batch : stack[k].batch[i].id = stack[k].batch[j].id => i = j
    /\ tasks \cap IdsIn(queue) = {}
    /\ \A k \in DOMAIN stack : IdsAt(k) \cap (tasks \cup IdsIn(queue)) = {}
    /\ \A k, l \in DOMAIN stack : k # l => IdsAt(k) \cap IdsAt(l) = {}

\* The inductive invariant: async_pending counts what is outstanding, until
\* the thread panics.
AsyncInv ==
    stack # <<>> => /\ StackOK /\ OncePlaced /\ EndMeansIdle
                    /\ pending = Cardinality(Outstanding) + Cardinality(Timers)

\* Only the top of the stack changes, to st: below it, at the first m places,
\* everything stays, apart from what a timer has yet to call; above, nothing
\* that the invariant counts goes or comes.
Light(x) == "do" \in DOMAIN x /\ x.do \notin {"script", "exit", "drain", "timer"}
Moves(st, m) ==
    /\ IsSeq(st) /\ m \in Nat /\ m <= Len(st) /\ m <= Len(stack) /\ m >= Len(stack) - 1
    /\ \A k \in 1..m : /\ st[k].do = stack[k].do /\ "do" \in DOMAIN st[k]
                       /\ stack[k].do = "drain" => st[k] = stack[k]
    /\ \A k \in DOMAIN stack : k > m => stack[k].do \notin {"drain", "timer"}
    /\ \A k \in DOMAIN st : k > m => Light(st[k])
    /\ stack # <<>> /\ Top.do # "exit" /\ (m = Len(stack) \/ Top.do # "wait")

LEMMA SeqDomain ==
    ASSUME NEW s, IsSeq(s)
    PROVE  Len(s) \in Nat /\ DOMAIN s = 1..Len(s) /\ (s # <<>> <=> Len(s) >= 1)
BY DEF IsSeq

LEMMA SeqFrom ==
    ASSUME NEW s, NEW n \in Nat, s = [i \in 1..n |-> s[i]]
    PROVE  IsSeq(s) /\ Len(s) = n
<1>1. DOMAIN s = 1..n
  OBVIOUS
<1>2. s \in [1..n -> {s[i] : i \in DOMAIN s}]
  BY <1>1
<1>3. s \in Seq({s[i] : i \in DOMAIN s})
  BY <1>2, SeqDef
<1> QED
  BY <1>1, <1>3 DEF IsSeq

LEMMA AnySeq ==
    ASSUME NEW S, NEW s \in Seq(S)
    PROVE  IsSeq(s)
<1>1. Len(s) \in Nat /\ s \in [1..Len(s) -> S]
  BY LenProperties
<1>2. s = [i \in 1..Len(s) |-> s[i]]
  BY <1>1
<1> QED
  BY <1>1, <1>2, SeqFrom

LEMMA PushOn ==
    ASSUME NEW s, IsSeq(s), NEW x
    PROVE  /\ IsSeq(Append(s, x)) /\ Len(Append(s, x)) = Len(s) + 1
           /\ DOMAIN Append(s, x) = 1..(Len(s) + 1)
           /\ \A k \in 1..Len(s) : Append(s, x)[k] = s[k]
           /\ Append(s, x)[Len(s) + 1] = x /\ Last(Append(s, x)) = x /\ Append(s, x) # <<>>
<1> DEFINE S == {s[i] : i \in DOMAIN s} \cup {x}
<1>1. s \in Seq(S)
  BY DEF IsSeq
<1>2. /\ Append(s, x) \in Seq(S) /\ Len(Append(s, x)) = Len(s) + 1 /\ Len(s) \in Nat
      /\ DOMAIN Append(s, x) = 1..(Len(s) + 1)
      /\ \A k \in 1..Len(s) : Append(s, x)[k] = s[k]
      /\ Append(s, x)[Len(s) + 1] = x /\ Append(s, x) # <<>>
  BY <1>1
<1>3. IsSeq(Append(s, x))
  BY <1>2, AnySeq
<1> QED
  BY <1>2, <1>3 DEF Last

LEMMA PopOf ==
    ASSUME NEW s, IsSeq(s), s # <<>>
    PROVE  /\ IsSeq(Front(s)) /\ Len(Front(s)) = Len(s) - 1 /\ DOMAIN Front(s) = 1..(Len(s) - 1)
           /\ \A k \in 1..(Len(s) - 1) : Front(s)[k] = s[k]
           /\ Len(s) \in Nat \ {0} /\ Last(s) = s[Len(s)]
<1> DEFINE S == {s[i] : i \in DOMAIN s}
<1>1. s \in Seq(S) /\ Len(s) \in Nat \ {0}
  BY DEF IsSeq
<1>2. /\ Front(s) \in Seq(S) /\ Len(Front(s)) = Len(s) - 1
      /\ \A k \in 1..(Len(s) - 1) : Front(s)[k] = s[k]
  <2> PICK n : n = Len(s) - 1
    OBVIOUS
  <2>1. n \in Int /\ n \in Nat /\ \A i \in 1..n : s[i] \in S
    BY <1>1
  <2>2. /\ SubSeq(s, 1, n) \in Seq(S) /\ Len(SubSeq(s, 1, n)) = IF 1 <= n THEN n - 1 + 1 ELSE 0
        /\ \A i \in 1..(n - 1 + 1) : SubSeq(s, 1, n)[i] = s[1 + i - 1]
    BY <2>1, SubSeqProperties
  <2>3. Front(s) = SubSeq(s, 1, n)
    BY DEF Front
  <2> QED
    BY <2>1, <2>2, <2>3
<1>3. DOMAIN Front(s) = 1..(Len(s) - 1) /\ IsSeq(Front(s))
  BY <1>2, AnySeq, LenProperties
<1> QED
  BY <1>1, <1>2, <1>3 DEF Last

\* The settled promises are as many as before, and st is left or run on.
LEMMA SettleOK ==
    ASSUME NEW ps, NEW p, NEW ok, NEW st, IsSeq(ps), Settle(ps, p, ok, st)
    PROVE  /\ IsSeq(promises') /\ Len(promises') = Len(ps)
           /\ \/ stack' = st
              \/ \E x : Light(x) /\ stack' = Append(st, x)
<1>1. CASE promises' = ps /\ stack' = st
  BY <1>1
<1>2. CASE promises' = [ps EXCEPT ![p].state = IF ok THEN "fulfilled" ELSE "rejected",
                                  ![p].conts = <<>>]
           /\ stack' = Append(st, [do |-> "settle", conts |-> ps[p].conts, ok |-> ok])
  <2>1. promises' = [i \in 1..Len(ps) |-> promises'[i]]
    BY <1>2, SeqDomain
  <2>2. Len(ps) \in Nat
    BY SeqDomain
  <2>3. Light([do |-> "settle", conts |-> ps[p].conts, ok |-> ok])
    BY DEF Light
  <2>4. IsSeq(promises') /\ Len(promises') = Len(ps)
    BY <2>1, <2>2, SeqFrom
  <2> QED
    BY <1>2, <2>3, <2>4
<1> QED
  BY <1>1, <1>2 DEF Settle

LEMMA MovesOn ==
    ASSUME NEW st, NEW m, Moves(st, m), NEW x, Light(x), IsSeq(stack)
    PROVE  Moves(Append(st, x), m)
<1>1. IsSeq(st) /\ Len(st) \in Nat /\ m \in Nat /\ m <= Len(st) /\ DOMAIN st = 1..Len(st)
  BY SeqDomain DEF Moves
<1> DEFINE q == Append(st, x)
<1>2. /\ IsSeq(q) /\ Len(q) = Len(st) + 1 /\ DOMAIN q = 1..(Len(st) + 1)
      /\ \A k \in 1..Len(st) : q[k] = st[k]
      /\ q[Len(st) + 1] = x
  BY <1>1, PushOn
<1> HIDE DEF q
<1>3. \A k \in 1..m : q[k] = st[k]
  BY <1>1, <1>2
<1>4. \A k \in DOMAIN q : k > m => Light(q[k])
  BY <1>1, <1>2 DEF Moves
<1>5. Moves(q, m)
  BY <1>1, <1>2, <1>3, <1>4 DEF Moves
<1> QED
  BY <1>5 DEF q

\* The three ways a call changes the stack.
LEMMA MovesStay ==
    ASSUME StackOK, stack # <<>>, Top.do # "exit"
    PROVE  Moves(stack, Len(stack))
BY SeqDomain DEF StackOK, Moves

LEMMA MovesPop ==
    ASSUME StackOK, stack # <<>>, Top.do \notin {"exit", "wait", "drain", "timer"}
    PROVE  Moves(Below, Len(stack) - 1)
<1>1. /\ IsSeq(stack) /\ IsSeq(Below) /\ Len(Below) = Len(stack) - 1
      /\ DOMAIN Below = 1..(Len(stack) - 1) /\ DOMAIN stack = 1..Len(stack)
      /\ \A k \in 1..(Len(stack) - 1) : Below[k] = stack[k]
      /\ Len(stack) \in Nat \ {0} /\ Top = stack[Len(stack)]
  BY PopOf, SeqDomain DEF StackOK, Top, Below
<1>2. \A k \in DOMAIN stack : k > Len(stack) - 1 => k = Len(stack)
  BY <1>1
<1> QED
  BY <1>1, <1>2 DEF StackOK, Moves

LEMMA MovesTop ==
    ASSUME StackOK, stack # <<>>, Top.do \notin {"exit", "drain"},
           NEW x, "do" \in DOMAIN x, x.do = Top.do
    PROVE  Moves(Append(Below, x), Len(stack))
<1>1. /\ IsSeq(stack) /\ IsSeq(Below) /\ Len(Below) = Len(stack) - 1
      /\ DOMAIN stack = 1..Len(stack)
      /\ \A k \in 1..(Len(stack) - 1) : Below[k] = stack[k]
      /\ Len(stack) \in Nat \ {0} /\ Top = stack[Len(stack)]
  BY PopOf, SeqDomain DEF StackOK, Top, Below
<1> DEFINE q == Append(Below, x)
<1>2. /\ IsSeq(q) /\ Len(q) = Len(stack) /\ DOMAIN q = 1..Len(stack)
      /\ \A k \in 1..(Len(stack) - 1) : q[k] = stack[k]
      /\ q[Len(stack)] = x
  BY <1>1, PushOn
<1> HIDE DEF q
<1>3. \A k \in 1..Len(stack) : k = Len(stack) \/ k \in 1..(Len(stack) - 1)
  BY <1>1
<1>4. Moves(q, Len(stack))
  BY <1>1, <1>2, <1>3 DEF StackOK, Moves
<1> QED
  BY <1>4 DEF q

\* What is outstanding and the timers are finite sets.
LEMMA Countable ==
    ASSUME StackOK, OncePlaced
    PROVE  /\ IsFiniteSet(Outstanding) /\ Cardinality(Outstanding) \in Nat
           /\ IsFiniteSet(Timers) /\ Cardinality(Timers) \in Nat
<1>1. IsFiniteSet(Ids)
  <2>1. Len(promises) \in Nat /\ Ids = 1..Len(promises)
    BY SeqDomain DEF OncePlaced, Ids
  <2> QED
    BY <2>1, FS_Interval
<1>2. IsFiniteSet(DOMAIN stack)
  <2>1. Len(stack) \in Nat /\ DOMAIN stack = 1..Len(stack)
    BY SeqDomain DEF StackOK
  <2> QED
    BY <2>1, FS_Interval
<1>3. Outstanding \subseteq Ids /\ Timers \subseteq DOMAIN stack
  BY DEF OncePlaced, Timers
<1> QED
  BY <1>1, <1>2, <1>3, FS_Subset, FS_CardinalityType

\* A call that touches only the top of the stack, and registers a new promise
\* or none.
LEMMA MovesKeep ==
    ASSUME AsyncInv, NEW st, NEW m, Moves(st, m), stack' = st, queue' = queue,
           IsSeq(promises'), Len(promises') >= Len(promises),
           \/ UNCHANGED <<registered, pending, tasks>>
           \/ Register(Len(promises) + 1) /\ Len(promises') = Len(promises) + 1
    PROVE  AsyncInv'
<1> SUFFICES ASSUME st # <<>>
             PROVE  AsyncInv'
  BY DEF AsyncInv
<1> PICK n : n = Len(promises) + 1
  OBVIOUS
<1>1. StackOK /\ OncePlaced /\ pending = Cardinality(Outstanding) + Cardinality(Timers) /\ stack # <<>>
  BY DEF AsyncInv, Moves
<1>2. /\ DOMAIN stack = 1..Len(stack) /\ DOMAIN st = 1..Len(st) /\ Len(st) \in Nat /\ Len(stack) \in Nat
      /\ Len(st) >= 1 /\ m \in Nat /\ m <= Len(st) /\ m <= Len(stack) /\ m >= Len(stack) - 1
      /\ Top = stack[Len(stack)] /\ Len(stack) >= 1
  BY <1>1, SeqDomain DEF StackOK, Moves, Top, Last
<1> PICK L : L = Len(stack)
  OBVIOUS
<1> PICK M : M = Len(st)
  OBVIOUS
<1>a. /\ \A k \in DOMAIN stack : k \in 1..m \/ k > m
      /\ \A k \in DOMAIN st : k \in 1..m \/ k > m
      /\ \A k \in 1..m : k \in DOMAIN stack /\ k \in DOMAIN st
  BY <1>2
<1>b. /\ \A k \in 1..m : /\ st[k].do = stack[k].do /\ "do" \in DOMAIN st[k]
                         /\ stack[k].do = "drain" => st[k] = stack[k]
      /\ \A k \in DOMAIN stack : k > m => stack[k].do # "drain" /\ stack[k].do # "timer"
      /\ \A k \in DOMAIN st : k > m => /\ "do" \in DOMAIN st[k] /\ st[k].do # "script" /\ st[k].do # "exit"
                                       /\ st[k].do # "drain" /\ st[k].do # "timer"
      /\ stack[L].do # "exit" /\ (m = L \/ stack[L].do # "wait") /\ IsSeq(st)
  BY <1>2 DEF Moves, Light
<1>3. /\ \A k \in 1..m : k \in DOMAIN stack /\ k \in DOMAIN st /\ IdsAt(k)' = IdsAt(k)
      /\ \A k \in DOMAIN st : k \in 1..m \/ (k > m /\ IdsAt(k)' = {})
      /\ \A k \in DOMAIN stack : k \in 1..m \/ (k > m /\ IdsAt(k) = {})
  <2>1. \A k : stack'[k] = st[k]
    OBVIOUS
  <2>2. ASSUME NEW k \in 1..m
        PROVE  IdsAt(k)' = IdsAt(k)
    BY <1>b, <2>1 DEF IdsAt
  <2>3. ASSUME NEW k \in DOMAIN st, k > m
        PROVE  IdsAt(k)' = {}
    BY <1>b, <2>1, <2>3 DEF IdsAt
  <2>4. ASSUME NEW k \in DOMAIN stack, k > m
        PROVE  IdsAt(k) = {}
    BY <1>b, <2>4 DEF IdsAt
  <2> QED
    BY <1>a, <2>2, <2>3, <2>4
<1>4. Timers' = Timers
  <2>1. \A k \in Timers' : k \in Timers
    BY <1>a, <1>b DEF Timers
  <2>2. \A k \in Timers : k \in Timers'
    BY <1>a, <1>b DEF Timers
  <2> QED
    BY <2>1, <2>2
<1>5. (UNION {IdsAt(k) : k \in DOMAIN stack})' = UNION {IdsAt(k) : k \in DOMAIN stack}
  <2>1. \A x : (\E k \in DOMAIN st : x \in IdsAt(k)') <=> (\E k \in DOMAIN stack : x \in IdsAt(k))
    BY <1>3
  <2> QED
    BY <2>1
<1>6. /\ IsSeq(promises) /\ Len(promises) \in Nat /\ Ids = 1..Len(promises)
      /\ Ids' = 1..Len(promises') /\ Len(promises') \in Nat /\ Ids \subseteq Ids'
  BY <1>1, SeqDomain DEF OncePlaced, Ids
<1>7. \/ /\ UNCHANGED <<registered, pending, tasks>> /\ Outstanding' = Outstanding
      \/ /\ n \in Ids' /\ n \notin Ids /\ n \notin Outstanding
         /\ registered' = registered \cup {n} /\ tasks' = tasks \cup {n} /\ pending' = pending + 1
         /\ Outstanding' = Outstanding \cup {n}
  <2>1. CASE UNCHANGED <<registered, pending, tasks>>
    <3>1. IdsIn(queue)' = IdsIn(queue)
      BY DEF IdsIn
    <3> QED
      BY <1>5, <2>1, <3>1 DEF Outstanding
  <2>2. CASE Register(n) /\ Len(promises') = n
    <3>1. n \in Ids' /\ n \notin Ids /\ n \notin Outstanding
      BY <1>1, <1>6, <2>2 DEF OncePlaced
    <3>2. IdsIn(queue)' = IdsIn(queue)
      BY DEF IdsIn
    <3> QED
      BY <1>5, <2>2, <3>1, <3>2 DEF Register, Outstanding
  <2> QED
    BY <2>1, <2>2
<1>8. StackOK'
  <2>1. \A k \in DOMAIN st : st[k].do \in {"script", "exit"} => k = 1
    BY <1>1, <1>a, <1>b DEF StackOK
  <2>2. 2 \in DOMAIN st /\ st[1].do = "exit" => st[2].do = "wait"
    <3>1. SUFFICES ASSUME 2 \in DOMAIN st, st[1].do = "exit"
                   PROVE  st[2].do = "wait"
      OBVIOUS
    <3>2. 1 <= m /\ stack[1].do = "exit"
      BY <1>2, <1>b, <3>1
    <3>3. L # 1 /\ 2 \in DOMAIN stack
      BY <1>2, <1>b, <3>2
    <3>4. stack[2].do = "wait"
      BY <1>1, <1>2, <3>2, <3>3 DEF StackOK
    <3>5. m >= 2
      BY <1>2, <1>b, <3>2, <3>3, <3>4
    <3> QED
      BY <1>2, <1>b, <3>4, <3>5
  <2>3. \A k \in DOMAIN st : "do" \in DOMAIN st[k]
    BY <1>a, <1>b
  <2>4. ASSUME NEW k \in DOMAIN st, st[k].do = "drain"
        PROVE  /\ st[k] \in [do : {"drain"}, batch : Seq(Completed), busy : BOOLEAN]
               /\ st[k].busy => st[k].batch # <<>> /\ st[k].batch[1].id \notin registered'
    <3>1. k \in 1..m /\ k \in DOMAIN stack /\ st[k] = stack[k] /\ stack[k].do = "drain"
      BY <1>a, <1>b, <2>4
    <3>2. ASSUME st[k].busy
          PROVE  st[k].batch # <<>> /\ st[k].batch[1].id \notin registered'
      <4>1. stack[k].batch # <<>> /\ stack[k].batch[1].id \notin registered /\ stack[k].batch \in Seq(Completed)
        BY <1>1, <3>1, <3>2 DEF StackOK
      <4>2. 1 \in DOMAIN stack[k].batch
        BY <4>1
      <4>3. stack[k].batch[1].id \in IdsAt(k) /\ IdsAt(k) \subseteq Ids
        BY <1>1, <3>1, <4>2 DEF IdsAt, IdsIn, OncePlaced, Outstanding
      <4> QED
        BY <1>7, <3>1, <4>1, <4>3
    <3> QED
      BY <1>1, <3>1, <3>2 DEF StackOK
  <2> QED
    BY <1>b, <2>1, <2>2, <2>3, <2>4 DEF StackOK
<1>9. OncePlaced'
  <2>1. Outstanding' \subseteq Ids' /\ registered' \subseteq Outstanding'
    BY <1>1, <1>6, <1>7 DEF OncePlaced
  <2>2. queue' \in Seq(Completed) /\ \A i, j \in DOMAIN queue' : queue'[i].id = queue'[j].id => i = j
    BY <1>1 DEF OncePlaced
  <2>3. ASSUME NEW k \in DOMAIN st, st[k].do = "drain"
        PROVE  \A i, j \in DOMAIN st[k].batch : st[k].batch[i].id = st[k].batch[j].id => i = j
    <3>1. k \in DOMAIN stack /\ st[k] = stack[k] /\ stack[k].do = "drain"
      BY <1>a, <1>b, <2>3
    <3> QED
      BY <1>1, <3>1 DEF OncePlaced
  <2>4. IdsIn(queue)' = IdsIn(queue) /\ IdsIn(queue) \subseteq Outstanding
    BY DEF Outstanding, IdsIn
  <2>5. tasks' \cap IdsIn(queue) = {}
    BY <1>1, <1>7, <2>4 DEF OncePlaced
  <2>6. ASSUME NEW k \in DOMAIN st
        PROVE  IdsAt(k)' \cap (tasks' \cup IdsIn(queue)) = {}
    <3>1. CASE k \in 1..m
      <4>1. IdsAt(k)' = IdsAt(k) /\ k \in DOMAIN stack
        BY <1>3, <3>1
      <4>2. IdsAt(k) \subseteq Outstanding
        BY <4>1 DEF Outstanding
      <4>3. IdsAt(k) \cap (tasks \cup IdsIn(queue)) = {}
        BY <1>1, <4>1 DEF OncePlaced
      <4> QED
        BY <1>7, <4>1, <4>2, <4>3
    <3>2. CASE k \notin 1..m
      BY <1>3, <3>2
    <3> QED
      BY <3>1, <3>2
  <2>7. ASSUME NEW k \in DOMAIN st, NEW l \in DOMAIN st, k # l
        PROVE  IdsAt(k)' \cap IdsAt(l)' = {}
    <3>1. CASE k \in 1..m /\ l \in 1..m
      <4>1. IdsAt(k)' = IdsAt(k) /\ IdsAt(l)' = IdsAt(l) /\ k \in DOMAIN stack /\ l \in DOMAIN stack
        BY <1>3, <3>1
      <4> QED
        BY <1>1, <2>7, <4>1 DEF OncePlaced
    <3>2. CASE ~(k \in 1..m /\ l \in 1..m)
      BY <1>3, <3>2
    <3> QED
      BY <3>1, <3>2
  <2> QED
    BY <2>1, <2>2, <2>3, <2>4, <2>5, <2>6, <2>7 DEF OncePlaced
<1>10. ~Doing("exit")'
  <2>1. SUFFICES ASSUME st[Len(st)].do = "exit"
                 PROVE  FALSE
    BY DEF Doing, Top, Last
  <2>2. M = 1 /\ m = 1 /\ stack[1].do = "exit"
    <3>1. M \in DOMAIN st /\ M = 1
      BY <1>2, <1>8, <2>1 DEF StackOK
    <3> QED
      BY <1>2, <1>a, <1>b, <2>1, <3>1
  <2>3. L = 2
    BY <1>2, <1>b, <2>2
  <2>4. stack[2].do = "wait"
    BY <1>1, <1>2, <2>2, <2>3 DEF StackOK
  <2> QED
    BY <1>b, <2>2, <2>3, <2>4
<1>11. pending' = Cardinality(Outstanding') + Cardinality(Timers')
  <2>1. /\ IsFiniteSet(Outstanding) /\ Cardinality(Outstanding) \in Nat /\ Cardinality(Timers) \in Nat
    BY <1>1, Countable
  <2>2. CASE UNCHANGED <<registered, pending, tasks>> /\ Outstanding' = Outstanding
    BY <1>1, <1>4, <2>2
  <2>3. CASE n \notin Outstanding /\ pending' = pending + 1 /\ Outstanding' = Outstanding \cup {n}
    <3>1. Cardinality(Outstanding \cup {n}) = Cardinality(Outstanding) + 1
      BY <2>1, <2>3, FS_AddElement
    <3> QED
      BY <1>1, <1>4, <2>1, <2>3, <3>1
  <2> QED
    BY <1>7, <2>2, <2>3
<1> QED
  BY <1>8, <1>9, <1>10, <1>11 DEF AsyncInv, EndMeansIdle

\* A promise is settled while the rest of the call goes on as st.
LEMMA SettleKept ==
    ASSUME AsyncInv, NEW st, NEW m, Moves(st, m), queue' = queue,
           NEW ps, NEW p, NEW ok, Settle(ps, p, ok, st), IsSeq(ps), Len(ps) >= Len(promises),
           \/ UNCHANGED <<registered, pending, tasks>>
           \/ Register(Len(promises) + 1) /\ Len(ps) = Len(promises) + 1
    PROVE  AsyncInv'
<1>1. IsSeq(stack)
  BY DEF AsyncInv, StackOK, Moves
<1>2. IsSeq(promises') /\ Len(promises') = Len(ps)
  BY SettleOK
<1>3. CASE stack' = st
  BY <1>2, <1>3, MovesKeep
<1>4. CASE \E x : Light(x) /\ stack' = Append(st, x)
  <2>1. PICK x : Light(x) /\ stack' = Append(st, x)
    BY <1>4
  <2> PICK q : q = Append(st, x)
    OBVIOUS
  <2>2. Moves(q, m)
    BY <1>1, <2>1, MovesOn
  <2> QED
    BY <1>2, <2>1, <2>2, MovesKeep
<1> QED
  BY <1>3, <1>4, SettleOK

LEMMA PromisesSeq ==
    ASSUME AsyncInv, stack # <<>>
    PROVE  /\ IsSeq(promises) /\ Len(promises) \in Nat /\ IsSeq(stack) /\ StackOK
           /\ \A x : IsSeq(Append(promises, x)) /\ Len(Append(promises, x)) = Len(promises) + 1
BY SeqDomain, PushOn DEF AsyncInv, OncePlaced, StackOK

LEMMA RunFnKept ==
    ASSUME AsyncInv, NEW st, NEW m, Moves(st, m), NEW f, NEW next, RunFn(f, next, st)
    PROVE  AsyncInv'
<1>1. /\ IsSeq(promises) /\ Len(promises) \in Nat /\ IsSeq(stack)
      /\ \A x : IsSeq(Append(promises, x)) /\ Len(Append(promises, x)) = Len(promises) + 1
  BY PromisesSeq DEF Moves
<1>2. CASE /\ Settle(promises, next, f.do = "value", st)
           /\ UNCHANGED <<registered, pending, tasks, queue, panicked>>
  <2> PICK ok : ok = (f.do = "value")
    OBVIOUS
  <2>1. Settle(promises, next, ok, st)
    BY <1>2
  <2> QED
    BY <1>1, <1>2, <2>1, SettleKept
<1>3. CASE Panics
  BY <1>3 DEF Panics, AsyncInv
<1>4. CASE /\ Register(Len(promises) + 1) /\ stack' = st /\ UNCHANGED <<queue, panicked>>
           /\ promises' = Append(promises, [Fresh(0) EXCEPT !.conts =
                              IF next = 0 THEN <<>> ELSE <<[kind |-> "adopt", next |-> next]>>])
  <2>1. IsSeq(promises') /\ Len(promises') = Len(promises) + 1
    BY <1>1, <1>4
  <2> QED
    BY <1>1, <1>4, <2>1, MovesKeep
<1>5. CASE /\ stack' = Append(st, Awaiting(f.p, next, TRUE))
           /\ UNCHANGED <<promises, registered, pending, tasks, queue, panicked>>
  <2> PICK x : x = Awaiting(f.p, next, TRUE)
    OBVIOUS
  <2> PICK q : q = Append(st, x)
    OBVIOUS
  <2>1. Light(x)
    BY DEF Light, Awaiting
  <2>2. Moves(q, m)
    BY <1>1, <2>1, MovesOn
  <2>3. stack' = q /\ IsSeq(promises') /\ Len(promises') >= Len(promises)
    BY <1>1, <1>5
  <2>4. UNCHANGED <<registered, pending, tasks>> /\ queue' = queue
    BY <1>5
  <2> QED
    BY <2>2, <2>3, <2>4, MovesKeep
<1> QED
  BY <1>2, <1>3, <1>4, <1>5 DEF RunFn

LEMMA RunFinallyKept ==
    ASSUME AsyncInv, NEW st, NEW m, Moves(st, m), NEW f, NEW next, NEW ok, RunFinally(f, next, ok, st)
    PROVE  AsyncInv'
<1>1. /\ IsSeq(promises) /\ Len(promises) \in Nat /\ IsSeq(stack)
      /\ \A x : IsSeq(Append(promises, x)) /\ Len(Append(promises, x)) = Len(promises) + 1
  BY PromisesSeq DEF Moves
<1>2. CASE /\ Settle(promises, next, ok /\ f.do = "value", st)
           /\ UNCHANGED <<registered, pending, tasks, queue, panicked>>
  <2> PICK o : o = (ok /\ f.do = "value")
    OBVIOUS
  <2>1. Settle(promises, next, o, st)
    BY <1>2
  <2> QED
    BY <1>1, <1>2, <2>1, SettleKept
<1>3. CASE Panics
  BY <1>3 DEF Panics, AsyncInv
<1>4. CASE /\ Register(Len(promises) + 1) /\ UNCHANGED <<queue, panicked>>
           /\ Settle(Append(promises, Fresh(0)), next, ok, st)
  <2> PICK ps : ps = Append(promises, Fresh(0))
    OBVIOUS
  <2>1. /\ IsSeq(ps) /\ Len(ps) = Len(promises) + 1 /\ Len(ps) >= Len(promises)
        /\ Settle(ps, next, ok, st) /\ queue' = queue /\ Register(Len(promises) + 1)
    BY <1>1, <1>4
  <2> QED
    BY <2>1, SettleKept
<1>5. CASE /\ stack' = Append(st, Awaiting(f.p, next, ok))
           /\ UNCHANGED <<promises, registered, pending, tasks, queue, panicked>>
  <2> PICK x : x = Awaiting(f.p, next, ok)
    OBVIOUS
  <2> PICK q : q = Append(st, x)
    OBVIOUS
  <2>1. Light(x)
    BY DEF Light, Awaiting
  <2>2. Moves(q, m)
    BY <1>1, <2>1, MovesOn
  <2>3. stack' = q /\ IsSeq(promises') /\ Len(promises') >= Len(promises)
    BY <1>1, <1>5
  <2>4. UNCHANGED <<registered, pending, tasks>> /\ queue' = queue
    BY <1>5
  <2> QED
    BY <2>2, <2>3, <2>4, MovesKeep
<1> QED
  BY <1>2, <1>3, <1>4, <1>5 DEF RunFinally

---------------------------------------------------------------------------
(* One lemma for each kind of step. *)
LEMMA ScriptKept ==
    ASSUME AsyncInv, Op, NEW st, Moves(st, Len(stack)), stack' = st, queue' = queue,
           UNCHANGED <<registered, pending, tasks>>,
           promises' = promises \/ \E x : promises' = Append(promises, x)
    PROVE  AsyncInv'
<1>1. /\ IsSeq(promises) /\ Len(promises) \in Nat
      /\ \A x : IsSeq(Append(promises, x)) /\ Len(Append(promises, x)) = Len(promises) + 1
  BY PromisesSeq DEF Moves
<1>2. IsSeq(promises') /\ Len(promises') >= Len(promises)
  <2>1. CASE promises' = promises
    BY <1>1, <2>1
  <2>2. CASE \E x : promises' = Append(promises, x)
    BY <1>1, <2>2
  <2> QED
    BY <2>1, <2>2
<1> PICK m : m = Len(stack)
  OBVIOUS
<1> QED
  BY <1>2, MovesKeep

LEMMA AddContinuationKeeps ==
    ASSUME AsyncInv, NEW p \in Ids, NEW kind, NEW f, AddContinuation(p, kind, f)
    PROVE  AsyncInv'
<1> PICK cont : cont = [kind |-> kind, next |-> Len(promises) + 1, f |-> f]
  OBVIOUS
<1>1. /\ Op /\ UNCHANGED <<registered, pending, tasks, queue>>
      /\ promises' = IF IsPending(p)
                     THEN Append([promises EXCEPT ![p].conts = Append(@, cont)], Fresh(p))
                     ELSE Append(promises, Fresh(p))
      /\ stack' = IF IsPending(p) THEN stack
                  ELSE Append(stack, [do |-> "settle", conts |-> <<cont>>,
                                      ok |-> promises[p].state = "fulfilled"])
  BY DEF AddContinuation
<1>2. stack # <<>> /\ Top.do = "script"
  BY <1>1 DEF Op, Doing
<1>3. /\ IsSeq(promises) /\ Len(promises) \in Nat /\ IsSeq(stack) /\ StackOK
  BY <1>2, PromisesSeq
<1> PICK m : m = Len(stack)
  OBVIOUS
<1>4. Moves(stack, m)
  BY <1>2, <1>3, MovesStay
<1>5. IsSeq(promises') /\ Len(promises') = Len(promises) + 1
  <2> DEFINE ps == [promises EXCEPT ![p].conts = Append(@, cont)]
  <2>1. IsSeq(ps) /\ Len(ps) = Len(promises)
    <3>1. ps = [i \in 1..Len(promises) |-> ps[i]]
      BY <1>3, SeqDomain
    <3> HIDE DEF ps
    <3> QED
      BY <1>3, <3>1, SeqFrom
  <2> HIDE DEF ps
  <2>2. promises' = IF IsPending(p) THEN Append(ps, Fresh(p)) ELSE Append(promises, Fresh(p))
    BY <1>1 DEF ps
  <2> QED
    BY <1>3, <2>1, <2>2, PushOn
<1>a. IsSeq(promises') /\ Len(promises') >= Len(promises)
  BY <1>3, <1>5
<1>6. CASE IsPending(p)
  <2>1. stack' = stack
    BY <1>1, <1>6
  <2> QED
    BY <1>1, <1>4, <1>a, <2>1, MovesKeep
<1>7. CASE ~IsPending(p)
  <2> PICK x : x = [do |-> "settle", conts |-> <<cont>>, ok |-> promises[p].state = "fulfilled"]
    OBVIOUS
  <2> PICK q : q = Append(stack, x)
    OBVIOUS
  <2>1. Light(x)
    BY DEF Light
  <2>2. Moves(q, m)
    BY <1>3, <1>4, <2>1, MovesOn
  <2>3. stack' = q
    BY <1>1, <1>7
  <2> QED
    BY <1>1, <1>a, <2>2, <2>3, MovesKeep
<1> QED
  BY <1>6, <1>7

\* RunContinuation, SettleReturns, AwaitWaits, AwaitReturns, CombineNext and
\* TimerRuns move only the top of the stack.
LEMMA CallKeeps ==
    ASSUME AsyncInv,
           RunContinuation \/ SettleReturns \/ AwaitWaits \/ AwaitReturns \/ CombineNext \/ TimerRuns
    PROVE  AsyncInv'
<1>1. stack # <<>> /\ Top.do \in {"settle", "await", "combine", "timer"}
  BY DEF RunContinuation, SettleReturns, AwaitWaits, AwaitReturns, CombineNext, TimerRuns, Doing
<1>2. /\ IsSeq(promises) /\ Len(promises) \in Nat /\ IsSeq(stack) /\ StackOK
  BY <1>1, PromisesSeq
<1>3. "do" \in DOMAIN Top
  BY <1>1, <1>2, PopOf DEF StackOK, Top
<1> PICK L : L = Len(stack)
  OBVIOUS
<1>4. ASSUME NEW x, "do" \in DOMAIN x, x.do = Top.do
      PROVE  Moves(Append(Below, x), L)
  BY <1>1, <1>2, <1>4, MovesTop
<1>5. Top.do # "timer" => Moves(Below, L - 1)
  BY <1>1, <1>2, MovesPop
<1>6. CASE RunContinuation
  <2> PICK x : x = [Top EXCEPT !.conts = Tail(@)]
    OBVIOUS
  <2> PICK st : st = Append(Below, x)
    OBVIOUS
  <2> PICK c : c = Head(Top.conts)
    OBVIOUS
  <2> PICK ok : ok = Top.ok
    OBVIOUS
  <2>1. Moves(st, L)
    BY <1>3, <1>4
  <2>2. \/ /\ Settle(promises, c.next, ok, st)
           /\ UNCHANGED <<registered, pending, tasks, queue, panicked>>
        \/ RunFinally(c.f, c.next, ok, st)
        \/ RunFn(c.f, c.next, st)
    BY <1>6 DEF RunContinuation
  <2>3. CASE /\ Settle(promises, c.next, ok, st)
             /\ UNCHANGED <<registered, pending, tasks, queue, panicked>>
    BY <1>2, <2>1, <2>3, SettleKept
  <2>4. CASE RunFinally(c.f, c.next, ok, st)
    BY <2>1, <2>4, RunFinallyKept
  <2>5. CASE RunFn(c.f, c.next, st)
    BY <2>1, <2>5, RunFnKept
  <2> QED
    BY <2>2, <2>3, <2>4, <2>5
<1>7. CASE SettleReturns
  <2>1. /\ stack' = Below /\ queue' = queue /\ IsSeq(promises') /\ Len(promises') >= Len(promises)
        /\ UNCHANGED <<registered, pending, tasks>> /\ Top.do = "settle"
    BY <1>2, <1>7 DEF SettleReturns, Doing
  <2> QED
    BY <1>5, <2>1, MovesKeep
<1>8. CASE AwaitWaits
  <2> PICK x : x = [Top EXCEPT !.waited = TRUE]
    OBVIOUS
  <2> PICK q : q = Append(Below, x)
    OBVIOUS
  <2> PICK st : st = Append(q, Frame("wait"))
    OBVIOUS
  <2>1. Moves(q, L)
    BY <1>3, <1>4
  <2>2. Light(Frame("wait"))
    BY DEF Light, Frame
  <2>3. Moves(st, L)
    BY <1>2, <2>1, <2>2, MovesOn
  <2>4. stack' = st
    BY <1>8 DEF AwaitWaits
  <2>5. /\ queue' = queue /\ IsSeq(promises') /\ Len(promises') >= Len(promises)
        /\ UNCHANGED <<registered, pending, tasks>>
    BY <1>2, <1>8 DEF AwaitWaits
  <2> QED
    BY <2>3, <2>4, <2>5, MovesKeep
<1>9. CASE AwaitReturns
  <2> PICK ok : ok = (Top.ok /\ promises[Top.p].state = "fulfilled")
    OBVIOUS
  <2>1. /\ Settle(promises, Top.next, ok, Below) /\ queue' = queue /\ Top.do = "await"
        /\ UNCHANGED <<registered, pending, tasks>> /\ Len(promises) >= Len(promises)
    BY <1>2, <1>9 DEF AwaitReturns, Doing
  <2> QED
    BY <1>2, <1>5, <2>1, SettleKept
<1>10. CASE CombineNext
  <2> PICK ok : ok = (promises[Head(Top.left)].state = "fulfilled" \/ Top.kind = "allSettled")
    OBVIOUS
  <2> PICK x : x = [Top EXCEPT !.left = Tail(@)]
    OBVIOUS
  <2> PICK q : q = Append(Below, x)
    OBVIOUS
  <2>1. /\ queue' = queue /\ Top.do = "combine" /\ UNCHANGED <<registered, pending, tasks>>
        /\ Settle(promises, Top.next, ok, Below) \/ (stack' = q /\ promises' = promises)
    BY <1>10 DEF CombineNext, Doing
  <2>2. CASE Settle(promises, Top.next, ok, Below)
    <3>1. Len(promises) >= Len(promises)
      BY <1>2
    <3> QED
      BY <1>2, <1>5, <2>1, <2>2, <3>1, SettleKept
  <2>3. CASE stack' = q /\ promises' = promises
    <3>1. Moves(q, L)
      BY <1>3, <1>4
    <3>2. IsSeq(promises') /\ Len(promises') >= Len(promises)
      BY <1>2, <2>3
    <3> QED
      BY <2>1, <2>3, <3>1, <3>2, MovesKeep
  <2> QED
    BY <2>1, <2>2, <2>3
<1>11. CASE TimerRuns
  <2> PICK x : x = [Top EXCEPT !.left = Tail(@)]
    OBVIOUS
  <2> PICK st : st = Append(Below, x)
    OBVIOUS
  <2>1. Moves(st, L)
    BY <1>3, <1>4
  <2>2. RunFn(Head(Top.left), 0, st)
    BY <1>11 DEF TimerRuns
  <2> QED
    BY <2>1, <2>2, RunFnKept
<1> QED
  BY <1>6, <1>7, <1>8, <1>9, <1>10, <1>11

\* A call of the script that neither counts nor uncounts anything, or that
\* registers a promise.
LEMMA OpKeeps ==
    ASSUME AsyncInv,
           \/ RequestAsync \/ PromiseConstructor
           \/ \E p \in Ids : Await(p)
           \/ \E p, q \in Ids, kind \in {"all", "allSettled", "race"} : Combine(kind, <<p, q>>)
    PROVE  AsyncInv'
<1>1. stack # <<>> /\ Top.do = "script" /\ Op
  BY DEF RequestAsync, PromiseConstructor, Await, Combine, Op, Doing
<1>2. /\ IsSeq(promises) /\ Len(promises) \in Nat /\ IsSeq(stack) /\ StackOK
      /\ \A x : IsSeq(Append(promises, x)) /\ Len(Append(promises, x)) = Len(promises) + 1
  BY <1>1, PromisesSeq
<1> PICK L : L = Len(stack)
  OBVIOUS
<1>3. Moves(stack, L)
  BY <1>1, <1>2, MovesStay
<1>4. ASSUME NEW x, Light(x)
      PROVE  Moves(Append(stack, x), L)
  BY <1>2, <1>3, <1>4, MovesOn
<1>5. CASE RequestAsync
  <2>1. /\ Register(Len(promises) + 1) /\ IsSeq(promises') /\ Len(promises') = Len(promises) + 1
        /\ Len(promises') >= Len(promises) /\ stack' = stack /\ queue' = queue
    BY <1>2, <1>5 DEF RequestAsync
  <2> QED
    BY <1>3, <2>1, MovesKeep
<1>6. CASE PromiseConstructor
  <2>1. PICK x : promises' = Append(promises, x)
    BY <1>6 DEF PromiseConstructor
  <2>2. /\ IsSeq(promises') /\ Len(promises') >= Len(promises) /\ stack' = stack /\ queue' = queue
        /\ UNCHANGED <<registered, pending, tasks>>
    BY <1>2, <1>6, <2>1 DEF PromiseConstructor
  <2> QED
    BY <1>3, <2>2, MovesKeep
<1>7. ASSUME NEW p \in Ids, Await(p)
      PROVE  AsyncInv'
  <2> PICK x : x = Awaiting(p, 0, TRUE)
    OBVIOUS
  <2> PICK q : q = Append(stack, x)
    OBVIOUS
  <2>1. Moves(q, L)
    BY <1>4 DEF Light, Awaiting
  <2>2. /\ IsSeq(promises') /\ Len(promises') >= Len(promises) /\ stack' = q /\ queue' = queue
        /\ UNCHANGED <<registered, pending, tasks>>
    BY <1>2, <1>7 DEF Await
  <2> QED
    BY <2>1, <2>2, MovesKeep
<1>8. ASSUME NEW kind, NEW ps, Combine(kind, ps)
      PROVE  AsyncInv'
  <2> PICK x : x = [do |-> "combine", kind |-> kind, left |-> ps, next |-> Len(promises) + 1]
    OBVIOUS
  <2> PICK q : q = Append(stack, x)
    OBVIOUS
  <2>1. Light(x)
    BY DEF Light
  <2>2. Moves(q, L)
    BY <1>4, <2>1
  <2>3. /\ IsSeq(promises') /\ Len(promises') >= Len(promises) /\ stack' = q /\ queue' = queue
        /\ UNCHANGED <<registered, pending, tasks>>
    BY <1>2, <1>8 DEF Combine
  <2> QED
    BY <2>2, <2>3, MovesKeep
<1> QED
  BY <1>5, <1>6, <1>7, <1>8

\* A frame is put on the stack, taken from it, or replaced on top of it.
LEMMA Pushed ==
    ASSUME StackOK, NEW x, stack' = Append(stack, x)
    PROVE  LET n == Len(stack) + 1
           IN  /\ IsSeq(stack') /\ DOMAIN stack' = DOMAIN stack \cup {n} /\ n \notin DOMAIN stack
               /\ \A k \in DOMAIN stack : stack'[k] = stack[k]
               /\ stack'[n] = x /\ n \in Nat /\ Last(stack') = x
               /\ DOMAIN stack = 1..Len(stack) /\ Len(stack) \in Nat
BY PushOn, SeqDomain DEF StackOK

LEMMA Popped ==
    ASSUME StackOK, stack # <<>>, stack' = Below
    PROVE  LET n == Len(stack)
           IN  /\ IsSeq(stack') /\ DOMAIN stack' = DOMAIN stack \ {n} /\ n \in DOMAIN stack
               /\ \A k \in DOMAIN stack' : stack'[k] = stack[k]
               /\ stack[n] = Top /\ DOMAIN stack = 1..Len(stack) /\ n \in Nat \ {0}
               /\ (stack' # <<>> => Len(stack') = n - 1 /\ n > 1 /\ Last(stack') = stack[n - 1])
<1>1. /\ IsSeq(stack') /\ Len(stack') = Len(stack) - 1 /\ DOMAIN stack' = 1..(Len(stack) - 1)
      /\ \A k \in 1..(Len(stack) - 1) : stack'[k] = stack[k]
      /\ Len(stack) \in Nat \ {0} /\ Top = stack[Len(stack)] /\ DOMAIN stack = 1..Len(stack)
  BY PopOf, SeqDomain DEF StackOK, Below, Top
<1>2. stack' # <<>> => Len(stack') >= 1
  BY <1>1, SeqDomain
<1> QED
  BY <1>1, <1>2 DEF Last

LEMMA Replaced ==
    ASSUME StackOK, stack # <<>>, NEW x, stack' = Append(Below, x)
    PROVE  LET n == Len(stack)
           IN  /\ IsSeq(stack') /\ DOMAIN stack' = DOMAIN stack /\ n \in DOMAIN stack
               /\ \A k \in DOMAIN stack \ {n} : stack'[k] = stack[k]
               /\ stack'[n] = x /\ stack[n] = Top /\ DOMAIN stack = 1..Len(stack)
               /\ n \in Nat \ {0} /\ Last(stack') = x
<1>1. /\ IsSeq(Below) /\ Len(Below) = Len(stack) - 1
      /\ \A k \in 1..(Len(stack) - 1) : Below[k] = stack[k]
      /\ Len(stack) \in Nat \ {0} /\ Top = stack[Len(stack)] /\ DOMAIN stack = 1..Len(stack)
  BY PopOf, SeqDomain DEF StackOK, Below, Top
<1>2. /\ IsSeq(stack') /\ Len(stack') = Len(stack) /\ DOMAIN stack' = 1..Len(stack)
      /\ \A k \in 1..(Len(stack) - 1) : stack'[k] = Below[k]
      /\ stack'[Len(stack)] = x /\ Last(stack') = x
  BY <1>1, PushOn
<1> QED
  BY <1>1, <1>2

\* No completion moves.
LEMMA SamePlaces ==
    ASSUME OncePlaced, UNCHANGED <<promises, queue, tasks>>, registered' \subseteq registered,
           \A k \in DOMAIN stack' : \/ IdsAt(k)' = {}
                                    \/ k \in DOMAIN stack /\ IdsAt(k)' = IdsAt(k),
           \A k \in DOMAIN stack : \/ IdsAt(k) = {}
                                   \/ k \in DOMAIN stack' /\ IdsAt(k)' = IdsAt(k),
           registered' \subseteq Outstanding,
           \A k \in DOMAIN stack' : stack'[k].do = "drain" =>
              \A i, j \in DOMAIN stack'[k].batch : stack'[k].batch[i].id = stack'[k].batch[j].id => i = j
    PROVE  OncePlaced' /\ Outstanding' = Outstanding
<1>1. IdsIn(queue)' = IdsIn(queue) /\ Ids' = Ids
  BY DEF IdsIn, Ids
<1>2. (UNION {IdsAt(k) : k \in DOMAIN stack})' = UNION {IdsAt(k) : k \in DOMAIN stack}
  <2>1. \A x : (\E k \in DOMAIN stack' : x \in IdsAt(k)') <=> (\E k \in DOMAIN stack : x \in IdsAt(k))
    OBVIOUS
  <2> QED
    BY <2>1
<1>3. Outstanding' = Outstanding
  BY <1>1, <1>2 DEF Outstanding
<1>4. \A k \in DOMAIN stack' : IdsAt(k)' \cap (tasks' \cup IdsIn(queue)') = {}
  BY <1>1 DEF OncePlaced
<1>5. \A k, l \in DOMAIN stack' : k # l => IdsAt(k)' \cap IdsAt(l)' = {}
  BY DEF OncePlaced
<1> QED
  BY <1>1, <1>3, <1>4, <1>5 DEF OncePlaced

\* setTimeout and setInterval count one, and count it back.
LEMMA SetTimerKeeps ==
    ASSUME AsyncInv, NEW f, NEW ticks, SetTimer(f, ticks)
    PROVE  AsyncInv'
<1> PICK x : x = [do |-> "timer", left |-> [i \in 1..ticks |-> f]]
  OBVIOUS
<1> PICK n : n = Len(stack) + 1
  OBVIOUS
<1>1. /\ stack # <<>> /\ Top.do = "script" /\ stack' = Append(stack, x) /\ pending' = pending + 1
      /\ UNCHANGED <<promises, registered, tasks, queue>>
  BY DEF SetTimer, Op, Doing
<1>2. StackOK /\ OncePlaced /\ pending = Cardinality(Outstanding) + Cardinality(Timers)
  BY <1>1 DEF AsyncInv
<1>3. /\ IsSeq(stack') /\ DOMAIN stack' = DOMAIN stack \cup {n} /\ n \notin DOMAIN stack
      /\ \A k \in DOMAIN stack : stack'[k] = stack[k]
      /\ stack'[n] = x /\ n \in Nat /\ Last(stack') = x /\ DOMAIN stack = 1..Len(stack)
      /\ Len(stack) \in Nat
  BY <1>1, <1>2, Pushed
<1>4. x.do = "timer" /\ "do" \in DOMAIN x
  OBVIOUS
<1>5. \A k \in DOMAIN stack : IdsAt(k)' = IdsAt(k)
  BY <1>3 DEF IdsAt
<1>6. IdsAt(n)' = {}
  BY <1>3, <1>4 DEF IdsAt
<1>7. OncePlaced' /\ Outstanding' = Outstanding
  BY <1>1, <1>2, <1>3, <1>4, <1>5, <1>6, SamePlaces DEF OncePlaced
<1>8. Timers' = Timers \cup {n} /\ n \notin Timers
  BY <1>3, <1>4 DEF Timers
<1>9. StackOK'
  <2>1. stack[Len(stack)].do = "script" /\ Len(stack) \in DOMAIN stack /\ Len(stack) = 1
    <3>1. Len(stack) \in DOMAIN stack /\ stack[Len(stack)].do = "script"
      BY <1>1, <1>2, <1>3, PopOf DEF Top, StackOK
    <3> QED
      BY <1>2, <3>1 DEF StackOK
  <2> QED
    BY <1>1, <1>2, <1>3, <1>4, <2>1 DEF StackOK
<1>10. pending' = Cardinality(Outstanding') + Cardinality(Timers')
  <2>1. IsFiniteSet(Timers) /\ Cardinality(Timers) \in Nat /\ Cardinality(Outstanding) \in Nat
    BY <1>2, Countable
  <2>2. Cardinality(Timers \cup {n}) = Cardinality(Timers) + 1
    BY <1>8, <2>1, FS_AddElement
  <2> QED
    BY <1>1, <1>2, <1>7, <1>8, <2>1, <2>2
<1>11. ~Doing("exit")'
  BY <1>3, <1>4 DEF Doing, Top
<1> QED
  BY <1>7, <1>9, <1>10, <1>11 DEF AsyncInv, EndMeansIdle

LEMMA TimerReturnsKeeps ==
    ASSUME AsyncInv, TimerReturns
    PROVE  AsyncInv'
<1> SUFFICES ASSUME stack' # <<>>
             PROVE  AsyncInv'
  BY DEF AsyncInv
<1> PICK n : n = Len(stack)
  OBVIOUS
<1>1. /\ stack # <<>> /\ Top.do = "timer" /\ stack' = Below /\ pending' = pending - 1
      /\ UNCHANGED <<promises, registered, tasks, queue>>
  BY DEF TimerReturns, Doing
<1>2. StackOK /\ OncePlaced /\ pending = Cardinality(Outstanding) + Cardinality(Timers)
  BY <1>1 DEF AsyncInv
<1>3. /\ IsSeq(stack') /\ DOMAIN stack' = DOMAIN stack \ {n} /\ n \in DOMAIN stack
      /\ \A k \in DOMAIN stack' : stack'[k] = stack[k]
      /\ stack[n] = Top /\ n \in Nat \ {0} /\ DOMAIN stack = 1..n
      /\ n > 1 /\ Last(stack') = stack[n - 1]
  BY <1>1, <1>2, Popped
<1>4. \A k \in DOMAIN stack' : k \in DOMAIN stack /\ IdsAt(k)' = IdsAt(k)
  BY <1>3 DEF IdsAt
<1>5. IdsAt(n) = {}
  BY <1>1, <1>3 DEF IdsAt
<1>6. OncePlaced' /\ Outstanding' = Outstanding
  BY <1>1, <1>2, <1>3, <1>4, <1>5, SamePlaces DEF OncePlaced
<1>7. Timers' = Timers \ {n} /\ n \in Timers
  BY <1>1, <1>3 DEF Timers
<1>8. StackOK'
  BY <1>1, <1>2, <1>3 DEF StackOK
<1>9. pending' = Cardinality(Outstanding') + Cardinality(Timers')
  <2>1. IsFiniteSet(Timers) /\ Cardinality(Timers) \in Nat /\ Cardinality(Outstanding) \in Nat
    BY <1>2, Countable
  <2>2. Cardinality(Timers \ {n}) = Cardinality(Timers) - 1
    BY <1>7, <2>1, FS_RemoveElement
  <2> QED
    BY <1>1, <1>2, <1>6, <1>7, <2>1, <2>2
<1>10. ~Doing("exit")'
  <2>1. SUFFICES ASSUME stack[n - 1].do = "exit"
                 PROVE  FALSE
    BY <1>3 DEF Doing, Top
  <2> PICK j : j = n - 1
    OBVIOUS
  <2>2. j \in DOMAIN stack /\ stack[j].do = "exit"
    BY <1>3, <2>1
  <2>3. j = 1
    BY <1>2, <2>2 DEF StackOK
  <2>4. n = 2 /\ stack[1].do = "exit" /\ stack[2].do = "timer" /\ 2 \in DOMAIN stack
    BY <1>1, <1>3, <2>2, <2>3
  <2> QED
    BY <1>2, <2>4 DEF StackOK
<1> QED
  BY <1>6, <1>8, <1>9, <1>10 DEF AsyncInv, EndMeansIdle

\* A wait is over: when nothing is outstanding, or at the deadline.
LEMMA WaitReturnsKeeps ==
    ASSUME AsyncInv, WaitReturns
    PROVE  AsyncInv'
<1> SUFFICES ASSUME stack' # <<>>
             PROVE  AsyncInv'
  BY DEF AsyncInv
<1> PICK n : n = Len(stack)
  OBVIOUS
<1>1. /\ stack # <<>> /\ Top.do = "wait" /\ stack' = Below /\ (pending = 0 \/ expired)
      /\ UNCHANGED <<promises, registered, pending, tasks, queue, expired>>
  BY DEF WaitReturns, Doing
<1>2. StackOK /\ OncePlaced /\ pending = Cardinality(Outstanding) + Cardinality(Timers)
  BY <1>1 DEF AsyncInv
<1>3. /\ IsSeq(stack') /\ DOMAIN stack' = DOMAIN stack \ {n} /\ n \in DOMAIN stack
      /\ \A k \in DOMAIN stack' : stack'[k] = stack[k]
      /\ stack[n] = Top /\ n \in Nat \ {0} /\ DOMAIN stack = 1..n
      /\ n > 1 /\ Last(stack') = stack[n - 1]
  BY <1>1, <1>2, Popped
<1>4. \A k \in DOMAIN stack' : k \in DOMAIN stack /\ IdsAt(k)' = IdsAt(k)
  BY <1>3 DEF IdsAt
<1>5. IdsAt(n) = {}
  BY <1>1, <1>3 DEF IdsAt
<1>6. OncePlaced' /\ Outstanding' = Outstanding
  BY <1>1, <1>2, <1>3, <1>4, <1>5, SamePlaces DEF OncePlaced
<1>7. Timers' = Timers
  BY <1>1, <1>3 DEF Timers
<1>8. StackOK'
  BY <1>1, <1>2, <1>3 DEF StackOK
<1>9. EndMeansIdle'
  <2>1. /\ IsFiniteSet(Outstanding) /\ Cardinality(Outstanding) \in Nat /\ Cardinality(Timers) \in Nat
    BY <1>2, Countable
  <2>2. pending = 0 => Outstanding = {}
    BY <1>2, <2>1, FS_EmptySet
  <2>3. Outstanding = {} => registered = {} /\ tasks = {} /\ queue = <<>>
    <3>1. queue # <<>> => 1 \in DOMAIN queue
      BY <1>2 DEF OncePlaced
    <3>2. \A i \in DOMAIN queue : queue[i].id \in Outstanding
      BY DEF Outstanding, IdsIn
    <3>3. tasks \subseteq Outstanding /\ registered \subseteq Outstanding
      BY <1>2 DEF OncePlaced, Outstanding
    <3> QED
      BY <3>1, <3>2, <3>3
  <2> QED
    BY <1>1, <2>2, <2>3 DEF EndMeansIdle
<1> QED
  BY <1>1, <1>2, <1>6, <1>7, <1>8, <1>9 DEF AsyncInv

\* The script is over: nothing but the script was on the stack.
LEMMA ScriptEndsKeeps ==
    ASSUME AsyncInv, ScriptEnds
    PROVE  AsyncInv'
<1>1. /\ stack # <<>> /\ Top.do = "script" /\ stack' = <<Frame("exit"), Frame("wait")>>
      /\ UNCHANGED <<promises, registered, pending, tasks, queue>>
  BY DEF ScriptEnds, Doing
<1>2. StackOK /\ OncePlaced /\ pending = Cardinality(Outstanding) + Cardinality(Timers)
  BY <1>1 DEF AsyncInv
<1>3. DOMAIN stack = {1} /\ stack[1].do = "script"
  <2>1. DOMAIN stack = 1..Len(stack) /\ Len(stack) \in Nat \ {0} /\ stack[Len(stack)].do = "script"
    BY <1>1, <1>2, PopOf, SeqDomain DEF Top, StackOK
  <2>2. Len(stack) = 1
    BY <1>2, <2>1 DEF StackOK
  <2> QED
    BY <2>1, <2>2
<1>4. /\ IsSeq(stack') /\ DOMAIN stack' = {1, 2} /\ stack'[1] = Frame("exit") /\ stack'[2] = Frame("wait")
      /\ Last(stack') = Frame("wait")
  <2> PICK e, w : e = Frame("exit") /\ w = Frame("wait")
    OBVIOUS
  <2>1. stack' = <<e, w>>
    BY <1>1
  <2>2. /\ <<e, w>> \in Seq({e, w}) /\ Len(<<e, w>>) = 2 /\ DOMAIN <<e, w>> = {1, 2}
        /\ <<e, w>>[1] = e /\ <<e, w>>[2] = w
    OBVIOUS
  <2>3. IsSeq(<<e, w>>)
    BY <2>2, AnySeq
  <2> QED
    BY <2>1, <2>2, <2>3 DEF Last
<1>5. Frame("exit").do = "exit" /\ Frame("wait").do = "wait"
      /\ "do" \in DOMAIN Frame("exit") /\ "do" \in DOMAIN Frame("wait")
  BY DEF Frame
<1>6. IdsAt(1) = {} /\ \A k \in {1, 2} : IdsAt(k)' = {}
  BY <1>3, <1>4, <1>5 DEF IdsAt
<1>7. OncePlaced' /\ Outstanding' = Outstanding
  BY <1>1, <1>2, <1>3, <1>4, <1>5, <1>6, SamePlaces DEF OncePlaced
<1>8. Timers = {} /\ Timers' = {}
  BY <1>3, <1>4, <1>5 DEF Timers
<1>9. StackOK'
  BY <1>4, <1>5 DEF StackOK
<1>10. ~Doing("exit")'
  BY <1>4, <1>5 DEF Doing, Top
<1> QED
  BY <1>1, <1>2, <1>7, <1>8, <1>9, <1>10 DEF AsyncInv, EndMeansIdle

\* wait_async takes the queue, and drains it.
LEMMA WaitDrainsKeeps ==
    ASSUME AsyncInv, WaitDrains
    PROVE  AsyncInv'
<1> PICK x : x = [do |-> "drain", batch |-> queue, busy |-> FALSE]
  OBVIOUS
<1> PICK n : n = Len(stack) + 1
  OBVIOUS
<1>1. /\ stack # <<>> /\ Top.do = "wait" /\ stack' = Append(stack, x) /\ queue' = <<>>
      /\ UNCHANGED <<promises, registered, pending, tasks>>
  BY DEF WaitDrains, Doing
<1>2. StackOK /\ OncePlaced /\ pending = Cardinality(Outstanding) + Cardinality(Timers)
  BY <1>1 DEF AsyncInv
<1>3. /\ IsSeq(stack') /\ DOMAIN stack' = DOMAIN stack \cup {n} /\ n \notin DOMAIN stack
      /\ \A k \in DOMAIN stack : stack'[k] = stack[k]
      /\ stack'[n] = x /\ n \in Nat /\ Last(stack') = x /\ DOMAIN stack = 1..Len(stack)
      /\ Len(stack) \in Nat
  BY <1>1, <1>2, Pushed
<1>4. x.do = "drain" /\ "do" \in DOMAIN x /\ x.batch = queue /\ ~x.busy
      /\ x \in [do : {"drain"}, batch : Seq(Completed), busy : BOOLEAN]
  BY <1>2 DEF OncePlaced
<1>5. \A k \in DOMAIN stack : IdsAt(k)' = IdsAt(k)
  BY <1>3 DEF IdsAt
<1>6. IdsAt(n)' = IdsIn(queue) /\ IdsIn(queue)' = {}
  BY <1>1, <1>3, <1>4 DEF IdsAt, IdsIn
<1>7. Outstanding' = Outstanding
  <2>1. \A y : (\E k \in DOMAIN stack' : y \in IdsAt(k)')
                 <=> (y \in IdsIn(queue) \/ \E k \in DOMAIN stack : y \in IdsAt(k))
    BY <1>3, <1>5, <1>6
  <2>2. (UNION {IdsAt(k) : k \in DOMAIN stack})' = IdsIn(queue) \cup UNION {IdsAt(k) : k \in DOMAIN stack}
    BY <2>1
  <2> QED
    BY <1>1, <1>6, <2>2 DEF Outstanding
<1>8. OncePlaced'
  <2>1. Ids' = Ids /\ queue' \in Seq(Completed) /\ IsSeq(promises')
        /\ \A i, j \in DOMAIN queue' : queue'[i].id = queue'[j].id => i = j
    BY <1>1, <1>2 DEF Ids, OncePlaced
  <2>2. \A k \in DOMAIN stack' : stack'[k].do = "drain" =>
           \A i, j \in DOMAIN stack'[k].batch : stack'[k].batch[i].id = stack'[k].batch[j].id => i = j
    BY <1>2, <1>3, <1>4 DEF OncePlaced
  <2>3. \A k \in DOMAIN stack' : IdsAt(k)' \cap (tasks' \cup IdsIn(queue)') = {}
    BY <1>1, <1>2, <1>3, <1>5, <1>6 DEF OncePlaced
  <2>4. \A k, l \in DOMAIN stack' : k # l => IdsAt(k)' \cap IdsAt(l)' = {}
    BY <1>2, <1>3, <1>5, <1>6 DEF OncePlaced
  <2>5. tasks' \cap IdsIn(queue)' = {} /\ Outstanding' \subseteq Ids' /\ registered' \subseteq Outstanding'
    BY <1>1, <1>2, <1>6, <1>7, <2>1 DEF OncePlaced
  <2> QED
    BY <2>1, <2>2, <2>3, <2>4, <2>5 DEF OncePlaced
<1>9. Timers' = Timers
  BY <1>3, <1>4 DEF Timers
<1>10. StackOK'
  <2>1. 2 \in DOMAIN stack' /\ stack'[1].do = "exit" => stack'[2].do = "wait"
    <3>1. SUFFICES ASSUME n = 2
                   PROVE  stack'[1].do # "exit"
      BY <1>2, <1>3 DEF StackOK
    <3>2. stack'[1].do = "wait"
      BY <1>1, <1>2, <1>3, <3>1, PopOf DEF Top, StackOK
    <3> QED
      BY <3>2
  <2> QED
    BY <1>1, <1>2, <1>3, <1>4, <2>1 DEF StackOK
<1>11. ~Doing("exit")'
  BY <1>3, <1>4 DEF Doing, Top
<1> QED
  BY <1>1, <1>2, <1>7, <1>8, <1>9, <1>10, <1>11 DEF AsyncInv, EndMeansIdle

LEMMA DrainReturnsKeeps ==
    ASSUME AsyncInv, DrainReturns
    PROVE  AsyncInv'
<1> SUFFICES ASSUME stack' # <<>>
             PROVE  AsyncInv'
  BY DEF AsyncInv
<1> PICK n : n = Len(stack)
  OBVIOUS
<1>1. /\ stack # <<>> /\ Top.do = "drain" /\ Top.batch = <<>> /\ stack' = Below
      /\ UNCHANGED <<promises, registered, pending, tasks, queue>>
  BY DEF DrainReturns, Doing
<1>2. StackOK /\ OncePlaced /\ pending = Cardinality(Outstanding) + Cardinality(Timers)
  BY <1>1 DEF AsyncInv
<1>3. /\ IsSeq(stack') /\ DOMAIN stack' = DOMAIN stack \ {n} /\ n \in DOMAIN stack
      /\ \A k \in DOMAIN stack' : stack'[k] = stack[k]
      /\ stack[n] = Top /\ n \in Nat \ {0} /\ DOMAIN stack = 1..n
      /\ n > 1 /\ Last(stack') = stack[n - 1]
  BY <1>1, <1>2, Popped
<1>4. \A k \in DOMAIN stack' : k \in DOMAIN stack /\ IdsAt(k)' = IdsAt(k)
  BY <1>3 DEF IdsAt
<1>5. IdsAt(n) = {}
  BY <1>1, <1>3 DEF IdsAt, IdsIn
<1>6. OncePlaced' /\ Outstanding' = Outstanding
  BY <1>1, <1>2, <1>3, <1>4, <1>5, SamePlaces DEF OncePlaced
<1>7. Timers' = Timers
  BY <1>1, <1>3 DEF Timers
<1>8. StackOK'
  BY <1>1, <1>2, <1>3 DEF StackOK
<1>9. ~Doing("exit")'
  <2>1. SUFFICES ASSUME stack[n - 1].do = "exit"
                 PROVE  FALSE
    BY <1>3 DEF Doing, Top
  <2> PICK j : j = n - 1
    OBVIOUS
  <2>2. j \in DOMAIN stack /\ stack[j].do = "exit"
    BY <1>3, <2>1
  <2>3. j = 1
    BY <1>2, <2>2 DEF StackOK
  <2>4. n = 2 /\ stack[1].do = "exit" /\ stack[2].do = "drain" /\ 2 \in DOMAIN stack
    BY <1>1, <1>3, <2>2, <2>3
  <2> QED
    BY <1>2, <2>4 DEF StackOK
<1> QED
  BY <1>1, <1>2, <1>6, <1>7, <1>8, <1>9 DEF AsyncInv, EndMeansIdle

\* A completion is counted once its handlers have run.
LEMMA DrainCountsKeeps ==
    ASSUME AsyncInv, DrainCounts
    PROVE  AsyncInv'
<1> PICK x : x = [Top EXCEPT !.busy = FALSE, !.batch = Tail(@)]
  OBVIOUS
<1> PICK n : n = Len(stack)
  OBVIOUS
<1> PICK B : B = Top.batch
  OBVIOUS
<1> PICK r : r = B[1].id
  OBVIOUS
<1>1. /\ stack # <<>> /\ Top.do = "drain" /\ Top.busy /\ stack' = Append(Below, x)
      /\ pending' = IF pending > 0 THEN pending - 1 ELSE 0
      /\ UNCHANGED <<promises, registered, tasks, queue>>
  BY DEF DrainCounts, Doing
<1>2. StackOK /\ OncePlaced /\ pending = Cardinality(Outstanding) + Cardinality(Timers)
  BY <1>1 DEF AsyncInv
<1>3. /\ IsSeq(stack') /\ DOMAIN stack' = DOMAIN stack /\ n \in DOMAIN stack
      /\ \A k \in DOMAIN stack \ {n} : stack'[k] = stack[k]
      /\ stack'[n] = x /\ stack[n] = Top /\ DOMAIN stack = 1..n /\ n \in Nat \ {0}
      /\ Last(stack') = x
  BY <1>1, <1>2, Replaced
<1>4. /\ Top \in [do : {"drain"}, batch : Seq(Completed), busy : BOOLEAN]
      /\ B \in Seq(Completed) /\ B # <<>> /\ r \notin registered
      /\ \A i, j \in DOMAIN B : B[i].id = B[j].id => i = j
  BY <1>1, <1>2, <1>3 DEF StackOK, OncePlaced
<1>5. /\ x.do = "drain" /\ "do" \in DOMAIN x /\ x.batch = Tail(B) /\ ~x.busy
      /\ x \in [do : {"drain"}, batch : Seq(Completed), busy : BOOLEAN]
  <2>1. Tail(B) \in Seq(Completed)
    BY <1>4
  <2> DEFINE y == [Top EXCEPT !.busy = FALSE]
  <2>2. /\ y \in [do : {"drain"}, batch : Seq(Completed), busy : BOOLEAN]
        /\ y.do = "drain" /\ y.batch = B /\ ~y.busy
    BY <1>4
  <2>3. x = [y EXCEPT !.batch = Tail(B)]
    BY <1>4
  <2> HIDE DEF y
  <2> QED
    BY <2>1, <2>2, <2>3
<1>6. /\ \A i \in DOMAIN Tail(B) : i + 1 \in DOMAIN B /\ Tail(B)[i] = B[i + 1] /\ i + 1 # 1 /\ i \in Nat
      /\ \A i \in DOMAIN B : i = 1 \/ (i - 1 \in DOMAIN Tail(B) /\ Tail(B)[i - 1] = B[i])
      /\ \A i, j \in DOMAIN Tail(B) : i + 1 = j + 1 => i = j
      /\ 1 \in DOMAIN B
  BY <1>4
<1>7. IdsIn(Tail(B)) = IdsIn(B) \ {r} /\ r \in IdsIn(B)
  <2>1. ASSUME NEW y \in IdsIn(Tail(B))
        PROVE  y \in IdsIn(B) \ {r}
    <3>1. PICK i \in DOMAIN Tail(B) : y = Tail(B)[i].id
      BY DEF IdsIn
    <3> QED
      BY <1>4, <1>6, <3>1 DEF IdsIn
  <2>2. ASSUME NEW y \in IdsIn(B) \ {r}
        PROVE  y \in IdsIn(Tail(B))
    <3>1. PICK i \in DOMAIN B : y = B[i].id
      BY DEF IdsIn
    <3> QED
      BY <1>6, <2>2, <3>1 DEF IdsIn
  <2> QED
    BY <1>6, <2>1, <2>2 DEF IdsIn
<1>8. /\ \A k \in DOMAIN stack \ {n} : IdsAt(k)' = IdsAt(k)
      /\ IdsAt(n)' = IdsAt(n) \ {r} /\ r \in IdsAt(n)
  BY <1>1, <1>3, <1>5, <1>7 DEF IdsAt
<1>9. IdsIn(queue)' = IdsIn(queue)
  BY <1>1 DEF IdsIn
<1>10. /\ r \notin tasks /\ r \notin IdsIn(queue) /\ \A k \in DOMAIN stack \ {n} : r \notin IdsAt(k)
  BY <1>2, <1>3, <1>8 DEF OncePlaced
<1>11. Outstanding' = Outstanding \ {r} /\ r \in Outstanding
  <2>1. \A y : (\E k \in DOMAIN stack' : y \in IdsAt(k)')
                 <=> (y # r /\ \E k \in DOMAIN stack : y \in IdsAt(k))
    BY <1>3, <1>8, <1>10
  <2>2. (UNION {IdsAt(k) : k \in DOMAIN stack})' = (UNION {IdsAt(k) : k \in DOMAIN stack}) \ {r}
    BY <2>1
  <2>3. r \in Outstanding
    BY <1>3, <1>8 DEF Outstanding
  <2> QED
    BY <1>1, <1>9, <1>10, <2>2, <2>3 DEF Outstanding
<1>12. OncePlaced'
  <2>1. Ids' = Ids /\ IsSeq(promises') /\ queue' \in Seq(Completed)
        /\ \A i, j \in DOMAIN queue' : queue'[i].id = queue'[j].id => i = j
    BY <1>1, <1>2 DEF Ids, OncePlaced
  <2>2. ASSUME NEW k \in DOMAIN stack', stack'[k].do = "drain"
        PROVE  \A i, j \in DOMAIN stack'[k].batch : stack'[k].batch[i].id = stack'[k].batch[j].id => i = j
    <3>1. CASE k = n
      <4>1. \A i, j \in DOMAIN Tail(B) : Tail(B)[i].id = Tail(B)[j].id => i = j
        BY <1>4, <1>6
      <4>2. stack'[k].batch = Tail(B)
        BY <1>3, <1>5, <3>1
      <4> QED
        BY <4>1, <4>2
    <3>2. CASE k # n
      BY <1>2, <1>3, <2>2, <3>2 DEF OncePlaced
    <3> QED
      BY <3>1, <3>2
  <2>3. \A k \in DOMAIN stack' : IdsAt(k)' \subseteq IdsAt(k)
    BY <1>3, <1>8
  <2>4. \A k \in DOMAIN stack' : IdsAt(k)' \cap (tasks' \cup IdsIn(queue)') = {}
    BY <1>1, <1>2, <1>3, <1>9, <2>3 DEF OncePlaced
  <2>5. \A k, l \in DOMAIN stack' : k # l => IdsAt(k)' \cap IdsAt(l)' = {}
    BY <1>2, <1>3, <2>3 DEF OncePlaced
  <2>6. tasks' \cap IdsIn(queue)' = {} /\ Outstanding' \subseteq Ids' /\ registered' \subseteq Outstanding'
    BY <1>1, <1>2, <1>4, <1>9, <1>11, <2>1 DEF OncePlaced
  <2> QED
    BY <2>1, <2>2, <2>4, <2>5, <2>6 DEF OncePlaced
<1>13. Timers' = Timers
  BY <1>1, <1>3, <1>5 DEF Timers
<1>14. StackOK'
  <2>1. ASSUME NEW k \in DOMAIN stack'
        PROVE  stack'[k].do = stack[k].do /\ "do" \in DOMAIN stack'[k]
    BY <1>1, <1>2, <1>3, <1>5 DEF StackOK
  <2>2. ASSUME NEW k \in DOMAIN stack', stack'[k].do = "drain"
        PROVE  /\ stack'[k] \in [do : {"drain"}, batch : Seq(Completed), busy : BOOLEAN]
               /\ stack'[k].busy => stack'[k].batch # <<>> /\ stack'[k].batch[1].id \notin registered'
    <3>1. CASE k = n
      <4>1. stack'[k] = x
        BY <1>3, <3>1
      <4> QED
        BY <1>5, <4>1
    <3>2. CASE k # n
      <4>1. k \in DOMAIN stack /\ stack'[k] = stack[k]
        BY <1>3, <3>2
      <4> QED
        BY <1>1, <1>2, <2>2, <4>1 DEF StackOK
    <3> QED
      BY <3>1, <3>2
  <2>3. \A k \in DOMAIN stack' : stack'[k].do \in {"script", "exit"} => k = 1
    BY <1>2, <1>3, <2>1 DEF StackOK
  <2>4. 2 \in DOMAIN stack' /\ stack'[1].do = "exit" => stack'[2].do = "wait"
    <3>1. 1 \in DOMAIN stack
      BY <1>3
    <3> QED
      BY <1>2, <1>3, <2>1, <3>1 DEF StackOK
  <2> QED
    BY <1>3, <2>1, <2>2, <2>3, <2>4 DEF StackOK
<1>15. pending' = Cardinality(Outstanding') + Cardinality(Timers')
  <2>1. IsFiniteSet(Outstanding) /\ Cardinality(Outstanding) \in Nat /\ Cardinality(Timers) \in Nat
    BY <1>2, Countable
  <2>2. Cardinality(Outstanding \ {r}) = Cardinality(Outstanding) - 1 /\ IsFiniteSet(Outstanding \ {r})
    BY <1>11, <2>1, FS_RemoveElement
  <2>3. Cardinality(Outstanding \ {r}) \in Nat
    BY <2>2, FS_CardinalityType
  <2>4. pending > 0 /\ pending \in Nat
    BY <1>2, <2>1, <2>2, <2>3
  <2> QED
    BY <1>1, <1>2, <1>11, <1>13, <2>1, <2>2, <2>4
<1>16. ~Doing("exit")'
  BY <1>3, <1>5 DEF Doing, Top
<1> QED
  BY <1>12, <1>14, <1>15, <1>16 DEF AsyncInv, EndMeansIdle

\* The promise of a completion is settled: from now on its handlers run on
\* top of the drain, x, which keeps its batch.
LEMMA DrainOnTop ==
    ASSUME AsyncInv, NEW x, NEW p, NEW ok, stack # <<>>, Top.do = "drain", Top.batch # <<>>,
           x \in [do : {"drain"}, batch : Seq(Completed), busy : BOOLEAN],
           x.batch = Top.batch, x.busy,
           registered' = registered \ {Head(Top.batch).id},
           Settle(promises, p, ok, Append(Below, x)),
           UNCHANGED <<pending, tasks, queue>>
    PROVE  AsyncInv'
<1> PICK st : st = Append(Below, x)
  OBVIOUS
<1> PICK n : n = Len(stack)
  OBVIOUS
<1> PICK B : B = Top.batch
  OBVIOUS
<1>1. /\ stack # <<>> /\ Top.do = "drain" /\ B # <<>>
      /\ registered' = registered \ {Head(B).id} /\ Settle(promises, p, ok, st)
      /\ UNCHANGED <<pending, tasks, queue>>
  OBVIOUS
<1>2. StackOK /\ OncePlaced /\ pending = Cardinality(Outstanding) + Cardinality(Timers)
  BY <1>1 DEF AsyncInv
<1>3. /\ IsSeq(stack) /\ n \in Nat \ {0} /\ DOMAIN stack = 1..n /\ Top = stack[n]
      /\ IsSeq(Below) /\ Len(Below) = n - 1 /\ \A k \in 1..(n - 1) : Below[k] = stack[k]
  BY <1>1, <1>2, PopOf, SeqDomain DEF StackOK, Below, Top
<1>4. /\ IsSeq(st) /\ Len(st) = n /\ DOMAIN st = 1..n /\ st[n] = x
      /\ \A k \in 1..(n - 1) : st[k] = stack[k]
  BY <1>3, PushOn
<1>5. /\ Top \in [do : {"drain"}, batch : Seq(Completed), busy : BOOLEAN]
      /\ B \in Seq(Completed) /\ Head(B) = B[1]
  <2>1. stack[n].do = "drain" /\ n \in DOMAIN stack
    BY <1>1, <1>3
  <2>2. stack[n] \in [do : {"drain"}, batch : Seq(Completed), busy : BOOLEAN]
    BY <1>2, <2>1 DEF StackOK
  <2>3. Top \in [do : {"drain"}, batch : Seq(Completed), busy : BOOLEAN]
    BY <1>3, <2>2
  <2>4. B \in Seq(Completed)
    BY <2>3
  <2> QED
    BY <2>3, <2>4
<1>6. /\ x.do = "drain" /\ "do" \in DOMAIN x /\ x.batch = B /\ x.busy
      /\ x \in [do : {"drain"}, batch : Seq(Completed), busy : BOOLEAN]
  OBVIOUS
<1>7. /\ IsSeq(promises') /\ Len(promises') = Len(promises)
      /\ stack' = st \/ \E y : Light(y) /\ stack' = Append(st, y)
  <2>1. IsSeq(promises)
    BY <1>2 DEF OncePlaced
  <2> QED
    BY <1>1, <2>1, SettleOK
<1>8. /\ IsSeq(stack') /\ stack' # <<>>
      /\ \A k \in 1..n : stack'[k] = st[k] /\ k \in DOMAIN stack'
      /\ \A k \in DOMAIN stack' : k \in 1..n \/ (k = n + 1 /\ Light(stack'[k]))
      /\ Last(stack') = x \/ Light(Last(stack'))
  <2>1. CASE stack' = st
    BY <1>3, <1>4, <2>1 DEF Last
  <2>2. ASSUME NEW y, Light(y), stack' = Append(st, y)
        PROVE  <1>8!:
    <3>1. /\ IsSeq(stack') /\ DOMAIN stack' = 1..(n + 1) /\ stack' # <<>>
          /\ \A k \in 1..n : stack'[k] = st[k]
          /\ stack'[n + 1] = y /\ Last(stack') = y
      BY <1>4, <2>2, PushOn
    <3>2. /\ \A k \in 1..(n + 1) : k \in 1..n \/ k = n + 1
          /\ \A k \in 1..n : k \in 1..(n + 1)
      <4>1. n \in Nat
        BY <1>3
      <4> QED
        BY <4>1
    <3>3. \A k \in 1..n : stack'[k] = st[k] /\ k \in DOMAIN stack'
      BY <3>1, <3>2
    <3>4. \A k \in DOMAIN stack' : k \in 1..n \/ (k = n + 1 /\ Light(stack'[k]))
      BY <2>2, <3>1, <3>2
    <3>5. Light(Last(stack'))
      BY <2>2, <3>1
    <3> QED
      BY <3>1, <3>3, <3>4, <3>5
  <2> QED
    BY <1>7, <2>1, <2>2
<1>9. /\ \A k \in DOMAIN stack : k = n \/ k \in 1..(n - 1)
      /\ \A k \in 1..n : k = n \/ k \in 1..(n - 1)
  BY <1>3
<1>10. \A k \in DOMAIN stack : stack'[k].do = stack[k].do /\ k \in DOMAIN stack' /\ "do" \in DOMAIN stack'[k]
  BY <1>1, <1>2, <1>3, <1>4, <1>6, <1>8, <1>9 DEF StackOK
<1>11. \A k \in DOMAIN stack : IdsAt(k)' = IdsAt(k)
  <2>1. ASSUME NEW k \in DOMAIN stack
        PROVE  IdsAt(k)' = IdsAt(k)
    <3>1. CASE k = n
      <4>1. stack'[k] = x /\ stack[k] = Top
        BY <1>3, <1>4, <1>8, <3>1
      <4> QED
        BY <1>1, <1>6, <4>1 DEF IdsAt
    <3>2. CASE k # n
      <4>1. stack'[k] = stack[k]
        BY <1>3, <1>4, <1>8, <1>9, <3>2
      <4> QED
        BY <4>1 DEF IdsAt
    <3> QED
      BY <3>1, <3>2
  <2> QED
    BY <2>1
<1>12. \A k \in DOMAIN stack' : k \in DOMAIN stack \/ (Light(stack'[k]) /\ IdsAt(k)' = {})
  BY <1>3, <1>8 DEF Light, IdsAt
<1>13. IdsIn(queue)' = IdsIn(queue) /\ Ids' = Ids
  BY <1>1, <1>2, <1>7, SeqDomain DEF IdsIn, Ids, OncePlaced
<1>14. Outstanding' = Outstanding
  <2>1. \A y : (\E k \in DOMAIN stack' : y \in IdsAt(k)') <=> (\E k \in DOMAIN stack : y \in IdsAt(k))
    BY <1>10, <1>11, <1>12
  <2>2. (UNION {IdsAt(k) : k \in DOMAIN stack})' = UNION {IdsAt(k) : k \in DOMAIN stack}
    BY <2>1
  <2> QED
    BY <1>1, <1>13, <2>2 DEF Outstanding
<1>15. ASSUME NEW k \in DOMAIN stack', stack'[k].do = "drain"
       PROVE  k \in DOMAIN stack /\ stack[k].do = "drain" /\ stack'[k].batch = stack[k].batch
              /\ (k = n \/ stack'[k] = stack[k])
  <2>1. k \in DOMAIN stack /\ stack[k].do = "drain"
    BY <1>10, <1>12, <1>15 DEF Light
  <2>2. CASE k = n
    <3>1. stack'[k] = x /\ stack[k] = Top
      BY <1>3, <1>4, <1>8, <2>2
    <3> QED
      BY <1>6, <2>1, <2>2, <3>1
  <2>3. CASE k # n
    <3>1. stack'[k] = stack[k]
      BY <1>4, <1>3, <1>8, <1>9, <2>1, <2>3
    <3> QED
      BY <2>1, <3>1
  <2> QED
    BY <2>2, <2>3
<1>16. OncePlaced'
  <2>1. \A k \in DOMAIN stack' : stack'[k].do = "drain" =>
           \A i, j \in DOMAIN stack'[k].batch : stack'[k].batch[i].id = stack'[k].batch[j].id => i = j
    BY <1>2, <1>15 DEF OncePlaced
  <2>2. \A k \in DOMAIN stack' : IdsAt(k)' \cap (tasks' \cup IdsIn(queue)') = {}
    BY <1>1, <1>2, <1>11, <1>12, <1>13 DEF OncePlaced
  <2>3. \A k, l \in DOMAIN stack' : k # l => IdsAt(k)' \cap IdsAt(l)' = {}
    BY <1>2, <1>11, <1>12 DEF OncePlaced
  <2>4. /\ queue' \in Seq(Completed) /\ tasks' \cap IdsIn(queue)' = {}
        /\ \A i, j \in DOMAIN queue' : queue'[i].id = queue'[j].id => i = j
        /\ Outstanding' \subseteq Ids' /\ registered' \subseteq Outstanding'
    BY <1>1, <1>2, <1>13, <1>14 DEF OncePlaced
  <2> QED
    BY <1>7, <2>1, <2>2, <2>3, <2>4 DEF OncePlaced
<1>17. Timers' = Timers
  BY <1>10, <1>12 DEF Timers, Light
<1>18. StackOK'
  <2>1. ASSUME NEW k \in DOMAIN stack', stack'[k].do = "drain"
        PROVE  /\ stack'[k] \in [do : {"drain"}, batch : Seq(Completed), busy : BOOLEAN]
               /\ stack'[k].busy => stack'[k].batch # <<>> /\ stack'[k].batch[1].id \notin registered'
    <3>1. CASE k = n
      <4>1. stack'[k] = x
        BY <1>3, <1>4, <1>8, <3>1
      <4> QED
        BY <1>1, <1>5, <1>6, <4>1
    <3>2. CASE k # n
      BY <1>1, <1>2, <1>15, <2>1, <3>2 DEF StackOK
    <3> QED
      BY <3>1, <3>2
  <2>2. \A k \in DOMAIN stack' : "do" \in DOMAIN stack'[k] /\ (stack'[k].do \in {"script", "exit"} => k = 1)
    BY <1>2, <1>10, <1>12 DEF StackOK, Light
  <2>3. 2 \in DOMAIN stack' /\ stack'[1].do = "exit" => stack'[2].do = "wait"
    <3>1. SUFFICES ASSUME 2 \in DOMAIN stack', stack'[1].do = "exit"
                   PROVE  stack'[2].do = "wait"
      OBVIOUS
    <3>2. 1 \in DOMAIN stack /\ stack[1].do = "exit" /\ n # 1
      BY <1>1, <1>3, <1>10, <3>1
    <3>3. 2 \in DOMAIN stack
      BY <1>3, <3>2
    <3> QED
      BY <1>2, <1>10, <3>2, <3>3 DEF StackOK
  <2> QED
    BY <1>8, <2>1, <2>2, <2>3 DEF StackOK
<1>19. ~Doing("exit")'
  BY <1>6, <1>8 DEF Doing, Top, Light
<1> QED
  BY <1>1, <1>2, <1>14, <1>16, <1>17, <1>18, <1>19 DEF AsyncInv, EndMeansIdle

LEMMA DrainSettlesKeeps ==
    ASSUME AsyncInv, DrainSettles
    PROVE  AsyncInv'
<1>1. /\ stack # <<>> /\ Top.do = "drain" /\ Top.batch # <<>>
      /\ registered' = registered \ {Head(Top.batch).id}
      /\ UNCHANGED <<pending, tasks, queue>>
  BY DEF DrainSettles, Doing
<1>2. \E p, ok, x : /\ x = [Top EXCEPT !.busy = TRUE]
                    /\ Settle(promises, p, ok, Append(Below, x))
  BY DEF DrainSettles
<1>3. PICK p, ok, x : /\ x = [Top EXCEPT !.busy = TRUE]
                      /\ Settle(promises, p, ok, Append(Below, x))
  BY <1>2
<1>4. Top \in [do : {"drain"}, batch : Seq(Completed), busy : BOOLEAN]
  <2>1. StackOK
    BY <1>1 DEF AsyncInv
  <2>2. Len(stack) \in DOMAIN stack /\ Top = stack[Len(stack)]
    BY <1>1, <2>1, PopOf, SeqDomain DEF StackOK, Top
  <2> QED
    BY <1>1, <2>1, <2>2 DEF StackOK
<1>5. /\ x \in [do : {"drain"}, batch : Seq(Completed), busy : BOOLEAN]
      /\ x.batch = Top.batch /\ x.busy
  BY <1>3, <1>4
<1> QED
  BY <1>1, <1>3, <1>5, DrainOnTop

\* A worker sends its answer.
LEMMA CompleteKeeps ==
    ASSUME AsyncInv, NEW id \in Ids, Complete(id)
    PROVE  AsyncInv'
<1> SUFFICES ASSUME stack # <<>>
             PROVE  AsyncInv'
  BY DEF Complete, AsyncInv
<1>1. PICK ok \in BOOLEAN : queue' = Append(queue, [id |-> id, ok |-> ok])
  BY DEF Complete
<1> PICK c : c = [id |-> id, ok |-> ok]
  OBVIOUS
<1>2. /\ id \in tasks /\ queue' = Append(queue, c) /\ tasks' = tasks \ {id}
      /\ UNCHANGED <<promises, registered, pending, stack, expired>>
  BY <1>1 DEF Complete
<1>3. StackOK /\ OncePlaced /\ EndMeansIdle /\ pending = Cardinality(Outstanding) + Cardinality(Timers)
  BY DEF AsyncInv
<1>4. /\ id \in Nat /\ c \in Completed /\ c.id = id
  BY <1>3, SeqDomain DEF Ids, OncePlaced, Completed
<1>5. /\ queue \in Seq(Completed) /\ queue' \in Seq(Completed)
      /\ DOMAIN queue' = DOMAIN queue \cup {Len(queue) + 1} /\ Len(queue) \in Nat
      /\ \A i \in DOMAIN queue : queue'[i] = queue[i]
      /\ queue'[Len(queue) + 1] = c
  BY <1>2, <1>3, <1>4 DEF OncePlaced
<1>6. IdsIn(queue)' = IdsIn(queue) \cup {id} /\ id \notin IdsIn(queue)
  BY <1>2, <1>3, <1>4, <1>5 DEF IdsIn, OncePlaced
<1>7. \A k \in DOMAIN stack : IdsAt(k)' = IdsAt(k)
  BY <1>2 DEF IdsAt
<1>8. Outstanding' = Outstanding
  <2>1. (UNION {IdsAt(k) : k \in DOMAIN stack})' = UNION {IdsAt(k) : k \in DOMAIN stack}
    BY <1>2, <1>7
  <2> QED
    BY <1>2, <1>6, <2>1 DEF Outstanding
<1>9. OncePlaced'
  <2>1. \A i, j \in DOMAIN queue' : queue'[i].id = queue'[j].id => i = j
    <3>1. \A i \in DOMAIN queue : queue[i].id # id
      BY <1>6 DEF IdsIn
    <3> QED
      BY <1>3, <1>4, <1>5, <3>1 DEF OncePlaced
  <2>2. \A k \in DOMAIN stack : id \notin IdsAt(k)
    BY <1>2, <1>3 DEF OncePlaced
  <2>3. \A k \in DOMAIN stack : IdsAt(k)' \cap (tasks' \cup IdsIn(queue)') = {}
    BY <1>2, <1>3, <1>6, <1>7, <2>2 DEF OncePlaced
  <2>4. \A k, l \in DOMAIN stack : k # l => IdsAt(k)' \cap IdsAt(l)' = {}
    BY <1>3, <1>7 DEF OncePlaced
  <2>5. tasks' \cap IdsIn(queue)' = {} /\ Ids' = Ids
    BY <1>2, <1>3, <1>6 DEF OncePlaced, Ids
  <2> QED
    BY <1>2, <1>3, <1>5, <1>8, <2>1, <2>3, <2>4, <2>5 DEF OncePlaced
<1>10. StackOK' /\ Timers' = Timers
  BY <1>2, <1>3 DEF StackOK, Timers
<1>11. EndMeansIdle'
  BY <1>2, <1>3 DEF EndMeansIdle, Doing, Top
<1> QED
  BY <1>2, <1>3, <1>8, <1>9, <1>10, <1>11 DEF AsyncInv

\* Nothing but the clock or the script's own count moves.
LEMMA AsyncSame ==
    ASSUME AsyncInv, UNCHANGED <<promises, registered, pending, tasks, queue, stack>>,
           expired => expired'
    PROVE  AsyncInv'
<1>1. (\A k : IdsAt(k)' = IdsAt(k)) /\ IdsIn(queue)' = IdsIn(queue)
  BY DEF IdsAt, IdsIn
<1>2. Outstanding' = Outstanding /\ Timers' = Timers /\ Ids' = Ids
  BY <1>1 DEF Outstanding, Timers, Ids
<1>3. StackOK => StackOK'
  BY DEF StackOK
<1>4. OncePlaced => OncePlaced'
  BY <1>1, <1>2 DEF OncePlaced
<1>5. EndMeansIdle => EndMeansIdle'
  BY DEF EndMeansIdle, Doing, Top
<1> QED
  BY <1>2, <1>3, <1>4, <1>5 DEF AsyncInv

LEMMA AsyncStarts == AsyncInit => AsyncInv
<1> SUFFICES ASSUME AsyncInit
             PROVE  AsyncInv
  OBVIOUS
<1> PICK f : f = Frame("script")
  OBVIOUS
<1>1. f.do = "script" /\ "do" \in DOMAIN f
  BY DEF Frame
<1>2. stack = <<f>> /\ DOMAIN <<f>> = {1} /\ <<f>>[1] = f /\ <<f>> \in Seq({f}) /\ Len(<<f>>) = 1
  BY DEF AsyncInit
<1>3. IsSeq(stack)
  BY <1>2, AnySeq
<1>4. IdsAt(1) = {} /\ IdsIn(queue) = {} /\ tasks = {}
  BY <1>1, <1>2 DEF IdsAt, IdsIn, AsyncInit
<1>5. Outstanding = {} /\ Timers = {}
  BY <1>1, <1>2, <1>4 DEF Outstanding, Timers
<1>6. StackOK
  BY <1>1, <1>2, <1>3 DEF StackOK
<1>7. OncePlaced
  <2>1. <<>> \in Seq(Completed) /\ promises = <<>> /\ queue = <<>> /\ registered = {}
    BY DEF AsyncInit
  <2>2. IsSeq(promises)
    BY <2>1, AnySeq
  <2> QED
    BY <1>1, <1>2, <1>4, <1>5, <2>1, <2>2 DEF OncePlaced
<1>8. pending = Cardinality(Outstanding) + Cardinality(Timers)
  BY <1>5, FS_EmptySet DEF AsyncInit
<1>9. EndMeansIdle
  BY <1>1, <1>2 DEF EndMeansIdle, Doing, Top, Last
<1> QED
  BY <1>6, <1>7, <1>8, <1>9 DEF AsyncInv

LEMMA AsyncStep == AsyncInv /\ [AsyncNext]_asyncVars => AsyncInv'
<1> SUFFICES ASSUME AsyncInv, [AsyncNext]_asyncVars
             PROVE  AsyncInv'
  OBVIOUS
<1>1. CASE ScriptStep
  <2>1. ASSUME NEW p \in Ids, NEW kind, NEW f, AddContinuation(p, kind, f)
        PROVE  AsyncInv'
    BY <2>1, AddContinuationKeeps
  <2>2. ASSUME NEW f, NEW ticks, SetTimer(f, ticks)
        PROVE  AsyncInv'
    BY <2>2, SetTimerKeeps
  <2>3. CASE ScriptEnds
    BY <2>3, ScriptEndsKeeps
  <2> QED
    BY <1>1, <2>1, <2>2, <2>3, OpKeeps DEF ScriptStep
<1>2. CASE VmStep
  <2>1. CASE WaitPanics
    BY <2>1 DEF WaitPanics, Panics, AsyncInv
  <2> QED
    BY <1>2, <2>1, CallKeeps, TimerReturnsKeeps, WaitDrainsKeeps, WaitReturnsKeeps,
       DrainSettlesKeeps, DrainCountsKeeps, DrainReturnsKeeps DEF VmStep
<1>3. CASE DeadlinePasses \/ UNCHANGED asyncVars
  BY <1>3, AsyncSame DEF DeadlinePasses, asyncVars
<1>4. CASE \E id \in Ids : Complete(id)
  BY <1>4, CompleteKeeps
<1> QED
  BY <1>1, <1>2, <1>3, <1>4 DEF AsyncNext

\* However many promises, handlers, timers and nested waits there are: a
\* script that ends before its deadline leaves no request, no completion and
\* no count behind (run_source, wait_async, drain_async_completions).
THEOREM EndIsIdle == AsyncSpec => []EndMeansIdle
<1>1. AsyncInit => AsyncInv
  BY AsyncStarts
<1>2. AsyncInv /\ [AsyncNext]_asyncVars => AsyncInv'
  BY AsyncStep
<1>3. AsyncInv => EndMeansIdle
  BY DEF AsyncInv, EndMeansIdle, Doing
<1> QED
  BY <1>1, <1>2, <1>3, PTL DEF AsyncSpec

---------------------------------------------------------------------------
(* Handlers                                                                *)

\* A list of handlers, or a call on the stack, will settle promise p.
NextIn(conts, p) == \E i \in DOMAIN conts : conts[i].next = p
Carries(x, p) == \/ x.do = "settle" /\ NextIn(x.conts, p)
                 \/ x.do = "await" /\ x.next = p

\* Somebody will settle p: the promise it hangs on, a call that is under way,
\* or a request that is still out.
Followed(ps, reg, sk, p) ==
    \/ ps[ps[p].parent].state = "pending" /\ NextIn(ps[ps[p].parent].conts, p)
    \/ \E k \in DOMAIN sk : Carries(sk[k], p)
    \/ \E r \in reg : NextIn(ps[r].conts, p)

\* What they settle are promises of ids.
ContsOK(conts, ids) == IsSeq(conts) /\ \A i \in DOMAIN conts : conts[i].next \in ids
PromiseOK(x, ids) ==
    /\ DOMAIN x = {"state", "conts", "parent"} /\ ContsOK(x.conts, ids)
    /\ x.parent \in ids \cup {0}
    /\ x.state # "pending" => x.conts = <<>>
FrameOK(x, ids) ==
    /\ "do" \in DOMAIN x
    /\ x.do = "settle" => "conts" \in DOMAIN x /\ ContsOK(x.conts, ids)
    /\ x.do \in {"await", "combine"} => "next" \in DOMAIN x /\ x.next \in ids \cup {0}

\* The inductive invariant, with an exception for the promise c that is about
\* to be settled (0 for none).
Sound(ps, reg, sk, c) ==
    /\ IsSeq(ps) /\ IsSeq(sk) /\ reg \subseteq DOMAIN ps
    /\ \A p \in DOMAIN ps : PromiseOK(ps[p], DOMAIN ps)
    /\ \A k \in DOMAIN sk : FrameOK(sk[k], DOMAIN ps)
    /\ \A p \in DOMAIN ps : p # c /\ ps[p].parent # 0 /\ ps[p].state = "pending" =>
          Followed(ps, reg, sk, p)
FollowInv == stack # <<>> => Sound(promises, registered, stack, 0)

\* A call is made on top of the others; it may see to c.
LEMMA PushFollows ==
    ASSUME NEW ps, NEW reg, NEW sk, NEW c, Sound(ps, reg, sk, c), NEW x, FrameOK(x, DOMAIN ps),
           NEW d, c = d \/ c \notin DOMAIN ps \/ Carries(x, c)
    PROVE  Sound(ps, reg, Append(sk, x), d)
<1> PICK q : q = Append(sk, x)
  OBVIOUS
<1> PICK n : n = Len(sk)
  OBVIOUS
<1>1. /\ IsSeq(q) /\ n \in Nat /\ DOMAIN sk = 1..n /\ DOMAIN q = 1..(n + 1)
      /\ \A k \in 1..n : q[k] = sk[k]
      /\ q[n + 1] = x
  BY PushOn, SeqDomain DEF Sound
<1>2. /\ \A k \in DOMAIN q : k \in DOMAIN sk \/ k = n + 1
      /\ \A k \in DOMAIN sk : k \in DOMAIN q
      /\ n + 1 \in DOMAIN q
  BY <1>1
<1>3. \A k \in DOMAIN q : FrameOK(q[k], DOMAIN ps)
  BY <1>1, <1>2 DEF Sound
<1>4. \A p \in DOMAIN ps : Followed(ps, reg, sk, p) => Followed(ps, reg, q, p)
  BY <1>1, <1>2 DEF Followed
<1>5. Carries(x, c) => Followed(ps, reg, q, c)
  BY <1>1, <1>2 DEF Followed
<1>6. Sound(ps, reg, q, d)
  BY <1>1, <1>3, <1>4, <1>5 DEF Sound
<1> QED
  BY <1>6

\* The innermost call returns; only c is left to nobody.
LEMMA PopFollows ==
    ASSUME NEW ps, NEW reg, Sound(ps, reg, stack, 0), stack # <<>>,
           NEW c, \A p : Carries(Top, p) => p = c
    PROVE  Sound(ps, reg, Below, c)
<1> PICK n : n = Len(stack)
  OBVIOUS
<1>1. /\ IsSeq(stack) /\ IsSeq(Below) /\ n \in Nat \ {0} /\ DOMAIN stack = 1..n
      /\ DOMAIN Below = 1..(n - 1) /\ Top = stack[n]
      /\ \A k \in 1..(n - 1) : Below[k] = stack[k]
  BY PopOf, SeqDomain DEF Sound, Below, Top
<1>2. /\ \A k \in DOMAIN stack : k \in DOMAIN Below \/ k = n
      /\ \A k \in DOMAIN Below : k \in DOMAIN stack
  BY <1>1
<1>3. \A k \in DOMAIN Below : FrameOK(Below[k], DOMAIN ps)
  BY <1>1, <1>2 DEF Sound
<1>4. \A p \in DOMAIN ps : p # c /\ Followed(ps, reg, stack, p) => Followed(ps, reg, Below, p)
  BY <1>1, <1>2 DEF Followed
<1>5. \A p \in DOMAIN ps : p # 0
  BY SeqDomain DEF Sound
<1> QED
  BY <1>1, <1>3, <1>4, <1>5 DEF Sound

\* The innermost call goes on as x, having taken care of c.
LEMMA TopFollows ==
    ASSUME NEW ps, NEW reg, Sound(ps, reg, stack, 0), stack # <<>>, NEW x, FrameOK(x, DOMAIN ps),
           NEW c, \A p : Carries(Top, p) => p = c \/ Carries(x, p)
    PROVE  Sound(ps, reg, Append(Below, x), c)
<1> PICK n : n = Len(stack)
  OBVIOUS
<1> PICK q : q = Append(Below, x)
  OBVIOUS
<1>1. /\ IsSeq(stack) /\ IsSeq(Below) /\ n \in Nat \ {0} /\ DOMAIN stack = 1..n
      /\ Len(Below) = n - 1 /\ Top = stack[n]
      /\ \A k \in 1..(n - 1) : Below[k] = stack[k]
  BY PopOf, SeqDomain DEF Sound, Below, Top
<1>2. /\ IsSeq(q) /\ DOMAIN q = 1..n /\ q[n] = x /\ \A k \in 1..(n - 1) : q[k] = stack[k]
  BY <1>1, PushOn
<1>3. /\ \A k \in 1..n : k \in 1..(n - 1) \/ k = n
      /\ \A k \in 1..(n - 1) : k \in 1..n
      /\ n \in 1..n
  BY <1>1
<1>4. \A k \in DOMAIN q : FrameOK(q[k], DOMAIN ps)
  BY <1>1, <1>2, <1>3 DEF Sound
<1>5. ASSUME NEW p \in DOMAIN ps, p # c, NEW k \in DOMAIN stack, Carries(stack[k], p)
      PROVE  \E l \in DOMAIN q : Carries(q[l], p)
  BY <1>1, <1>2, <1>3, <1>5
<1>6. \A p \in DOMAIN ps : p # c /\ Followed(ps, reg, stack, p) => Followed(ps, reg, q, p)
  BY <1>5 DEF Followed
<1>7. \A p \in DOMAIN ps : p # 0
  BY SeqDomain DEF Sound
<1>8. Sound(ps, reg, q, c)
  BY <1>2, <1>4, <1>6, <1>7 DEF Sound
<1> QED
  BY <1>8

\* A promise is made; registered or not, it may see to c.  One with a parent
\* waits to be seen to itself.
LEMMA NewFollows ==
    ASSUME NEW ps, NEW reg, NEW sk, NEW c, Sound(ps, reg, sk, c), NEW x,
           PromiseOK(x, DOMAIN ps),
           NEW more, more = reg \/ more = reg \cup {Len(ps) + 1},
           NEW d, \/ c = d \/ c = 0
                  \/ more = reg \cup {Len(ps) + 1} /\ NextIn(x.conts, c),
           x.parent = 0 \/ d = Len(ps) + 1
    PROVE  Sound(Append(ps, x), more, sk, d)
<1> PICK q : q = Append(ps, x)
  OBVIOUS
<1> PICK n : n = Len(ps)
  OBVIOUS
<1>1. /\ IsSeq(q) /\ n \in Nat /\ DOMAIN ps = 1..n /\ DOMAIN q = 1..(n + 1)
      /\ \A k \in 1..n : q[k] = ps[k]
      /\ q[n + 1] = x
  BY PushOn, SeqDomain DEF Sound
<1>2. /\ \A k \in DOMAIN q : k \in DOMAIN ps \/ k = n + 1
      /\ \A k \in DOMAIN ps : k \in DOMAIN q /\ q[k] = ps[k] /\ k # 0
      /\ n + 1 \in DOMAIN q
  BY <1>1
<1>3. \A p \in DOMAIN q : PromiseOK(q[p], DOMAIN q)
  BY <1>1, <1>2 DEF Sound, PromiseOK, ContsOK
<1>s. \A k \in DOMAIN sk : FrameOK(sk[k], DOMAIN q)
  BY <1>2 DEF Sound, FrameOK, ContsOK
<1>4. ASSUME NEW p \in DOMAIN ps, ps[p].parent # 0, Followed(ps, reg, sk, p)
      PROVE  Followed(q, more, sk, p)
  <2>1. ps[p].parent \in DOMAIN ps /\ reg \subseteq DOMAIN ps /\ reg \subseteq more
    BY <1>4 DEF Sound, PromiseOK
  <2> QED
    BY <1>2, <1>4, <2>1 DEF Followed
<1>5. more = reg \cup {n + 1} /\ NextIn(x.conts, c) => Followed(q, more, sk, c)
  BY <1>1 DEF Followed
<1>6. reg \subseteq DOMAIN ps /\ more \subseteq DOMAIN q
  BY <1>2 DEF Sound
<1>7. ASSUME NEW p \in DOMAIN q, p # d, q[p].parent # 0, q[p].state = "pending"
      PROVE  Followed(q, more, sk, p)
  <2>1. p \in DOMAIN ps /\ q[p] = ps[p] /\ p # 0
    BY <1>1, <1>2, <1>7
  <2>2. CASE p = c
    BY <1>5, <1>7, <2>1, <2>2
  <2>3. CASE p # c
    BY <1>4, <1>7, <2>1, <2>3 DEF Sound
  <2> QED
    BY <2>2, <2>3
<1>8. Sound(q, more, sk, d)
  BY <1>1, <1>3, <1>s, <1>6, <1>7 DEF Sound
<1> QED
  BY <1>8

\* Promise::settle hands what hangs on p to the call it makes.
LEMMA SettleFollows ==
    ASSUME NEW ps, NEW reg, NEW st, NEW p, NEW ok, NEW less,
           Sound(ps, reg, st, p), p \in DOMAIN ps \cup {0}, Settle(ps, p, ok, st),
           less = reg \/ less = reg \ {p}
    PROVE  Sound(promises', less, stack', 0)
<1>1. reg \subseteq DOMAIN ps /\ less \subseteq reg /\ \A q \in DOMAIN ps : q # 0
  BY SeqDomain DEF Sound
<1>2. CASE (p = 0 \/ ps[p].state # "pending") /\ promises' = ps /\ stack' = st
  <2>1. ASSUME NEW q \in DOMAIN ps, Followed(ps, reg, st, q)
        PROVE  Followed(ps, less, st, q)
    <3>1. p # 0 => ps[p].conts = <<>>
      BY <1>2 DEF Sound, PromiseOK
    <3>2. ASSUME NEW r \in reg, NextIn(ps[r].conts, q)
          PROVE  r \in less
      <4>1. r # 0 /\ (r = p => ps[r].conts = <<>>)
        BY <1>1, <3>1
      <4>2. ps[r].conts # <<>>
        BY <3>2 DEF NextIn
      <4> QED
        BY <4>1, <4>2
    <3> QED
      BY <2>1, <3>2 DEF Followed
  <2>2. ASSUME NEW q \in DOMAIN ps, ps[q].parent # 0, ps[q].state = "pending"
        PROVE  Followed(ps, less, st, q)
    <3>1. q # p
      BY <1>1, <1>2, <2>2
    <3> QED
      BY <2>1, <2>2, <3>1 DEF Sound
  <2>3. Sound(ps, less, st, 0)
    BY <1>1, <2>2 DEF Sound
  <2> QED
    BY <1>2, <2>3
<1>3. CASE /\ p \in DOMAIN ps /\ ps[p].state = "pending"
           /\ promises' = [ps EXCEPT ![p].state = IF ok THEN "fulfilled" ELSE "rejected",
                                     ![p].conts = <<>>]
           /\ stack' = Append(st, [do |-> "settle", conts |-> ps[p].conts, ok |-> ok])
  <2> PICK new : new = promises'
    OBVIOUS
  <2> PICK x : x = [do |-> "settle", conts |-> ps[p].conts, ok |-> ok]
    OBVIOUS
  <2>1. IsSeq(ps) /\ PromiseOK(ps[p], DOMAIN ps) /\ ContsOK(ps[p].conts, DOMAIN ps)
    BY <1>3 DEF Sound, PromiseOK
  <2>2. DOMAIN new = DOMAIN ps /\ \A q \in DOMAIN ps : q # p => new[q] = ps[q]
    BY <1>3
  <2>3. /\ DOMAIN new[p] = {"state", "conts", "parent"} /\ new[p].conts = <<>>
        /\ new[p].parent = ps[p].parent /\ new[p].state # "pending"
    BY <1>3, <2>1 DEF PromiseOK
  <2>4. IsSeq(new)
    <3>1. new = [i \in 1..Len(ps) |-> new[i]] /\ Len(ps) \in Nat
      BY <1>3, <2>1, SeqDomain
    <3> QED
      BY <3>1, SeqFrom
  <2>5. ContsOK(<<>>, DOMAIN ps)
    <3>1. <<>> \in Seq({}) /\ DOMAIN <<>> = {}
      OBVIOUS
    <3>2. IsSeq(<<>>)
      BY <3>1, AnySeq
    <3> QED
      BY <3>1, <3>2 DEF ContsOK
  <2>6. \A q \in DOMAIN new : PromiseOK(new[q], DOMAIN new)
    <3>1. PromiseOK(new[p], DOMAIN ps)
      BY <2>1, <2>3, <2>5 DEF PromiseOK
    <3> QED
      BY <2>2, <3>1 DEF Sound
  <2>7. /\ FrameOK(x, DOMAIN ps) /\ \A q : Carries(x, q) <=> NextIn(ps[p].conts, q)
    BY <2>1 DEF FrameOK, Carries
  <2>8. Sound(ps, reg, Append(st, x), p)
    BY <2>7, PushFollows
  <2> PICK sk : sk = Append(st, x)
    OBVIOUS
  <2>9. IsSeq(st) /\ Len(st) \in Nat /\ Len(st) + 1 \in DOMAIN sk /\ sk[Len(st) + 1] = x
    BY PushOn, SeqDomain DEF Sound
  <2>10. ASSUME NEW q \in DOMAIN new, new[q].parent # 0, new[q].state = "pending"
         PROVE  Followed(new, less, sk, q)
    <3>1. q \in DOMAIN ps /\ q # p /\ new[q] = ps[q] /\ Followed(ps, reg, sk, q)
          /\ ps[q].parent \in DOMAIN ps
      BY <2>2, <2>3, <2>8, <2>10 DEF Sound, PromiseOK
    <3>2. CASE NextIn(ps[p].conts, q)
      BY <2>7, <2>9, <3>2 DEF Followed
    <3>3. CASE ~NextIn(ps[p].conts, q)
      <4>1. \A r \in reg : NextIn(ps[r].conts, q) => r # p /\ r \in less /\ new[r] = ps[r]
        BY <1>1, <2>2, <3>3
      <4>2. NextIn(ps[ps[q].parent].conts, q) => new[ps[q].parent] = ps[ps[q].parent]
        BY <2>2, <3>1, <3>3
      <4> QED
        BY <3>1, <4>1, <4>2 DEF Followed
    <3> QED
      BY <3>2, <3>3
  <2>11. Sound(new, less, sk, 0)
    BY <1>1, <2>2, <2>4, <2>6, <2>8, <2>10 DEF Sound
  <2>12. stack' = sk
    BY <1>3
  <2> QED
    BY <2>11, <2>12
<1> QED
  BY <1>2, <1>3 DEF Settle

\* A handler has run, or waits, or has sent a request: next is seen to.
LEMMA AwaitFollows ==
    ASSUME NEW st, NEW next, NEW p, NEW ok, Sound(promises, registered, st, next),
           next \in Ids \cup {0},
           stack' = Append(st, Awaiting(p, next, ok)), UNCHANGED <<promises, registered>>
    PROVE  Sound(promises', registered', stack', 0)
<1> PICK x : x = Awaiting(p, next, ok)
  OBVIOUS
<1>1. FrameOK(x, DOMAIN promises) /\ Carries(x, next)
  BY DEF FrameOK, Carries, Awaiting, Ids
<1>2. Sound(promises, registered, Append(st, x), 0)
  BY <1>1, PushFollows
<1> QED
  BY <1>2

LEMMA FreshOK ==
    ASSUME NEW p, NEW ids, p \in ids \cup {0}
    PROVE  PromiseOK(Fresh(p), ids) /\ Fresh(p).parent = p /\ Fresh(p).state = "pending"
<1>1. <<>> \in Seq({}) /\ DOMAIN <<>> = {}
  OBVIOUS
<1>2. IsSeq(<<>>)
  BY <1>1, AnySeq
<1> QED
  BY <1>1, <1>2 DEF PromiseOK, Fresh, ContsOK

LEMMA RequestFollows ==
    ASSUME NEW st, NEW next, Sound(promises, registered, st, next), NEW x,
           PromiseOK(x, DOMAIN promises), x.parent = 0, next = 0 \/ NextIn(x.conts, next)
    PROVE  Sound(Append(promises, x), registered \cup {Len(promises) + 1}, st, 0)
<1> PICK more : more = registered \cup {Len(promises) + 1}
  OBVIOUS
<1>1. Sound(Append(promises, x), more, st, 0)
  BY NewFollows
<1> QED
  BY <1>1

LEMMA RunFnFollows ==
    ASSUME NEW st, NEW f, NEW next, Sound(promises, registered, st, next), next \in Ids \cup {0},
           RunFn(f, next, st)
    PROVE  FollowInv'
<1>1. CASE /\ Settle(promises, next, f.do = "value", st)
           /\ UNCHANGED <<registered, pending, tasks, queue, panicked>>
  <2> PICK ok : ok = (f.do = "value")
    OBVIOUS
  <2>1. Settle(promises, next, ok, st)
    BY <1>1
  <2>2. Sound(promises', registered, stack', 0)
    BY <2>1, SettleFollows DEF Ids
  <2> QED
    BY <1>1, <2>2 DEF FollowInv
<1>2. CASE Panics
  BY <1>2 DEF Panics, FollowInv
<1>3. CASE /\ Register(Len(promises) + 1) /\ stack' = st /\ UNCHANGED <<queue, panicked>>
           /\ promises' = Append(promises, [Fresh(0) EXCEPT !.conts =
                              IF next = 0 THEN <<>> ELSE <<[kind |-> "adopt", next |-> next]>>])
  <2> PICK a : a = [kind |-> "adopt", next |-> next]
    OBVIOUS
  <2> PICK cs : cs = IF next = 0 THEN <<>> ELSE <<a>>
    OBVIOUS
  <2> PICK x : x = [Fresh(0) EXCEPT !.conts = cs]
    OBVIOUS
  <2>1. x = [state |-> "pending", conts |-> cs, parent |-> 0]
    BY DEF Fresh
  <2>2. ContsOK(cs, DOMAIN promises) /\ (next = 0 \/ NextIn(cs, next))
    <3>1. CASE next = 0
      BY <3>1, FreshOK DEF Fresh, PromiseOK
    <3>2. CASE next # 0
      <4>1. cs = <<a>> /\ <<a>> \in Seq({a}) /\ DOMAIN <<a>> = {1} /\ <<a>>[1] = a /\ a.next = next
        BY <3>2
      <4>2. IsSeq(cs)
        BY <4>1, AnySeq
      <4> QED
        BY <3>2, <4>1, <4>2 DEF ContsOK, NextIn, Ids
    <3> QED
      BY <3>1, <3>2
  <2>3. PromiseOK(x, DOMAIN promises) /\ x.parent = 0 /\ x.conts = cs
    BY <2>1, <2>2 DEF PromiseOK
  <2>4. Sound(Append(promises, x), registered \cup {Len(promises) + 1}, st, 0)
    BY <2>2, <2>3, RequestFollows
  <2>5. promises' = Append(promises, x) /\ registered' = registered \cup {Len(promises) + 1} /\ stack' = st
    BY <1>3 DEF Register
  <2> QED
    BY <2>4, <2>5 DEF FollowInv
<1>4. CASE /\ stack' = Append(st, Awaiting(f.p, next, TRUE))
           /\ UNCHANGED <<promises, registered, pending, tasks, queue, panicked>>
  BY <1>4, AwaitFollows DEF FollowInv
<1> QED
  BY <1>1, <1>2, <1>3, <1>4 DEF RunFn

LEMMA RunFinallyFollows ==
    ASSUME NEW st, NEW f, NEW next, NEW ok, Sound(promises, registered, st, next),
           next \in Ids \cup {0}, RunFinally(f, next, ok, st)
    PROVE  FollowInv'
<1>1. CASE /\ Settle(promises, next, ok /\ f.do = "value", st)
           /\ UNCHANGED <<registered, pending, tasks, queue, panicked>>
  <2> PICK o : o = (ok /\ f.do = "value")
    OBVIOUS
  <2>1. Settle(promises, next, o, st)
    BY <1>1
  <2>2. Sound(promises', registered, stack', 0)
    BY <2>1, SettleFollows DEF Ids
  <2> QED
    BY <1>1, <2>2 DEF FollowInv
<1>2. CASE Panics
  BY <1>2 DEF Panics, FollowInv
<1>3. CASE /\ Register(Len(promises) + 1) /\ UNCHANGED <<queue, panicked>>
           /\ Settle(Append(promises, Fresh(0)), next, ok, st)
  <2> PICK ps : ps = Append(promises, Fresh(0))
    OBVIOUS
  <2> PICK more : more = registered \cup {Len(promises) + 1}
    OBVIOUS
  <2>1. Sound(ps, more, st, next)
    <3>1. PromiseOK(Fresh(0), DOMAIN promises) /\ Fresh(0).parent = 0
      BY FreshOK
    <3> QED
      BY <3>1, NewFollows
  <2>2. next \in DOMAIN ps \cup {0}
    <3>1. IsSeq(promises)
      BY DEF Sound
    <3> QED
      BY <3>1, SeqDomain, PushOn DEF Ids
  <2>3. Sound(promises', more, stack', 0)
    BY <1>3, <2>1, <2>2, SettleFollows
  <2> QED
    BY <1>3, <2>3 DEF FollowInv, Register
<1>4. CASE /\ stack' = Append(st, Awaiting(f.p, next, ok))
           /\ UNCHANGED <<promises, registered, pending, tasks, queue, panicked>>
  BY <1>4, AwaitFollows DEF FollowInv
<1> QED
  BY <1>1, <1>2, <1>3, <1>4 DEF RunFinally

LEMMA TailConts ==
    ASSUME NEW s, NEW ids, ContsOK(s, ids), s # <<>>
    PROVE  /\ ContsOK(Tail(s), ids) /\ Head(s).next \in ids
           /\ \A p : NextIn(s, p) => p = Head(s).next \/ NextIn(Tail(s), p)
<1> PICK t : t = Tail(s)
  OBVIOUS
<1> PICK n : n = Len(s)
  OBVIOUS
<1>1. /\ n \in Nat \ {0} /\ DOMAIN s = 1..n /\ Head(s) = s[1] /\ IsSeq(t)
      /\ DOMAIN t = 1..(n - 1) /\ \A i \in 1..(n - 1) : t[i] = s[i + 1]
  <2>1. s \in Seq({s[i] : i \in DOMAIN s})
    BY DEF ContsOK, IsSeq
  <2>2. t \in Seq({s[i] : i \in DOMAIN s})
    BY <2>1
  <2>3. IsSeq(t)
    BY <2>2, AnySeq
  <2> QED
    BY <2>1, <2>2, <2>3
<1>2. ContsOK(t, ids)
  BY <1>1 DEF ContsOK
<1>3. s[1].next \in ids
  BY <1>1 DEF ContsOK
<1>4. ASSUME NEW p, NEW i \in DOMAIN s, s[i].next = p, i # 1
      PROVE  NextIn(t, p)
  <2>1. i - 1 \in 1..(n - 1) /\ t[i - 1] = s[i]
    BY <1>1, <1>4
  <2> QED
    BY <1>1, <1>4, <2>1 DEF NextIn
<1>5. \A p : NextIn(s, p) => p = s[1].next \/ NextIn(t, p)
  BY <1>4 DEF NextIn
<1> QED
  BY <1>1, <1>2, <1>3, <1>5

\* The innermost call, and promises it will settle.
LEMMA TopOK ==
    ASSUME FollowInv, stack # <<>>
    PROVE  Sound(promises, registered, stack, 0) /\ FrameOK(Top, Ids) /\ Ids = DOMAIN promises
BY PopOf, SeqDomain DEF FollowInv, Sound, Top, Ids

LEMMA RunContinuationFollows ==
    ASSUME FollowInv, RunContinuation
    PROVE  FollowInv'
<1>1. stack # <<>> /\ Top.do = "settle" /\ Top.conts # <<>>
  BY DEF RunContinuation, Doing
<1>2. /\ Sound(promises, registered, stack, 0) /\ Ids = DOMAIN promises
      /\ "do" \in DOMAIN Top /\ "conts" \in DOMAIN Top /\ ContsOK(Top.conts, Ids)
  BY <1>1, TopOK DEF FrameOK
<1> PICK x : x = [Top EXCEPT !.conts = Tail(@)]
  OBVIOUS
<1> PICK c : c = Head(Top.conts)
  OBVIOUS
<1> PICK ok : ok = Top.ok
  OBVIOUS
<1>3. x.do = "settle" /\ x.conts = Tail(Top.conts) /\ "do" \in DOMAIN x /\ "conts" \in DOMAIN x
  BY <1>1, <1>2
<1>4. /\ ContsOK(x.conts, Ids) /\ c.next \in Ids
      /\ \A p : NextIn(Top.conts, p) => p = c.next \/ NextIn(x.conts, p)
  BY <1>1, <1>2, <1>3, TailConts
<1>5. /\ FrameOK(x, DOMAIN promises)
      /\ \A p : Carries(Top, p) => p = c.next \/ Carries(x, p)
  BY <1>1, <1>2, <1>3, <1>4 DEF FrameOK, Carries
<1> PICK st : st = Append(Below, x)
  OBVIOUS
<1>6. Sound(promises, registered, st, c.next)
  BY <1>1, <1>2, <1>5, TopFollows
<1>7. \/ /\ Settle(promises, c.next, ok, st)
         /\ UNCHANGED <<registered, pending, tasks, queue, panicked>>
      \/ RunFinally(c.f, c.next, ok, st)
      \/ RunFn(c.f, c.next, st)
  BY DEF RunContinuation
<1>8. CASE Settle(promises, c.next, ok, st) /\ UNCHANGED <<registered, pending, tasks, queue, panicked>>
  <2>1. Sound(promises', registered, stack', 0)
    BY <1>2, <1>4, <1>6, <1>8, SettleFollows
  <2> QED
    BY <1>8, <2>1 DEF FollowInv
<1>9. CASE RunFinally(c.f, c.next, ok, st)
  BY <1>4, <1>6, <1>9, RunFinallyFollows
<1>10. CASE RunFn(c.f, c.next, st)
  BY <1>4, <1>6, <1>10, RunFnFollows
<1> QED
  BY <1>7, <1>8, <1>9, <1>10

\* Nobody depends on a call that is neither settling nor awaiting, nor on
\* one that has settled everything.
LEMMA IdleCall ==
    ASSUME NEW x, x.do \notin {"settle", "await"} \/ (x.do = "settle" /\ x.conts = <<>>)
    PROVE  \A p : ~Carries(x, p)
BY DEF Carries, NextIn

LEMMA ReturnFollows ==
    ASSUME FollowInv, stack # <<>>, stack' = Below, UNCHANGED <<promises, registered>>,
           Top.do \notin {"settle", "await"} \/ (Top.do = "settle" /\ Top.conts = <<>>)
    PROVE  FollowInv'
<1>1. \A p : Carries(Top, p) => p = 0
  BY IdleCall
<1>2. Sound(promises, registered, Below, 0)
  BY <1>1, TopOK, PopFollows
<1> QED
  BY <1>2 DEF FollowInv

\* The innermost call goes on, and settles what it was to settle.
LEMMA GoesOn ==
    ASSUME FollowInv, stack # <<>>, NEW x, "do" \in DOMAIN x, x.do = Top.do, Top.do # "settle",
           Top.do \in {"await", "combine"} => "next" \in DOMAIN x /\ x.next = Top.next
    PROVE  Sound(promises, registered, Append(Below, x), 0)
<1>1. Sound(promises, registered, stack, 0) /\ FrameOK(Top, Ids) /\ Ids = DOMAIN promises
  BY TopOK
<1>2. FrameOK(x, DOMAIN promises) /\ \A p : Carries(Top, p) => Carries(x, p)
  BY <1>1 DEF FrameOK, Carries
<1> QED
  BY <1>1, <1>2, TopFollows

\* A call is made.
LEMMA CallFollows ==
    ASSUME FollowInv, stack # <<>>, UNCHANGED <<promises, registered>>,
           NEW x, FrameOK(x, DOMAIN promises), stack' = Append(stack, x)
    PROVE  FollowInv'
<1>1. Sound(promises, registered, Append(stack, x), 0)
  BY TopOK, PushFollows
<1> QED
  BY <1>1 DEF FollowInv

LEMMA AwaitStepFollows ==
    ASSUME FollowInv, AwaitWaits \/ AwaitReturns
    PROVE  FollowInv'
<1>1. stack # <<>> /\ Top.do = "await"
  BY DEF AwaitWaits, AwaitReturns, Doing
<1>2. /\ Sound(promises, registered, stack, 0) /\ Ids = DOMAIN promises
      /\ "do" \in DOMAIN Top /\ "next" \in DOMAIN Top /\ Top.next \in Ids \cup {0}
  BY <1>1, TopOK DEF FrameOK
<1>3. CASE AwaitWaits
  <2> PICK x : x = [Top EXCEPT !.waited = TRUE]
    OBVIOUS
  <2>1. "do" \in DOMAIN x /\ x.do = Top.do /\ "next" \in DOMAIN x /\ x.next = Top.next
    BY <1>2
  <2>2. UNCHANGED <<promises, registered>> /\ stack' = Append(Append(Below, x), Frame("wait"))
    BY <1>3 DEF AwaitWaits
  <2> PICK q : q = Append(Below, x)
    OBVIOUS
  <2>3. Sound(promises, registered, q, 0)
    BY <1>1, <2>1, GoesOn
  <2>4. FrameOK(Frame("wait"), DOMAIN promises)
    BY DEF FrameOK, Frame
  <2>5. Sound(promises, registered, Append(q, Frame("wait")), 0)
    BY <2>3, <2>4, PushFollows
  <2> QED
    BY <2>2, <2>5 DEF FollowInv
<1>4. CASE AwaitReturns
  <2> PICK ok : ok = (Top.ok /\ promises[Top.p].state = "fulfilled")
    OBVIOUS
  <2>1. Settle(promises, Top.next, ok, Below) /\ registered' = registered
    BY <1>4 DEF AwaitReturns
  <2>2. \A p : Carries(Top, p) => p = Top.next
    BY <1>1 DEF Carries
  <2>3. Sound(promises, registered, Below, Top.next)
    BY <1>1, <1>2, <2>2, PopFollows
  <2>4. Sound(promises', registered, stack', 0)
    BY <1>2, <2>1, <2>3, SettleFollows
  <2> QED
    BY <2>1, <2>4 DEF FollowInv
<1> QED
  BY <1>3, <1>4

LEMMA CombineFollows ==
    ASSUME FollowInv, CombineNext
    PROVE  FollowInv'
<1>1. stack # <<>> /\ Top.do = "combine" /\ registered' = registered
  BY DEF CombineNext, Doing
<1>2. /\ Sound(promises, registered, stack, 0) /\ Ids = DOMAIN promises
      /\ "do" \in DOMAIN Top /\ "next" \in DOMAIN Top /\ Top.next \in Ids \cup {0}
  BY <1>1, TopOK DEF FrameOK
<1> PICK ok : ok = (promises[Head(Top.left)].state = "fulfilled" \/ Top.kind = "allSettled")
  OBVIOUS
<1> PICK x : x = [Top EXCEPT !.left = Tail(@)]
  OBVIOUS
<1>3. Settle(promises, Top.next, ok, Below) \/ (stack' = Append(Below, x) /\ promises' = promises)
  BY DEF CombineNext
<1>4. CASE Settle(promises, Top.next, ok, Below)
  <2>1. \A p : Carries(Top, p) => p = Top.next
    BY <1>1 DEF Carries
  <2>2. Sound(promises, registered, Below, Top.next)
    BY <1>1, <1>2, <2>1, PopFollows
  <2>3. Sound(promises', registered, stack', 0)
    BY <1>2, <1>4, <2>2, SettleFollows
  <2> QED
    BY <1>1, <2>3 DEF FollowInv
<1>5. CASE stack' = Append(Below, x) /\ promises' = promises
  <2>1. "do" \in DOMAIN x /\ x.do = Top.do /\ "next" \in DOMAIN x /\ x.next = Top.next
    BY <1>2
  <2>2. Sound(promises, registered, Append(Below, x), 0)
    BY <1>1, <2>1, GoesOn
  <2> QED
    BY <1>1, <1>5, <2>2 DEF FollowInv
<1> QED
  BY <1>3, <1>4, <1>5

LEMMA TimerFollows ==
    ASSUME FollowInv, TimerRuns
    PROVE  FollowInv'
<1>1. stack # <<>> /\ Top.do = "timer"
  BY DEF TimerRuns, Doing
<1>2. "do" \in DOMAIN Top
  BY <1>1, TopOK DEF FrameOK
<1> PICK x : x = [Top EXCEPT !.left = Tail(@)]
  OBVIOUS
<1> PICK st : st = Append(Below, x)
  OBVIOUS
<1>3. "do" \in DOMAIN x /\ x.do = Top.do
  BY <1>2
<1>4. Sound(promises, registered, st, 0)
  BY <1>1, <1>3, GoesOn
<1>5. RunFn(Head(Top.left), 0, st)
  BY DEF TimerRuns
<1> QED
  BY <1>4, <1>5, RunFnFollows

LEMMA DrainFollows ==
    ASSUME FollowInv, AsyncInv, DrainSettles \/ DrainCounts
    PROVE  FollowInv'
<1>1. stack # <<>> /\ Top.do = "drain"
  BY DEF DrainSettles, DrainCounts, Doing
<1>2. "do" \in DOMAIN Top /\ Sound(promises, registered, stack, 0) /\ Ids = DOMAIN promises
  BY <1>1, TopOK DEF FrameOK
<1>3. CASE DrainSettles
  <2> PICK x : x = [Top EXCEPT !.busy = TRUE]
    OBVIOUS
  <2> PICK c : c = Head(Top.batch)
    OBVIOUS
  <2> PICK p : p = IF c.id \in registered THEN c.id ELSE 0
    OBVIOUS
  <2>1. Settle(promises, p, c.ok, Append(Below, x)) /\ registered' = registered \ {c.id}
    BY <1>3 DEF DrainSettles
  <2>2. "do" \in DOMAIN x /\ x.do = Top.do
    BY <1>2
  <2>3. Sound(promises, registered, Append(Below, x), 0)
    BY <1>1, <2>2, GoesOn
  <2>4. registered \subseteq DOMAIN promises /\ p \in DOMAIN promises \cup {0}
        /\ (registered' = registered \/ registered' = registered \ {p})
    BY <1>2, <2>1 DEF Sound
  <2>5. Sound(promises, registered, Append(Below, x), p)
    <3>1. \A q \in DOMAIN promises : q # 0
      BY <1>2, SeqDomain DEF Sound
    <3> QED
      BY <2>3, <3>1 DEF Sound
  <2> PICK ok : ok = c.ok
    OBVIOUS
  <2> PICK st : st = Append(Below, x)
    OBVIOUS
  <2> PICK less : less = registered'
    OBVIOUS
  <2>6. Sound(promises', less, stack', 0)
    BY <2>1, <2>4, <2>5, SettleFollows
  <2> QED
    BY <2>6 DEF FollowInv
<1>4. CASE DrainCounts
  <2> PICK x : x = [Top EXCEPT !.busy = FALSE, !.batch = Tail(@)]
    OBVIOUS
  <2>1. "do" \in DOMAIN x /\ x.do = Top.do
    BY <1>2
  <2>2. Sound(promises, registered, Append(Below, x), 0)
    BY <1>1, <2>1, GoesOn
  <2> QED
    BY <1>4, <2>2 DEF FollowInv, DrainCounts
<1> QED
  BY <1>3, <1>4

\* The promise p, which is pending, has got the handler c.
Gains(ps, new, p, c) ==
    /\ p \in DOMAIN ps /\ c.next \in DOMAIN ps /\ ps[c.next].parent = p
    /\ IsSeq(new) /\ DOMAIN new = DOMAIN ps
    /\ \A k \in DOMAIN ps : k # p => new[k] = ps[k]
    /\ DOMAIN new[p] = {"state", "conts", "parent"} /\ new[p].parent = ps[p].parent
    /\ new[p].state = "pending" /\ ps[p].state = "pending"
    /\ new[p].conts = Append(ps[p].conts, c)

LEMMA HandlerFollows ==
    ASSUME NEW ps, NEW reg, NEW sk, NEW new, NEW p, NEW c, Gains(ps, new, p, c),
           Sound(ps, reg, sk, c.next)
    PROVE  Sound(new, reg, sk, 0)
<1> PICK next : next = c.next
  OBVIOUS
<1>0. /\ p \in DOMAIN ps /\ next \in DOMAIN ps /\ ps[next].parent = p
      /\ IsSeq(new) /\ DOMAIN new = DOMAIN ps
      /\ \A k \in DOMAIN ps : k # p => new[k] = ps[k]
      /\ DOMAIN new[p] = {"state", "conts", "parent"} /\ new[p].parent = ps[p].parent
      /\ new[p].state = "pending" /\ ps[p].state = "pending"
      /\ new[p].conts = Append(ps[p].conts, c)
  BY DEF Gains
<1> PICK cs : cs = ps[p].conts
  OBVIOUS
<1>1. PromiseOK(ps[p], DOMAIN ps) /\ ContsOK(cs, DOMAIN ps) /\ IsSeq(cs)
  BY <1>0 DEF Sound, PromiseOK, ContsOK
<1>2. /\ IsSeq(new[p].conts) /\ Len(cs) \in Nat /\ DOMAIN cs = 1..Len(cs)
      /\ DOMAIN new[p].conts = 1..(Len(cs) + 1)
      /\ \A i \in 1..Len(cs) : new[p].conts[i] = cs[i]
      /\ new[p].conts[Len(cs) + 1] = c
  BY <1>0, <1>1, PushOn, SeqDomain
<1>3. /\ \A i \in DOMAIN new[p].conts : i \in DOMAIN cs \/ i = Len(cs) + 1
      /\ \A i \in DOMAIN cs : i \in DOMAIN new[p].conts
      /\ Len(cs) + 1 \in DOMAIN new[p].conts
  BY <1>2
<1>4. ContsOK(new[p].conts, DOMAIN ps) /\ NextIn(new[p].conts, next)
      /\ \A q : NextIn(ps[p].conts, q) => NextIn(new[p].conts, q)
  BY <1>0, <1>1, <1>2, <1>3 DEF ContsOK, NextIn
<1>5. PromiseOK(new[p], DOMAIN ps)
  BY <1>0, <1>1, <1>4 DEF PromiseOK
<1>6. \A k \in DOMAIN ps : /\ PromiseOK(new[k], DOMAIN ps) /\ new[k].parent = ps[k].parent
                           /\ new[k].state = ps[k].state
                           /\ \A q : NextIn(ps[k].conts, q) => NextIn(new[k].conts, q)
  BY <1>0, <1>4, <1>5 DEF Sound
<1>7. ASSUME NEW q \in DOMAIN ps, ps[q].parent # 0, Followed(ps, reg, sk, q)
      PROVE  Followed(new, reg, sk, q)
  <2>1. ps[q].parent \in DOMAIN ps /\ reg \subseteq DOMAIN ps
    BY <1>7 DEF Sound, PromiseOK
  <2> QED
    BY <1>6, <1>7, <2>1 DEF Followed
<1>8. Followed(new, reg, sk, next)
  BY <1>0, <1>4, <1>6 DEF Followed
<1> QED
  BY <1>0, <1>6, <1>7, <1>8 DEF Sound

LEMMA AddContinuationFollows ==
    ASSUME FollowInv, NEW p \in Ids, NEW kind, NEW f, AddContinuation(p, kind, f)
    PROVE  FollowInv'
<1> PICK n : n = Len(promises) + 1
  OBVIOUS
<1> PICK cont : cont = [kind |-> kind, next |-> n, f |-> f]
  OBVIOUS
<1> PICK ps : ps = Append(promises, Fresh(p))
  OBVIOUS
<1>1. /\ Op /\ UNCHANGED <<registered, pending, tasks, queue>>
      /\ promises' = IF IsPending(p)
                     THEN Append([promises EXCEPT ![p].conts = Append(@, cont)], Fresh(p))
                     ELSE Append(promises, Fresh(p))
      /\ stack' = IF IsPending(p) THEN stack
                  ELSE Append(stack, [do |-> "settle", conts |-> <<cont>>,
                                      ok |-> promises[p].state = "fulfilled"])
  BY DEF AddContinuation
<1>2. stack # <<>> /\ Top.do = "script" /\ cont.next = n
  BY <1>1 DEF Op, Doing
<1>3. /\ Sound(promises, registered, stack, 0) /\ Ids = DOMAIN promises /\ IsSeq(promises)
      /\ PromiseOK(promises[p], DOMAIN promises) /\ n \in Nat /\ DOMAIN promises = 1..(n - 1)
  BY <1>2, TopOK, SeqDomain DEF Sound
<1>4. PromiseOK(Fresh(p), Ids) /\ Fresh(p).parent = p /\ Fresh(p).state = "pending"
  BY FreshOK
<1>5. Sound(ps, registered, stack, n)
  BY <1>3, <1>4, NewFollows
<1>6. /\ IsSeq(ps) /\ DOMAIN ps = 1..n /\ n \in DOMAIN ps /\ p \in DOMAIN ps /\ p # n
      /\ \A k \in 1..(n - 1) : ps[k] = promises[k]
      /\ ps[n] = Fresh(p)
  BY <1>3, PushOn
<1>7. CASE IsPending(p)
  <2> DEFINE old == [promises EXCEPT ![p].conts = Append(@, cont)]
  <2>1. /\ DOMAIN old = DOMAIN promises /\ \A k \in DOMAIN promises : k # p => old[k] = promises[k]
    BY <1>3
  <2>2. /\ DOMAIN old[p] = {"state", "conts", "parent"} /\ old[p].state = promises[p].state
        /\ old[p].parent = promises[p].parent /\ old[p].conts = Append(promises[p].conts, cont)
    BY <1>3 DEF PromiseOK
  <2>3. IsSeq(old) /\ Len(old) = n - 1
    <3>1. old = [i \in 1..(n - 1) |-> old[i]]
      BY <1>3
    <3>2. n - 1 \in Nat
      BY <1>3, SeqDomain
    <3> HIDE DEF old
    <3> QED
      BY <3>1, <3>2, SeqFrom
  <2>4. promises' = Append(old, Fresh(p)) /\ stack' = stack
    BY <1>1, <1>7
  <2> HIDE DEF old
  <2> PICK new : new = promises'
    OBVIOUS
  <2>5. /\ IsSeq(new) /\ DOMAIN new = 1..n /\ new[n] = Fresh(p)
        /\ \A k \in 1..(n - 1) : new[k] = old[k]
    BY <1>3, <2>3, <2>4, PushOn
  <2>6. \A k \in DOMAIN ps : k # p => new[k] = ps[k]
    <3>1. \A k \in DOMAIN ps : k = n \/ k \in 1..(n - 1)
      BY <1>3, <1>6
    <3> QED
      BY <1>3, <1>6, <2>1, <2>5, <3>1
  <2>7. new[p] = old[p] /\ ps[p] = promises[p]
    BY <1>3, <1>6, <2>5
  <2>8. Sound(new, registered, stack, 0)
    <3>1. /\ n \in DOMAIN ps /\ p \in DOMAIN ps /\ ps[n].parent = p /\ ps[p].state = "pending"
          /\ cont.next = n /\ IsSeq(new) /\ DOMAIN new = DOMAIN ps
      BY <1>2, <1>4, <1>6, <1>7, <2>5, <2>7 DEF IsPending
    <3>2. /\ DOMAIN new[p] = {"state", "conts", "parent"} /\ new[p].state = "pending"
          /\ new[p].parent = ps[p].parent /\ new[p].conts = Append(ps[p].conts, cont)
      BY <1>7, <2>2, <2>7 DEF IsPending
    <3>3. Gains(ps, new, p, cont)
      BY <2>6, <3>1, <3>2 DEF Gains
    <3> QED
      BY <1>2, <1>5, <3>3, HandlerFollows
  <2> QED
    BY <1>1, <2>4, <2>8 DEF FollowInv
<1>8. CASE ~IsPending(p)
  <2> PICK x : x = [do |-> "settle", conts |-> <<cont>>, ok |-> promises[p].state = "fulfilled"]
    OBVIOUS
  <2>1. /\ <<cont>> \in Seq({cont}) /\ DOMAIN <<cont>> = {1} /\ <<cont>>[1] = cont
        /\ x.do = "settle" /\ x.conts = <<cont>> /\ "do" \in DOMAIN x /\ "conts" \in DOMAIN x
    OBVIOUS
  <2>2. IsSeq(<<cont>>)
    BY <2>1, AnySeq
  <2>3. FrameOK(x, DOMAIN ps) /\ Carries(x, n)
    BY <1>2, <1>6, <2>1, <2>2 DEF FrameOK, Carries, ContsOK, NextIn
  <2>4. Sound(ps, registered, Append(stack, x), 0)
    BY <1>5, <2>3, PushFollows
  <2>5. promises' = ps /\ stack' = Append(stack, x) /\ registered' = registered
    BY <1>1, <1>8
  <2> QED
    BY <2>4, <2>5 DEF FollowInv
<1> QED
  BY <1>7, <1>8

LEMMA PlainFrame ==
    ASSUME NEW x, NEW ids, "do" \in DOMAIN x, x.do \notin {"settle", "await", "combine"}
    PROVE  FrameOK(x, ids)
BY DEF FrameOK

LEMMA OpFollows ==
    ASSUME FollowInv, RequestAsync \/ PromiseConstructor
    PROVE  FollowInv'
<1>1. stack # <<>> /\ stack' = stack
  BY DEF RequestAsync, PromiseConstructor, Op, Doing
<1>2. Sound(promises, registered, stack, 0)
  BY <1>1, TopOK
<1>3. PromiseOK(Fresh(0), DOMAIN promises) /\ Fresh(0).parent = 0
  BY FreshOK
<1>4. CASE RequestAsync
  <2>1. Sound(Append(promises, Fresh(0)), registered \cup {Len(promises) + 1}, stack, 0)
    BY <1>2, <1>3, RequestFollows
  <2> QED
    BY <1>1, <1>4, <2>1 DEF FollowInv, RequestAsync, Register
<1>5. CASE PromiseConstructor
  <2>1. PICK s : promises' = Append(promises, [Fresh(0) EXCEPT !.state = s])
    BY <1>5 DEF PromiseConstructor
  <2> PICK x : x = [Fresh(0) EXCEPT !.state = s]
    OBVIOUS
  <2>2. x = [state |-> s, conts |-> <<>>, parent |-> 0]
    BY DEF Fresh
  <2>3. ContsOK(<<>>, DOMAIN promises)
    BY <1>3 DEF Fresh, PromiseOK
  <2>4. PromiseOK(x, DOMAIN promises) /\ x.parent = 0
    BY <2>2, <2>3 DEF PromiseOK
  <2>5. Sound(Append(promises, x), registered, stack, 0)
    BY <1>2, <2>4, NewFollows
  <2>6. promises' = Append(promises, x) /\ registered' = registered
    BY <1>5, <2>1 DEF PromiseConstructor
  <2> QED
    BY <1>1, <2>5, <2>6 DEF FollowInv
<1> QED
  BY <1>4, <1>5

LEMMA OpCallFollows ==
    ASSUME FollowInv,
           \/ \E p \in Ids : Await(p)
           \/ \E p, q \in Ids, kind \in {"all", "allSettled", "race"} : Combine(kind, <<p, q>>)
           \/ \E f \in Fns, ticks \in {1, MaxTicks} : SetTimer(f, ticks)
    PROVE  FollowInv'
<1>1. stack # <<>>
  BY DEF Await, Combine, SetTimer, Op, Doing
<1>2. ASSUME NEW p, Await(p)
      PROVE  FollowInv'
  <2> PICK x : x = Awaiting(p, 0, TRUE)
    OBVIOUS
  <2>1. FrameOK(x, DOMAIN promises)
    BY DEF FrameOK, Awaiting
  <2> QED
    BY <1>1, <1>2, <2>1, CallFollows DEF Await
<1>3. ASSUME NEW kind, NEW ps, Combine(kind, ps)
      PROVE  FollowInv'
  <2> PICK n : n = Len(promises) + 1
    OBVIOUS
  <2> PICK x : x = [do |-> "combine", kind |-> kind, left |-> ps, next |-> n]
    OBVIOUS
  <2> PICK new : new = Append(promises, Fresh(0))
    OBVIOUS
  <2>1. Sound(promises, registered, stack, 0)
    BY <1>1, TopOK
  <2>2. PromiseOK(Fresh(0), DOMAIN promises) /\ Fresh(0).parent = 0
    BY FreshOK
  <2>3. Sound(new, registered, stack, 0)
    BY <2>1, <2>2, NewFollows
  <2>4. n \in DOMAIN new
    <3>1. IsSeq(promises)
      BY <2>1 DEF Sound
    <3> QED
      BY <3>1, PushOn, SeqDomain
  <2>5. FrameOK(x, DOMAIN new)
    BY <2>4 DEF FrameOK
  <2>6. Sound(new, registered, Append(stack, x), 0)
    BY <2>3, <2>5, PushFollows
  <2> QED
    BY <1>3, <2>6 DEF FollowInv, Combine
<1>4. ASSUME NEW f, NEW ticks, SetTimer(f, ticks)
      PROVE  FollowInv'
  <2> PICK x : x = [do |-> "timer", left |-> [i \in 1 .. ticks |-> f]]
    OBVIOUS
  <2>1. FrameOK(x, DOMAIN promises)
    BY PlainFrame
  <2>2. stack' = Append(stack, x) /\ UNCHANGED <<promises, registered>>
    BY <1>4 DEF SetTimer
  <2> QED
    BY <1>1, <2>1, <2>2, CallFollows
<1> QED
  BY <1>2, <1>3, <1>4

\* The script is the only call on the stack when it ends.
LEMMA OnlyScript ==
    ASSUME AsyncInv, Doing("script")
    PROVE  DOMAIN stack = {1} /\ stack[1].do = "script"
<1>1. stack # <<>> /\ Top.do = "script" /\ StackOK
  BY DEF Doing, AsyncInv
<1>2. Len(stack) \in Nat \ {0} /\ DOMAIN stack = 1..Len(stack) /\ Top = stack[Len(stack)]
  BY <1>1, PopOf, SeqDomain DEF StackOK, Top
<1>3. Len(stack) \in DOMAIN stack /\ Len(stack) = 1
  BY <1>1, <1>2 DEF StackOK
<1> QED
  BY <1>1, <1>2, <1>3

LEMMA ScriptEndsFollows ==
    ASSUME FollowInv, AsyncInv, ScriptEnds
    PROVE  FollowInv'
<1>1. /\ stack # <<>> /\ Doing("script") /\ UNCHANGED <<promises, registered>>
      /\ stack' = <<Frame("exit"), Frame("wait")>>
  BY DEF ScriptEnds, Doing
<1>2. Sound(promises, registered, stack, 0)
  BY <1>1, TopOK
<1> PICK a : a = Frame("exit")
  OBVIOUS
<1> PICK b : b = Frame("wait")
  OBVIOUS
<1>3. FrameOK(a, DOMAIN promises) /\ FrameOK(b, DOMAIN promises)
  BY DEF FrameOK, Frame
<1>4. /\ stack' = <<a, b>> /\ <<a, b>> \in Seq({a, b}) /\ DOMAIN <<a, b>> = {1, 2}
      /\ <<a, b>>[1] = a /\ <<a, b>>[2] = b
  BY <1>1
<1>5. IsSeq(stack')
  BY <1>4, AnySeq
<1>6. \A k \in DOMAIN stack' : FrameOK(stack'[k], DOMAIN promises)
  BY <1>3, <1>4
<1>7. \A k \in DOMAIN stack : \A p : ~Carries(stack[k], p)
  BY <1>1, OnlyScript DEF Carries
<1>8. \A p : Followed(promises, registered, stack, p) => Followed(promises, registered, stack', p)
  BY <1>7 DEF Followed
<1>9. Sound(promises, registered, stack', 0)
  BY <1>2, <1>5, <1>6, <1>8 DEF Sound
<1> QED
  BY <1>1, <1>9 DEF FollowInv

LEMMA VmFollows ==
    ASSUME FollowInv, AsyncInv, VmStep
    PROVE  FollowInv'
<1>1. CASE SettleReturns
  BY <1>1, ReturnFollows DEF SettleReturns, Doing
<1>2. CASE TimerReturns \/ WaitReturns \/ DrainReturns
  <2>1. /\ stack # <<>> /\ stack' = Below /\ UNCHANGED <<promises, registered>>
        /\ Top.do \notin {"settle", "await"}
    BY <1>2 DEF TimerReturns, WaitReturns, DrainReturns, Doing
  <2> QED
    BY <2>1, ReturnFollows
<1>3. CASE WaitDrains
  <2> PICK x : x = [do |-> "drain", batch |-> queue, busy |-> FALSE]
    OBVIOUS
  <2>1. FrameOK(x, DOMAIN promises)
    BY PlainFrame
  <2>2. stack # <<>> /\ stack' = Append(stack, x) /\ UNCHANGED <<promises, registered>>
    BY <1>3 DEF WaitDrains, Doing
  <2> QED
    BY <2>1, <2>2, CallFollows
<1>4. CASE WaitPanics
  BY <1>4 DEF WaitPanics, Panics, FollowInv
<1> QED
  BY <1>1, <1>2, <1>3, <1>4, RunContinuationFollows, AwaitStepFollows, CombineFollows,
     TimerFollows, DrainFollows DEF VmStep

LEMMA FollowStarts == AsyncInit => FollowInv
<1> SUFFICES ASSUME AsyncInit
             PROVE  FollowInv
  OBVIOUS
<1> PICK f : f = Frame("script")
  OBVIOUS
<1>1. /\ stack = <<f>> /\ <<f>> \in Seq({f}) /\ DOMAIN <<f>> = {1} /\ <<f>>[1] = f
      /\ promises = <<>> /\ <<>> \in Seq({}) /\ DOMAIN <<>> = {} /\ registered = {}
  BY DEF AsyncInit
<1>2. IsSeq(stack) /\ IsSeq(promises)
  BY <1>1, AnySeq
<1>3. FrameOK(f, DOMAIN promises)
  BY DEF FrameOK, Frame
<1> QED
  BY <1>1, <1>2, <1>3 DEF FollowInv, Sound

LEMMA FollowStep == AsyncInv /\ FollowInv /\ [AsyncNext]_asyncVars => FollowInv'
<1> SUFFICES ASSUME AsyncInv, FollowInv, [AsyncNext]_asyncVars
             PROVE  FollowInv'
  OBVIOUS
<1>1. CASE ScriptStep
  <2>1. ASSUME NEW p \in Ids, NEW kind, NEW f, AddContinuation(p, kind, f)
        PROVE  FollowInv'
    BY <2>1, AddContinuationFollows
  <2> QED
    BY <1>1, <2>1, OpFollows, OpCallFollows, ScriptEndsFollows DEF ScriptStep
<1>2. CASE VmStep
  BY <1>2, VmFollows
<1>3. CASE UNCHANGED <<promises, registered, stack>>
  BY <1>3 DEF FollowInv
<1> QED
  BY <1>1, <1>2, <1>3 DEF AsyncNext, Complete, DeadlinePasses, asyncVars

\* However handlers, awaits and timers nest: when the script has control
\* again, a promise made by then, catch or finally is settled once its parent
\* is, unless it follows a request that is still out (Promise::settle,
\* add_continuation, resolve_chained_promise).
THEOREM ContinuationsKept == AsyncSpec => []NoLostContinuation
<1>1. AsyncInit => AsyncInv /\ FollowInv
  BY AsyncStarts, FollowStarts
<1>2. AsyncInv /\ FollowInv /\ [AsyncNext]_asyncVars => AsyncInv' /\ FollowInv'
  BY AsyncStep, FollowStep
<1>3. AsyncInv /\ FollowInv => NoLostContinuation
  <2> SUFFICES ASSUME AsyncInv, FollowInv, Doing("script"), NEW p \in Ids,
                      promises[p].parent # 0, ~IsPending(promises[p].parent), IsPending(p)
               PROVE  \E r \in registered : \E i \in DOMAIN promises[r].conts :
                         promises[r].conts[i].next = p
    BY DEF NoLostContinuation
  <2>1. \A k \in DOMAIN stack : ~Carries(stack[k], p)
    BY OnlyScript DEF Carries
  <2>2. Followed(promises, registered, stack, p)
    <3>1. p # 0 /\ Sound(promises, registered, stack, 0)
      BY TopOK, SeqDomain DEF Doing, Sound
    <3> QED
      BY <3>1 DEF Sound, IsPending, Ids
  <2> QED
    BY <2>1, <2>2 DEF Followed, IsPending, NextIn
<1> QED
  BY <1>1, <1>2, <1>3, PTL DEF AsyncSpec

---------------------------------------------------------------------------
(* Plugins and sockets                                                     *)
(*                                                                         *)
(* The host takes the next line of a plugin for the answer to its call.    *)
(* What makes that right is that a plugin is called only when it owes      *)
(* nothing: the invariant says what each child owes and to whom, and on    *)
(* the other side that a connection which waits to be accepted holds just  *)
(* the call its client waits for.                                          *)
---------------------------------------------------------------------------
Wire == Values \cup {"undefined", "null", "boolean", "number", "string", "empty object"}
FrameTypes == {"hello", "ready", "event", "bad", "call", "result"}
Frames == [type : FrameTypes, id : Nat, ok : BOOLEAN, value : Wire]
Kids == [running : BOOLEAN, inbox : Seq(Frames), outbox : Seq(Frames), noise : Nat, garbage : Nat]

\* A child that has written nothing of its own accord owes nothing, or one
\* answer: the question is before it, or the answer is on its way.  Lines
\* that are no frames may stand around it.
Quiet(s) == \A i \in DOMAIN s : s[i].type = "bad"
Calm(k) == k.noise = 0 => k.inbox = <<>> /\ Quiet(k.outbox)
Owes(k, question, results, id) ==
    k.noise = 0 =>
        \/ Quiet(k.outbox) /\ Len(k.inbox) = 1 /\ k.inbox[1].type = question /\ k.inbox[1].id = id
        \/ /\ k.inbox = <<>>
           /\ \E i \in DOMAIN k.outbox :
                 /\ k.outbox[i].type \in results /\ k.outbox[i].id = id
                 /\ \A j \in DOMAIN k.outbox : j # i => k.outbox[j].type = "bad"
OwesWelcome(k) == Owes(k, "hello", {"ready", "event"}, 0)
OwesResult(k, id) == Owes(k, "call", {"result"}, id)

HostOK ==
    /\ host \in [pc : {"idle", "ready", "call"}, name : PluginNames \cup {""}, child : Nat, id : Nat]
    /\ host.pc # "idle" => host.child \in DOMAIN children
    /\ host.pc = "ready" => OwesWelcome(children[host.child]) /\ host.name \in PluginNames
    /\ host.pc = "call" =>
         /\ host.name \in DOMAIN plugins /\ plugins[host.name] = [child |-> host.child, dead |-> FALSE]
         /\ OwesResult(children[host.child], host.id)

\* Each plugin has a child of its own; one that is alive and not being called
\* owes nothing.
PluginsOK ==
    /\ plugins = [n \in DOMAIN plugins |-> plugins[n]]
    /\ \A n \in DOMAIN plugins : plugins[n] \in [child : DOMAIN children, dead : BOOLEAN]
    /\ \A n, m \in DOMAIN plugins : plugins[n].child = plugins[m].child => n = m
    /\ \A n \in DOMAIN plugins : host.pc = "ready" => plugins[n].child # host.child
    /\ \A n \in DOMAIN plugins :
          \/ plugins[n].dead \/ (host.pc = "call" /\ host.name = n)
          \/ Calm(children[plugins[n].child])

AnswersOK == \A a \in answers : a.noise = 0 => a.frame.id = a.id /\ a.frame.type = "result"

PluginInv == children \in Seq(Kids) /\ calls \in Nat /\ HostOK /\ PluginsOK /\ AnswersOK

\* The frame that is sent for v, and the value of the answer of a handler
\* that returns its argument.
Echoed(v) == DecodeClient(EncodeServer(DecodeServer(EncodeClient(v))))
Connections == [toServer : Seq(Frames), toClient : Seq(Frames), alive : BOOLEAN, open : BOOLEAN,
                waits : Nat, value : Values \cup {"undefined"}]

\* A connection that waits to be accepted holds the call it waits for; an
\* answer on its way is the one of that call.
Waiting(r) ==
    /\ r.open /\ r.toClient = <<>>
    /\ r.toServer = IF r.waits = 0 THEN <<>>
                    ELSE <<FrameOf("call", r.waits, FALSE, EncodeClient(r.value))>>
Answering(r) ==
    r.toClient # <<>> =>
         /\ r.waits # 0 /\ Len(r.toClient) = 1
         /\ r.toClient[1].id = r.waits /\ r.toClient[1].value = Echoed(r.value)

EchoesOK == \A e \in echoes : e.frame.id = e.id /\ (e.sent \in Plain => e.frame.value = e.sent)

SocketInv ==
    /\ conns \in Seq(Connections) /\ calls \in Nat
    /\ backlogGtp \in Seq(DOMAIN conns)
    /\ \A i, j \in DOMAIN backlogGtp : backlogGtp[i] = backlogGtp[j] => i = j
    /\ \A i \in DOMAIN backlogGtp : Waiting(conns[backlogGtp[i]])
    /\ \A i \in DOMAIN conns : Answering(conns[i])
    /\ EchoesOK

\* One child is another record afterwards.
LEMMA KidSet ==
    ASSUME NEW kids \in Seq(Kids), NEW c \in DOMAIN kids, NEW k \in Kids,
           NEW s, s = [kids EXCEPT ![c] = k]
    PROVE  /\ s \in Seq(Kids) /\ DOMAIN s = DOMAIN kids /\ s[c] = k
           /\ \A d \in DOMAIN kids : d # c => s[d] = kids[d]
<1>1. c \in 1..Len(kids) /\ DOMAIN kids = 1..Len(kids)
  BY LenProperties
<1>2. s \in Seq(Kids) /\ Len(s) = Len(kids)
  BY <1>1, ExceptSeq
<1>3. DOMAIN s = 1..Len(s)
  BY <1>2, LenProperties
<1> QED
  BY <1>1, <1>2, <1>3

\* The fields of a child.
LEMMA KidFields ==
    ASSUME NEW k \in Kids
    PROVE  /\ k.running \in BOOLEAN /\ k.inbox \in Seq(Frames) /\ k.outbox \in Seq(Frames)
           /\ k.noise \in Nat /\ k.garbage \in Nat
           /\ k = [running |-> k.running, inbox |-> k.inbox, outbox |-> k.outbox,
                   noise |-> k.noise, garbage |-> k.garbage]
<1> DEFINE S == Seq(Frames)
<1> HIDE DEF S
<1>1. k \in [running : BOOLEAN, inbox : S, outbox : S, noise : Nat, garbage : Nat]
  BY DEF Kids, S
<1> QED
  BY <1>1 DEF S

LEMMA KidOf ==
    ASSUME NEW r \in BOOLEAN, NEW i \in Seq(Frames), NEW o \in Seq(Frames), NEW n \in Nat, NEW g \in Nat,
           NEW l, l = [running |-> r, inbox |-> i, outbox |-> o, noise |-> n, garbage |-> g]
    PROVE  l \in Kids
<1> DEFINE S == Seq(Frames)
<1> HIDE DEF S
<1>1. i \in S /\ o \in S
  BY DEF S
<1>2. l \in [running : BOOLEAN, inbox : S, outbox : S, noise : Nat, garbage : Nat]
  BY <1>1
<1> QED
  BY <1>2 DEF Kids, S

\* What a child owed it still owes.
Keeps(k, l) ==
    /\ Calm(k) => Calm(l)
    /\ OwesWelcome(k) => OwesWelcome(l)
    /\ \A id \in Nat : OwesResult(k, id) => OwesResult(l, id)

LEMMA KidsStay ==
    ASSUME PluginInv, children' \in Seq(Kids), DOMAIN children \subseteq DOMAIN children',
           \A d \in DOMAIN children : Keeps(children[d], children'[d]),
           UNCHANGED <<plugins, host, calls, answers>>
    PROVE  PluginInv'
<1>1. host.id \in Nat /\ \A n \in DOMAIN plugins : plugins[n].child \in DOMAIN children
  BY DEF PluginInv, HostOK, PluginsOK
<1>2. HostOK'
  BY <1>1 DEF PluginInv, HostOK, Keeps
<1>3. PluginsOK'
  BY <1>1 DEF PluginInv, PluginsOK, Keeps
<1> QED
  BY <1>2, <1>3 DEF PluginInv, AnswersOK

LEMMA KeepsSame == ASSUME NEW k PROVE Keeps(k, k)
BY DEF Keeps

LEMMA KidLines ==
    ASSUME NEW k \in Kids, NEW i \in Seq(Frames), NEW o \in Seq(Frames), NEW n \in Nat, NEW g \in Nat
    PROVE  [running |-> k.running, inbox |-> i, outbox |-> o, noise |-> n, garbage |-> g] \in Kids
<1>1. k.running \in BOOLEAN
  BY KidFields
<1> QED
  BY <1>1, KidOf

LEMMA KidOutbox ==
    ASSUME NEW k \in Kids, NEW o \in Seq(Frames)
    PROVE  [running |-> k.running, inbox |-> k.inbox, outbox |-> o,
            noise |-> k.noise, garbage |-> k.garbage] \in Kids
<1>1. k.running \in BOOLEAN /\ k.inbox \in Seq(Frames) /\ k.noise \in Nat /\ k.garbage \in Nat
  BY KidFields
<1> QED
  BY <1>1, KidOf

LEMMA OutboxGrows ==
    ASSUME NEW s \in Seq(Frames), NEW f \in Frames
    PROVE  /\ Append(s, f) \in Seq(Frames) /\ Len(s) \in Nat /\ DOMAIN s = 1..Len(s)
           /\ DOMAIN Append(s, f) = 1..(Len(s) + 1) /\ Append(s, f)[Len(s) + 1] = f
           /\ \A i \in 1..Len(s) : Append(s, f)[i] = s[i]
BY AppendProperties, LenProperties

\* A child goes on writing lines of its own, or ends.
LEMMA TailOfOne ==
    ASSUME NEW s \in Seq(Frames), s # <<>>
    PROVE  /\ Tail(s) \in Seq(Frames) /\ Head(s) = s[1] /\ Head(s) \in Frames
           /\ (Len(s) = 1 => Tail(s) = <<>>)
<1>1. Head(s) \in Frames /\ Tail(s) \in Seq(Frames) /\ Len(Tail(s)) = Len(s) - 1
  BY HeadTailProperties
<1>2. ASSUME Len(s) = 1 PROVE Tail(s) = <<>>
  <2>1. Len(Tail(s)) = 0
    BY <1>1, <1>2
  <2> QED
    BY <1>1, <2>1, EmptySeq
<1>3. Head(s) = s[1]
  OBVIOUS
<1> QED
  BY <1>1, <1>2, <1>3

LEMMA KidEnds ==
    ASSUME NEW k \in Kids, NEW l, l = [k EXCEPT !.running = FALSE]
    PROVE  l \in Kids /\ Keeps(k, l)
<1>1. l = [running |-> FALSE, inbox |-> k.inbox, outbox |-> k.outbox,
           noise |-> k.noise, garbage |-> k.garbage]
  BY DEF Kids
<1>2. l \in Kids
  <2>1. k.inbox \in Seq(Frames) /\ k.outbox \in Seq(Frames) /\ k.noise \in Nat /\ k.garbage \in Nat
    BY KidFields
  <2> QED
    BY <1>1, <2>1, KidOf
<1>3. l.noise = k.noise /\ l.inbox = k.inbox /\ l.outbox = k.outbox
  BY <1>1
<1> QED
  BY <1>2, <1>3 DEF Keeps, Calm, OwesWelcome, OwesResult, Owes

LEMMA KidNoise ==
    ASSUME NEW k \in Kids, NEW f \in Frames, NEW l,
           l = [k EXCEPT !.noise = @ + 1, !.outbox = Append(@, f)]
    PROVE  l \in Kids /\ Keeps(k, l)
<1>1. l = [running |-> k.running, inbox |-> k.inbox, outbox |-> Append(k.outbox, f),
           noise |-> k.noise + 1, garbage |-> k.garbage]
  BY DEF Kids
<1>2. k.noise + 1 \in Nat /\ k.noise + 1 # 0 /\ Append(k.outbox, f) \in Seq(Frames)
  BY KidFields, OutboxGrows
<1>3. l \in Kids
  <2> DEFINE o == Append(k.outbox, f)
             n == k.noise + 1
  <2>1. k.inbox \in Seq(Frames) /\ k.garbage \in Nat /\ o \in Seq(Frames) /\ n \in Nat
    BY <1>2, KidFields
  <2> HIDE DEF o, n
  <2>2. [running |-> k.running, inbox |-> k.inbox, outbox |-> o, noise |-> n,
         garbage |-> k.garbage] \in Kids
    BY <2>1, KidLines
  <2> QED
    BY <1>1, <2>2 DEF o, n
<1>4. l.noise # 0
  BY <1>1, <1>2
<1> QED
  BY <1>3, <1>4 DEF Keeps, Calm, OwesWelcome, OwesResult, Owes

LEMMA KidGarbage ==
    ASSUME NEW k \in Kids, NEW f \in Frames, f.type = "bad", NEW l,
           l = [k EXCEPT !.garbage = @ + 1, !.outbox = Append(@, f)]
    PROVE  l \in Kids /\ Keeps(k, l)
<1>1. l = [running |-> k.running, inbox |-> k.inbox, outbox |-> Append(k.outbox, f),
           noise |-> k.noise, garbage |-> k.garbage + 1]
  BY DEF Kids
<1>2. k.garbage + 1 \in Nat /\ k.outbox \in Seq(Frames)
  BY KidFields
<1>3. l \in Kids
  <2> DEFINE o == Append(k.outbox, f)
             g == k.garbage + 1
  <2>1. k.inbox \in Seq(Frames) /\ k.noise \in Nat /\ o \in Seq(Frames) /\ g \in Nat
    BY <1>2, KidFields, OutboxGrows
  <2> HIDE DEF o, g
  <2>2. [running |-> k.running, inbox |-> k.inbox, outbox |-> o, noise |-> k.noise,
         garbage |-> g] \in Kids
    BY <2>1, KidLines
  <2> QED
    BY <1>1, <2>2 DEF o, g
<1>4. l.noise = k.noise /\ l.inbox = k.inbox /\ l.outbox = Append(k.outbox, f)
  BY <1>1
<1>5. /\ DOMAIN k.outbox = 1..Len(k.outbox) /\ Len(k.outbox) \in Nat
      /\ DOMAIN l.outbox = 1..(Len(k.outbox) + 1) /\ l.outbox[Len(k.outbox) + 1] = f
      /\ \A i \in DOMAIN k.outbox : i \in DOMAIN l.outbox /\ l.outbox[i] = k.outbox[i]
  BY <1>2, <1>4, OutboxGrows
<1>6. \A j \in DOMAIN l.outbox : j \in DOMAIN k.outbox \/ l.outbox[j].type = "bad"
  BY <1>5
<1>7. Quiet(k.outbox) => Quiet(l.outbox)
  BY <1>5, <1>6 DEF Quiet
<1>8. ASSUME NEW question, NEW results, NEW id, Owes(k, question, results, id)
      PROVE  Owes(l, question, results, id)
  <2> SUFFICES ASSUME k.noise = 0 PROVE Owes(l, question, results, id)
    BY <1>4 DEF Owes
  <2>1. CASE Quiet(k.outbox) /\ Len(k.inbox) = 1 /\ k.inbox[1].type = question /\ k.inbox[1].id = id
    BY <1>4, <1>7, <2>1 DEF Owes
  <2>2. ASSUME k.inbox = <<>>, NEW i \in DOMAIN k.outbox,
               k.outbox[i].type \in results, k.outbox[i].id = id,
               \A j \in DOMAIN k.outbox : j # i => k.outbox[j].type = "bad"
        PROVE  Owes(l, question, results, id)
    <3>1. i \in DOMAIN l.outbox /\ l.outbox[i].type \in results /\ l.outbox[i].id = id
      BY <1>5, <2>2
    <3>2. \A j \in DOMAIN l.outbox : j # i => l.outbox[j].type = "bad"
      BY <1>5, <1>6, <2>2
    <3> QED
      BY <1>4, <2>2, <3>1, <3>2 DEF Owes
  <2> QED
    BY <1>8, <2>1, <2>2 DEF Owes
<1> QED
  BY <1>3, <1>4, <1>7, <1>8 DEF Keeps, Calm, OwesWelcome, OwesResult

\* The answer f to the first line of the inbox is what that line asked for.
LEMMA KidAnswers ==
    ASSUME NEW k \in Kids, k.inbox # <<>>, NEW f \in Frames, NEW l,
           l = [k EXCEPT !.inbox = Tail(@), !.outbox = Append(@, f)],
           Head(k.inbox).type = "hello" => f.type \in {"ready", "event"} /\ f.id = 0,
           Head(k.inbox).type = "call" => f.type = "result" /\ f.id = Head(k.inbox).id
    PROVE  l \in Kids /\ Keeps(k, l)
<1>1. l = [running |-> k.running, inbox |-> Tail(k.inbox), outbox |-> Append(k.outbox, f),
           noise |-> k.noise, garbage |-> k.garbage]
  BY DEF Kids
<1>2. k.inbox \in Seq(Frames) /\ k.outbox \in Seq(Frames)
  BY KidFields
<1>3. Tail(k.inbox) \in Seq(Frames) /\ Head(k.inbox) = k.inbox[1]
      /\ (Len(k.inbox) = 1 => Tail(k.inbox) = <<>>)
  BY <1>2, TailOfOne
<1>4. l \in Kids
  <2> DEFINE o == Append(k.outbox, f)
             i == Tail(k.inbox)
  <2>1. k.noise \in Nat /\ k.garbage \in Nat /\ o \in Seq(Frames) /\ i \in Seq(Frames)
    BY <1>2, <1>3, KidFields, OutboxGrows
  <2> HIDE DEF o, i
  <2>2. [running |-> k.running, inbox |-> i, outbox |-> o, noise |-> k.noise,
         garbage |-> k.garbage] \in Kids
    BY <2>1, KidLines
  <2> QED
    BY <1>1, <2>2 DEF o, i
<1>5. l.noise = k.noise /\ l.inbox = Tail(k.inbox) /\ l.outbox = Append(k.outbox, f)
  BY <1>1
<1>6. /\ DOMAIN k.outbox = 1..Len(k.outbox) /\ Len(k.outbox) \in Nat
      /\ DOMAIN l.outbox = 1..(Len(k.outbox) + 1) /\ l.outbox[Len(k.outbox) + 1] = f
      /\ \A i \in DOMAIN k.outbox : i \in DOMAIN l.outbox /\ l.outbox[i] = k.outbox[i]
  BY <1>2, <1>5, OutboxGrows
<1>7. Calm(k) => Calm(l)
  BY <1>5 DEF Calm
<1>8. ASSUME NEW question, NEW results, NEW id, Owes(k, question, results, id),
             Head(k.inbox).type = question /\ Head(k.inbox).id = id => f.type \in results /\ f.id = id
      PROVE  Owes(l, question, results, id)
  <2> SUFFICES ASSUME k.noise = 0 PROVE Owes(l, question, results, id)
    BY <1>5 DEF Owes
  <2>1. Quiet(k.outbox) /\ Len(k.inbox) = 1 /\ k.inbox[1].type = question /\ k.inbox[1].id = id
    BY <1>8 DEF Owes
  <2>2. f.type \in results /\ f.id = id /\ l.inbox = <<>>
    BY <1>3, <1>5, <1>8, <2>1
  <2> DEFINE i == Len(k.outbox) + 1
  <2>3. i \in DOMAIN l.outbox /\ l.outbox[i] = f
    BY <1>6
  <2>4. \A j \in DOMAIN l.outbox : j # i => l.outbox[j].type = "bad"
    BY <1>6, <2>1 DEF Quiet
  <2> QED
    BY <2>2, <2>3, <2>4 DEF Owes
<1>9. OwesWelcome(k) => OwesWelcome(l)
  BY <1>8 DEF OwesWelcome
<1>10. ASSUME NEW id \in Nat, OwesResult(k, id) PROVE OwesResult(l, id)
  BY <1>8, <1>10 DEF OwesResult
<1> QED
  BY <1>4, <1>7, <1>9, <1>10 DEF Keeps

LEMMA KidChanges ==
    ASSUME PluginInv, NEW c \in DOMAIN children, NEW l \in Kids, Keeps(children[c], l),
           children' = [children EXCEPT ![c] = l], UNCHANGED <<plugins, host, calls, answers>>
    PROVE  PluginInv'
<1>1. children \in Seq(Kids)
  BY DEF PluginInv
<1>2. /\ children' \in Seq(Kids) /\ DOMAIN children' = DOMAIN children
      /\ \A d \in DOMAIN children : Keeps(children[d], children'[d])
  BY <1>1, KidSet, KeepsSame
<1> QED
  BY <1>2, KidsStay

LEMMA ChildIsKid ==
    ASSUME NEW kids \in Seq(Kids), NEW c \in DOMAIN kids
    PROVE  kids[c] \in Kids
BY ElementOfSeq, LenProperties

LEMMA Replies ==
    ASSUME NEW f \in Frames, NEW ok \in BOOLEAN, NEW a,
           a = IF f.type = "hello" THEN FrameOf(IF ok THEN "ready" ELSE "event", 0, ok, "undefined")
               ELSE FrameOf("result", f.id, ok, "undefined")
    PROVE  /\ a \in Frames
           /\ f.type = "hello" => a.type \in {"ready", "event"} /\ a.id = 0
           /\ f.type = "call" => a.type = "result" /\ a.id = f.id
BY DEF Frames, FrameOf, FrameTypes, Wire

LEMMA Lines ==
    /\ FrameOf("bad", 0, FALSE, "undefined") \in Frames
    /\ FrameOf("event", 0, FALSE, "undefined") \in Frames
    /\ FrameOf("hello", 0, FALSE, "undefined") \in Frames
    /\ \A id \in Nat : FrameOf("call", id, FALSE, "undefined") \in Frames
    /\ FrameOf("bad", 0, FALSE, "undefined").type = "bad"
BY DEF Frames, FrameOf, FrameTypes, Wire

LEMMA NoiseKeeps ==
    ASSUME PluginInv, NEW c \in DOMAIN children, ChildNoise(c) \/ ChildExits(c)
    PROVE  PluginInv'
<1>1. children[c] \in Kids
  BY ChildIsKid DEF PluginInv
<1>2. UNCHANGED <<plugins, host, calls, answers>>
  BY DEF ChildNoise, ChildExits
<1>3. ASSUME NEW l \in Kids, Keeps(children[c], l), children' = [children EXCEPT ![c] = l]
      PROVE  PluginInv'
  BY <1>2, <1>3, KidChanges
<1>4. CASE ChildExits(c)
  <2> DEFINE l == [children[c] EXCEPT !.running = FALSE]
  <2>1. l \in Kids /\ Keeps(children[c], l)
    BY <1>1, KidEnds
  <2>2. children' = [children EXCEPT ![c] = l]
    BY <1>4 DEF ChildExits
  <2> QED
    BY <1>3, <2>1, <2>2
<1>5. CASE children' = [children EXCEPT ![c].noise = @ + 1,
                          ![c].outbox = Append(@, FrameOf("event", 0, FALSE, "undefined"))]
  <2> DEFINE l == [children[c] EXCEPT !.noise = @ + 1,
                     !.outbox = Append(@, FrameOf("event", 0, FALSE, "undefined"))]
  <2>1. l \in Kids /\ Keeps(children[c], l)
    BY <1>1, Lines, KidNoise
  <2>2. children' = [children EXCEPT ![c] = l]
    BY <1>5
  <2> QED
    BY <1>3, <2>1, <2>2
<1>6. CASE children' = [children EXCEPT ![c].garbage = @ + 1,
                          ![c].outbox = Append(@, FrameOf("bad", 0, FALSE, "undefined"))]
  <2> DEFINE l == [children[c] EXCEPT !.garbage = @ + 1,
                     !.outbox = Append(@, FrameOf("bad", 0, FALSE, "undefined"))]
  <2>1. l \in Kids /\ Keeps(children[c], l)
    BY <1>1, Lines, KidGarbage
  <2>2. children' = [children EXCEPT ![c] = l]
    BY <1>6
  <2> QED
    BY <1>3, <2>1, <2>2
<1> QED
  BY <1>4, <1>5, <1>6 DEF ChildNoise

\* A child answers what it has read.
LEMMA ChildAnswersKeeps ==
    ASSUME PluginInv, NEW c \in DOMAIN children, ChildAnswers(c)
    PROVE  PluginInv'
<1>1. children[c] \in Kids /\ children[c].inbox # <<>>
  BY ChildIsKid DEF PluginInv, ChildAnswers
<1> DEFINE f == Head(children[c].inbox)
<1> DEFINE a(ok) == IF f.type = "hello" THEN FrameOf(IF ok THEN "ready" ELSE "event", 0, ok, "undefined")
                    ELSE FrameOf("result", f.id, ok, "undefined")
<1>2. PICK ok \in BOOLEAN : children' =
         [children EXCEPT ![c].inbox = Tail(@), ![c].outbox = Append(@, a(ok))]
  BY DEF ChildAnswers
<1>3. f \in Frames
  <2>1. children[c].inbox \in Seq(Frames)
    BY <1>1, KidFields
  <2> QED
    BY <1>1, <2>1
<1>4. /\ a(ok) \in Frames
      /\ f.type = "hello" => a(ok).type \in {"ready", "event"} /\ a(ok).id = 0
      /\ f.type = "call" => a(ok).type = "result" /\ a(ok).id = f.id
  BY <1>3, Replies
<1> HIDE DEF a
<1> DEFINE l == [children[c] EXCEPT !.inbox = Tail(@), !.outbox = Append(@, a(ok))]
<1>5. l \in Kids /\ Keeps(children[c], l)
  BY <1>1, <1>4, KidAnswers
<1>6. children' = [children EXCEPT ![c] = l]
  BY <1>2
<1>7. UNCHANGED <<plugins, host, calls, answers>>
  BY DEF ChildAnswers
<1> HIDE DEF l
<1> QED
  BY <1>5, <1>6, <1>7, KidChanges

LEMMA KidInbox ==
    ASSUME NEW k \in Kids, NEW i \in Seq(Frames)
    PROVE  [running |-> k.running, inbox |-> i, outbox |-> k.outbox,
            noise |-> k.noise, garbage |-> k.garbage] \in Kids
<1>1. k.running \in BOOLEAN /\ k.outbox \in Seq(Frames) /\ k.noise \in Nat /\ k.garbage \in Nat
  BY KidFields
<1> QED
  BY <1>1, KidOf

\* The host takes a line that is no garbage: it is what was owed, and
\* nothing is owed any more.
LEMMA KidIsRead ==
    ASSUME NEW k \in Kids, NEW l, l = [k EXCEPT !.outbox = IF @ = <<>> THEN @ ELSE Tail(@)]
    PROVE  /\ l \in Kids
           /\ \A question, results, id :
                Owes(k, question, results, id) /\ k.outbox # <<>> /\ Head(k.outbox).type # "bad"
                => /\ Calm(l)
                   /\ k.noise = 0 => Head(k.outbox).type \in results /\ Head(k.outbox).id = id
<1> DEFINE o == IF k.outbox = <<>> THEN k.outbox ELSE Tail(k.outbox)
<1>1. l = [running |-> k.running, inbox |-> k.inbox, outbox |-> o,
           noise |-> k.noise, garbage |-> k.garbage]
  BY DEF Kids
<1>2. k.inbox \in Seq(Frames) /\ k.outbox \in Seq(Frames) /\ k.running \in BOOLEAN
      /\ k.noise \in Nat /\ k.garbage \in Nat
  BY KidFields
<1>3. o \in Seq(Frames)
  BY <1>2, TailOfOne
<1>4. l \in Kids
  <2> HIDE DEF o
  <2> QED
    BY <1>1, <1>3, KidOutbox
<1>5. ASSUME NEW question, NEW results, NEW id, Owes(k, question, results, id),
             k.outbox # <<>>, Head(k.outbox).type # "bad", k.noise = 0
      PROVE  Calm(l) /\ Head(k.outbox).type \in results /\ Head(k.outbox).id = id
  <2>1. /\ DOMAIN k.outbox = 1..Len(k.outbox) /\ Len(k.outbox) \in Nat \ {0}
        /\ Head(k.outbox) = k.outbox[1] /\ o = Tail(k.outbox)
        /\ DOMAIN o = 1..(Len(k.outbox) - 1)
        /\ \A j \in 1..(Len(k.outbox) - 1) : o[j] = k.outbox[j + 1]
    <3>1. k.outbox \in Seq(Frames) /\ k.outbox # <<>>
      BY <1>2, <1>5
    <3> QED
      BY <3>1, HeadTailProperties, EmptySeq, LenProperties
  <2>2. 1 \in DOMAIN k.outbox /\ ~Quiet(k.outbox)
    BY <1>5, <2>1 DEF Quiet
  <2>3. PICK i \in DOMAIN k.outbox :
           /\ k.inbox = <<>> /\ k.outbox[i].type \in results /\ k.outbox[i].id = id
           /\ \A j \in DOMAIN k.outbox : j # i => k.outbox[j].type = "bad"
    BY <1>5, <2>2 DEF Owes
  <2>4. i = 1
    BY <1>5, <2>1, <2>2, <2>3
  <2>5. ASSUME NEW j \in DOMAIN o PROVE o[j].type = "bad"
    <3>1. j + 1 \in DOMAIN k.outbox /\ j + 1 # 1 /\ o[j] = k.outbox[j + 1]
      BY <2>1, <2>5
    <3> QED
      BY <2>3, <2>4, <3>1
  <2>6. l.noise = k.noise /\ l.inbox = k.inbox /\ l.outbox = o
    BY <1>1
  <2>7. Calm(l)
    BY <2>3, <2>5, <2>6 DEF Calm, Quiet
  <2> QED
    BY <2>1, <2>3, <2>4, <2>7
<1>6. k.noise # 0 => Calm(l)
  <2>1. l.noise = k.noise
    BY <1>1
  <2> QED
    BY <2>1 DEF Calm
<1> QED
  BY <1>4, <1>5, <1>6

LEMMA ReapKids ==
    ASSUME NEW kids \in Seq(Kids), NEW n, Loaded(n) => plugins[n].child \in DOMAIN kids
    PROVE  /\ Reap(kids, n) \in Seq(Kids) /\ DOMAIN Reap(kids, n) = DOMAIN kids
           /\ \A d \in DOMAIN kids : Keeps(kids[d], Reap(kids, n)[d])
<1>1. CASE ~Loaded(n)
  BY <1>1, KeepsSame DEF Reap
<1>2. CASE Loaded(n)
  <2> DEFINE c == plugins[n].child
             l == [kids[c] EXCEPT !.running = FALSE]
  <2>1. c \in DOMAIN kids /\ kids[c] \in Kids
    BY <1>2, ChildIsKid
  <2>2. Reap(kids, n) = [kids EXCEPT ![c] = l]
    BY <1>2 DEF Reap
  <2>3. l \in Kids /\ Keeps(kids[c], l)
    BY <2>1, KidEnds
  <2> HIDE DEF l, c
  <2> QED
    BY <2>1, <2>2, <2>3, KidSet, KeepsSame
<1> QED
  BY <1>1, <1>2

\* The host has read a line, or the end, of the child it talks to.
LEMMA ConsumeKids ==
    ASSUME PluginInv, host.pc # "idle", CanRecv
    PROVE  /\ host.child \in DOMAIN children
           /\ Consume \in Seq(Kids) /\ DOMAIN Consume = DOMAIN children
           /\ \A d \in DOMAIN children : d # host.child => Consume[d] = children[d]
           /\ \A question, results, id :
                Owes(children[host.child], question, results, id) /\ Recv.type \notin {"bad", "eof"}
                => /\ Calm(Consume[host.child])
                   /\ children[host.child].noise = 0 => Recv.type \in results /\ Recv.id = id
<1> DEFINE c == host.child
           k == children[c]
           l == [k EXCEPT !.outbox = IF @ = <<>> THEN @ ELSE Tail(@)]
<1>1. children \in Seq(Kids) /\ c \in DOMAIN children
  BY DEF PluginInv, HostOK
<1>2. k \in Kids
  BY <1>1, ChildIsKid
<1>3. /\ l \in Kids
      /\ \A question, results, id :
                Owes(k, question, results, id) /\ k.outbox # <<>> /\ Head(k.outbox).type # "bad"
                => /\ Calm(l)
                   /\ k.noise = 0 => Head(k.outbox).type \in results /\ Head(k.outbox).id = id
  <2> HIDE DEF k
  <2> QED
    BY <1>2, KidIsRead
<1>4. Consume = [children EXCEPT ![c] = l]
  BY DEF Consume
<1>5. Recv.type \notin {"bad", "eof"} => /\ k.outbox # <<>> /\ Recv = Head(k.outbox)
                                         /\ Head(k.outbox).type # "bad"
  BY DEF Recv, FrameOf
<1> HIDE DEF l
<1>6. /\ Consume \in Seq(Kids) /\ DOMAIN Consume = DOMAIN children /\ Consume[c] = l
      /\ \A d \in DOMAIN children : d # c => Consume[d] = children[d]
  <2> HIDE DEF c
  <2> QED
    BY <1>1, <1>3, <1>4, KidSet
<1> QED
  BY <1>1, <1>3, <1>5, <1>6

LEMMA SpawnKeeps ==
    ASSUME PluginInv, NEW n \in PluginNames, SpawnPlugin(n)
    PROVE  PluginInv'
<1> DEFINE hello == FrameOf("hello", 0, FALSE, "undefined")
           new == [running |-> TRUE, inbox |-> <<hello>>, outbox |-> <<>>, noise |-> 0, garbage |-> 0]
<1>1. children \in Seq(Kids) /\ children' = Append(children, new)
  BY DEF PluginInv, SpawnPlugin
<1>2. new \in Kids /\ OwesWelcome(new)
  <2>1. hello \in Frames /\ hello.type = "hello" /\ hello.id = 0
    BY Lines DEF FrameOf
  <2> HIDE DEF hello
  <2>2. <<hello>> \in Seq(Frames) /\ <<>> \in Seq(Frames)
    BY <2>1
  <2>3. new \in Kids
    BY <2>2, KidOf
  <2>4. new.outbox = <<>> /\ new.inbox = <<hello>> /\ Len(<<hello>>) = 1 /\ <<hello>>[1] = hello
    OBVIOUS
  <2> HIDE DEF new
  <2>5. Quiet(new.outbox)
    BY <2>4 DEF Quiet
  <2> QED
    BY <2>1, <2>3, <2>4, <2>5 DEF OwesWelcome, Owes
<1> HIDE DEF new
<1>3. /\ children' \in Seq(Kids) /\ Len(children) \in Nat
      /\ DOMAIN children = 1..Len(children) /\ DOMAIN children' = 1..(Len(children) + 1)
      /\ \A d \in DOMAIN children : children'[d] = children[d]
      /\ children'[Len(children) + 1] = new
  BY <1>1, <1>2, AppendProperties, LenProperties
<1>4. /\ host = Idle /\ UNCHANGED <<plugins, calls, answers>>
      /\ host' = [pc |-> "ready", name |-> n, child |-> Len(children) + 1, id |-> 0]
  BY DEF SpawnPlugin
<1>5. HostOK'
  <2>1. Len(children) + 1 \in DOMAIN children' /\ Len(children) + 1 \in Nat
    BY <1>3
  <2> QED
    BY <1>2, <1>3, <1>4, <2>1 DEF HostOK
<1>6. PluginsOK'
  <2>1. host.pc = "idle"
    BY <1>4 DEF Idle
  <2>2. ASSUME NEW m \in DOMAIN plugins
        PROVE  /\ plugins[m].child \in DOMAIN children /\ plugins[m].dead \in BOOLEAN
               /\ plugins[m].child # Len(children) + 1
               /\ plugins[m].dead \/ Calm(children[plugins[m].child])
    BY <1>3, <2>1 DEF PluginInv, PluginsOK
  <2>3. ASSUME NEW m \in DOMAIN plugins
        PROVE  /\ plugins[m] \in [child : DOMAIN children', dead : BOOLEAN]
               /\ children'[plugins[m].child] = children[plugins[m].child]
    BY <1>3, <2>2 DEF PluginInv, PluginsOK
  <2> QED
    BY <1>4, <2>2, <2>3 DEF PluginInv, PluginsOK
<1> QED
  BY <1>3, <1>4, <1>5, <1>6 DEF PluginInv, AnswersOK

\* The handshake is over.
LEMMA HandshakeKeeps ==
    ASSUME PluginInv, HandshakeEnds
    PROVE  PluginInv'
<1> DEFINE c == host.child
           n == host.name
<1>1. /\ host.pc = "ready" /\ CanRecv /\ host' = Idle /\ UNCHANGED <<calls, answers>>
      /\ c \in DOMAIN children /\ OwesWelcome(children[c])
  BY DEF HandshakeEnds, PluginInv, HostOK
<1>2. /\ Consume \in Seq(Kids) /\ DOMAIN Consume = DOMAIN children
      /\ \A d \in DOMAIN children : d # c => Consume[d] = children[d]
      /\ Recv.type = "ready" => Calm(Consume[c])
  <2>1. /\ Consume \in Seq(Kids) /\ DOMAIN Consume = DOMAIN children
        /\ \A d \in DOMAIN children : d # host.child => Consume[d] = children[d]
        /\ \A question, results, id :
             Owes(children[host.child], question, results, id) /\ Recv.type \notin {"bad", "eof"}
             => Calm(Consume[host.child])
    BY <1>1, ConsumeKids
  <2> QED
    BY <1>1, <2>1 DEF OwesWelcome
<1>3. /\ Idle.pc = "idle"
      /\ Idle \in [pc : {"idle", "ready", "call"}, name : PluginNames \cup {""}, child : Nat, id : Nat]
  BY DEF Idle
<1>4. HostOK'
  BY <1>1, <1>3 DEF HostOK
<1>5. \A m \in DOMAIN plugins :
         /\ plugins[m].child \in DOMAIN children /\ plugins[m].child # c
         /\ plugins[m] \in [child : DOMAIN children, dead : BOOLEAN]
         /\ plugins[m].dead \/ Calm(children[plugins[m].child])
  BY <1>1 DEF PluginInv, PluginsOK
<1>6. CASE Recv.type # "ready"
  <2>1. children' = Consume /\ plugins' = plugins
    BY <1>6 DEF HandshakeEnds
  <2>2. PluginsOK'
    BY <1>1, <1>2, <1>3, <1>5, <2>1 DEF PluginInv, PluginsOK
  <2> QED
    BY <1>1, <1>2, <1>4, <2>1, <2>2 DEF PluginInv, AnswersOK
<1>7. CASE Recv.type = "ready"
  <2> DEFINE kids == Reap(Consume, n)
  <2>1. children' = kids /\ plugins' = With(plugins, n, [child |-> c, dead |-> FALSE])
    BY <1>7 DEF HandshakeEnds
  <2>2. /\ kids \in Seq(Kids) /\ DOMAIN kids = DOMAIN children
        /\ \A d \in DOMAIN children : Calm(Consume[d]) => Calm(kids[d])
    BY <1>2, <1>5, ReapKids DEF Loaded, Keeps
  <2>3. /\ plugins' = [m \in DOMAIN plugins' |-> plugins'[m]]
        /\ DOMAIN plugins' = DOMAIN plugins \cup {n}
        /\ plugins'[n] = [child |-> c, dead |-> FALSE]
        /\ \A m \in DOMAIN plugins : m # n => plugins'[m] = plugins[m]
    BY <2>1 DEF With
  <2>4. \A m \in DOMAIN plugins' : m = n \/ (m \in DOMAIN plugins /\ plugins'[m] = plugins[m])
    BY <2>3
  <2>5. [child |-> c, dead |-> FALSE] \in [child : DOMAIN children, dead : BOOLEAN]
    BY <1>1
  <2>6. \A m \in DOMAIN plugins' : plugins'[m] \in [child : DOMAIN children, dead : BOOLEAN]
    BY <1>5, <2>3, <2>4, <2>5
  <2>7. \A m, o \in DOMAIN plugins' : plugins'[m].child = plugins'[o].child => m = o
    <3>1. plugins'[n].child = c
      BY <2>3
    <3>2. \A m \in DOMAIN plugins' : m # n => plugins'[m].child # c
      BY <1>5, <2>4
    <3>3. \A m, o \in DOMAIN plugins : plugins[m].child = plugins[o].child => m = o
      BY DEF PluginInv, PluginsOK
    <3> QED
      BY <2>4, <3>1, <3>2, <3>3
  <2>8. ASSUME NEW m \in DOMAIN plugins'
        PROVE  plugins'[m].dead \/ Calm(kids[plugins'[m].child])
    <3>1. CASE m = n
      BY <1>1, <1>2, <1>7, <2>2, <2>3, <3>1
    <3>2. CASE m # n
      BY <1>2, <1>5, <2>2, <2>4, <2>8, <3>2
    <3> QED
      BY <3>1, <3>2
  <2> HIDE DEF kids
  <2>9. PluginsOK'
    BY <1>1, <1>3, <2>1, <2>2, <2>3, <2>6, <2>7, <2>8 DEF PluginsOK
  <2> QED
    BY <1>1, <1>4, <2>1, <2>2, <2>9 DEF PluginInv, AnswersOK
<1> QED
  BY <1>6, <1>7

\* A plugin that is declared dead, and nothing else about the plugins.
LEMMA DeadKeeps ==
    ASSUME PluginInv, NEW n \in DOMAIN plugins, host.pc = "idle" \/ host.name = n,
           plugins' = [plugins EXCEPT ![n].dead = TRUE], host'.pc = "idle",
           children' \in Seq(Kids), DOMAIN children' = DOMAIN children, host.pc # "ready",
           \A d \in DOMAIN children : d # plugins[n].child => children'[d] = children[d]
    PROVE  PluginsOK'
<1>1. \A m \in DOMAIN plugins :
         /\ plugins[m].child \in DOMAIN children
         /\ plugins[m] \in [child : DOMAIN children, dead : BOOLEAN]
         /\ m # n => plugins[m].dead \/ Calm(children[plugins[m].child])
         /\ m # n => plugins[m].child # plugins[n].child
  BY DEF PluginInv, PluginsOK
<1>2. /\ plugins' = [m \in DOMAIN plugins |-> IF m = n THEN [plugins[n] EXCEPT !.dead = TRUE] ELSE plugins[m]]
      /\ plugins = [m \in DOMAIN plugins |-> plugins[m]]
  BY DEF PluginInv, PluginsOK
<1>3. /\ DOMAIN plugins' = DOMAIN plugins /\ plugins'[n] = [plugins[n] EXCEPT !.dead = TRUE]
      /\ \A m \in DOMAIN plugins : m # n => plugins'[m] = plugins[m]
      /\ plugins' = [m \in DOMAIN plugins' |-> plugins'[m]]
  BY <1>2
<1>4. /\ plugins'[n] \in [child : DOMAIN children, dead : BOOLEAN] /\ plugins'[n].dead
      /\ plugins'[n].child = plugins[n].child
  BY <1>1, <1>3
<1>5. \A m \in DOMAIN plugins : plugins'[m].child = plugins[m].child
  BY <1>3, <1>4
<1>6. \A m, o \in DOMAIN plugins' : plugins'[m].child = plugins'[o].child => m = o
  BY <1>3, <1>5 DEF PluginInv, PluginsOK
<1>7. ASSUME NEW m \in DOMAIN plugins'
      PROVE  /\ plugins'[m] \in [child : DOMAIN children', dead : BOOLEAN]
             /\ plugins'[m].dead \/ Calm(children'[plugins'[m].child])
  <2>1. CASE m = n
    BY <1>4, <2>1
  <2>2. CASE m # n
    BY <1>1, <1>3, <1>7, <2>2
  <2> QED
    BY <2>1, <2>2
<1> QED
  BY <1>3, <1>6, <1>7 DEF PluginsOK

LEMMA IsAliveKeeps ==
    ASSUME PluginInv, NEW n \in PluginNames, IsAlive(n)
    PROVE  PluginInv'
<1>1. /\ host = Idle /\ n \in DOMAIN plugins /\ host.pc = "idle"
      /\ plugins' = [plugins EXCEPT ![n].dead = TRUE] /\ UNCHANGED <<children, host, calls, answers>>
  BY DEF IsAlive, Loaded, Idle, MarkDead
<1>2. PluginsOK'
  BY <1>1, DeadKeeps DEF PluginInv
<1>3. HostOK'
  BY <1>1 DEF PluginInv, HostOK
<1> QED
  BY <1>1, <1>2, <1>3 DEF PluginInv, AnswersOK

LEMMA UnloadKeeps ==
    ASSUME PluginInv, NEW n \in PluginNames, Unload(n)
    PROVE  PluginInv'
<1>1. /\ host = Idle /\ host.pc = "idle" /\ n \in DOMAIN plugins /\ children' = Reap(children, n)
      /\ plugins' = [m \in DOMAIN plugins \ {n} |-> plugins[m]] /\ UNCHANGED <<host, calls, answers>>
  BY DEF Unload, Loaded, Idle, Without
<1>2. /\ children' \in Seq(Kids) /\ DOMAIN children' = DOMAIN children
      /\ \A d \in DOMAIN children : Calm(children[d]) => Calm(children'[d])
  <2>1. children \in Seq(Kids) /\ plugins[n].child \in DOMAIN children
    BY <1>1 DEF PluginInv, PluginsOK
  <2> QED
    BY <1>1, <2>1, ReapKids DEF Keeps
<1>3. /\ plugins' = [m \in DOMAIN plugins' |-> plugins'[m]] /\ DOMAIN plugins' \subseteq DOMAIN plugins
      /\ \A m \in DOMAIN plugins' : plugins'[m] = plugins[m]
  BY <1>1
<1>4. PluginsOK'
  BY <1>1, <1>2, <1>3 DEF PluginInv, PluginsOK
<1>5. HostOK'
  BY <1>1 DEF PluginInv, HostOK
<1> QED
  BY <1>1, <1>2, <1>4, <1>5 DEF PluginInv, AnswersOK

\* The answer to a call, or the end of the plugin.
LEMMA RecvKeeps ==
    ASSUME PluginInv, RecvAnswer
    PROVE  PluginInv'
<1> DEFINE c == host.child
           n == host.name
<1>1. /\ host.pc = "call" /\ CanRecv /\ host' = Idle /\ UNCHANGED calls /\ children' = Consume
      /\ c \in DOMAIN children /\ OwesResult(children[c], host.id)
      /\ n \in DOMAIN plugins /\ plugins[n] = [child |-> c, dead |-> FALSE] /\ plugins[n].child = c
  <2>1. host.pc = "call" /\ CanRecv /\ host' = Idle /\ UNCHANGED calls /\ children' = Consume
    BY DEF RecvAnswer
  <2>2. /\ c \in DOMAIN children /\ OwesResult(children[c], host.id)
        /\ n \in DOMAIN plugins /\ plugins[n] = [child |-> c, dead |-> FALSE]
    BY <2>1 DEF PluginInv, HostOK
  <2> QED
    BY <2>1, <2>2
<1>2. /\ children' \in Seq(Kids) /\ DOMAIN children' = DOMAIN children
      /\ \A d \in DOMAIN children : d # c => children'[d] = children[d]
      /\ Recv.type \notin {"bad", "eof"} =>
           /\ Calm(children'[c])
           /\ children[c].noise = 0 => Recv.type = "result" /\ Recv.id = host.id
  <2>1. /\ Consume \in Seq(Kids) /\ DOMAIN Consume = DOMAIN children
        /\ \A d \in DOMAIN children : d # host.child => Consume[d] = children[d]
        /\ \A question, results, id :
             Owes(children[host.child], question, results, id) /\ Recv.type \notin {"bad", "eof"}
             => /\ Calm(Consume[host.child])
                /\ children[host.child].noise = 0 => Recv.type \in results /\ Recv.id = id
    BY <1>1, ConsumeKids
  <2> QED
    BY <1>1, <2>1 DEF OwesResult
<1>3. /\ Idle.pc = "idle"
      /\ Idle \in [pc : {"idle", "ready", "call"}, name : PluginNames \cup {""}, child : Nat, id : Nat]
  BY DEF Idle
<1>4. HostOK'
  BY <1>1, <1>3 DEF HostOK
<1>5. CASE Recv.type \in {"bad", "eof"}
  <2>1. plugins' = [plugins EXCEPT ![n].dead = TRUE] /\ answers' = answers
    BY <1>5 DEF RecvAnswer, MarkDead
  <2>2. PluginsOK'
    BY <1>1, <1>2, <1>3, <2>1, DeadKeeps
  <2> QED
    BY <1>1, <1>2, <1>4, <2>1, <2>2 DEF PluginInv, AnswersOK
<1>6. CASE Recv.type \notin {"bad", "eof"}
  <2> DEFINE new == [id |-> host.id, frame |-> Recv, noise |-> children[c].noise]
  <2>1. plugins' = plugins /\ answers' = answers \cup {new}
    BY <1>6 DEF RecvAnswer
  <2>2. AnswersOK'
    <3>1. new.noise = 0 => new.frame.id = new.id /\ new.frame.type = "result"
      BY <1>2, <1>6
    <3> HIDE DEF new
    <3> QED
      BY <2>1, <3>1 DEF PluginInv, AnswersOK
  <2>3. \A m \in DOMAIN plugins :
           /\ plugins[m].child \in DOMAIN children
           /\ m # n => plugins[m].child # c
           /\ m # n => plugins[m].dead \/ Calm(children[plugins[m].child])
    BY <1>1 DEF PluginInv, PluginsOK
  <2>4. ASSUME NEW m \in DOMAIN plugins
        PROVE  plugins[m].dead \/ Calm(children'[plugins[m].child])
    <3>1. CASE m = n
      BY <1>1, <1>2, <1>6, <3>1
    <3>2. CASE m # n
      BY <1>2, <2>3, <3>2
    <3> QED
      BY <3>1, <3>2
  <2>5. PluginsOK'
    BY <1>1, <1>2, <1>3, <2>1, <2>4 DEF PluginInv, PluginsOK
  <2> QED
    BY <1>1, <1>2, <1>4, <2>2, <2>5 DEF PluginInv
<1> QED
  BY <1>5, <1>6

\* A call goes out.
LEMMA KidIsCalled ==
    ASSUME NEW k \in Kids, NEW id \in Nat, Calm(k),
           NEW f \in Frames, f.type = "call", f.id = id,
           NEW l, l = [k EXCEPT !.inbox = Append(@, f)]
    PROVE  l \in Kids /\ OwesResult(l, id)
<1>1. l = [running |-> k.running, inbox |-> Append(k.inbox, f), outbox |-> k.outbox,
           noise |-> k.noise, garbage |-> k.garbage]
  BY DEF Kids
<1>3. /\ k.running \in BOOLEAN /\ k.inbox \in Seq(Frames) /\ k.outbox \in Seq(Frames)
      /\ k.noise \in Nat /\ k.garbage \in Nat
  BY KidFields
<1>4. Append(k.inbox, f) \in Seq(Frames)
  BY <1>3, AppendProperties
<1>5. l \in Kids
  <2> DEFINE i == Append(k.inbox, f)
  <2>1. i \in Seq(Frames)
    BY <1>4
  <2> HIDE DEF i
  <2>2. [running |-> k.running, inbox |-> i, outbox |-> k.outbox,
         noise |-> k.noise, garbage |-> k.garbage] \in Kids
    BY <2>1, KidInbox
  <2> QED
    BY <1>1, <2>2 DEF i
<1>6. l.noise = k.noise /\ l.outbox = k.outbox /\ l.inbox = Append(k.inbox, f)
  BY <1>1
<1>7. ASSUME k.inbox = <<>> PROVE Len(l.inbox) = 1 /\ l.inbox[1] = f
  BY <1>6, <1>7
<1> QED
  BY <1>5, <1>6, <1>7 DEF OwesResult, Owes, Calm

LEMMA PluginCallKeeps ==
    ASSUME PluginInv, NEW n \in PluginNames, CallPlugin(n)
    PROVE  PluginInv'
<1> DEFINE c == plugins[n].child
<1>1. /\ host = Idle /\ host.pc = "idle" /\ n \in DOMAIN plugins /\ ~plugins[n].dead
      /\ calls' = calls + 1 /\ calls' \in Nat /\ answers' = answers
      /\ children \in Seq(Kids)
  <2>1. /\ host = Idle /\ n \in DOMAIN plugins /\ ~plugins[n].dead
        /\ calls' = calls + 1 /\ answers' = answers
    BY DEF CallPlugin, Loaded
  <2>2. children \in Seq(Kids) /\ calls \in Nat
    BY DEF PluginInv
  <2>3. host.pc = "idle"
    BY <2>1 DEF Idle
  <2>4. calls' \in Nat
    BY <2>1, <2>2
  <2> QED
    BY <2>1, <2>2, <2>3, <2>4
<1>2. /\ c \in DOMAIN children /\ Calm(children[c])
      /\ plugins[n] \in [child : DOMAIN children, dead : BOOLEAN]
      /\ \A m \in DOMAIN plugins :
           /\ plugins[m].child \in DOMAIN children
           /\ m # n => plugins[m].child # c
           /\ m # n => plugins[m].dead \/ Calm(children[plugins[m].child])
  BY <1>1 DEF PluginInv, PluginsOK
<1>3. CASE ~children[c].running
  <2>1. plugins' = [plugins EXCEPT ![n].dead = TRUE] /\ UNCHANGED <<children, host>>
    BY <1>3 DEF CallPlugin, MarkDead
  <2>2. PluginsOK'
    BY <1>1, <2>1, DeadKeeps
  <2>3. HostOK'
    BY <1>1, <2>1 DEF PluginInv, HostOK
  <2> QED
    BY <1>1, <2>1, <2>2, <2>3 DEF PluginInv, AnswersOK
<1>4. CASE children[c].running
  <2> DEFINE f == FrameOf("call", calls', FALSE, "undefined")
             l == [children[c] EXCEPT !.inbox = Append(@, f)]
  <2>1. /\ children' = [children EXCEPT ![c] = l] /\ plugins' = plugins
        /\ host' = [pc |-> "call", name |-> n, child |-> c, id |-> calls']
    BY <1>4 DEF CallPlugin
  <2>2. l \in Kids /\ OwesResult(l, calls')
    <3>1. children[c] \in Kids
      BY <1>1, <1>2, ChildIsKid
    <3>2. f \in Frames /\ f.type = "call" /\ f.id = calls'
      BY <1>1, Lines DEF FrameOf
    <3> HIDE DEF f
    <3> QED
      BY <1>1, <1>2, <3>1, <3>2, KidIsCalled
  <2> HIDE DEF l, f
  <2>3. /\ children' \in Seq(Kids) /\ DOMAIN children' = DOMAIN children /\ children'[c] = l
        /\ \A d \in DOMAIN children : d # c => children'[d] = children[d]
    BY <1>1, <1>2, <2>1, <2>2, KidSet
  <2>4. c \in Nat
    <3>1. DOMAIN children = 1..Len(children) /\ Len(children) \in Nat
      BY <1>1, LenProperties
    <3> QED
      BY <1>2, <3>1
  <2>5. plugins[n] = [child |-> c, dead |-> FALSE]
    BY <1>1, <1>2
  <2>6. HostOK'
    <3>1. /\ host'.pc = "call" /\ host'.name = n /\ host'.child = c /\ host'.id = calls'
          /\ host' \in [pc : {"idle", "ready", "call"}, name : PluginNames \cup {""}, child : Nat, id : Nat]
      BY <1>1, <2>1, <2>4
    <3> QED
      BY <1>1, <1>2, <2>1, <2>2, <2>3, <2>5, <3>1 DEF HostOK
  <2>7. PluginsOK'
    <3>1. host'.pc = "call" /\ host'.name = n
      BY <2>1
    <3> QED
      BY <1>1, <1>2, <2>1, <2>3, <3>1 DEF PluginInv, PluginsOK
  <2> QED
    BY <1>1, <2>3, <2>6, <2>7 DEF PluginInv, AnswersOK
<1> QED
  BY <1>3, <1>4

---------------------------------------------------------------------------
(* Connections. *)
LEMMA LinkFields ==
    ASSUME NEW r \in Connections
    PROVE  /\ r.toServer \in Seq(Frames) /\ r.toClient \in Seq(Frames) /\ r.alive \in BOOLEAN
           /\ r.open \in BOOLEAN /\ r.waits \in Nat /\ r.value \in Values \cup {"undefined"}
<1> DEFINE S == Seq(Frames)
<1> HIDE DEF S
<1>1. r \in [toServer : S, toClient : S, alive : BOOLEAN, open : BOOLEAN,
             waits : Nat, value : Values \cup {"undefined"}]
  BY DEF Connections, S
<1> QED
  BY <1>1 DEF S

LEMMA LinkOf ==
    ASSUME NEW s \in Seq(Frames), NEW t \in Seq(Frames), NEW a \in BOOLEAN, NEW o \in BOOLEAN,
           NEW w \in Nat, NEW v \in Values \cup {"undefined"}
    PROVE  [toServer |-> s, toClient |-> t, alive |-> a, open |-> o, waits |-> w, value |-> v]
             \in Connections
<1> DEFINE S == Seq(Frames)
<1> HIDE DEF S
<1>1. s \in S /\ t \in S
  BY DEF S
<1>2. [toServer |-> s, toClient |-> t, alive |-> a, open |-> o, waits |-> w, value |-> v]
        \in [toServer : S, toClient : S, alive : BOOLEAN, open : BOOLEAN,
             waits : Nat, value : Values \cup {"undefined"}]
  BY <1>1
<1> QED
  BY <1>2 DEF Connections, S

LEMMA OneLine ==
    ASSUME NEW f \in Frames
    PROVE  <<f>> \in Seq(Frames) /\ Len(<<f>>) = 1 /\ <<f>>[1] = f /\ <<f>> # <<>>
           /\ Append(<<>>, f) = <<f>> /\ <<>> \in Seq(Frames) /\ Head(<<f>>) = f /\ Tail(<<f>>) = <<>>
OBVIOUS

\* Either end lets go.
LEMMA LinkEnds ==
    ASSUME NEW r \in Connections, NEW a \in BOOLEAN, NEW o \in BOOLEAN, NEW l,
           l = [toServer |-> r.toServer, toClient |-> r.toClient, alive |-> a, open |-> o,
                waits |-> r.waits, value |-> r.value]
    PROVE  l \in Connections /\ (Answering(r) => Answering(l)) /\ (Waiting(r) /\ o => Waiting(l))
<1>1. l \in Connections
  BY LinkFields, LinkOf
<1>2. /\ l.toServer = r.toServer /\ l.toClient = r.toClient /\ l.open = o
      /\ l.waits = r.waits /\ l.value = r.value
  OBVIOUS
<1> QED
  BY <1>1, <1>2 DEF Answering, Waiting

\* The client sends a call, and has its answer or gives up.
LEMMA LinkCalls ==
    ASSUME NEW r \in Connections, NEW l, NEW f \in Frames, r.waits = 0, l.waits # 0, Answering(r),
           l.toServer = Append(r.toServer, f), l.toClient = r.toClient, l.open = r.open,
           f = FrameOf("call", l.waits, FALSE, EncodeClient(l.value))
    PROVE  Answering(l) /\ (Waiting(r) => Waiting(l))
<1>1. r.toClient = <<>>
  BY DEF Answering
<1>2. Waiting(r) => l.toServer = <<f>>
  BY OneLine DEF Waiting
<1> QED
  BY <1>1, <1>2 DEF Answering, Waiting

LEMMA LinkReads ==
    ASSUME NEW r \in Connections, Answering(r), r.toClient # <<>>,
           NEW l, l = [r EXCEPT !.toClient = Tail(@), !.waits = 0]
    PROVE  /\ l \in Connections /\ Answering(l)
           /\ Head(r.toClient).id = r.waits /\ Head(r.toClient).value = Echoed(r.value)
<1>0. l = [toServer |-> r.toServer, toClient |-> Tail(r.toClient), alive |-> r.alive,
           open |-> r.open, waits |-> 0, value |-> r.value]
  BY DEF Connections
<1>1. /\ r.toServer \in Seq(Frames) /\ r.toClient \in Seq(Frames) /\ r.alive \in BOOLEAN
      /\ r.open \in BOOLEAN /\ r.value \in Values \cup {"undefined"} /\ 0 \in Nat
  BY LinkFields
<1>2. /\ Len(r.toClient) = 1 /\ r.toClient[1].id = r.waits
      /\ r.toClient[1].value = Echoed(r.value)
  BY DEF Answering
<1>3. Tail(r.toClient) = <<>> /\ Tail(r.toClient) \in Seq(Frames) /\ Head(r.toClient) = r.toClient[1]
  BY <1>1, <1>2, TailOfOne
<1>4. l \in Connections
  <2> DEFINE t == Tail(r.toClient)
             m == [toServer |-> r.toServer, toClient |-> t, alive |-> r.alive,
                   open |-> r.open, waits |-> 0, value |-> r.value]
  <2>1. t \in Seq(Frames)
    BY <1>3
  <2> HIDE DEF t
  <2>2. m \in Connections
    BY <1>1, <2>1, LinkOf
  <2> QED
    BY <1>0, <2>2 DEF t
<1>5. l.toClient = <<>>
  BY <1>0, <1>3
<1> QED
  BY <1>2, <1>3, <1>4, <1>5 DEF Answering

LEMMA LinkGivesUp ==
    ASSUME NEW r \in Connections, r.toClient = <<>>,
           NEW l, l = [r EXCEPT !.alive = FALSE, !.waits = 0]
    PROVE  l \in Connections /\ Answering(l)
<1>0. l = [toServer |-> r.toServer, toClient |-> r.toClient, alive |-> FALSE,
           open |-> r.open, waits |-> 0, value |-> r.value]
  BY DEF Connections
<1>1. /\ r.toServer \in Seq(Frames) /\ r.toClient \in Seq(Frames) /\ FALSE \in BOOLEAN
      /\ r.open \in BOOLEAN /\ r.value \in Values \cup {"undefined"} /\ 0 \in Nat
  BY LinkFields
<1>2. l \in Connections
  <2> DEFINE m == [toServer |-> r.toServer, toClient |-> r.toClient, alive |-> FALSE,
                   open |-> r.open, waits |-> 0, value |-> r.value]
  <2>1. m \in Connections
    BY <1>1, LinkOf
  <2> QED
    BY <1>0, <2>1
<1>3. l.toClient = <<>>
  BY <1>0
<1> QED
  BY <1>2, <1>3 DEF Answering

\* The server answers the call it has read.
LEMMA LinkServed ==
    ASSUME NEW r \in Connections, Waiting(r), r.toServer # <<>>, NEW ok \in BOOLEAN, NEW f,
           f = FrameOf("result", Head(r.toServer).id, ok,
                       DecodeClient(EncodeServer(DecodeServer(Head(r.toServer).value)))), NEW l,
           l = [r EXCEPT !.toServer = Tail(@), !.open = FALSE, !.toClient = Append(@, f)]
    PROVE  l \in Connections /\ Answering(l)
<1>0. l = [toServer |-> Tail(r.toServer), toClient |-> Append(r.toClient, f), alive |-> r.alive,
           open |-> FALSE, waits |-> r.waits, value |-> r.value]
  BY DEF Connections
<1> DEFINE call == FrameOf("call", r.waits, FALSE, EncodeClient(r.value))
<1>1. /\ r.toServer \in Seq(Frames) /\ r.alive \in BOOLEAN /\ r.waits \in Nat
      /\ r.value \in Values \cup {"undefined"}
  BY LinkFields
<1>2. r.waits # 0 /\ r.toServer = <<call>> /\ r.toClient = <<>>
  BY DEF Waiting
<1>3. call \in Frames /\ call.id = r.waits /\ call.value = EncodeClient(r.value)
  BY <1>1 DEF FrameOf, Frames, FrameTypes, Wire, EncodeClient
<1> HIDE DEF call
<1>4. Head(r.toServer) = call /\ Tail(r.toServer) = <<>>
  BY <1>2, <1>3, OneLine
<1>5. Echoed(r.value) \in Wire
  BY <1>1 DEF Echoed, DecodeClient, EncodeServer, DecodeServer, EncodeClient, Wire
<1>6. f = FrameOf("result", r.waits, ok, Echoed(r.value))
  BY <1>3, <1>4 DEF Echoed
<1>7. f \in Frames /\ f.id = r.waits /\ f.value = Echoed(r.value)
  BY <1>1, <1>5, <1>6 DEF FrameOf, Frames, FrameTypes
<1>8. Append(r.toClient, f) = <<f>> /\ <<f>> \in Seq(Frames) /\ <<>> \in Seq(Frames)
      /\ Len(<<f>>) = 1 /\ <<f>>[1] = f
  BY <1>2, <1>7, OneLine
<1>9. l \in Connections
  <2> DEFINE m == [toServer |-> <<>>, toClient |-> <<f>>, alive |-> r.alive,
                   open |-> FALSE, waits |-> r.waits, value |-> r.value]
  <2>1. m \in Connections
    BY <1>1, <1>8, LinkOf
  <2>2. l = m
    BY <1>0, <1>4, <1>8
  <2> QED
    BY <2>1, <2>2
<1>10. l.toClient = <<f>> /\ l.waits = r.waits /\ l.value = r.value
  BY <1>0, <1>8
<1> QED
  BY <1>2, <1>7, <1>8, <1>9, <1>10 DEF Answering

LEMMA LinkOpen ==
    ASSUME NEW r \in Connections, NEW o, NEW l, l = [r EXCEPT !.open = o]
    PROVE  l = [toServer |-> r.toServer, toClient |-> r.toClient, alive |-> r.alive, open |-> o,
                waits |-> r.waits, value |-> r.value]
BY DEF Connections

LEMMA LinkAlive ==
    ASSUME NEW r \in Connections, NEW a, NEW l, l = [r EXCEPT !.alive = a]
    PROVE  l = [toServer |-> r.toServer, toClient |-> r.toClient, alive |-> a, open |-> r.open,
                waits |-> r.waits, value |-> r.value]
BY DEF Connections

LEMMA LinkAt ==
    ASSUME SocketInv, NEW i \in DOMAIN conns
    PROVE  conns[i] \in Connections /\ Answering(conns[i])
BY ElementOfSeq, LenProperties DEF SocketInv

LEMMA LinkSet ==
    ASSUME SocketInv, NEW i \in DOMAIN conns, NEW l \in Connections, Answering(l),
           conns' = [conns EXCEPT ![i] = l]
    PROVE  /\ conns' \in Seq(Connections) /\ DOMAIN conns' = DOMAIN conns /\ conns'[i] = l
           /\ \A j \in DOMAIN conns : j # i => conns'[j] = conns[j]
           /\ \A j \in DOMAIN conns' : Answering(conns'[j])
<1>1. conns \in Seq(Connections) /\ \A j \in DOMAIN conns : Answering(conns[j])
  BY DEF SocketInv
<1>2. i \in 1..Len(conns) /\ DOMAIN conns = 1..Len(conns)
  BY <1>1, LenProperties
<1>3. conns' \in Seq(Connections) /\ Len(conns') = Len(conns)
  BY <1>1, <1>2, ExceptSeq
<1>4. DOMAIN conns' = DOMAIN conns
  BY <1>2, <1>3, LenProperties
<1>5. conns'[i] = l /\ \A j \in DOMAIN conns : j # i => conns'[j] = conns[j]
  BY <1>1
<1>6. ASSUME NEW j \in DOMAIN conns' PROVE Answering(conns'[j])
  BY <1>1, <1>4, <1>5
<1> QED
  BY <1>3, <1>4, <1>5, <1>6

LEMMA LinkChanges ==
    ASSUME SocketInv, NEW i \in DOMAIN conns, NEW l \in Connections, Answering(l),
           Waiting(conns[i]) => Waiting(l), conns' = [conns EXCEPT ![i] = l],
           UNCHANGED backlogGtp, calls' \in Nat, EchoesOK'
    PROVE  SocketInv'
<1>1. /\ conns' \in Seq(Connections) /\ DOMAIN conns' = DOMAIN conns /\ conns'[i] = l
      /\ \A j \in DOMAIN conns : j # i => conns'[j] = conns[j]
      /\ \A j \in DOMAIN conns' : Answering(conns'[j])
  BY LinkSet
<1>2. /\ \A j \in DOMAIN backlogGtp : backlogGtp[j] \in DOMAIN conns /\ Waiting(conns[backlogGtp[j]])
      /\ \A j, k \in DOMAIN backlogGtp : backlogGtp[j] = backlogGtp[k] => j = k
      /\ backlogGtp \in Seq(DOMAIN conns)
  BY LenProperties, ElementOfSeq DEF SocketInv
<1>3. ASSUME NEW j \in DOMAIN backlogGtp PROVE Waiting(conns'[backlogGtp[j]])
  <2>1. CASE backlogGtp[j] = i
    BY <1>1, <1>2, <2>1
  <2>2. CASE backlogGtp[j] # i
    BY <1>1, <1>2, <2>2
  <2> QED
    BY <2>1, <2>2
<1> QED
  BY <1>1, <1>2, <1>3 DEF SocketInv

LEMMA ClientCallKeeps ==
    ASSUME SocketInv, NEW i \in DOMAIN conns, NEW v \in Values, ClientCall(i, v)
    PROVE  SocketInv'
<1> DEFINE r == conns[i]
           f == FrameOf("call", calls', FALSE, EncodeClient(v))
<1>1. r \in Connections /\ Answering(r)
  BY LinkAt
<1>2. /\ r.waits = 0 /\ calls' = calls + 1 /\ UNCHANGED <<backlogGtp, echoes>>
      /\ conns' = [conns EXCEPT ![i].toServer = Append(@, f), ![i].waits = calls', ![i].value = v]
  BY DEF ClientCall
<1>3. calls' \in Nat \ {0} /\ EchoesOK'
  BY <1>2 DEF SocketInv, EchoesOK
<1> DEFINE s == Append(r.toServer, f)
<1>l. PICK l : l = [r EXCEPT !.toServer = s, !.waits = calls', !.value = v]
  OBVIOUS
<1>4. conns' = [conns EXCEPT ![i] = l]
  BY <1>2, <1>l
<1>5. l \in Connections /\ Answering(l) /\ (Waiting(r) => Waiting(l))
  <2>1. f \in Frames
    BY <1>3 DEF FrameOf, Frames, FrameTypes, Wire, EncodeClient
  <2>2. s \in Seq(Frames)
    <3> HIDE DEF f
    <3> QED
      BY <1>1, <2>1, LinkFields, OutboxGrows
  <2>3. /\ l \in Connections
        /\ l.toServer = s /\ l.toClient = r.toClient /\ l.open = r.open /\ l.waits = calls' /\ l.value = v
    <3> DEFINE m == [toServer |-> s, toClient |-> r.toClient, alive |-> r.alive, open |-> r.open,
                     waits |-> calls', value |-> v]
    <3> HIDE DEF r, s
    <3>1. l = m
      BY <1>1, <1>l DEF Connections
    <3>2. m \in Connections
      <4>1. /\ r.toClient \in Seq(Frames) /\ r.alive \in BOOLEAN /\ r.open \in BOOLEAN
            /\ calls' \in Nat /\ v \in Values \cup {"undefined"}
        BY <1>1, <1>3, LinkFields
      <4> QED
        BY <2>2, <4>1, LinkOf
    <3>3. /\ m.toServer = s /\ m.toClient = r.toClient /\ m.open = r.open
          /\ m.waits = calls' /\ m.value = v
      OBVIOUS
    <3> HIDE DEF m
    <3> QED
      BY <3>1, <3>2, <3>3
  <2>4. l.waits # 0 /\ r.waits = 0 /\ f = FrameOf("call", l.waits, FALSE, EncodeClient(l.value))
        /\ l.toServer = Append(r.toServer, f)
    BY <1>2, <1>3, <2>3
  <2> HIDE DEF r, f, s
  <2> QED
    BY <1>1, <2>1, <2>3, <2>4, LinkCalls
<1> HIDE DEF r
<1>6. Waiting(conns[i]) => Waiting(l)
  BY <1>5 DEF r
<1> QED
  BY <1>2, <1>3, <1>4, <1>5, <1>6, LinkChanges

LEMMA ClientCloseKeeps ==
    ASSUME SocketInv, NEW i \in DOMAIN conns, ClientClose(i)
    PROVE  SocketInv'
<1> DEFINE r == conns[i]
           l == [r EXCEPT !.alive = FALSE]
<1>1. r \in Connections /\ Answering(r)
  BY LinkAt
<1>2. conns' = [conns EXCEPT ![i] = l] /\ UNCHANGED <<backlogGtp, echoes, calls>>
  BY DEF ClientClose
<1>3. calls' \in Nat /\ EchoesOK'
  BY <1>2 DEF SocketInv, EchoesOK
<1>4. l \in Connections /\ Answering(l) /\ (Waiting(r) => Waiting(l))
  <2> HIDE DEF r
  <2>1. l = [toServer |-> r.toServer, toClient |-> r.toClient, alive |-> FALSE, open |-> r.open,
             waits |-> r.waits, value |-> r.value]
    BY <1>1, LinkAlive
  <2>2. r.open \in BOOLEAN /\ (Waiting(r) => r.open)
    BY <1>1, LinkFields DEF Waiting
  <2> HIDE DEF l
  <2> QED
    BY <1>1, <2>1, <2>2, LinkEnds
<1> HIDE DEF l
<1> QED
  BY <1>2, <1>3, <1>4, LinkChanges

LEMMA ClientReceivesKeeps ==
    ASSUME SocketInv, NEW i \in DOMAIN conns, ClientReceives(i)
    PROVE  SocketInv'
<1> DEFINE r == conns[i]
<1>1. r \in Connections /\ Answering(r)
  BY LinkAt
<1>2. UNCHANGED <<backlogGtp, calls>> /\ calls' \in Nat /\ r.waits # 0
  BY DEF ClientReceives, SocketInv
<1>3. CASE /\ r.toClient # <<>>
           /\ echoes' = echoes \cup {[id |-> r.waits, sent |-> r.value, frame |-> Head(r.toClient)]}
           /\ conns' = [conns EXCEPT ![i].toClient = Tail(@), ![i].waits = 0]
  <2> DEFINE l == [r EXCEPT !.toClient = Tail(@), !.waits = 0]
             new == [id |-> r.waits, sent |-> r.value, frame |-> Head(r.toClient)]
  <2>1. conns' = [conns EXCEPT ![i] = l]
    BY <1>3
  <2>2. /\ l \in Connections /\ Answering(l)
        /\ Head(r.toClient).id = r.waits /\ Head(r.toClient).value = Echoed(r.value)
    <3>1. r.toClient # <<>>
      BY <1>3
    <3> HIDE DEF r
    <3> QED
      BY <1>1, <3>1, LinkReads
  <2>5. new.frame.id = new.id /\ (new.sent \in Plain => new.frame.value = new.sent)
    BY <2>2 DEF Echoed, Plain, EncodeClient, EncodeServer, DecodeClient, DecodeServer
  <2>6. EchoesOK'
    <3>1. EchoesOK /\ echoes' = echoes \cup {new}
      BY <1>3 DEF SocketInv
    <3> HIDE DEF new
    <3> QED
      BY <2>5, <3>1 DEF EchoesOK
  <2>7. ~Waiting(conns[i])
    BY <1>3 DEF Waiting
  <2> HIDE DEF l
  <2> QED
    BY <1>2, <2>1, <2>2, <2>6, <2>7, LinkChanges
<1>4. CASE /\ r.toClient = <<>> /\ ~r.open
           /\ conns' = [conns EXCEPT ![i].alive = FALSE, ![i].waits = 0] /\ UNCHANGED echoes
  <2> DEFINE l == [r EXCEPT !.alive = FALSE, !.waits = 0]
  <2>1. conns' = [conns EXCEPT ![i] = l]
    BY <1>4
  <2>2. l \in Connections /\ Answering(l)
    <3>1. r.toClient = <<>>
      BY <1>4
    <3> HIDE DEF r
    <3> QED
      BY <1>1, <3>1, LinkGivesUp
  <2>4. EchoesOK'
    BY <1>4 DEF SocketInv, EchoesOK
  <2>5. ~Waiting(conns[i])
    BY <1>4 DEF Waiting
  <2> HIDE DEF l
  <2> QED
    BY <1>2, <2>1, <2>2, <2>4, <2>5, LinkChanges
<1> QED
  BY <1>3, <1>4 DEF ClientReceives

LEMMA ServerCloseKeeps ==
    ASSUME SocketInv, ServerClose
    PROVE  SocketInv'
<1> DEFINE shut(i) == [conns[i] EXCEPT !.open = FALSE]
<1>1. conns \in Seq(Connections) /\ calls' \in Nat /\ EchoesOK'
  BY DEF SocketInv, ServerClose, EchoesOK
<1>2. /\ backlogGtp' = <<>>
      /\ conns' = [i \in DOMAIN conns |-> IF i \in ToSet(backlogGtp) THEN shut(i) ELSE conns[i]]
  BY DEF ServerClose
<1>3. Len(conns) \in Nat /\ DOMAIN conns = 1..Len(conns)
  BY <1>1, LenProperties
<1>4. ASSUME NEW i \in DOMAIN conns PROVE shut(i) \in Connections /\ Answering(shut(i))
  <2> DEFINE r == conns[i]
             l == [r EXCEPT !.open = FALSE]
  <2>1. r \in Connections /\ Answering(r)
    BY LinkAt
  <2>2. l \in Connections /\ Answering(l)
    <3> HIDE DEF r
    <3>1. l = [toServer |-> r.toServer, toClient |-> r.toClient, alive |-> r.alive, open |-> FALSE,
               waits |-> r.waits, value |-> r.value]
      BY <2>1, LinkOpen
    <3>2. r.alive \in BOOLEAN
      BY <2>1, LinkFields
    <3> HIDE DEF l
    <3> QED
      BY <2>1, <3>1, <3>2, LinkEnds
  <2> QED
    BY <2>2
<1>5. ASSUME NEW i \in DOMAIN conns' PROVE conns'[i] \in Connections /\ Answering(conns'[i])
  <2>1. i \in DOMAIN conns
    BY <1>2
  <2>2. conns[i] \in Connections /\ Answering(conns[i])
    BY <2>1, LinkAt
  <2> HIDE DEF shut
  <2>3. conns'[i] = IF i \in ToSet(backlogGtp) THEN shut(i) ELSE conns[i]
    BY <1>2, <2>1
  <2> QED
    BY <1>4, <2>1, <2>2, <2>3
<1>6. conns' \in [1..Len(conns) -> Connections]
  <2> HIDE DEF shut
  <2> QED
    BY <1>2, <1>3, <1>5
<1>7. conns' \in Seq(Connections)
  BY <1>3, <1>6, SeqDef
<1>8. backlogGtp' \in Seq(DOMAIN conns') /\ DOMAIN backlogGtp' = {}
  BY <1>2, EmptySeq
<1> QED
  BY <1>1, <1>5, <1>7, <1>8 DEF SocketInv

LEMMA ClientConnectKeeps ==
    ASSUME SocketInv, ClientConnect
    PROVE  SocketInv'
<1> DEFINE new == [toServer |-> <<>>, toClient |-> <<>>, alive |-> TRUE, open |-> TRUE,
                   waits |-> 0, value |-> "undefined"]
           n == Len(conns) + 1
<1>1. /\ conns \in Seq(Connections) /\ backlogGtp \in Seq(DOMAIN conns)
      /\ \A j, k \in DOMAIN backlogGtp : backlogGtp[j] = backlogGtp[k] => j = k
  BY DEF SocketInv
<1>2. conns' = Append(conns, new) /\ backlogGtp' = Append(backlogGtp, n) /\ UNCHANGED <<echoes, calls>>
  BY DEF ClientConnect
<1>3. calls' \in Nat /\ EchoesOK'
  BY <1>2 DEF SocketInv, EchoesOK
<1>4. new \in Connections
  <2>1. <<>> \in Seq(Frames) /\ TRUE \in BOOLEAN /\ 0 \in Nat /\ "undefined" \in Values \cup {"undefined"}
    BY EmptySeq
  <2> QED
    BY <2>1, LinkOf
<1>5. new.toServer = <<>> /\ new.toClient = <<>> /\ new.open /\ new.waits = 0
  OBVIOUS
<1> HIDE DEF new
<1>6. Waiting(new) /\ Answering(new)
  BY <1>5 DEF Waiting, Answering
<1>7. /\ conns' \in Seq(Connections) /\ Len(conns) \in Nat
      /\ DOMAIN conns = 1..Len(conns) /\ DOMAIN conns' = 1..n /\ conns'[n] = new
      /\ \A i \in DOMAIN conns : conns'[i] = conns[i]
  BY <1>1, <1>2, <1>4, AppendProperties, LenProperties
<1>8. ASSUME NEW i \in DOMAIN conns' PROVE Answering(conns'[i])
  <2>1. i = n \/ i \in DOMAIN conns
    BY <1>7
  <2>2. CASE i = n
    BY <1>6, <1>7, <2>2
  <2>3. CASE i \in DOMAIN conns
    BY <1>7, <2>3, LinkAt
  <2> QED
    BY <2>1, <2>2, <2>3
<1>9. /\ DOMAIN backlogGtp = 1..Len(backlogGtp) /\ Len(backlogGtp) \in Nat
      /\ \A j \in DOMAIN backlogGtp : backlogGtp[j] \in DOMAIN conns
  BY <1>1, LenProperties, ElementOfSeq
<1>10. backlogGtp \in Seq(DOMAIN conns') /\ n \in DOMAIN conns' /\ n \notin DOMAIN conns
  <2>1. backlogGtp \in [1..Len(backlogGtp) -> DOMAIN conns]
    BY <1>1, LenProperties
  <2>2. DOMAIN conns \subseteq DOMAIN conns'
    BY <1>7
  <2>3. backlogGtp \in [1..Len(backlogGtp) -> DOMAIN conns']
    BY <2>1, <2>2
  <2> QED
    BY <1>7, <1>9, <2>3, SeqDef
<1>11. /\ backlogGtp' \in Seq(DOMAIN conns') /\ DOMAIN backlogGtp' = 1..(Len(backlogGtp) + 1)
       /\ backlogGtp'[Len(backlogGtp) + 1] = n
       /\ \A j \in DOMAIN backlogGtp : backlogGtp'[j] = backlogGtp[j]
  <2> HIDE DEF n
  <2> QED
    BY <1>2, <1>9, <1>10, AppendProperties, LenProperties
<1>12. \A j \in DOMAIN backlogGtp' : j \in DOMAIN backlogGtp \/ j = Len(backlogGtp) + 1
  BY <1>9, <1>11
<1>13. \A j \in DOMAIN backlogGtp' : Waiting(conns'[backlogGtp'[j]])
  <2>1. \A j \in DOMAIN backlogGtp : Waiting(conns[backlogGtp[j]])
    BY DEF SocketInv
  <2>2. ASSUME NEW j \in DOMAIN backlogGtp PROVE Waiting(conns'[backlogGtp'[j]])
    <3>1. backlogGtp'[j] = backlogGtp[j] /\ backlogGtp[j] \in DOMAIN conns
      BY <1>9, <1>11
    <3> HIDE DEF n
    <3> QED
      BY <1>7, <2>1, <3>1
  <2>3. Waiting(conns'[backlogGtp'[Len(backlogGtp) + 1]])
    <3> HIDE DEF n
    <3> QED
      BY <1>6, <1>7, <1>11
  <2> QED
    BY <1>12, <2>2, <2>3
<1>14. ASSUME NEW j \in DOMAIN backlogGtp', NEW k \in DOMAIN backlogGtp', backlogGtp'[j] = backlogGtp'[k]
       PROVE  j = k
  <2> HIDE DEF n
  <2>1. \A h \in DOMAIN backlogGtp : backlogGtp'[h] = backlogGtp[h] /\ backlogGtp[h] # n
    BY <1>9, <1>10, <1>11
  <2>2. \A h, m \in DOMAIN backlogGtp : backlogGtp[h] = backlogGtp[m] => h = m
    BY <1>1
  <2> QED
    BY <1>11, <1>12, <1>14, <2>1, <2>2
<1> QED
  BY <1>3, <1>7, <1>8, <1>11, <1>13, <1>14 DEF SocketInv

LEMMA HandleKeeps ==
    ASSUME SocketInv, HandleConnection
    PROVE  SocketInv'
<1> DEFINE i == Head(backlogGtp)
           r == conns[i]
<1>1. /\ backlogGtp \in Seq(DOMAIN conns) /\ backlogGtp # <<>>
      /\ backlogGtp' = Tail(backlogGtp) /\ UNCHANGED <<echoes, calls>>
      /\ \A j, k \in DOMAIN backlogGtp : backlogGtp[j] = backlogGtp[k] => j = k
      /\ \A j \in DOMAIN backlogGtp : Waiting(conns[backlogGtp[j]])
  BY DEF SocketInv, HandleConnection
<1>2. calls' \in Nat /\ EchoesOK'
  BY <1>1 DEF SocketInv, EchoesOK
<1>3. /\ i = backlogGtp[1] /\ i \in DOMAIN conns /\ 1 \in DOMAIN backlogGtp
      /\ backlogGtp' \in Seq(DOMAIN conns)
      /\ \A j \in DOMAIN backlogGtp' : j + 1 \in DOMAIN backlogGtp /\ backlogGtp'[j] = backlogGtp[j + 1]
                                       /\ j \in Nat /\ j + 1 # 1
  BY <1>1, HeadTailProperties, LenProperties, EmptySeq
<1>4. r \in Connections /\ Answering(r) /\ Waiting(r)
  BY <1>1, <1>3, LinkAt
<1>5. PICK l \in Connections : Answering(l) /\ conns' = [conns EXCEPT ![i] = l]
  <2>1. ASSUME r.toServer # <<>>, NEW ok \in BOOLEAN, NEW f,
               f = FrameOf("result", Head(r.toServer).id, ok,
                           DecodeClient(EncodeServer(DecodeServer(Head(r.toServer).value)))),
               conns' = [conns EXCEPT ![i].toServer = Tail(@), ![i].open = FALSE,
                           ![i].toClient = Append(@, f)]
        PROVE  \E l \in Connections : Answering(l) /\ conns' = [conns EXCEPT ![i] = l]
    <3> DEFINE l == [r EXCEPT !.toServer = Tail(@), !.open = FALSE, !.toClient = Append(@, f)]
    <3>1. conns' = [conns EXCEPT ![i] = l]
      BY <1>3, <2>1
    <3>2. l \in Connections /\ Answering(l)
      <4> HIDE DEF r
      <4> QED
        BY <1>4, <2>1, LinkServed
    <3> HIDE DEF l, i
    <3> QED
      BY <3>1, <3>2
  <2>2. ASSUME conns' = [conns EXCEPT ![i].open = FALSE]
        PROVE  \E l \in Connections : Answering(l) /\ conns' = [conns EXCEPT ![i] = l]
    <3> DEFINE l == [r EXCEPT !.open = FALSE]
    <3>1. conns' = [conns EXCEPT ![i] = l]
      BY <2>2
    <3>2. l \in Connections /\ Answering(l)
      <4> HIDE DEF r
      <4>1. l = [toServer |-> r.toServer, toClient |-> r.toClient, alive |-> r.alive, open |-> FALSE,
                 waits |-> r.waits, value |-> r.value]
        BY <1>4, LinkOpen
      <4>2. r.alive \in BOOLEAN
        BY <1>4, LinkFields
      <4> HIDE DEF l
      <4> QED
        BY <1>4, <4>1, <4>2, LinkEnds
    <3> HIDE DEF l, i
    <3> QED
      BY <3>1, <3>2
  <2> QED
    BY <2>1, <2>2 DEF HandleConnection
<1> HIDE DEF i, r
<1>6. /\ conns' \in Seq(Connections) /\ DOMAIN conns' = DOMAIN conns
      /\ \A j \in DOMAIN conns : j # i => conns'[j] = conns[j]
      /\ \A j \in DOMAIN conns' : Answering(conns'[j])
  BY <1>3, <1>5, LinkSet
<1>7. ASSUME NEW j \in DOMAIN backlogGtp'
      PROVE  Waiting(conns'[backlogGtp'[j]])
  <2>1. /\ j + 1 \in DOMAIN backlogGtp /\ backlogGtp'[j] = backlogGtp[j + 1] /\ j + 1 # 1
        /\ backlogGtp[j + 1] \in DOMAIN conns
    BY <1>1, <1>3, LenProperties, ElementOfSeq
  <2>2. backlogGtp[j + 1] # i
    BY <1>1, <1>3, <2>1
  <2> QED
    BY <1>1, <1>6, <2>1, <2>2
<1>8. ASSUME NEW j \in DOMAIN backlogGtp', NEW k \in DOMAIN backlogGtp',
             backlogGtp'[j] = backlogGtp'[k]
      PROVE  j = k
  <2>1. j + 1 = k + 1 /\ j \in Nat /\ k \in Nat
    BY <1>1, <1>3, <1>8
  <2> QED
    BY <2>1
<1> QED
  BY <1>2, <1>3, <1>6, <1>7, <1>8 DEF SocketInv

---------------------------------------------------------------------------
LEMMA GtpInitOK == GtpInit => PluginInv /\ SocketInv
<1> SUFFICES ASSUME GtpInit PROVE PluginInv /\ SocketInv
  OBVIOUS
<1>1. /\ plugins = <<>> /\ children = <<>> /\ host = Idle /\ calls = 0 /\ answers = {}
      /\ conns = <<>> /\ backlogGtp = <<>> /\ echoes = {} /\ DOMAIN plugins = {} /\ DOMAIN conns = {}
      /\ DOMAIN backlogGtp = {}
  BY DEF GtpInit
<1>2. children \in Seq(Kids) /\ conns \in Seq(Connections) /\ backlogGtp \in Seq(DOMAIN conns) /\ calls \in Nat
  BY <1>1, EmptySeq
<1>3. HostOK
  BY <1>1 DEF HostOK, Idle
<1>4. PluginsOK
  <2>1. plugins = [n \in DOMAIN plugins |-> plugins[n]]
    BY <1>1
  <2> QED
    BY <1>1, <2>1 DEF PluginsOK
<1> QED
  BY <1>1, <1>2, <1>3, <1>4 DEF PluginInv, SocketInv, AnswersOK, EchoesOK

LEMMA PluginsSame ==
    ASSUME PluginInv, UNCHANGED <<plugins, children, host, answers>>, calls' \in Nat
    PROVE  PluginInv'
<1>1. HostOK'
  BY DEF PluginInv, HostOK
<1>2. PluginsOK'
  BY DEF PluginInv, PluginsOK
<1> QED
  BY <1>1, <1>2 DEF PluginInv, AnswersOK

LEMMA GtpStep ==
    ASSUME PluginInv, SocketInv, [PluginNext \/ SocketNext]_gtpVars
    PROVE  PluginInv' /\ SocketInv'
<1>1. CASE PluginNext
  <2>1. UNCHANGED serverVars
    BY <1>1 DEF PluginNext, HandshakeEnds, RecvAnswer, SpawnPlugin, CallPlugin, IsAlive, Unload,
                ChildAnswers, ChildNoise, ChildExits
  <2>2. PluginInv'
    BY <1>1, HandshakeKeeps, RecvKeeps, SpawnKeeps, PluginCallKeeps, IsAliveKeeps, UnloadKeeps,
       ChildAnswersKeeps, NoiseKeeps DEF PluginNext
  <2>3. SocketInv'
    <3>1. calls' \in Nat
      BY <2>2 DEF PluginInv
    <3> QED
      BY <2>1, <3>1 DEF SocketInv, EchoesOK, serverVars
  <2> QED
    BY <2>2, <2>3
<1>2. CASE SocketNext
  <2>1. UNCHANGED pluginVars
    BY <1>2 DEF SocketNext, ServerListen, ServerClose, ClientConnect, HandleConnection,
                ClientReceives, ClientClose, ClientCall
  <2>2. SocketInv'
    <3>1. CASE ServerListen
      BY <3>1 DEF ServerListen, SocketInv, EchoesOK
    <3> QED
      BY <1>2, <3>1, ServerCloseKeeps, ClientConnectKeeps, HandleKeeps, ClientReceivesKeeps,
         ClientCloseKeeps, ClientCallKeeps DEF SocketNext
  <2>3. PluginInv'
    <3>1. calls' \in Nat
      BY <2>2 DEF SocketInv
    <3> QED
      BY <2>1, <3>1, PluginsSame DEF pluginVars
  <2> QED
    BY <2>2, <2>3
<1>3. CASE UNCHANGED gtpVars
  <2>1. PluginInv'
    BY <1>3, PluginsSame DEF gtpVars, PluginInv
  <2>2. SocketInv'
    BY <1>3 DEF gtpVars, SocketInv, EchoesOK
  <2> QED
    BY <2>1, <2>2
<1> QED
  BY <1>1, <1>2, <1>3

\* Whatever plugins write and however often they die, and however connections
\* are made, served and dropped: a call gets its own answer.
THEOREM CallsGetTheirAnswers == GtpSpec => []OwnAnswer
<1>1. PluginInv /\ SocketInv => OwnAnswer
  BY DEF PluginInv, AnswersOK, SocketInv, EchoesOK, OwnAnswer
<1>2. GtpInit => PluginInv /\ SocketInv
  BY GtpInitOK
<1>3. PluginInv /\ SocketInv /\ [PluginNext \/ SocketNext]_gtpVars => (PluginInv /\ SocketInv)'
  BY GtpStep
<1> QED
  BY <1>1, <1>2, <1>3, PTL DEF GtpSpec
=============================================================================

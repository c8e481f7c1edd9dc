------------------------------ MODULE GtsWeb -------------------------------
(***************************************************************************)
(* The web server of GTS scripts (stdlib/modules/web, helpers/http.rs): an *)
(* app with routes, and app.listen in its three forms: count: N serves N   *)
(* requests on the calling thread, workers: 1 serves until app.close(),    *)
(* workers: N re-runs the script on N threads that share the listener.     *)
(*                                                                         *)
(* A handler answers by filling in a response, by streaming it, or by      *)
(* returning a pending promise whose continuation answers later, while the *)
(* loop drains completions between two requests.  Status codes and bodies  *)
(* are left out.  A response is                                            *)
(*   slot     the request is still there to be answered                    *)
(*   stream   "none", "open" (res.begin) or "closed"                       *)
(*   timed    a stream deadline is armed                                   *)
(*   body     a body has been set                                          *)
(*   answers  complete answers written to the client                       *)
(*   cut      the connection was dropped in the middle of a stream         *)
(***************************************************************************)
EXTENDS Integers, Sequences, FiniteSets, SequencesExt

CONSTANTS Threads,       \* "main" and the worker threads
          RouteChoices,  \* routes a script registers: [method, segs, ws, handlers]
          Asked,         \* what clients ask for: [method, segs, ws]
          MaxRoutes,     \* routes a script registers
          MaxRequests,   \* requests clients send
          Count          \* N of count: N

ASSUME RequestsAssumption == MaxRequests \in Nat

VARIABLES routes,        \* WebApp.routes
          phase,         \* "script", "serving" or "over"
          mode,          \* "count", "single", "workers"
          backlog,       \* requests the listener holds: [id, ask]
          sent,          \* ids of the requests clients have sent
          resp,          \* responses, by request
          settled,          \* pending_done, by request
          thread,        \* [pc, cur, chain, batch, ready, waiting, streams, counter, served]
          flag,          \* shutdown_signal
          server,        \* app.server (count, single) or the shared listener
          webPanic       \* app.server was borrowed twice

webVars == <<routes, phase, mode, backlog, sent, resp, settled, thread, flag, server, webPanic>>

Main == "main"
ReqIds == 1 .. MaxRequests
First(t) == IF t = Main THEN "poll" ELSE "test"
Serving(t) == phase = "serving" /\ (t = Main <=> mode # "workers")

---------------------------------------------------------------------------
(* Routes. *)
Segment(r, q) == r = ":p" \/ r = q

\* exact_match and prefix_match.
ExactMatch(rs, qs)  == Len(rs) = Len(qs) /\ \A i \in DOMAIN rs : Segment(rs[i], qs[i])
PrefixMatch(rs, qs) == Len(rs) <= Len(qs) /\ \A i \in DOMAIN rs : Segment(rs[i], qs[i])

RouteMatches(route, q) ==
    /\ ~route.ws
    /\ route.method \in {"ALL", "USE", q.method}
    /\ IF route.method = "USE" THEN PrefixMatch(route.segs, q.segs)
                               ELSE ExactMatch(route.segs, q.segs)

\* matching_handler_chain: how many handlers run, in registration order.
ChainLength(q) ==
    LET add(n, route) == n + (IF RouteMatches(route, q) THEN route.handlers ELSE 0)
    IN  FoldLeft(add, 0, routes)

---------------------------------------------------------------------------
NewResponse == [slot |-> FALSE, stream |-> "none", timed |-> FALSE, body |-> FALSE,
                answers |-> 0, cut |-> FALSE]

WebInit ==
    /\ routes = <<>> /\ phase = "script" /\ mode = "count"
    /\ backlog = <<>> /\ sent = {} /\ flag = FALSE /\ server = FALSE /\ webPanic = FALSE
    /\ resp = [r \in ReqIds |-> NewResponse] /\ settled = [r \in ReqIds |-> FALSE]
    /\ thread = [t \in Threads |->
         [pc |-> "idle", cur |-> 0, chain |-> 0, batch |-> <<>>, ready |-> <<>>,
          waiting |-> {}, streams |-> {}, counter |-> 0, served |-> 0]]

\* app.get, app.use, app.ws and the like.
RegisterRoute ==
    /\ phase = "script" /\ Len(routes) < MaxRoutes
    /\ \E r \in RouteChoices : routes' = Append(routes, r)
    /\ UNCHANGED <<phase, mode, backlog, sent, resp, settled, thread, flag, server, webPanic>>

\* app.listen: bind, then serve on this thread or start the workers.  Workers
\* that cannot read the script back fall to the serial loop, which finds no
\* app.server and ends at once.
Listen ==
    /\ phase = "script"
    /\ \E m \in {"count", "single", "workers"}, source \in BOOLEAN :
         /\ m # "workers" => source
         /\ mode' = IF source THEN m ELSE "single"
         /\ server' = source
    /\ phase' = "serving"
    /\ thread' = [t \in Threads |-> [thread[t] EXCEPT !.pc =
                     IF (t = Main) <=> (mode' # "workers") THEN First(t) ELSE @]]
    /\ UNCHANGED <<routes, backlog, sent, resp, settled, flag, webPanic>>

\* A client connects.
Send(ask) ==
    /\ phase = "serving" /\ server /\ Cardinality(sent) < MaxRequests
    /\ LET r == Cardinality(sent) + 1
       IN  sent' = sent \cup {r} /\ backlog' = Append(backlog, [id |-> r, ask |-> ask])
    /\ UNCHANGED <<routes, phase, mode, resp, settled, thread, flag, server, webPanic>>

---------------------------------------------------------------------------
(* Responses. *)

\* finish_streaming_response: the last chunk, once.
Finish(p) == IF p.stream # "open" THEN p
             ELSE [p EXCEPT !.stream = "closed", !.timed = FALSE, !.answers = @ + 1]

\* web_respond of a request that is still in its slot.
Respond(p) == IF ~p.slot THEN p ELSE [p EXCEPT !.slot = FALSE, !.answers = @ + 1]

\* What a script does with res: nothing, send or json, begin (with or without
\* res.setTimeout), or begin, write and flush.
ResOps == {"nothing", "send", "begin", "timed", "whole", "flush"}
Can(p, op) == op \in {"begin", "timed", "whole"} => p.stream = "open" \/ p.slot
Use(p, op) ==
    LET begun == IF p.slot THEN [p EXCEPT !.slot = FALSE, !.stream = "open"] ELSE p
    IN  CASE op = "send"              -> [p EXCEPT !.body = TRUE]
          [] op = "begin" /\ Can(p, op) -> begun
          [] op = "timed" /\ Can(p, op) -> [begun EXCEPT !.timed = TRUE]
          [] op = "whole" /\ Can(p, op) -> Finish(begun)
          [] op = "flush"             -> Finish(p)
          [] OTHER                    -> p

\* The response object is dropped: a stream that is still open has no last
\* chunk, and its client sees it cut off.
Drop(p) == IF p.stream = "open" THEN [p EXCEPT !.cut = TRUE] ELSE p

ThreadAt(t, pc) == ~webPanic /\ Serving(t) /\ thread[t].pc = pc
Less(n, k) == IF n > k THEN n - k ELSE 0      \* saturating_sub
Go(t, pc) == thread' = [thread EXCEPT ![t].pc = pc]

---------------------------------------------------------------------------
(* One turn of the loop: poll, test, drain, receive, handle. *)

PollForgetsMutant(t) ==
    /\ thread[t].pc \in {"poll", "poll_held"} /\ ThreadAt(t, thread[t].pc)
    /\ \E late \in SUBSET {r \in thread[t].streams : resp[r].timed /\ ~settled[r]} :
         /\ resp' = [r \in ReqIds |-> IF r \in late THEN Finish(resp[r]) ELSE resp[r]]
         /\ thread' = [thread EXCEPT ![t].pc = "test",
              ![t].streams = @ \ (late \cup {r \in @ : settled[r]}),
              ![t].counter = IF t = Main THEN Less(@, Cardinality(late)) ELSE @]
    /\ UNCHANGED <<settled, routes, phase, mode, backlog, sent, flag, server, webPanic>>

\* poll_active_streams: entries whose promise has settled go, and streams
\* past their deadline are finished and no longer waited for.  A worker polls
\* after draining, the serial loop at the top.
PollStreams(t) ==
    /\ thread[t].pc \in {"poll", "poll_held"} /\ ThreadAt(t, thread[t].pc)
    /\ \E late \in SUBSET {r \in thread[t].streams : resp[r].timed /\ ~settled[r]} :
         /\ resp' = [r \in ReqIds |-> IF r \in late THEN Finish(resp[r]) ELSE resp[r]]
         /\ settled' = [r \in ReqIds |-> settled[r] \/ r \in late]
         /\ thread' = [thread EXCEPT
              ![t].pc = IF t = Main \/ @ = "poll_held" THEN "test" ELSE "recv",
              ![t].streams = @ \ (late \cup {r \in @ : settled[r]}),
              ![t].counter = IF t = Main THEN Less(@, Cardinality(late)) ELSE @]
    /\ UNCHANGED <<routes, phase, mode, backlog, sent, flag, server, webPanic>>

Full(t) == mode = "count" /\ thread[t].served >= Count

\* The loop goes on draining while responses are out; it is over when none
\* is, when the shutdown flag is set or when app.server is gone.
TestLoop(t) ==
    /\ ThreadAt(t, "test")
    /\ Go(t, IF Full(t) THEN (IF thread[t].counter = 0 THEN "left" ELSE "drain_full")
             ELSE IF flag THEN "left" ELSE "drain")
    /\ UNCHANGED <<routes, phase, mode, backlog, sent, resp, settled, flag, server, webPanic>>

\* recv_timeout hands out a request, or nothing arrives for 100 ms: then
\* completions are drained while the guard on app.server is still held.
Receive(t) ==
    /\ ThreadAt(t, "recv") /\ server /\ backlog # <<>>
    /\ LET r == Head(backlog)
       IN  /\ backlog' = Tail(backlog)
           /\ resp' = [resp EXCEPT ![r.id].slot = TRUE]
           /\ thread' = [thread EXCEPT ![t].pc = IF r.ask.ws THEN "upgrade" ELSE "handle",
                                       ![t].cur = r.id, ![t].chain = ChainLength(r.ask)]
    /\ UNCHANGED <<routes, phase, mode, sent, settled, flag, server, webPanic>>

ReceiveNothing(t) ==
    /\ ThreadAt(t, "recv")
    /\ IF server THEN backlog = <<>> /\ Go(t, "drain_held") ELSE Go(t, "left")
    /\ UNCHANGED <<routes, phase, mode, backlog, sent, resp, settled, flag, server, webPanic>>

---------------------------------------------------------------------------
(* web_handle_request: one handler of the chain after another. *)
Served(t) == [thread EXCEPT ![t].pc = First(t), ![t].cur = 0, ![t].served = @ + 1]

\* The chain is over: what the response holds is sent, 404 for no handler.
Answer(t, p) ==
    /\ resp' = [resp EXCEPT ![thread[t].cur] = Drop(Respond(p))]
    /\ thread' = Served(t)
    /\ UNCHANGED settled

\* A handler that returns a pending promise: the chain stops, and the
\* response is left to the promise and to poll_active_streams.
LeaveToPromise(t, p) ==
    LET r == thread[t].cur
    IN  /\ resp' = [resp EXCEPT ![r] = p]
        /\ thread' = [Served(t) EXCEPT ![t].waiting = @ \cup {r}, ![t].streams = @ \cup {r},
                                       ![t].counter = IF t = Main THEN @ + 1 ELSE @]
        /\ UNCHANGED settled

RunHandler(t) ==
    /\ ThreadAt(t, "handle")
    /\ LET p == resp[thread[t].cur] IN
       IF thread[t].chain = 0 THEN Answer(t, p)
       ELSE \E op \in ResOps, result \in {"value", "throw", "pending"} :
              LET q == Use(p, op)
                  fails == result = "throw" \/ ~Can(p, op)
              IN  IF fails THEN Answer(t, q)
                  ELSE IF result = "pending" THEN LeaveToPromise(t, q)
                  ELSE IF q.body \/ thread[t].chain = 1 THEN Answer(t, q)
                  ELSE /\ resp' = [resp EXCEPT ![thread[t].cur] = q]
                       /\ thread' = [thread EXCEPT ![t].chain = @ - 1]
                       /\ UNCHANGED settled
    /\ UNCHANGED <<routes, phase, mode, backlog, sent, flag, server, webPanic>>

\* web_handle_ws_request: 404, 400, or an upgrade followed by the handler.
Upgrade(t) ==
    /\ ThreadAt(t, "upgrade")
    /\ Answer(t, resp[thread[t].cur])
    /\ UNCHANGED <<routes, phase, mode, backlog, sent, flag, server, webPanic>>

\* app.close() in a handler: app.server is dropped and the flag set; inside
\* a worker the flag and the listener are the shared ones.
CloseApp(t) ==
    /\ ThreadAt(t, "handle") /\ thread[t].chain > 0 /\ server
    /\ server' = (mode = "workers")
    /\ flag' = (mode # "count")
    /\ UNCHANGED <<routes, phase, mode, backlog, sent, resp, settled, thread, webPanic>>

\* Ctrl+C while workers run.
Interrupt ==
    /\ phase = "serving" /\ mode = "workers" /\ ~flag
    /\ flag' = TRUE
    /\ UNCHANGED <<routes, phase, mode, backlog, sent, resp, settled, thread, server, webPanic>>

---------------------------------------------------------------------------
(* Promises of handlers. *)

\* The work a handler started is over; op is what its last then does.
SettlePromise(t, r) ==
    /\ phase = "serving" /\ r \in thread[t].waiting
    /\ \E op \in ResOps \cup {"close"} :
         thread' = [thread EXCEPT ![t].waiting = @ \ {r},
                                  ![t].ready = Append(@, [r |-> r, op |-> op])]
    /\ UNCHANGED <<routes, phase, mode, backlog, sent, resp, settled, flag, server, webPanic>>

Draining(t) == thread[t].pc \in {"drain", "drain_full", "drain_held", "left"}

\* drain_async_completions takes the queue as it is now.
TakeBatch(t) ==
    /\ ~webPanic /\ Serving(t) /\ Draining(t) /\ thread[t].batch = <<>> /\ thread[t].ready # <<>>
    /\ thread' = [thread EXCEPT ![t].batch = thread[t].ready, ![t].ready = <<>>]
    /\ UNCHANGED <<routes, phase, mode, backlog, sent, resp, settled, flag, server, webPanic>>

\* The continuation of web_handle_handler_promise, fulfilled or rejected: the
\* request is answered or the stream finished, and the counter lowered once.
RunCompletion(t) ==
    /\ ~webPanic /\ Serving(t) /\ thread[t].batch # <<>>
    /\ LET c == Head(thread[t].batch)
           p == IF c.op = "close" THEN resp[c.r] ELSE Use(resp[c.r], c.op)
       IN  IF c.op = "close" /\ thread[t].pc = "drain_held" /\ t = Main
           THEN /\ webPanic' = TRUE
                /\ UNCHANGED <<resp, settled, thread, server, flag>>
           ELSE /\ resp' = [resp EXCEPT ![c.r] = IF p.slot THEN Respond(p) ELSE Finish(p)]
                /\ settled' = [settled EXCEPT ![c.r] = TRUE]
                /\ thread' = [thread EXCEPT ![t].batch = Tail(@),
                     ![t].counter = IF t = Main /\ ~settled[c.r] THEN Less(@, 1) ELSE @]
                /\ server' = (server /\ (c.op = "close" => mode = "workers"))
                /\ flag' = (flag \/ (c.op = "close" /\ mode # "count"))
                /\ UNCHANGED webPanic
    /\ UNCHANGED <<routes, phase, mode, backlog, sent>>

Drained(t) ==
    /\ ~webPanic /\ Serving(t) /\ thread[t].batch = <<>> /\ thread[t].ready = <<>>
    /\ \/ thread[t].pc = "drain" /\ Go(t, IF t = Main THEN "recv" ELSE "poll")
       \/ thread[t].pc = "drain_full" /\ Go(t, "poll")
       \/ thread[t].pc = "drain_held" /\ Go(t, IF t = Main THEN "poll" ELSE "poll_held")
       \* listen has returned and the script ends: run_source waits.
       \/ thread[t].pc = "left" /\ thread[t].waiting = {} /\ Go(t, "exited")
    /\ UNCHANGED <<routes, phase, mode, backlog, sent, resp, settled, flag, server, webPanic>>

\* Every thread is gone (h.join) and app.listen has nothing left to do.
ListenReturns ==
    /\ phase = "serving" /\ ~webPanic
    /\ \A t \in Threads : Serving(t) => thread[t].pc = "exited"
    /\ phase' = "over" /\ server' = FALSE
    /\ UNCHANGED <<routes, mode, backlog, sent, resp, settled, thread, flag, webPanic>>

ThreadStep(t) ==
    \/ PollStreams(t) \/ TestLoop(t) \/ Receive(t) \/ ReceiveNothing(t)
    \/ RunHandler(t) \/ Upgrade(t) \/ CloseApp(t)
    \/ TakeBatch(t) \/ RunCompletion(t) \/ Drained(t)
    \/ \E r \in ReqIds : SettlePromise(t, r)

WebNext ==
    \/ RegisterRoute \/ Listen \/ Interrupt \/ ListenReturns
    \/ \E ask \in Asked : Send(ask)
    \/ \E t \in Threads : ThreadStep(t)

WebSpec == WebInit /\ [][WebNext]_webVars

---------------------------------------------------------------------------
\* Nobody is answered twice, whether the promise, the stream deadline or the
\* handler comes first, and nobody is forgotten: the serial loop, which stops
\* draining when its counter is zero, leaves no request without its answer,
\* and neither does a script that ends after app.listen was told to stop.  A
\* stream that its own handler never finished is the one exception.
AnsweredOnce ==
    LET finished == {r \in sent : resp[r].answers = 1 \/ resp[r].cut} \cup
                    {backlog[i].id : i \in DOMAIN backlog}
    IN  /\ \A r \in ReqIds : resp[r].answers <= 1
        /\ phase = "over" => finished = sent
        /\ \A t \in Threads : thread[t].pc = "left" /\ Full(t) => finished = sent
=============================================================================

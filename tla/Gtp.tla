-------------------------------- MODULE Gtp --------------------------------
(***************************************************************************)
(* The transport protocol of GTS plugins (gtp/*.rs) and the script modules *)
(* @std/gtp/client and @std/gtp/server.  A plugin is a child process that  *)
(* speaks JSON lines over its pipes: hello and ready, then one result per  *)
(* call.  The host takes the next line for the answer; neither the id nor  *)
(* the type of the frame is looked at.  A server accepts connections,      *)
(* reads one call from each, runs the script's handler and answers.        *)
(*                                                                         *)
(* A frame is [type, id, ok, value]; "bad" is a line that does not parse.  *)
(***************************************************************************)
EXTENDS Integers, Sequences, FiniteSets, SequencesExt

CONSTANTS PluginNames,  \* plugin names
          Values,       \* script values that are passed
          MaxChildren, MaxCalls, MaxConns, MaxNoise

VARIABLES plugins,      \* PluginManager.plugins: [child, dead], by name
          children,     \* child processes: [running, inbox, outbox, noise, garbage]
          host,         \* what the host thread is doing: [pc, name, child, id]
          calls,        \* ids handed out by next_id
          answers,      \* what calls returned: [id, frame, noise]
          conns,        \* connections: [toServer, toClient, alive, open, value]
          backlogGtp,   \* connections the listener has not handed out yet
          listening,
          echoes        \* what client calls returned: [id, sent, got]

gtpVars == <<plugins, children, host, calls, answers, conns, backlogGtp, listening, echoes>>

Idle == [pc |-> "idle", name |-> "", child |-> 0, id |-> 0]
FrameOf(type, id, ok, value) == [type |-> type, id |-> id, ok |-> ok, value |-> value]
Loaded(n) == n \in DOMAIN plugins
Without(f, k) == [x \in DOMAIN f \ {k} |-> f[x]]
With(f, k, v) == [x \in DOMAIN f \cup {k} |-> IF x = k THEN v ELSE f[x]]

GtpInit ==
    /\ plugins = <<>> /\ children = <<>> /\ host = Idle /\ calls = 0 /\ answers = {}
    /\ conns = <<>> /\ backlogGtp = <<>> /\ listening = FALSE /\ echoes = {}

pluginVars == <<plugins, children, host, answers>>
serverVars == <<conns, backlogGtp, listening, echoes>>

---------------------------------------------------------------------------
(* PluginManager. *)

\* Dropping a Plugin: kill and wait.
Reap(kids, n) == IF Loaded(n) THEN [kids EXCEPT ![plugins[n].child].running = FALSE] ELSE kids

\* spawn_plugin: start the process and send hello.
SpawnPlugin(n) ==
    /\ host = Idle /\ Len(children) < MaxChildren
    /\ children' = Append(children, [running |-> TRUE, outbox |-> <<>>, noise |-> 0, garbage |-> 0,
                                     inbox |-> <<FrameOf("hello", 0, FALSE, "undefined")>>])
    /\ host' = [pc |-> "ready", name |-> n, child |-> Len(children) + 1, id |-> 0]
    /\ UNCHANGED <<plugins, calls, answers>> /\ UNCHANGED serverVars

\* StreamTransport::recv_frame has something to say: a line, or the end.
CanRecv == LET c == children[host.child] IN c.outbox # <<>> \/ ~c.running
Recv == LET c == children[host.child]
        IN  IF c.outbox # <<>> THEN Head(c.outbox) ELSE FrameOf("eof", 0, FALSE, "undefined")
Consume == [children EXCEPT ![host.child].outbox = IF @ = <<>> THEN @ ELSE Tail(@)]

\* The handshake is over: the plugin is inserted, and one that had the name
\* is dropped; a failed handshake lets go of the child without killing it.
HandshakeEnds ==
    /\ host.pc = "ready" /\ CanRecv
    /\ IF Recv.type = "ready"
       THEN /\ children' = Reap(Consume, host.name)
            /\ plugins' = With(plugins, host.name, [child |-> host.child, dead |-> FALSE])
       ELSE /\ children' = Consume
            /\ UNCHANGED plugins
    /\ host' = Idle
    /\ UNCHANGED <<calls, answers>> /\ UNCHANGED serverVars

MarkDead(n) == plugins' = [plugins EXCEPT ![n].dead = TRUE]

\* call: refused for a plugin that is dead; a send that fails makes it so.
CallPlugin(n) ==
    /\ host = Idle /\ Loaded(n) /\ ~plugins[n].dead /\ calls < MaxCalls
    /\ calls' = calls + 1
    /\ LET c == plugins[n].child
       IN  IF children[c].running
           THEN /\ children' = [children EXCEPT ![c].inbox =
                                  Append(@, FrameOf("call", calls', FALSE, "undefined"))]
                /\ host' = [pc |-> "call", name |-> n, child |-> c, id |-> calls']
                /\ UNCHANGED plugins
           ELSE MarkDead(n) /\ UNCHANGED <<children, host>>
    /\ UNCHANGED answers /\ UNCHANGED serverVars

RecvSkipsDeadMutant ==
    /\ host.pc = "call" /\ CanRecv
    /\ answers' = IF Recv.type \in {"bad", "eof"} THEN answers
                  ELSE answers \cup {[id |-> host.id, frame |-> Recv,
                                      noise |-> children[host.child].noise]}
    /\ children' = Consume
    /\ host' = Idle
    /\ UNCHANGED plugins
    /\ UNCHANGED calls /\ UNCHANGED serverVars

\* The next line is the answer, whatever it is; an error of the transport
\* marks the plugin dead.
RecvAnswer ==
    /\ host.pc = "call" /\ CanRecv
    /\ IF Recv.type \in {"bad", "eof"}
       THEN MarkDead(host.name) /\ UNCHANGED answers
       ELSE /\ answers' = answers \cup {[id |-> host.id, frame |-> Recv,
                                         noise |-> children[host.child].noise]}
            /\ UNCHANGED plugins
    /\ children' = Consume
    /\ host' = Idle
    /\ UNCHANGED calls /\ UNCHANGED serverVars

\* is_alive probes the child.
IsAlive(n) ==
    /\ host = Idle /\ Loaded(n) /\ ~plugins[n].dead /\ ~children[plugins[n].child].running
    /\ MarkDead(n)
    /\ UNCHANGED <<children, host, calls, answers>> /\ UNCHANGED serverVars

Unload(n) ==
    /\ host = Idle /\ Loaded(n)
    /\ children' = Reap(children, n)
    /\ plugins' = Without(plugins, n)
    /\ UNCHANGED <<host, calls, answers>> /\ UNCHANGED serverVars

\* The plugin process: it answers what it reads, writes lines nobody asked
\* for (events, for instance, or something that is no frame), and ends.
ChildAnswers(c) ==
    /\ children[c].running /\ children[c].inbox # <<>>
    /\ LET f == Head(children[c].inbox)
       IN  \E ok \in BOOLEAN :
             children' = [children EXCEPT ![c].inbox = Tail(@), ![c].outbox = Append(@,
               IF f.type = "hello" THEN FrameOf(IF ok THEN "ready" ELSE "event", 0, ok, "undefined")
               ELSE FrameOf("result", f.id, ok, "undefined"))]
    /\ UNCHANGED <<plugins, host, calls, answers>> /\ UNCHANGED serverVars

ChildNoise(c) ==
    /\ children[c].running
    /\ \/ /\ children[c].noise < MaxNoise
          /\ children' = [children EXCEPT ![c].noise = @ + 1,
                            ![c].outbox = Append(@, FrameOf("event", 0, FALSE, "undefined"))]
       \/ /\ children[c].garbage < MaxNoise
          /\ children' = [children EXCEPT ![c].garbage = @ + 1,
                            ![c].outbox = Append(@, FrameOf("bad", 0, FALSE, "undefined"))]
    /\ UNCHANGED <<plugins, host, calls, answers>> /\ UNCHANGED serverVars

ChildExits(c) ==
    /\ children[c].running
    /\ children' = [children EXCEPT ![c].running = FALSE]
    /\ UNCHANGED <<plugins, host, calls, answers>> /\ UNCHANGED serverVars

---------------------------------------------------------------------------
(* Values on the wire. *)

\* object_to_gtp_value of the client and of the server: the fields of an
\* object are not sent, or not even the object.
EncodeClient(v) == IF v = "object" THEN "empty object" ELSE v
EncodeServer(v) == IF v = "object" THEN "string" ELSE v
\* gtp_value_to_object: arrays and objects do not come back; the server does
\* not know NaN and the infinities either.
DecodeClient(v) == IF v \in {"array", "empty object"} THEN "undefined" ELSE v
DecodeServer(v) == IF v \in {"array", "empty object", "nan"} THEN "undefined" ELSE v
Plain == {"undefined", "null", "boolean", "number", "string"}

---------------------------------------------------------------------------
(* @std/gtp/server and @std/gtp/client. *)
ServerListen ==
    /\ ~listening /\ listening' = TRUE
    /\ UNCHANGED <<conns, backlogGtp, echoes, calls>> /\ UNCHANGED pluginVars

\* Connections not yet accepted are reset.
ServerClose ==
    /\ listening /\ listening' = FALSE
    /\ conns' = [i \in DOMAIN conns |-> IF i \in ToSet(backlogGtp)
                                        THEN [conns[i] EXCEPT !.open = FALSE] ELSE conns[i]]
    /\ backlogGtp' = <<>>
    /\ UNCHANGED <<echoes, calls>> /\ UNCHANGED pluginVars

ClientConnect ==
    /\ listening /\ Len(conns) < MaxConns
    /\ conns' = Append(conns, [toServer |-> <<>>, toClient |-> <<>>, alive |-> TRUE,
                               open |-> TRUE, waits |-> 0, value |-> "undefined"])
    /\ backlogGtp' = Append(backlogGtp, Len(conns) + 1)
    /\ UNCHANGED <<listening, echoes, calls>> /\ UNCHANGED pluginVars

\* gtp_call: send the frame, then wait for a line.
ClientCall(i, v) ==
    /\ conns[i].alive /\ conns[i].waits = 0 /\ calls < MaxCalls
    /\ calls' = calls + 1
    /\ conns' = [conns EXCEPT ![i].toServer = Append(@, FrameOf("call", calls', FALSE, EncodeClient(v))),
                              ![i].waits = calls', ![i].value = v]
    /\ UNCHANGED <<backlogGtp, listening, echoes>> /\ UNCHANGED pluginVars

ClientReceives(i) ==
    /\ conns[i].waits # 0
    /\ \/ /\ conns[i].toClient # <<>>
          /\ LET f == Head(conns[i].toClient)
             IN  echoes' = echoes \cup {[id |-> conns[i].waits, sent |-> conns[i].value, frame |-> f]}
          /\ conns' = [conns EXCEPT ![i].toClient = Tail(@), ![i].waits = 0]
       \/ /\ conns[i].toClient = <<>> /\ ~conns[i].open
          /\ conns' = [conns EXCEPT ![i].alive = FALSE, ![i].waits = 0]
          /\ UNCHANGED echoes
    /\ UNCHANGED <<backlogGtp, listening, calls>> /\ UNCHANGED pluginVars

ClientClose(i) ==
    /\ conns[i].alive /\ conns[i].waits = 0
    /\ conns' = [conns EXCEPT ![i].alive = FALSE]
    /\ UNCHANGED <<backlogGtp, listening, echoes, calls>> /\ UNCHANGED pluginVars

\* acceptOne, and accept which repeats it until nobody waits or a connection
\* fails: read one line (or learn that the client has gone), run the handler,
\* answer with the id of the call, close.
HandleConnection ==
    /\ listening /\ backlogGtp # <<>>
    /\ LET i == Head(backlogGtp) IN
       \/ /\ conns[i].toServer # <<>>
          /\ \E ok \in BOOLEAN :
               LET call == Head(conns[i].toServer)
                   v    == EncodeServer(DecodeServer(call.value))
               IN  conns' = [conns EXCEPT ![i].toServer = Tail(@), ![i].open = FALSE,
                     ![i].toClient = Append(@, FrameOf("result", call.id, ok, DecodeClient(v)))]
       \/ /\ conns[i].toServer = <<>> /\ ~conns[i].alive
          /\ conns' = [conns EXCEPT ![i].open = FALSE]
    /\ backlogGtp' = Tail(backlogGtp)
    /\ UNCHANGED <<listening, echoes, calls>> /\ UNCHANGED pluginVars

PluginNext ==
    \/ HandshakeEnds \/ RecvAnswer
    \/ \E n \in PluginNames : SpawnPlugin(n) \/ CallPlugin(n) \/ IsAlive(n) \/ Unload(n)
    \/ \E c \in DOMAIN children : ChildAnswers(c) \/ ChildNoise(c) \/ ChildExits(c)

SocketNext ==
    \/ ServerListen \/ ServerClose \/ ClientConnect \/ HandleConnection
    \/ \E i \in DOMAIN conns : ClientReceives(i) \/ ClientClose(i) \/ \E v \in Values : ClientCall(i, v)

GtpSpec == GtpInit /\ [][PluginNext \/ SocketNext]_gtpVars

---------------------------------------------------------------------------
\* A call gets its own answer.  A connection serves one call, so there the
\* answer always carries the id of the call, and a handler that returns its
\* argument gives a plain value back unchanged.  The host matches answers to
\* calls by their order only: a plugin that has written nothing of its own
\* accord (lines that are no frames apart) answers each call with its own
\* result, because a plugin that missed an answer is dead for good.
OwnAnswer ==
    /\ \A a \in answers : a.noise = 0 => a.frame.id = a.id /\ a.frame.type = "result"
    /\ \A e \in echoes : /\ e.frame.id = e.id
                         /\ e.frame.ok /\ e.sent \in Plain => e.frame.value = e.sent

=============================================================================

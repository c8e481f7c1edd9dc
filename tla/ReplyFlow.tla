------------------------------ MODULE ReplyFlow ------------------------------
(***************************************************************************)
(* One reply end to end: POST /reply registers a channel and asks the core *)
(* for a run (AgentCoreClient::reply), the core runs it with its           *)
(* sub-agents (SubAgents), the reader thread routes the events             *)
(* (EventRouter), and the pump of reply.rs logs each event under its run,  *)
(* keeps the sub-agents' sessions and ends the reply.  The answer to       *)
(* agent.reply is a line of the same stdout; the pump starts when it has   *)
(* been read, and no pump is started when the call times out first.        *)
(***************************************************************************)
EXTENDS EventRouter, FiniteSets

CONSTANT MaxSaveFails   \* session saves that may fail (a bound)

ASSUME SaveAssumption == MaxSaveFails \in Nat

VARIABLES
    pump,       \* the reply: "idle", "calling", "on", "done" or "failed"
    answered,   \* the core has written its answer to agent.reply
    bound,      \* subagent_sessions: the sub-agents the pump waits for
    seenTerm,   \* parent_terminal_seen
    log,        \* RunEventStore: type and seq of each run's logged events
    session,    \* what each sub-agent's saved session holds
    saveFails   \* saves that have failed

pumpVars == <<pump, answered, bound, seenTerm, log, session, saveFails>>
vars == <<coreVars, routerVars, listening, pumpVars>>

Init ==
    /\ CoreInit
    /\ RouterInit
    /\ pump = "idle"
    /\ answered = FALSE
    /\ bound = {}
    /\ seenTerm = FALSE
    /\ log = [r \in RunIds |-> <<>>]
    /\ session = [k \in Kids |-> "absent"]
    /\ saveFails = 0

\* AgentCoreClient::reply: the channel is registered before the request is
\* written, so that no event can arrive ahead of it.
Register ==
    /\ alive
    /\ pump = "idle"
    /\ senders' = senders \cup {Root}
    /\ pump' = "calling"
    /\ UNCHANGED <<coreVars, childToParent, parentTerminal, chan, listening, routed,
                   dropped, answered, bound, seenTerm, log, session, saveFails>>

\* The core reads the request, perhaps after the server has given up on it,
\* and spawns the run; its answer is written by the request loop, after
\* which events of the run may already have been.
Accept ==
    /\ pump \in {"calling", "failed"}
    /\ StartRoot
    /\ UNCHANGED <<routerVars, listening, pumpVars>>

WriteAnswer ==
    /\ alive
    /\ act[Root] # "none"
    /\ ~answered
    /\ answered' = TRUE
    /\ out' = Append(out, Event(Root, "response", 0))
    /\ UNCHANGED <<alive, act, waitFor, sent, outcome, poolVars, seq, hold, routerVars,
                   listening, pump, bound, seenTerm, log, session, saveFails>>

\* route_json_rpc_response: the call is completed and the pump is started;
\* a response nobody waits for is ignored.
ReadAnswer ==
    /\ out # <<>>
    /\ Head(out).type = "response"
    /\ out' = Tail(out)
    /\ pump' = IF pump = "calling" THEN "on" ELSE pump
    /\ UNCHANGED <<alive, act, waitFor, sent, outcome, poolVars, seq, hold, routerVars,
                   listening, answered, bound, seenTerm, log, session, saveFails>>

\* Mutant of CallFails: the channel is left as it is.
CallFailsMutant ==
    /\ pump = "calling"
    /\ pump' = "failed"
    /\ UNCHANGED <<coreVars, routerVars, listening, answered, bound, seenTerm, log,
                   session, saveFails>>

\* The call times out, or the transport is closed under it: the sender is
\* removed from the table and the receiver dropped; the run is not cancelled.
CallFails ==
    /\ pump = "calling"
    /\ pump' = "failed"
    /\ senders' = senders \ {Root}
    /\ listening' = FALSE
    /\ chan' = <<>>
    /\ UNCHANGED <<coreVars, childToParent, parentTerminal, routed, dropped, answered,
                   bound, seenTerm, log, session, saveFails>>

\* The events that change a sub-agent's saved session: the sub_agent_session
\* events of the pump's own run (persist_subagent_session_event), and the
\* messages and finish events of the sub-agents it is bound to
\* (persist_child_session_run_event, which skips error events).
Saves(e) ==
    \/ e.type = "sub_agent_session" /\ e.run = Root
    \/ e.type \in {"message", "finish"} /\ e.run \in bound

\* The binding follows the session events whether or not the save succeeds;
\* after a finish event it goes only once the save has succeeded.
BoundAfter(e, saved) ==
    CASE e.type = "sub_agent_session" /\ e.run = Root ->
            IF e.status = "running" THEN bound \cup {e.kid} ELSE bound \ {e.kid}
      [] e.type = "finish" /\ saved -> bound \ {e.run}
      [] OTHER -> bound

\* Mutant of SessionAfter: the messages of the finish event are not saved.
SessionAfterMutant(e) ==
    CASE e.type = "sub_agent_session" ->
            [session EXCEPT ![e.kid] = IF e.status = "running" THEN "task" ELSE "closing"]
      [] e.type = "message" -> [session EXCEPT ![e.run] = "streamed"]
      [] OTHER -> session

\* What the save writes: the task alone, the messages streamed so far, those
\* of the finish event, or those of the closing session event.
SessionAfter(e) ==
    CASE e.type = "sub_agent_session" ->
            [session EXCEPT ![e.kid] = IF e.status = "running" THEN "task" ELSE "closing"]
      [] e.type = "message" -> [session EXCEPT ![e.run] = "streamed"]
      [] e.type = "finish" -> [session EXCEPT ![e.run] = "finished"]

\* The test of pump_core_events for the reply's own terminal event.
EndsReply(e) == e.run = Root /\ IsTerminal(e)

\* prepare_core_event_dispatch: when the workspace changed, a diff_ready
\* event takes the terminal event's number and the terminal event the next.
Dispatched(e, changed) ==
    IF EndsReply(e) /\ changed
    THEN <<[type |-> "diff_ready", seq |-> e.seq], [type |-> e.type, seq |-> e.seq + 1]>>
    ELSE <<[type |-> e.type, seq |-> e.seq]>>

\* One turn of the loop in pump_core_events.
Pump ==
    /\ pump = "on"
    /\ chan # <<>>
    /\ LET e == Head(chan) IN
       /\ \E saved \in BOOLEAN :
             /\ saved \/ (Saves(e) /\ saveFails < MaxSaveFails)
             /\ bound' = BoundAfter(e, saved)
             /\ session' = IF Saves(e) /\ saved THEN SessionAfter(e) ELSE session
             /\ saveFails' = IF saved THEN saveFails ELSE saveFails + 1
       /\ \E changed \in BOOLEAN :
             log' = [log EXCEPT ![e.run] = @ \o Dispatched(e, changed)]
       /\ seenTerm' = (seenTerm \/ EndsReply(e))
       /\ IF seenTerm' /\ bound' = {}
          THEN pump' = "done" /\ listening' = FALSE /\ chan' = <<>>
          ELSE chan' = Tail(chan) /\ UNCHANGED <<pump, listening>>
    /\ UNCHANGED <<coreVars, senders, childToParent, parentTerminal, routed, dropped,
                   answered>>

\* recv returns None: every sender is gone and the channel is drained.
PumpClosed ==
    /\ pump = "on"
    /\ chan = <<>>
    /\ Root \notin senders
    /\ pump' = "done"
    /\ listening' = FALSE
    /\ UNCHANGED <<coreVars, routerVars, answered, bound, seenTerm, log, session,
                   saveFails>>

RunStep(r) == CoreStep(r) /\ UNCHANGED <<routerVars, listening, pumpVars>>
RunChoice(r) == CoreChoice(r) /\ UNCHANGED <<routerVars, listening, pumpVars>>
ReaderStep == ReadAnswer \/ ((Route \/ CloseTransport) /\ UNCHANGED pumpVars)
PumpStep == Pump \/ PumpClosed
CoreCrash == Crash /\ UNCHANGED <<routerVars, listening, pumpVars>>

\* Nothing is left to do.
Quiet ==
    /\ pump \in {"done", "failed"} \/ (pump = "idle" /\ ~alive)
    /\ out = <<>>
    /\ ~alive \/ \A r \in RunIds : /\ hold[r] = None
                                  /\ act[r] \in {"none", "over", "closed", "lost"}
    /\ UNCHANGED vars

Next ==
    \/ Register
    \/ Accept
    \/ WriteAnswer
    \/ CallFails
    \/ \E r \in RunIds : RunStep(r) \/ RunChoice(r)
    \/ ReaderStep
    \/ PumpStep
    \/ CoreCrash
    \/ Quiet

Spec == Init /\ [][Next]_vars

\* Threads, the reader and the pump keep going; a call has a timeout; a run
\* ends in the end (EveryRunEnds of AgentRun).
FairSpec ==
    /\ Spec
    /\ WF_vars(Accept \/ WriteAnswer)
    /\ WF_vars(CallFails)
    /\ \A r \in RunIds : WF_vars(RunStep(r))
    /\ WF_vars(ReaderStep)
    /\ WF_vars(PumpStep)

-----------------------------------------------------------------------------
(* Properties                                                              *)

DirectKids == {k \in Kids : Parent[k] = Root}
Ended == {"over", "marked", "closed"}
WasRouted(run, kinds) == \E e \in routed : e.run = run /\ e.type \in kinds

Events == [run : RunIds, type : {"message", "finish", "error"}, seq : Nat,
           kid : {None}, status : {"none"}]
          \cup [run : {Root}, type : {"response"}, seq : {0}, kid : {None}, status : {"none"}]
          \cup {e \in [run : RunIds, type : {"sub_agent_session"}, seq : Nat, kid : Kids,
                       status : {"running", "completed", "failed"}] : e.run = Parent[e.kid]}

ASSUME NoneIsNoEvent == None \notin Events

Logged == [type : {"message", "finish", "error", "sub_agent_session", "response", "diff_ready"},
           seq : Nat]

CoreTypeOK ==
    /\ alive \in BOOLEAN
    /\ act \in [RunIds -> {"none", "created", "live", "over", "marked", "closed", "lost"}]
    /\ waitFor \in [RunIds -> Kids \cup {None}]
    /\ sent \in [RunIds -> 0..MaxMessages]
    /\ outcome \in [RunIds -> {"none", "completed", "cancelled", "error"}]
    /\ status \in [Kids -> {"none", "Queued", "Running"} \cup Terminal]
    /\ cancelled \in [Kids -> BOOLEAN]
    /\ cancels \in 0..MaxCancels
    /\ seq \in [RunIds -> Nat]
    /\ hold \in [RunIds -> Events \cup {None}]
    /\ out \in Seq(Events)

RouterTypeOK ==
    /\ senders \subseteq {Root}
    /\ childToParent \in [RunIds -> RunIds \cup {None}]
    /\ \A r \in RunIds : childToParent[r] # None => r \in Kids /\ childToParent[r] = Parent[r]
    /\ parentTerminal \subseteq RunIds
    /\ chan \in Seq(Events) /\ Len(chan) <= ChannelCap
    /\ routed \subseteq Events
    /\ dropped \subseteq Events

PumpTypeOK ==
    /\ listening \in BOOLEAN
    /\ pump \in {"idle", "calling", "on", "done", "failed"}
    /\ answered \in BOOLEAN
    /\ bound \subseteq Kids
    /\ seenTerm \in BOOLEAN
    /\ log \in [RunIds -> Seq(Logged)]
    /\ session \in [Kids -> {"absent", "task", "streamed", "finished", "closing"}]
    /\ saveFails \in 0..MaxSaveFails

\* Every variable has its type.
TypeOK == CoreTypeOK /\ RouterTypeOK /\ PumpTypeOK

\* Unless the call failed, the router finds a channel for every event of the
\* root run and of its own sub-agents, whichever of them ends first; the one
\* thing it may drop is a closing sub_agent_session that comes after its
\* sub-agent's terminal event (route_agent_event, remove_event_sender).
RouterKeepsEvents ==
    pump # "failed" => \A e \in dropped : e.run \in {Root} \cup DirectKids =>
        /\ e.type = "sub_agent_session"
        /\ e.status # "running"
        /\ WasRouted(e.kid, {"finish", "error"})

\* When a reply is over and every save went well, the session of each
\* sub-agent that completed holds its final messages, from the finish event
\* or the closing one.
CompletedChildSaved ==
    (alive /\ pump = "done" /\ saveFails = 0) =>
        \A k \in DirectKids : outcome[k] = "completed" /\ WasRouted(k, {"finish"})
            => session[k] \in {"finished", "closing"}

\* The log of a sub-agent without sub-agents of its own is gap-free and in
\* order: its events are numbered and written by one thread, and nothing on
\* the way reorders, duplicates or loses one.
ChildLogInOrder ==
    \A k \in DirectKids : (\A j \in Kids : Parent[j] # k) =>
        \A i \in DOMAIN log[k] : log[k][i].seq = i

\* A reply does not hang: once the root and its sub-agents have ended, or
\* the core has died, the pump stops and the session can be saved.
PumpEnds ==
    /\ (act[Root] = "over" /\ \A k \in DirectKids : act[k] \in Ended \cup {"none"})
            ~> pump \in {"done", "failed"}
    /\ ~alive ~> pump # "on"

\* No reply holds up the one stdout that all runs of a core share: whatever
\* the core has written is read in the end, also when a reply's channel is
\* full or nobody reads it any more (blocking_send in route_agent_event).
PipeDrains == out # <<>> ~> out = <<>>
=============================================================================

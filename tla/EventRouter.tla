----------------------------- MODULE EventRouter -----------------------------
(***************************************************************************)
(* The server's end of agent-core's stdout (core_client.rs): the reader    *)
(* thread takes one line at a time and hands each agent.event to the       *)
(* channel of the reply that is listening for it.  Sub-agent runs have no  *)
(* channel of their own; a routing table kept from the sub_agent_session   *)
(* events sends their events to the parent's channel, and keeps that       *)
(* channel open after the parent's terminal event while sub-agents known   *)
(* to the table are still running.                                         *)
(***************************************************************************)
EXTENDS SubAgents

CONSTANT ChannelCap   \* capacity of a reply's channel (64 in reply)

ASSUME ChannelAssumption == ChannelCap \in Nat \ {0}

VARIABLES
    senders,        \* EventRoutes.senders: runs with a channel
    childToParent,  \* EventRoutes.child_to_parent, None where there is none
    parentTerminal, \* EventRoutes.parent_terminal
    chan,           \* events in the root reply's channel
    listening,      \* the receiving end of that channel still exists
    routed,         \* history: events the table was updated with
    dropped         \* history: events no channel was found for

routerVars == <<senders, childToParent, parentTerminal, chan, routed, dropped>>

RouterInit ==
    /\ senders = {}
    /\ childToParent = [r \in RunIds |-> None]
    /\ parentTerminal = {}
    /\ chan = <<>>
    /\ listening = TRUE
    /\ routed = {}
    /\ dropped = {}

IsTerminal(e) == e.type \in {"finish", "error"}

\* The run id before the first ":subagent:": the root, for a sub-agent.
PrefixRun(r) == IF r \in Kids THEN Root ELSE None

\* update_subagent_routes: parent_children is the inverse of this table.
RoutesAfterSession(e) ==
    CASE e.type # "sub_agent_session" -> childToParent
      [] e.type = "sub_agent_session" /\ e.status = "running" ->
            [childToParent EXCEPT ![e.kid] = e.run]
      [] OTHER -> [childToParent EXCEPT ![e.kid] = None]

\* Mutant of Children: the sub-agents of a run are not counted.
ChildrenMutant(table, r) == {}

Children(table, r) == {k \in RunIds : table[k] = r}

\* route_agent_event: update the table, find the channel of the run or else
\* of its parent, mark a terminal event, send, and remove the channel when
\* nothing more is expected for it.  blocking_send waits for room.
Route ==
    /\ out # <<>>
    /\ Head(out).type # "response"
    /\ LET e == Head(out)
           table == RoutesAfterSession(e)
           parent == IF table[e.run] # None THEN table[e.run] ELSE PrefixRun(e.run)
           exact == e.run \in senders
           target == CASE exact -> e.run
                       [] ~exact /\ parent \in senders -> parent
                       [] OTHER -> None
           \* mark_terminal_route
           table2 == IF IsTerminal(e) /\ parent # None
                     THEN [table EXCEPT ![e.run] = None] ELSE table
           terminal2 == IF IsTerminal(e) /\ parent = None
                        THEN parentTerminal \cup {e.run} ELSE parentTerminal
           remove == /\ target # None
                     /\ \/ ~listening
                        \/ /\ exact
                           /\ IsTerminal(e)
                           /\ Children(table2, target) = {}
                        \/ /\ ~exact
                           /\ target \in terminal2
                           /\ Children(table2, target) = {}
       IN  /\ target # None /\ listening => Len(chan) < ChannelCap
           /\ out' = Tail(out)
           /\ routed' = routed \cup {e}
           /\ chan' = IF target # None /\ listening THEN Append(chan, e) ELSE chan
           /\ dropped' = IF target = None THEN dropped \cup {e} ELSE dropped
           \* remove_event_sender
           /\ senders' = IF remove THEN senders \ {target} ELSE senders
           /\ childToParent' =
                IF remove THEN [k \in RunIds |-> IF table2[k] = target THEN None
                                                                     ELSE table2[k]]
                          ELSE table2
           /\ parentTerminal' = IF remove THEN terminal2 \ {target} ELSE terminal2
    /\ UNCHANGED <<alive, act, waitFor, sent, outcome, poolVars, seq, hold, listening>>

\* Mutant of CloseTransport: the channels are left registered.
CloseTransportMutant ==
    /\ ~alive
    /\ out = <<>>
    /\ senders # {}
    /\ childToParent' = [r \in RunIds |-> None]
    /\ parentTerminal' = {}
    /\ UNCHANGED <<coreVars, senders, chan, listening, routed, dropped>>

\* The reader sees the end of stdout: close_current_core_transport.
CloseTransport ==
    /\ ~alive
    /\ out = <<>>
    /\ senders # {}
    /\ senders' = {}
    /\ childToParent' = [r \in RunIds |-> None]
    /\ parentTerminal' = {}
    /\ UNCHANGED <<coreVars, chan, listening, routed, dropped>>

=============================================================================

---------------------------- MODULE ProcessRunner ----------------------------
(***************************************************************************)
(* The per-run process runner (agent_runner.rs): every reply gets an       *)
(* agent-core of its own, at most max_processes of them, and a task that   *)
(* forwards the run's events until the run and the sub-agents it announced *)
(* are over.  A process lives as long as some Arc of its client does: the  *)
(* start_reply that made it, the active_runs entry, and the cancel and     *)
(* resolve_permission calls that looked it up there.                       *)
(*                                                                         *)
(* Each run may have one sub-agent; its events, and the run's own, are     *)
(* those the forwarding task tells apart.                                  *)
(***************************************************************************)
EXTENDS Naturals, Sequences, FiniteSets

CONSTANTS
    Runs,         \* replies asked for
    RunCalls,     \* cancel and resolve_permission requests
    MaxProcesses, \* NIGHT24_AGENT_MAX_PROCESSES
    EventCap,     \* capacity of an event channel (64)
    NoRun

ASSUME RunnerAssumption ==
    /\ IsFiniteSet(Runs) /\ IsFiniteSet(RunCalls)
    /\ MaxProcesses \in Nat /\ EventCap \in Nat \ {0}
    /\ NoRun \notin Runs

VARIABLES
    phase,      \* where start_reply or the forwarding task of a run is
    permits,    \* PerRunProcessRunner.permits
    activeRuns, \* PerRunProcessRunner.active_runs
    core,       \* the run's process
    finished,   \* its core has sent the run's terminal event
    subAgent,   \* its sub-agent, as the core knows it
    coreEvents, \* the channel from the client's reader
    events,     \* the channel to the pump
    pumping,    \* the pump holds the receiving end of events
    activeKid,  \* active_child_runs is not empty
    parentSeen, \* parent_terminal_seen
    held        \* the run whose client a call holds

runnerVars == <<phase, permits, activeRuns, core, finished, subAgent, coreEvents, events,
                pumping, activeKid, parentSeen, held>>

Phases == {"new", "refused", "spawning", "calling", "forwarding", "removing", "over", "failed"}
Kinds == {"session", "kidFinish", "sessionEnd", "finish"}

RunnerInit ==
    /\ phase = [r \in Runs |-> "new"]
    /\ permits = MaxProcesses
    /\ activeRuns = {}
    /\ core = [r \in Runs |-> "none"]
    /\ finished = [r \in Runs |-> FALSE]
    /\ subAgent = [r \in Runs |-> "none"]
    /\ coreEvents = [r \in Runs |-> <<>>]
    /\ events = [r \in Runs |-> <<>>]
    /\ pumping = [r \in Runs |-> FALSE]
    /\ activeKid = [r \in Runs |-> FALSE]
    /\ parentSeen = [r \in Runs |-> FALSE]
    /\ held = [c \in RunCalls |-> NoRun]

To(r, p) == phase' = [phase EXCEPT ![r] = p]

\* The last Arc of a client is dropped: its Drop kills the process.
KillUnless(r, used) == core' = IF used \/ core[r] = "none" THEN core
                               ELSE [core EXCEPT ![r] = "down"]

-----------------------------------------------------------------------------
(* start_reply                                                             *)

\* The limit, and try_acquire_owned.
TryAcquire(r) ==
    /\ phase[r] = "new"
    /\ IF permits = 0
       THEN To(r, "refused") /\ UNCHANGED permits
       ELSE To(r, "spawning") /\ permits' = permits - 1
    /\ UNCHANGED <<activeRuns, core, finished, subAgent, coreEvents, events, pumping,
                   activeKid, parentSeen, held>>

\* AgentCoreClient::spawn
SpawnCore(r) ==
    /\ phase[r] = "spawning"
    /\ core' = [core EXCEPT ![r] = "up"]
    /\ To(r, "calling")
    /\ UNCHANGED <<permits, activeRuns, finished, subAgent, coreEvents, events, pumping,
                   activeKid, parentSeen, held>>

\* Spawning or agent.reply failed, or the request was given up: what
\* start_reply holds is dropped, the client before the permit.
FailStart(r) ==
    /\ phase[r] \in {"spawning", "calling"}
    /\ KillUnless(r, FALSE)
    /\ permits' = permits + 1
    /\ To(r, "failed")
    /\ UNCHANGED <<activeRuns, finished, subAgent, coreEvents, events, pumping, activeKid,
                   parentSeen, held>>

\* agent.reply is accepted: the run is entered and its forwarding started.
Accept(r) ==
    /\ phase[r] = "calling"
    /\ core[r] = "up"
    /\ activeRuns' = activeRuns \cup {r}
    /\ pumping' = [pumping EXCEPT ![r] = TRUE]
    /\ To(r, "forwarding")
    /\ UNCHANGED <<permits, core, finished, subAgent, coreEvents, events, activeKid,
                   parentSeen, held>>

-----------------------------------------------------------------------------
(* forward_run_events                                                      *)

\* Mutant of KidsAfter: only a terminal event of the sub-agent's run counts.
KidsAfterMutant(r, e) ==
    CASE e = "session" -> TRUE
      [] e = "kidFinish" -> FALSE
      [] OTHER -> activeKid[r]

\* update_active_child_runs
KidsAfter(r, e) ==
    CASE e = "session" -> TRUE
      [] e \in {"sessionEnd", "kidFinish"} -> FALSE
      [] OTHER -> activeKid[r]

\* One event: the send waits for room while the pump is there, and its
\* failure is ignored.
Forward(r) ==
    /\ phase[r] = "forwarding"
    /\ coreEvents[r] # <<>>
    /\ pumping[r] => Len(events[r]) < EventCap
    /\ LET e == Head(coreEvents[r])
           seen == parentSeen[r] \/ e = "finish"
           kid == KidsAfter(r, e)
       IN  /\ coreEvents' = [coreEvents EXCEPT ![r] = Tail(@)]
           /\ activeKid' = [activeKid EXCEPT ![r] = kid]
           /\ parentSeen' = [parentSeen EXCEPT ![r] = seen]
           /\ events' = IF pumping[r] THEN [events EXCEPT ![r] = Append(@, e)] ELSE events
           /\ To(r, IF seen /\ ~kid THEN "removing" ELSE "forwarding")
    /\ UNCHANGED <<permits, activeRuns, core, finished, subAgent, pumping, held>>

\* The client's channel is closed: the process is gone.
CoreGone(r) ==
    /\ phase[r] = "forwarding"
    /\ coreEvents[r] = <<>>
    /\ core[r] = "down"
    /\ To(r, "removing")
    /\ UNCHANGED <<permits, activeRuns, core, finished, subAgent, coreEvents, events,
                   pumping, activeKid, parentSeen, held>>

\* active_runs.remove drops the entry: the permit is given back, the process
\* killed unless a call still holds the client.
RemoveRun(r) ==
    /\ phase[r] = "removing"
    /\ activeRuns' = activeRuns \ {r}
    /\ permits' = permits + 1
    /\ KillUnless(r, \E c \in RunCalls : held[c] = r)
    /\ To(r, "over")
    /\ UNCHANGED <<finished, subAgent, coreEvents, events, pumping, activeKid, parentSeen,
                   held>>

-----------------------------------------------------------------------------
(* cancel and resolve_permission, the pump, and the core                   *)

\* active_client: only a run that has been entered is found.
LookUp(c, r) ==
    /\ held[c] = NoRun
    /\ r \in activeRuns
    /\ held' = [held EXCEPT ![c] = r]
    /\ UNCHANGED <<phase, permits, activeRuns, core, finished, subAgent, coreEvents, events,
                   pumping, activeKid, parentSeen>>

\* The call returns (at the latest after its timeout).
RunCallEnds(c) ==
    /\ held[c] # NoRun
    /\ held' = [held EXCEPT ![c] = NoRun]
    /\ KillUnless(held[c], held[c] \in activeRuns \/ \E d \in RunCalls : held'[d] = held[c])
    /\ UNCHANGED <<phase, permits, activeRuns, finished, subAgent, coreEvents, events,
                   pumping, activeKid, parentSeen>>

PumpReads(r) ==
    /\ pumping[r]
    /\ events[r] # <<>>
    /\ events' = [events EXCEPT ![r] = Tail(@)]
    /\ UNCHANGED <<phase, permits, activeRuns, core, finished, subAgent, coreEvents, pumping,
                   activeKid, parentSeen, held>>

\* The pump has ended, for whatever reason of its own.
PumpLeaves(r) ==
    /\ pumping[r]
    /\ pumping' = [pumping EXCEPT ![r] = FALSE]
    /\ events' = [events EXCEPT ![r] = <<>>]
    /\ UNCHANGED <<phase, permits, activeRuns, core, finished, subAgent, coreEvents,
                   activeKid, parentSeen, held>>

\* What the core writes, as the reader puts it into the channel.
CoreSends(r, e) ==
    /\ core[r] = "up"
    /\ phase[r] \in {"calling", "forwarding"}
    /\ Len(coreEvents[r]) < EventCap
    /\ \/ e = "session" /\ ~finished[r] /\ subAgent[r] = "none"
       \/ e = "kidFinish" /\ subAgent[r] = "running"
       \/ e = "sessionEnd" /\ subAgent[r] = "ended"
       \/ e = "finish" /\ ~finished[r]
    /\ coreEvents' = [coreEvents EXCEPT ![r] = Append(@, e)]
    /\ finished' = [finished EXCEPT ![r] = @ \/ e = "finish"]
    /\ subAgent' = [subAgent EXCEPT ![r] = CASE e = "session" -> "running"
                                             [] e = "kidFinish" -> "ended"
                                             [] e = "sessionEnd" -> "closed"
                                             [] OTHER -> @]
    /\ UNCHANGED <<phase, permits, activeRuns, core, events, pumping, activeKid, parentSeen,
                   held>>

\* A worker that fails before its run starts closes the session only; a
\* sub-agent dropped by its parent's total timeout sends nothing any more.
KidWithoutRun(r) ==
    /\ core[r] = "up"
    /\ subAgent[r] = "running"
    /\ \E s \in {"ended", "lost"} : subAgent' = [subAgent EXCEPT ![r] = s]
    /\ UNCHANGED <<phase, permits, activeRuns, core, finished, coreEvents, events, pumping,
                   activeKid, parentSeen, held>>

CoreDies(r) ==
    /\ core[r] = "up"
    /\ core' = [core EXCEPT ![r] = "down"]
    /\ UNCHANGED <<phase, permits, activeRuns, finished, subAgent, coreEvents, events,
                   pumping, activeKid, parentSeen, held>>

-----------------------------------------------------------------------------
\* Tasks go on, the pump reads while it is there, and a core that is up ends
\* its runs and sub-agents; agent.reply is answered or times out.
RunnerProgress ==
    \E r \in Runs : TryAcquire(r) \/ SpawnCore(r) \/ FailStart(r) \/ Forward(r)
                    \/ CoreGone(r) \/ RemoveRun(r) \/ PumpReads(r)
                    \/ \E e \in Kinds \ {"session"} : CoreSends(r, e)

RunnerNext ==
    \/ RunnerProgress
    \/ \E c \in RunCalls : RunCallEnds(c)
    \/ \E r \in Runs : Accept(r) \/ PumpLeaves(r) \/ CoreSends(r, "session")
                       \/ KidWithoutRun(r) \/ CoreDies(r)
    \/ \E c \in RunCalls, r \in Runs : LookUp(c, r)

-----------------------------------------------------------------------------
RunnerTypeOK ==
    /\ phase \in [Runs -> Phases]
    /\ permits \in 0..MaxProcesses
    /\ activeRuns \subseteq Runs
    /\ core \in [Runs -> {"none", "up", "down"}]
    /\ finished \in [Runs -> BOOLEAN] /\ pumping \in [Runs -> BOOLEAN]
    /\ activeKid \in [Runs -> BOOLEAN] /\ parentSeen \in [Runs -> BOOLEAN]
    /\ subAgent \in [Runs -> {"none", "running", "ended", "closed", "lost"}]
    /\ \A r \in Runs : /\ Len(coreEvents[r]) <= EventCap /\ Len(events[r]) <= EventCap
                       /\ \A i \in DOMAIN coreEvents[r] : coreEvents[r][i] \in Kinds
                       /\ \A i \in DOMAIN events[r] : events[r][i] \in Kinds
    /\ held \in [RunCalls -> Runs \cup {NoRun}]

\* A run's permit comes back and its process goes away once the run is over,
\* whether or not its pump keeps reading; only a sub-agent that was
\* announced and then silently dropped holds them.
PermitComesBack ==
    <>[](\A r \in Runs : r \in activeRuns \/ core[r] = "up" => subAgent[r] = "lost")
=============================================================================

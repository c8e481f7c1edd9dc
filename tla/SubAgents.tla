------------------------------ MODULE SubAgents ------------------------------
(***************************************************************************)
(* Sub-agents inside agent-core: the pool that keeps one record per        *)
(* sub-agent, the workers that run them, and the events both write to the  *)
(* process's stdout.  A run may spawn sub-agents of its own, so runs form  *)
(* a tree under the run the server asked for.  A synchronous sub-agent is  *)
(* awaited inside its parent's task; an asynchronous one has a thread and  *)
(* may outlive its parent.                                                 *)
(*                                                                         *)
(* Sending an event takes two steps, as in RunContext::send: a sequence    *)
(* number of the run's context is taken, then the line is written.  A      *)
(* worker writes into its own run's context and, for the sub_agent_session *)
(* events, into its parent's, which the parent's thread uses too.          *)
(***************************************************************************)
EXTENDS Naturals, Sequences

CONSTANTS
    Root,       \* the run the server asked for
    Kids,       \* sub-agent run ids
    Parent,     \* the run each sub-agent would be spawned by
    Async,      \* the sub-agents spawned in async mode
    None,       \* "no event", "no sub-agent"
    MaxMessages,\* message events a run may send (a bound)
    MaxCancels  \* developer__subagent_cancel calls (a bound)

RunIds == {Root} \cup Kids

ASSUME TreeAssumption == /\ Root \notin Kids
                         /\ None \notin RunIds
                         /\ Parent \in [Kids -> RunIds]
                         /\ Async \subseteq Kids
                         /\ MaxMessages \in Nat
                         /\ MaxCancels \in Nat

VARIABLES
    alive,      \* the agent-core process is running
    act,        \* where the task or worker of each run is
    waitFor,    \* the synchronous sub-agent a run's task is inside of
    sent,       \* message events a run has sent
    outcome,    \* how a run ended
    status,     \* SubAgentStatus of each record
    cancelled,  \* the cancelled flag of each record
    cancels,    \* cancel calls made
    seq,        \* next sequence number of each run's context
    hold,       \* the event a thread has numbered but not yet written
    out         \* lines written to stdout and not yet read by the server

poolVars == <<status, cancelled, cancels>>
coreVars == <<alive, act, waitFor, sent, outcome, poolVars, seq, hold, out>>

Terminal == {"Completed", "Failed", "Cancelled"}

Event(run, kind, n) == [run |-> run, type |-> kind, seq |-> n, kid |-> None,
                        status |-> "none"]
SessionEvent(run, n, k, st) == [run |-> run, type |-> "sub_agent_session",
                                seq |-> n, kid |-> k, status |-> st]

CoreInit ==
    /\ alive = TRUE
    /\ act = [r \in RunIds |-> "none"]
    /\ waitFor = [r \in RunIds |-> None]
    /\ sent = [r \in RunIds |-> 0]
    /\ outcome = [r \in RunIds |-> "none"]
    /\ status = [k \in Kids |-> "none"]
    /\ cancelled = [k \in Kids |-> FALSE]
    /\ cancels = 0
    /\ seq = [r \in RunIds |-> 1]
    /\ hold = [r \in RunIds |-> None]
    /\ out = <<>>

\* The thread of run r can take a step of its own.
Unblocked(r) == alive /\ hold[r] = None /\ waitFor[r] = None

\* Mutant of Number: the number is read and not advanced.
NumberMutant(t, r, event) ==
    /\ hold' = [hold EXCEPT ![t] = event]
    /\ UNCHANGED seq

\* Thread t numbers an event in the context of run r.
Number(t, r, event) ==
    /\ hold' = [hold EXCEPT ![t] = event]
    /\ seq' = [seq EXCEPT ![r] = @ + 1]

\* The numbered event is written.
Write(t) ==
    /\ alive
    /\ hold[t] # None
    /\ out' = Append(out, hold[t])
    /\ hold' = [hold EXCEPT ![t] = None]
    /\ UNCHANGED <<alive, act, waitFor, sent, outcome, poolVars, seq>>

\* agent.reply reaches the core.
StartRoot ==
    /\ alive
    /\ act[Root] = "none"
    /\ act' = [act EXCEPT ![Root] = "live"]
    /\ UNCHANGED <<alive, waitFor, sent, outcome, poolVars, seq, hold, out>>

SendMessage(r) ==
    /\ Unblocked(r)
    /\ act[r] = "live"
    /\ sent[r] < MaxMessages
    /\ sent' = [sent EXCEPT ![r] = @ + 1]
    /\ Number(r, r, Event(r, "message", seq[r]))
    /\ UNCHANGED <<alive, act, waitFor, outcome, poolVars, out>>

\* spawn_subagent: a Queued record, then the "running" session event in the
\* parent's context.  In sync mode the parent's task goes on inside the
\* sub-agent.
Spawn(k) ==
    LET p == Parent[k] IN
    /\ Unblocked(p)
    /\ act[p] = "live"
    /\ act[k] = "none"
    /\ act' = [act EXCEPT ![k] = "created"]
    /\ status' = [status EXCEPT ![k] = "Queued"]
    /\ waitFor' = [waitFor EXCEPT ![p] = IF k \in Async THEN None ELSE k]
    /\ Number(p, p, SessionEvent(p, seq[p], k, "running"))
    /\ UNCHANGED <<alive, sent, outcome, cancelled, cancels, out>>

\* run_subagent_once begins: mark_running sets the status whatever it was.
MarkRunning(k) ==
    /\ alive
    /\ act[k] = "created"
    /\ hold[Parent[k]] = None
    /\ act' = [act EXCEPT ![k] = "live"]
    /\ status' = [status EXCEPT ![k] = "Running"]
    /\ UNCHANGED <<alive, waitFor, sent, outcome, cancelled, cancels, seq, hold,
                   out>>

\* The thread of an async sub-agent, or its tokio runtime, cannot be made:
\* the spawn fails in the parent and the record stays as it is, or the
\* worker records the failure and returns; neither sends a further event.
WorkerFails(k) ==
    /\ alive
    /\ act[k] = "created"
    /\ k \in Async
    /\ hold[Parent[k]] = None
    /\ act' = [act EXCEPT ![k] = "lost"]
    /\ \/ UNCHANGED status
       \/ status' = [status EXCEPT ![k] = IF cancelled[k] THEN "Cancelled" ELSE "Failed"]
    /\ UNCHANGED <<alive, waitFor, sent, outcome, cancelled, cancels, seq, hold,
                   out>>

\* developer__subagent_cancel of one sub-agent or of all: every record named
\* gets its flag set, and the Cancelled status unless it is over.
CancelSubagents(r, targets) ==
    /\ Unblocked(r)
    /\ act[r] = "live"
    /\ targets # {}
    /\ cancels < MaxCancels
    /\ cancels' = cancels + 1
    /\ cancelled' = [k \in Kids |-> cancelled[k] \/ k \in targets]
    /\ status' = [k \in Kids |-> IF k \in targets /\ status[k] \notin Terminal
                                 THEN "Cancelled" ELSE status[k]]
    /\ UNCHANGED <<alive, act, waitFor, sent, outcome, seq, hold, out>>

Records == {k \in Kids : status[k] # "none"}

\* reply_events returns: the terminal event is numbered, then forwarded.
EndRun(r, how) ==
    /\ Unblocked(r)
    /\ act[r] = "live"
    /\ act' = [act EXCEPT ![r] = "over"]
    /\ outcome' = [outcome EXCEPT ![r] = how]
    /\ Number(r, r, Event(r, IF how = "error" THEN "error" ELSE "finish", seq[r]))
    /\ UNCHANGED <<alive, waitFor, sent, poolVars, out>>

\* The sub-agents whose code runs inside the task of run r: the one it is
\* inside of, and so on down.
InsideOf(r) ==
    {k \in Kids : \A S \in SUBSET Kids :
        (/\ waitFor[r] \in S \cup {None}
         /\ \A j \in S : waitFor[j] \in S \cup {None}) => k \in S}

\* total_timeout_ms passes while run r is inside a synchronous sub-agent:
\* that sub-agent's future is dropped with the loop, without another step.
TimeoutInSubagent(r) ==
    /\ alive
    /\ act[r] = "live"
    /\ waitFor[r] # None
    /\ \A k \in InsideOf(r) \cup {r} : hold[k] = None
    /\ act' = [k \in RunIds |-> CASE k = r -> "over"
                                  [] k \in InsideOf(r) -> "lost"
                                  [] OTHER -> act[k]]
    /\ waitFor' = [k \in RunIds |-> IF k \in InsideOf(r) \cup {r} THEN None
                                                                  ELSE waitFor[k]]
    /\ outcome' = [outcome EXCEPT ![r] = "error"]
    /\ Number(r, r, Event(r, "error", seq[r]))
    /\ UNCHANGED <<alive, sent, poolVars, out>>

\* mark_completed or mark_failed.
MarkEnded(k) ==
    /\ Unblocked(k)
    /\ act[k] = "over"
    /\ act' = [act EXCEPT ![k] = "marked"]
    /\ status' = [status EXCEPT ![k] =
            CASE cancelled[k] -> "Cancelled"
              [] ~cancelled[k] /\ outcome[k] = "completed" -> "Completed"
              [] OTHER -> "Failed"]
    /\ UNCHANGED <<alive, waitFor, sent, outcome, cancelled, cancels, seq, hold,
                   out>>

\* The closing session event, in the parent's context.
SendClosing(k) ==
    LET p == Parent[k] IN
    /\ Unblocked(k)
    /\ act[k] = "marked"
    /\ act' = [act EXCEPT ![k] = "closed"]
    /\ Number(k, p, SessionEvent(p, seq[p], k,
            IF outcome[k] = "completed" THEN "completed" ELSE "failed"))
    /\ UNCHANGED <<alive, waitFor, sent, outcome, poolVars, out>>

\* A synchronous spawn returns to the parent's loop.
ReturnFromSubagent(r) ==
    /\ alive
    /\ waitFor[r] # None
    /\ act[waitFor[r]] = "closed"
    /\ hold[waitFor[r]] = None
    /\ waitFor' = [waitFor EXCEPT ![r] = None]
    /\ UNCHANGED <<alive, act, sent, outcome, poolVars, seq, hold, out>>

\* The process dies; what it has written stays in the pipe.
Crash ==
    /\ alive
    /\ alive' = FALSE
    /\ UNCHANGED <<act, waitFor, sent, outcome, poolVars, seq, hold, out>>

\* The steps a run's thread takes without outside help.
CoreStep(r) ==
    \/ Write(r)
    \/ SendMessage(r)
    \/ \E how \in {"completed", "cancelled", "error"} : EndRun(r, how)
    \/ r \in Kids /\ (MarkRunning(r) \/ MarkEnded(r) \/ SendClosing(r))
    \/ ReturnFromSubagent(r)

CoreChoice(r) ==
    \/ TimeoutInSubagent(r)
    \/ r \in Kids /\ (Spawn(r) \/ WorkerFails(r))
    \/ CancelSubagents(r, Records)
    \/ \E k \in Records : CancelSubagents(r, {k})

=============================================================================

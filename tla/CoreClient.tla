----------------------------- MODULE CoreClient -----------------------------
(***************************************************************************)
(* The server's client of agent-core (core_client.rs): JSON-RPC calls over *)
(* the child's stdin, one reader thread per child for its stdout, and      *)
(* restart, which replaces the child under the same client.  Nothing       *)
(* orders a restart against calls, readers or another restart: each step   *)
(* below takes at most one of the client's locks.                          *)
(*                                                                         *)
(* A child is named by the generation its reader was started with.  Each   *)
(* caller makes one call; a restarter's call is core.initialize.  Events   *)
(* other than a run's terminal one are left to EventRouter.  One client    *)
(* object is modelled: the one that takes its place after a failed restart *)
(* shares nothing with it.                                                 *)
(***************************************************************************)
EXTENDS Naturals, Sequences, FiniteSets

CONSTANTS
    Replies,     \* agent.reply calls, which register a channel first
    Requests,    \* the other calls
    MaxRestarts, \* bound on requests for /agent/core/restart
    MaxCallers,  \* bound on the callers that start, out of the three sets
    MaxFaults    \* bound on crashes, bad lines and failing spawns

\* A restart is named by the generation_id it takes, which is also the name
\* of the child it spawns.
Restarters == 2..(1 + MaxRestarts)
Gens == 1..(1 + MaxRestarts)
Callers == Replies \cup Requests \cup Restarters

ASSUME ClientAssumption ==
    /\ MaxRestarts \in Nat /\ MaxCallers \in Nat /\ MaxFaults \in Nat
    /\ Replies \cap Requests = {}
    /\ (Replies \cup Requests) \cap Restarters = {}

NoGen == 0

VARIABLES
    generation, \* AgentCoreClient.generation
    status,     \* AgentCoreClient.status: available
    pending,    \* AgentCoreClient.pending
    senders,    \* AgentCoreClient.event_senders
    stdin,      \* the child whose stdin is held
    child,      \* the child whose handle is held
    slot,       \* AppState.core_client holds the client
    proc,       \* state of each child
    inbox,      \* requests a child has not answered
    runs,       \* runs going on in a child
    stdout,     \* lines in a child's stdout
    reader,     \* where the reader thread of each child is
    pc,         \* where each caller is
    answer,     \* what the caller's oneshot channel holds
    wrote,      \* history: the child a request was written to, if it was the
                \* current generation's
    faults

clientVars == <<generation, status, pending, senders, stdin, child, slot>>
coreVars == <<proc, inbox, runs, stdout, faults>>
callVars == <<pc, answer, wrote>>
vars == <<clientVars, coreVars, callVars, reader>>

ProcStates == {"none", "running", "exited"}
ReaderStates == {"none", "reading", "closing", "clearing", "over"}
CallStates == {"idle", "registered", "inserted", "waiting", "failed", "ok", "err"}
RestartStates == {"bumped", "rejectedAll", "clearedAll", "killed", "spawned",
                  "stdinSet", "ready", "available", "keep", "give up"}
Lines == [type : {"response", "finish"}, call : Callers] \cup [type : {"garbage"}]

Over(c) == pc[c] \in {"ok", "err"}

\* spawn: the first child is up and initialized.
Init ==
    /\ generation = 1
    /\ status = TRUE
    /\ pending = {}
    /\ senders = {}
    /\ stdin = 1
    /\ child = 1
    /\ slot = TRUE
    /\ proc = [g \in Gens |-> IF g = 1 THEN "running" ELSE "none"]
    /\ inbox = [g \in Gens |-> {}]
    /\ runs = [g \in Gens |-> {}]
    /\ stdout = [g \in Gens |-> <<>>]
    /\ reader = [g \in Gens |-> IF g = 1 THEN "reading" ELSE "none"]
    /\ pc = [c \in Callers |-> "idle"]
    /\ answer = [c \in Callers |-> "none"]
    /\ wrote = [c \in Callers |-> NoGen]
    /\ faults = 0

\* The handler of a request gets hold of the client.
MayStart(c) == /\ pc[c] = "idle"
               /\ slot
               /\ Cardinality({d \in Callers : pc[d] # "idle"}) < MaxCallers

Goto(c, s) == pc' = [pc EXCEPT ![c] = s]

-----------------------------------------------------------------------------
(* Calls                                                                   *)

\* reply: the channel is registered before the call.
Register(c) ==
    /\ c \in Replies
    /\ MayStart(c)
    /\ senders' = senders \cup {c}
    /\ Goto(c, "registered")
    /\ UNCHANGED <<generation, status, pending, stdin, child, slot, coreVars, answer,
                   wrote, reader>>

\* call: enter the oneshot sender under the new id.
Insert(c) ==
    /\ \/ c \in Requests /\ MayStart(c)
       \/ c \in Replies /\ pc[c] = "registered"
       \/ c \in Restarters /\ pc[c] = "ready"
    /\ pending' = pending \cup {c}
    /\ Goto(c, "inserted")
    /\ UNCHANGED <<generation, status, senders, stdin, child, slot, coreVars, answer,
                   wrote, reader>>

\* What a call that returns an error leaves its caller to do.
Failing(c) == Goto(c, IF c \in Requests THEN "err" ELSE "failed")

\* Mutant of Write: a failed write leaves the entry in pending.
WriteMutant(c) ==
    /\ pc[c] = "inserted"
    /\ IF proc[stdin] = "running"
       THEN /\ inbox' = [inbox EXCEPT ![stdin] = @ \cup {c}]
            /\ wrote' = [wrote EXCEPT ![c] = IF stdin = generation THEN stdin ELSE NoGen]
            /\ Goto(c, "waiting")
            /\ UNCHANGED <<status, pending>>
       ELSE /\ status' = FALSE
            /\ Failing(c)
            /\ UNCHANGED <<inbox, wrote, pending>>
    /\ UNCHANGED <<generation, senders, stdin, child, slot, proc, runs, stdout,
                   faults, answer, reader>>

\* call: write the line to whichever child's stdin is installed now.
Write(c) ==
    /\ pc[c] = "inserted"
    /\ IF proc[stdin] = "running"
       THEN /\ inbox' = [inbox EXCEPT ![stdin] = @ \cup {c}]
            /\ wrote' = [wrote EXCEPT ![c] = IF stdin = generation THEN stdin ELSE NoGen]
            /\ Goto(c, "waiting")
            /\ UNCHANGED <<status, pending>>
       ELSE /\ pending' = pending \ {c}
            /\ status' = FALSE
            /\ Failing(c)
            /\ UNCHANGED <<inbox, wrote>>
    /\ UNCHANGED <<generation, senders, stdin, child, slot, proc, runs, stdout,
                   faults, answer, reader>>

\* call: the oneshot channel has an answer.
Receive(c) ==
    /\ pc[c] = "waiting"
    /\ answer[c] # "none"
    /\ IF answer[c] = "error" THEN Failing(c)
       ELSE Goto(c, IF c \in Restarters THEN "available" ELSE "ok")
    /\ UNCHANGED <<clientVars, coreVars, answer, wrote, reader>>

\* Mutant of Timeout: calls wait for ever.
TimeoutMutant(c) == FALSE /\ pc[c] = "waiting" /\ UNCHANGED vars

\* call: 5 seconds, 10 for agent.reply.
Timeout(c) ==
    /\ pc[c] = "waiting"
    /\ answer[c] = "none"
    /\ pending' = pending \ {c}
    /\ Failing(c)
    /\ UNCHANGED <<generation, status, senders, stdin, child, slot, coreVars, answer,
                   wrote, reader>>

\* reply: a call that failed takes its channel out again.
Unregister(c) ==
    /\ c \in Replies
    /\ pc[c] = "failed"
    /\ senders' = senders \ {c}
    /\ Goto(c, "err")
    /\ UNCHANGED <<generation, status, pending, stdin, child, slot, coreVars, answer,
                   wrote, reader>>

Call(c) == Register(c) \/ Insert(c) \/ Write(c) \/ Receive(c)
           \/ Timeout(c) \/ Unregister(c)

-----------------------------------------------------------------------------
(* The reader threads                                                      *)

\* reject_pending_requests
RejectAll ==
    /\ pending' = {}
    /\ answer' = [c \in Callers |-> IF c \in pending THEN "error" ELSE answer[c]]

\* start_stdout_reader's loop: a response goes to the call that waits for
\* it, the terminal event of a run closes the run's channel, a line that is
\* not JSON is noted if the reader's generation is the current one.
ReadLine(g) ==
    /\ reader[g] = "reading"
    /\ stdout[g] # <<>>
    /\ stdout' = [stdout EXCEPT ![g] = Tail(@)]
    /\ LET line == Head(stdout[g]) IN
       CASE line.type = "response" ->
              /\ pending' = pending \ {line.call}
              /\ answer' = IF line.call \in pending
                           THEN [answer EXCEPT ![line.call] = "result"] ELSE answer
              /\ UNCHANGED <<senders, status>>
         [] line.type = "finish" ->
              /\ senders' = senders \ {line.call}
              /\ UNCHANGED <<pending, answer, status>>
         [] OTHER ->
              /\ status' = (status /\ generation # g)
              /\ UNCHANGED <<pending, senders, answer>>
    /\ UNCHANGED <<generation, stdin, child, slot, proc, inbox, runs, faults, pc, wrote,
                   reader>>

\* End of stdout: close_current_core_transport compares the generations ...
ReadEof(g) ==
    /\ reader[g] = "reading"
    /\ proc[g] = "exited"
    /\ stdout[g] = <<>>
    /\ reader' = [reader EXCEPT ![g] = IF generation = g THEN "closing" ELSE "over"]
    /\ UNCHANGED <<clientVars, coreVars, callVars>>

\* ... and then closes it, lock by lock.
CloseReject(g) ==
    /\ reader[g] = "closing"
    /\ status' = FALSE
    /\ RejectAll
    /\ reader' = [reader EXCEPT ![g] = "clearing"]
    /\ UNCHANGED <<generation, senders, stdin, child, slot, coreVars, pc, wrote>>

CloseClear(g) ==
    /\ reader[g] = "clearing"
    /\ senders' = {}
    /\ reader' = [reader EXCEPT ![g] = "over"]
    /\ UNCHANGED <<generation, status, pending, stdin, child, slot, coreVars, callVars>>

Reader(g) == ReadLine(g) \/ ReadEof(g) \/ CloseReject(g) \/ CloseClear(g)

-----------------------------------------------------------------------------
(* restart, and restart_agent_core around it                               *)

\* generation.fetch_add; like every store to the status, which only readyz
\* reads, this one is made in the step before it.
Bump(r) ==
    /\ MayStart(r)
    /\ generation + 1 = r
    /\ generation' = r
    /\ status' = FALSE
    /\ Goto(r, "bumped")
    /\ UNCHANGED <<pending, senders, stdin, child, slot, coreVars, answer, wrote, reader>>

RestartRejects(r) ==
    /\ pc[r] = "bumped"
    /\ RejectAll
    /\ Goto(r, "rejectedAll")
    /\ UNCHANGED <<generation, status, senders, stdin, child, slot, coreVars, wrote, reader>>

\* Mutant of RestartClears: the channels of the old child's runs stay.
RestartClearsMutant(r) ==
    /\ pc[r] = "rejectedAll"
    /\ Goto(r, "clearedAll")
    /\ UNCHANGED <<clientVars, coreVars, answer, wrote, reader>>

RestartClears(r) ==
    /\ pc[r] = "rejectedAll"
    /\ senders' = {}
    /\ Goto(r, "clearedAll")
    /\ UNCHANGED <<generation, status, pending, stdin, child, slot, coreVars, answer,
                   wrote, reader>>

\* A child that is gone takes its runs and unread requests along.
Exit(g) ==
    /\ proc' = [proc EXCEPT ![g] = "exited"]
    /\ inbox' = [inbox EXCEPT ![g] = {}]
    /\ runs' = [runs EXCEPT ![g] = {}]

KillChild(r) ==
    /\ pc[r] = "clearedAll"
    /\ Exit(child)
    /\ Goto(r, "killed")
    /\ UNCHANGED <<clientVars, stdout, faults, answer, wrote, reader>>

SpawnChild(r) ==
    /\ pc[r] = "killed"
    /\ \/ /\ proc' = [proc EXCEPT ![r] = "running"]
          /\ Goto(r, "spawned")
          /\ UNCHANGED faults
       \/ /\ faults < MaxFaults
          /\ faults' = faults + 1
          /\ Goto(r, "failed")
          /\ UNCHANGED proc
    /\ UNCHANGED <<clientVars, inbox, runs, stdout, answer, wrote, reader>>

SetStdin(r) ==
    /\ pc[r] = "spawned"
    /\ stdin' = r
    /\ Goto(r, "stdinSet")
    /\ UNCHANGED <<generation, status, pending, senders, child, slot, coreVars, answer,
                   wrote, reader>>

\* The handle is replaced and the new child's reader started.
SetChild(r) ==
    /\ pc[r] = "stdinSet"
    /\ child' = r
    /\ reader' = [reader EXCEPT ![r] = "reading"]
    /\ Goto(r, "ready")
    /\ UNCHANGED <<generation, status, pending, senders, stdin, slot, coreVars, answer,
                   wrote>>

\* initialize has returned (see Call), or the child could not be spawned.
StoreStatus(r) ==
    /\ pc[r] \in {"available", "failed"}
    /\ status' = (pc[r] = "available")
    /\ Goto(r, IF status' THEN "keep" ELSE "give up")
    /\ UNCHANGED <<generation, pending, senders, stdin, child, slot, coreVars, answer,
                   wrote, reader>>

\* restart_agent_core keeps the client, or takes it out of its slot.
SetSlot(r) ==
    /\ pc[r] \in {"keep", "give up"}
    /\ slot' = (pc[r] = "keep")
    /\ Goto(r, IF slot' THEN "ok" ELSE "err")
    /\ UNCHANGED <<generation, status, pending, senders, stdin, child, coreVars, answer,
                   wrote, reader>>

Restart(r) == Bump(r) \/ RestartRejects(r) \/ RestartClears(r)
              \/ KillChild(r) \/ SpawnChild(r) \/ SetStdin(r) \/ SetChild(r)
              \/ StoreStatus(r) \/ SetSlot(r)

\* status: a child found dead is put into the status.
CheckStatus ==
    /\ slot
    /\ proc[child] = "exited"
    /\ status
    /\ status' = FALSE
    /\ UNCHANGED <<generation, pending, senders, stdin, child, slot, coreVars, callVars,
                   reader>>

\* Drop, once the client is out of its slot and nobody uses it any more.
DropClient ==
    /\ ~slot
    /\ stdin # NoGen
    /\ \A c \in Callers : pc[c] \in {"idle", "ok", "err"}
    /\ RejectAll
    /\ senders' = {}
    /\ Exit(child)
    /\ stdin' = NoGen
    /\ UNCHANGED <<generation, status, child, slot, stdout, faults, pc, wrote,
                   reader>>

-----------------------------------------------------------------------------
(* The children (agent-core), seen from outside                            *)

Answer(g, c) ==
    /\ proc[g] = "running"
    /\ c \in inbox[g]
    /\ inbox' = [inbox EXCEPT ![g] = @ \ {c}]
    /\ stdout' = [stdout EXCEPT ![g] = Append(@, [type |-> "response", call |-> c])]
    /\ runs' = IF c \in Replies THEN [runs EXCEPT ![g] = @ \cup {c}] ELSE runs
    /\ UNCHANGED <<clientVars, proc, faults, callVars, reader>>

FinishRun(g, c) ==
    /\ proc[g] = "running"
    /\ c \in runs[g]
    /\ runs' = [runs EXCEPT ![g] = @ \ {c}]
    /\ stdout' = [stdout EXCEPT ![g] = Append(@, [type |-> "finish", call |-> c])]
    /\ UNCHANGED <<clientVars, proc, inbox, faults, callVars, reader>>

\* Nobody holds the writing end of its stdin.
StdinClosed(g) == stdin # g /\ ~(g \in Restarters /\ pc[g] = "spawned")

ExitOnEof(g) ==
    /\ proc[g] = "running"
    /\ StdinClosed(g)
    /\ Exit(g)
    /\ UNCHANGED <<clientVars, stdout, faults, callVars, reader>>

Crash(g) ==
    /\ proc[g] = "running"
    /\ faults < MaxFaults
    /\ faults' = faults + 1
    /\ Exit(g)
    /\ UNCHANGED <<clientVars, stdout, callVars, reader>>

BadLine(g) ==
    /\ proc[g] = "running"
    /\ faults < MaxFaults
    /\ faults' = faults + 1
    /\ stdout' = [stdout EXCEPT ![g] = Append(@, [type |-> "garbage"])]
    /\ UNCHANGED <<clientVars, proc, inbox, runs, callVars, reader>>

Core(g) ==
    \/ \E c \in Callers : Answer(g, c) \/ FinishRun(g, c)
    \/ ExitOnEof(g)

-----------------------------------------------------------------------------
Next ==
    \/ \E c \in Callers : Call(c)
    \/ \E r \in Restarters : Restart(r)
    \/ \E g \in Gens : Reader(g) \/ Core(g) \/ Crash(g) \/ BadLine(g)
    \/ CheckStatus
    \/ DropClient

Spec == Init /\ [][Next]_vars

\* Tasks, threads and timers of the server go on, and a child ends its runs
\* and exits when its stdin is closed.  Nothing makes a child answer, crash
\* or print a bad line, or a client ask for a restart.
Progress ==
    \/ \E c \in Callers : Call(c)
    \/ \E r \in Restarters : pc[r] # "idle" /\ Restart(r)
    \/ \E g \in Gens : Reader(g) \/ ExitOnEof(g) \/ \E c \in Callers : FinishRun(g, c)
    \/ DropClient

\* No step can be repeated for ever, so the weakest fairness is enough: as
\* long as some progress is possible, some is made.
Fairness == WF_vars(Progress)

FairSpec == Spec /\ Fairness

-----------------------------------------------------------------------------
TypeOK ==
    /\ generation \in Gens
    /\ status \in BOOLEAN /\ slot \in BOOLEAN
    /\ pending \subseteq Callers /\ senders \subseteq Replies
    /\ stdin \in Gens \cup {NoGen} /\ child \in Gens
    /\ proc \in [Gens -> ProcStates]
    /\ inbox \in [Gens -> SUBSET Callers] /\ runs \in [Gens -> SUBSET Replies]
    /\ stdout \in [Gens -> Seq(Lines)]
    /\ reader \in [Gens -> ReaderStates]
    /\ pc \in [Callers -> CallStates \cup RestartStates]
    /\ answer \in [Callers -> {"none", "result", "error"}]
    /\ wrote \in [Callers -> Gens \cup {NoGen}]
    /\ faults \in 0..MaxFaults

\* A call that has returned leaves nothing behind: no entry in pending on
\* any of its paths (answer, rejection, timeout, write error), and a reply
\* that was refused no channel (call, reply).
CallLeavesNothing ==
    \A c \in Callers : /\ Over(c) => c \notin pending
                       /\ c \in Replies /\ pc[c] = "err" => c \notin senders

\* Every call and every restart returns, whatever the children do and
\* however calls, restarts and readers interleave.
CallEnds == <>[](\A c \in Callers : pc[c] = "idle" \/ Over(c))

\* The channel of an accepted reply is closed in the end (by its terminal
\* event, the end of the child, a restart or Drop), provided its request
\* went to the child of the current generation.
ReplyChannelCloses ==
    <>[](\A c \in Replies : pc[c] = "ok" /\ wrote[c] # NoGen => c \notin senders)
=============================================================================

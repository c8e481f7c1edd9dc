------------------------------ MODULE AgentRun ------------------------------
(***************************************************************************)
(* The run engine of night24-agent-core: one process that reads JSON-RPC   *)
(* requests from stdin one at a time and runs every accepted agent.reply   *)
(* as a task of its own.  The request loop and the run tasks share three   *)
(* things: the table of run handles, the cancelled flag of each run and    *)
(* the table of pending permission requests.  A step of this module        *)
(* touches shared state at most once, so every interleaving of the loop    *)
(* with the tasks that the locks allow is a behaviour of it.               *)
(*                                                                         *)
(* Message contents, hook output and tool output are abstracted away; what *)
(* is kept is which way each test of the code goes.                        *)
(***************************************************************************)
EXTENDS Naturals

CONSTANTS
    Runs,        \* run ids; the server makes a fresh one for every reply
    Perms,       \* permission ids the model may hand out (a bound)
    NoPerm,      \* "no permission request", not a member of Perms
    MaxTurns,    \* limits.max_turns, after the code's max(1)
    MaxRetries,  \* options.request_retries, after clamping
    MaxTools     \* tool requests one provider turn may carry (a bound)

ASSUME NoPermAssumption == NoPerm \notin Perms
ASSUME BoundsAssumption == /\ MaxTurns \in Nat \ {0}
                           /\ MaxRetries \in Nat
                           /\ MaxTools \in Nat

VARIABLES
    core,        \* CoreState, plus "Exited" once the process has ended
    rpc,         \* the agent.cancel the request loop is in the middle of
    runs,        \* run ids that have a RunHandle
    cancelled,   \* the AtomicBool of each run's handle and context
    pc,          \* where each run task is
    turn,        \* turns begun by the loop of run_agent_with_events
    retries,     \* retries_done of the current provider turn
    got,         \* the current attempt has streamed a message
    todo,        \* tool requests of the turn not executed yet
    sawTools,    \* has_tool_requests inside run_provider_turn
    hasTools,    \* has_tool_requests of the last turn received
    awaiting,    \* awaiting_tool_followup
    openTasks,   \* task_list.has_open_tasks() of the run's context
    tool,        \* the tool being executed: its dispatch class
    purpose,     \* what the run asks permission for: the call or its output
    ask,         \* the permission request of the current tool
    perm,        \* life of each permission id
    owner,       \* run_id of each permission handle
    answer,      \* what was sent through each handle's oneshot channel
    raw,         \* the current tool returned sensitive output unredacted
    result,      \* outcome of run_agent_with_events
    term,        \* the terminal event of each run, once it is built
    lateReqs,    \* history: provider requests opened after the cancel
    lateTools    \* history: builtin tools started after the cancel

handleVars == <<perm, owner, answer>>
turnVars == <<turn, retries, got, todo, sawTools, hasTools, awaiting, openTasks>>
toolVars == <<tool, purpose, ask, raw>>
endVars == <<result, term>>
lateVars == <<lateReqs, lateTools>>
vars == <<core, rpc, runs, cancelled, pc, turnVars, toolVars, handleVars,
          endVars, lateVars>>

NoRpc == [op |-> "none", run |-> "none"]
RpcStates == {NoRpc} \cup [op : {"store", "deny"}, run : Runs]

\* The positions inside the tokio::time::timeout of total_timeout_ms.
InLoop == {"turn", "request", "stream", "backoff", "tools", "permit", "asking",
           "waiting", "granted", "ready", "exec"}
Positions == {"idle", "started", "end", "ending", "built", "sent", "removed",
              "done"} \cup InLoop

\* Permission ids whose handle is in the table.
Pending == {p \in Perms : perm[p] \in {"inserted", "announced"}}
\* Mutant of PendingOf: the run id is not compared.
PendingOfMutant(r) == Pending
PendingOf(r) == {p \in Pending : owner[p] = r}
Fresh == {p \in Perms : perm[p] = "unused"}

Init ==
    /\ core = "Spawned"
    /\ rpc = NoRpc
    /\ runs = {}
    /\ cancelled = [r \in Runs |-> FALSE]
    /\ pc = [r \in Runs |-> "idle"]
    /\ turn = [r \in Runs |-> 0]
    /\ retries = [r \in Runs |-> 0]
    /\ got = [r \in Runs |-> FALSE]
    /\ todo = [r \in Runs |-> 0]
    /\ sawTools = [r \in Runs |-> FALSE]
    /\ hasTools = [r \in Runs |-> FALSE]
    /\ awaiting = [r \in Runs |-> FALSE]
    /\ openTasks = [r \in Runs |-> FALSE]
    /\ tool = [r \in Runs |-> "none"]
    /\ purpose = [r \in Runs |-> "call"]
    /\ ask = [r \in Runs |-> NoPerm]
    /\ raw = [r \in Runs |-> FALSE]
    /\ perm = [p \in Perms |-> "unused"]
    /\ owner = [p \in Perms |-> "none"]
    /\ answer = [p \in Perms |-> "none"]
    /\ result = [r \in Runs |-> "none"]
    /\ term = [r \in Runs |-> "none"]
    /\ lateReqs = [r \in Runs |-> 0]
    /\ lateTools = [r \in Runs |-> 0]

-----------------------------------------------------------------------------
(* Shared helpers                                                          *)

\* deny_pending_permissions_for_run: takes the run's handles out of the
\* table under the lock and sends Deny through each.
DenyPendingPermissionsForRun(r) ==
    /\ perm' = [p \in Perms |-> IF p \in PendingOf(r) THEN "taken" ELSE perm[p]]
    /\ answer' = [p \in Perms |-> IF p \in PendingOf(r) THEN "AutoDeny"
                                                        ELSE answer[p]]
    /\ UNCHANGED owner

\* Leaving run_agent_with_events with a result: its locals are dropped.
Leave(r, res) ==
    /\ result' = [result EXCEPT ![r] = res]
    /\ pc' = [pc EXCEPT ![r] = "end"]
    /\ retries' = [retries EXCEPT ![r] = 0]
    /\ todo' = [todo EXCEPT ![r] = 0]
    /\ tool' = [tool EXCEPT ![r] = "none"]
    /\ purpose' = [purpose EXCEPT ![r] = "call"]
    /\ ask' = [ask EXCEPT ![r] = NoPerm]
    /\ raw' = [raw EXCEPT ![r] = FALSE]

Goto(r, position) == pc' = [pc EXCEPT ![r] = position]

-----------------------------------------------------------------------------
(* The request loop of main.rs: one request at a time, in order            *)

Initialize ==
    /\ core = "Spawned"
    /\ core' = "Initialized"
    /\ UNCHANGED <<rpc, runs, cancelled, pc, turnVars, toolVars, handleVars,
                   endVars, lateVars>>

\* core.shutdown, or the end of stdin: the loop is left and no further
\* request is read.
StopReading ==
    /\ core \in {"Spawned", "Initialized"}
    /\ rpc = NoRpc
    /\ core' = "Draining"
    /\ UNCHANGED <<rpc, runs, cancelled, pc, turnVars, toolVars, handleVars,
                   endVars, lateVars>>

\* agent.reply: registers the handle and spawns the run's task.
AgentReply(r) ==
    /\ core = "Initialized"
    /\ rpc = NoRpc
    /\ pc[r] = "idle"
    /\ runs' = runs \cup {r}
    /\ cancelled' = [cancelled EXCEPT ![r] = FALSE]
    /\ Goto(r, "started")
    /\ UNCHANGED <<core, rpc, turnVars, toolVars, handleVars, endVars, lateVars>>

\* agent.cancel clones the handle, stores the flag, then denies the run's
\* pending permissions; the run tasks go on in between.  A run that has no
\* handle is answered RUN_NOT_FOUND and changes nothing.
AgentCancel(r) ==
    /\ core = "Initialized"
    /\ rpc = NoRpc
    /\ r \in runs
    /\ rpc' = [op |-> "store", run |-> r]
    /\ UNCHANGED <<core, runs, cancelled, pc, turnVars, toolVars, handleVars,
                   endVars, lateVars>>

CancelStore(r) ==
    /\ rpc = [op |-> "store", run |-> r]
    /\ cancelled' = [cancelled EXCEPT ![r] = TRUE]
    /\ rpc' = [op |-> "deny", run |-> r]
    /\ UNCHANGED <<core, runs, pc, turnVars, toolVars, handleVars, endVars,
                   lateVars>>

CancelDeny(r) ==
    /\ rpc = [op |-> "deny", run |-> r]
    /\ DenyPendingPermissionsForRun(r)
    /\ rpc' = NoRpc
    /\ UNCHANGED <<core, runs, cancelled, pc, turnVars, toolVars, endVars,
                   lateVars>>

\* permission.resolve through take_permission_for_run: only a request that
\* names the handle's own run takes it; anything else is an error response
\* that leaves the table alone.  The user knows an id once its
\* permission_required event has been sent.
PermissionResolve(r, p, decision) ==
    /\ core = "Initialized"
    /\ rpc = NoRpc
    /\ perm[p] = "announced"
    /\ owner[p] = r
    /\ perm' = [perm EXCEPT ![p] = "taken"]
    /\ answer' = [answer EXCEPT ![p] = decision]
    /\ UNCHANGED <<core, rpc, runs, cancelled, pc, turnVars, toolVars, owner,
                   endVars, lateVars>>

\* The writer thread ends, and with it the process, when every run task has
\* dropped its sender.
Exit ==
    /\ core = "Draining"
    /\ \A r \in Runs : pc[r] \in {"idle", "done"}
    /\ core' = "Exited"
    /\ UNCHANGED <<rpc, runs, cancelled, pc, turnVars, toolVars, handleVars,
                   endVars, lateVars>>

-----------------------------------------------------------------------------
(* A run task: reply_events and run_agent_with_events                      *)

\* The run_started hook, then the provider is created; that may fail.
RunStarted(r) ==
    /\ pc[r] = "started"
    /\ Goto(r, "turn")
    /\ UNCHANGED <<core, rpc, runs, cancelled, turnVars, toolVars, handleVars,
                   endVars, lateVars>>

ProviderMissing(r) ==
    /\ pc[r] = "started"
    /\ Leave(r, "Err")
    /\ UNCHANGED <<core, rpc, runs, cancelled, turn, got, sawTools, hasTools,
                   awaiting, openTasks, handleVars, term, lateVars>>

\* Top of the turn loop: turns used up, cancelled, or one more turn.
TurnsUsedUp(r) ==
    /\ pc[r] = "turn"
    /\ turn[r] = MaxTurns
    /\ Leave(r, "Ok")
    /\ UNCHANGED <<core, rpc, runs, cancelled, turn, got, sawTools, hasTools,
                   awaiting, openTasks, handleVars, term, lateVars>>

TurnCancelled(r) ==
    /\ pc[r] = "turn"
    /\ turn[r] < MaxTurns
    /\ cancelled[r]
    /\ Leave(r, "ErrCancelled")
    /\ UNCHANGED <<core, rpc, runs, cancelled, turn, got, sawTools, hasTools,
                   awaiting, openTasks, handleVars, term, lateVars>>

BeginTurn(r) ==
    /\ pc[r] = "turn"
    /\ turn[r] < MaxTurns
    /\ ~cancelled[r]
    /\ turn' = [turn EXCEPT ![r] = @ + 1]
    /\ retries' = [retries EXCEPT ![r] = 0]
    /\ got' = [got EXCEPT ![r] = FALSE]
    /\ todo' = [todo EXCEPT ![r] = 0]
    /\ sawTools' = [sawTools EXCEPT ![r] = FALSE]
    /\ Goto(r, "request")
    /\ UNCHANGED <<core, rpc, runs, cancelled, hasTools, awaiting, openTasks,
                   toolVars, handleVars, endVars, lateVars>>

\* run_provider_turn up to provider.stream: no test of the flag here.
OpenStream(r) ==
    /\ pc[r] = "request"
    /\ Goto(r, "stream")
    /\ lateReqs' = [lateReqs EXCEPT ![r] = IF cancelled[r] THEN @ + 1 ELSE @]
    /\ UNCHANGED <<core, rpc, runs, cancelled, turnVars, toolVars, handleVars,
                   endVars, lateTools>>

\* An item of the stream; the flag is read before the item is used.  A
\* message replaces the earlier one with its id, tool requests included, but
\* a request once seen is remembered.
StreamItem(r) ==
    /\ pc[r] = "stream"
    /\ ~cancelled[r]
    /\ got' = [got EXCEPT ![r] = TRUE]
    /\ \E n \in 0..MaxTools :
          /\ todo' = [todo EXCEPT ![r] = n]
          /\ sawTools' = [sawTools EXCEPT ![r] = @ \/ n > 0]
    /\ UNCHANGED <<core, rpc, runs, cancelled, pc, turn, retries, hasTools,
                   awaiting, openTasks, toolVars, handleVars, endVars, lateVars>>

StreamCancelled(r) ==
    /\ pc[r] = "stream"
    /\ cancelled[r]
    /\ Leave(r, "ErrCancelled")
    /\ UNCHANGED <<core, rpc, runs, cancelled, turn, got, sawTools, hasTools,
                   awaiting, openTasks, handleVars, term, lateVars>>

\* The attempt fails or turn_timeout_ms passes, and is not repeated.  Whether
\* the error text is retryable, or happens to contain "cancelled", is the
\* provider's choice.
AttemptFails(r, res) ==
    /\ pc[r] \in {"request", "stream"}
    /\ Leave(r, res)
    /\ UNCHANGED <<core, rpc, runs, cancelled, turn, got, sawTools, hasTools,
                   awaiting, openTasks, handleVars, term, lateVars>>

\* Mutants of RetryAttempt: the flag is not tested; the retry is not counted.
RetryAttemptMutant(r) ==
    /\ pc[r] \in {"request", "stream"}
    /\ retries[r] < MaxRetries
    /\ retries' = [retries EXCEPT ![r] = @ + 1]
    /\ Goto(r, "backoff")
    /\ UNCHANGED <<core, rpc, runs, cancelled, turn, got, todo, sawTools,
                   hasTools, awaiting, openTasks, toolVars, handleVars, endVars,
                   lateVars>>

RetryUncountedMutant(r) ==
    /\ pc[r] \in {"request", "stream"}
    /\ ~cancelled[r]
    /\ retries[r] < MaxRetries
    /\ Goto(r, "backoff")
    /\ UNCHANGED <<core, rpc, runs, cancelled, turnVars, toolVars, handleVars,
                   endVars, lateVars>>

\* It fails in a way worth repeating, with a retry left and no cancel.
RetryAttempt(r) ==
    /\ pc[r] \in {"request", "stream"}
    /\ ~cancelled[r]
    /\ retries[r] < MaxRetries
    /\ retries' = [retries EXCEPT ![r] = @ + 1]
    /\ Goto(r, "backoff")
    /\ UNCHANGED <<core, rpc, runs, cancelled, turn, got, todo, sawTools,
                   hasTools, awaiting, openTasks, toolVars, handleVars, endVars,
                   lateVars>>

\* sleep_before_provider_turn_retry, then the next attempt: the flag is not
\* read after the sleep.
Backoff(r) ==
    /\ pc[r] = "backoff"
    /\ got' = [got EXCEPT ![r] = FALSE]
    /\ todo' = [todo EXCEPT ![r] = 0]
    /\ sawTools' = [sawTools EXCEPT ![r] = FALSE]
    /\ Goto(r, "request")
    /\ UNCHANGED <<core, rpc, runs, cancelled, turn, retries, hasTools, awaiting,
                   openTasks, toolVars, handleVars, endVars, lateVars>>

\* The stream ends without a message: the loop ends, with an error when the
\* model was expected to go on from tool results.
EmptyTurn(r) ==
    /\ pc[r] = "stream"
    /\ ~got[r]
    /\ Leave(r, IF awaiting[r] THEN "Err" ELSE "Ok")
    /\ UNCHANGED <<core, rpc, runs, cancelled, turn, got, sawTools, hasTools,
                   awaiting, openTasks, handleVars, term, lateVars>>

\* The stream ends and the turn's tool requests are executed in order.
TurnReceived(r) ==
    /\ pc[r] = "stream"
    /\ got[r]
    /\ hasTools' = [hasTools EXCEPT ![r] = sawTools[r]]
    /\ Goto(r, "tools")
    /\ UNCHANGED <<core, rpc, runs, cancelled, turn, retries, got, todo,
                   sawTools, awaiting, openTasks, toolVars, handleVars, endVars,
                   lateVars>>

\* Mutant of GoOn: awaiting_tool_followup is not set.
GoOnMutant(r, expectFollowup) ==
    /\ pc[r] = "tools"
    /\ todo[r] = 0
    /\ hasTools[r] = expectFollowup
    /\ Goto(r, "turn")
    /\ UNCHANGED <<core, rpc, runs, cancelled, turnVars, toolVars, handleVars,
                   endVars, lateVars>>

\* All tools of the turn are done: the loop goes on after tool results, or
\* while the task list (the context's, or one written in the message) is
\* open, and ends otherwise.
GoOn(r, expectFollowup) ==
    /\ pc[r] = "tools"
    /\ todo[r] = 0
    /\ hasTools[r] = expectFollowup
    /\ awaiting' = [awaiting EXCEPT ![r] = expectFollowup]
    /\ Goto(r, "turn")
    /\ UNCHANGED <<core, rpc, runs, cancelled, turn, retries, got, todo,
                   sawTools, hasTools, openTasks, toolVars, handleVars, endVars,
                   lateVars>>

LastTurn(r) ==
    /\ pc[r] = "tools"
    /\ todo[r] = 0
    /\ ~hasTools[r]
    /\ ~openTasks[r]
    /\ Leave(r, "Ok")
    /\ UNCHANGED <<core, rpc, runs, cancelled, turn, got, sawTools, hasTools,
                   awaiting, openTasks, handleVars, term, lateVars>>

-----------------------------------------------------------------------------
(* Executing one tool request                                              *)

\* A request whose required argument is missing is answered without being
\* executed (recoverable_tool_argument_message).
SkipTool(r) ==
    /\ pc[r] = "tools"
    /\ todo[r] > 0
    /\ todo' = [todo EXCEPT ![r] = @ - 1]
    /\ UNCHANGED <<core, rpc, runs, cancelled, pc, turn, retries, got, sawTools,
                   hasTools, awaiting, openTasks, toolVars, handleVars, endVars,
                   lateVars>>

\* The task list tools need no permission and do not look at the flag.
TaskTool(r) ==
    /\ pc[r] = "tools"
    /\ todo[r] > 0
    /\ todo' = [todo EXCEPT ![r] = @ - 1]
    /\ \E open \in BOOLEAN : openTasks' = [openTasks EXCEPT ![r] = open]
    /\ UNCHANGED <<core, rpc, runs, cancelled, pc, turn, retries, got, sawTools,
                   hasTools, awaiting, toolVars, handleVars, endVars, lateVars>>

\* Dispatch of a builtin tool, which looks at the flag first, or of a
\* sub-agent or skill tool, which does not.
DispatchTool(r, kind) ==
    /\ pc[r] = "tools"
    /\ todo[r] > 0
    /\ todo' = [todo EXCEPT ![r] = @ - 1]
    /\ tool' = [tool EXCEPT ![r] = kind]
    /\ purpose' = [purpose EXCEPT ![r] = "call"]
    /\ ask' = [ask EXCEPT ![r] = NoPerm]
    /\ raw' = [raw EXCEPT ![r] = FALSE]
    /\ IF kind = "builtin" /\ cancelled[r] THEN UNCHANGED pc ELSE Goto(r, "permit")
    /\ UNCHANGED <<core, rpc, runs, cancelled, turn, retries, got, sawTools,
                   hasTools, awaiting, openTasks, handleVars, endVars,
                   lateVars>>

\* The Confirm branch of ensure_tool_permission and resolve_sensitive_output:
\* a handle under a new id goes into the table before the request is sent.
InsertHandle(r) ==
    \E p \in Fresh :
        /\ perm' = [perm EXCEPT ![p] = "inserted"]
        /\ owner' = [owner EXCEPT ![p] = r]
        /\ ask' = [ask EXCEPT ![r] = p]
        /\ Goto(r, "asking")
        /\ UNCHANGED answer

\* ensure_tool_permission: the policy says Deny or Allow, or the user is asked.
PolicyDecides(r, allow) ==
    /\ pc[r] = "permit"
    /\ Goto(r, IF allow THEN "granted" ELSE "tools")
    /\ UNCHANGED <<core, rpc, runs, cancelled, turnVars, toolVars, handleVars,
                   endVars, lateVars>>

AskForCall(r) ==
    /\ pc[r] = "permit"
    /\ InsertHandle(r)
    /\ UNCHANGED <<core, rpc, runs, cancelled, turnVars, tool, purpose, raw,
                   endVars, lateVars>>

\* The permission_required hook, then the event.
AnnouncePermission(r) ==
    /\ pc[r] = "asking"
    /\ perm' = [perm EXCEPT ![ask[r]] = IF @ = "inserted" THEN "announced" ELSE @]
    /\ Goto(r, "waiting")
    /\ UNCHANGED <<core, rpc, runs, cancelled, turnVars, toolVars, owner, answer,
                   endVars, lateVars>>

\* The answer arrives.  For the call itself anything but Approve is an error
\* response; for sensitive output anything but Approve returns the redacted
\* text, and a cancelled run gets neither.
CallDecided(r) ==
    /\ pc[r] = "waiting"
    /\ purpose[r] = "call"
    /\ answer[ask[r]] # "none"
    /\ Goto(r, IF answer[ask[r]] = "Approve" THEN "granted" ELSE "tools")
    /\ UNCHANGED <<core, rpc, runs, cancelled, turnVars, toolVars, handleVars,
                   endVars, lateVars>>

OutputDecided(r) ==
    /\ pc[r] = "waiting"
    /\ purpose[r] = "output"
    /\ answer[ask[r]] # "none"
    /\ raw' = [raw EXCEPT ![r] = answer[ask[r]] = "Approve" /\ ~cancelled[r]]
    /\ Goto(r, "tools")
    /\ UNCHANGED <<core, rpc, runs, cancelled, turnVars, tool, purpose, ask,
                   handleVars, endVars, lateVars>>

\* Mutants of PermissionTimeout: silence counts as approval; only a cancel
\* ends the wait.
PermissionTimeoutMutant(r) ==
    /\ pc[r] = "waiting"
    /\ answer[ask[r]] = "none"
    /\ Goto(r, "granted")
    /\ UNCHANGED <<core, rpc, runs, cancelled, turnVars, toolVars, handleVars,
                   endVars, lateVars>>

PermissionWaitsMutant(r) ==
    /\ pc[r] = "waiting"
    /\ answer[ask[r]] = "none"
    /\ cancelled[r]
    /\ Goto(r, "tools")
    /\ UNCHANGED <<core, rpc, runs, cancelled, turnVars, toolVars, handleVars,
                   endVars, lateVars>>

\* 300 seconds without an answer: treated as a refusal.  The handle stays in
\* the table until the run is cleaned up.
PermissionTimeout(r) ==
    /\ pc[r] = "waiting"
    /\ answer[ask[r]] = "none"
    /\ Goto(r, "tools")
    /\ UNCHANGED <<core, rpc, runs, cancelled, turnVars, toolVars, handleVars,
                   endVars, lateVars>>

\* The second look at the flag (builtin tools only), before the hook.
CheckBeforeTool(r) ==
    /\ pc[r] = "granted"
    /\ Goto(r, IF tool[r] = "builtin" /\ cancelled[r] THEN "tools" ELSE "ready")
    /\ UNCHANGED <<core, rpc, runs, cancelled, turnVars, toolVars, handleVars,
                   endVars, lateVars>>

\* lifecycle.before has run; the tool starts.
StartTool(r) ==
    /\ pc[r] = "ready"
    /\ Goto(r, "exec")
    /\ lateTools' = [lateTools EXCEPT
            ![r] = IF tool[r] = "builtin" /\ cancelled[r] THEN @ + 1 ELSE @]
    /\ UNCHANGED <<core, rpc, runs, cancelled, turnVars, toolVars, handleVars,
                   endVars, lateReqs>>

\* The tool returns, fails or passes tool_timeout_ms.
ToolReturns(r) ==
    /\ pc[r] = "exec"
    /\ Goto(r, "tools")
    /\ UNCHANGED <<core, rpc, runs, cancelled, turnVars, toolVars, handleVars,
                   endVars, lateVars>>

\* The tool's output looks sensitive and returning it needs confirmation.
AskForOutput(r) ==
    /\ pc[r] = "exec"
    /\ tool[r] = "builtin"
    /\ purpose' = [purpose EXCEPT ![r] = "output"]
    /\ InsertHandle(r)
    /\ UNCHANGED <<core, rpc, runs, cancelled, turnVars, tool, raw, endVars,
                   lateVars>>

-----------------------------------------------------------------------------
(* The end of a run                                                        *)

\* total_timeout_ms passes: the loop is dropped wherever it is.
TotalTimeout(r) ==
    /\ pc[r] \in InLoop
    /\ Leave(r, "Err")
    /\ UNCHANGED <<core, rpc, runs, cancelled, turn, got, sawTools, hasTools,
                   awaiting, openTasks, handleVars, term, lateVars>>

\* finish_reply_events up to run_end_hook: an error is reported as
\* cancelled when the flag is set or its text says so, and this is decided
\* before the hook.
ClassifyResult(r) ==
    /\ pc[r] = "end"
    /\ result' = [result EXCEPT ![r] = IF @ = "Err" /\ cancelled[r]
                                       THEN "ErrCancelled" ELSE @]
    /\ Goto(r, "ending")
    /\ UNCHANGED <<core, rpc, runs, cancelled, turnVars, toolVars, handleVars,
                   term, lateVars>>

\* Mutant of BuildTerminal: a success is reported as it is.
BuildTerminalMutant(r) ==
    /\ pc[r] = "ending"
    /\ term' = [term EXCEPT ![r] =
            CASE result[r] = "Err" -> "error"
              [] result[r] = "ErrCancelled" -> "cancelled"
              [] OTHER -> "completed"]
    /\ Goto(r, "built")
    /\ UNCHANGED <<core, rpc, runs, cancelled, turnVars, toolVars, handleVars,
                   result, lateVars>>

\* After the hook the terminal event is built; on success the flag is read
\* once more.
BuildTerminal(r) ==
    /\ pc[r] = "ending"
    /\ term' = [term EXCEPT ![r] =
            CASE result[r] = "Err" -> "error"
              [] result[r] = "ErrCancelled" -> "cancelled"
              [] OTHER -> IF cancelled[r] THEN "cancelled" ELSE "completed"]
    /\ Goto(r, "built")
    /\ UNCHANGED <<core, rpc, runs, cancelled, turnVars, toolVars, handleVars,
                   result, lateVars>>

\* The task of agent_reply writes the terminal event, then cleanup_run
\* removes the handle and denies what is still pending.
SendTerminal(r) ==
    /\ pc[r] = "built"
    /\ Goto(r, "sent")
    /\ UNCHANGED <<core, rpc, runs, cancelled, turnVars, toolVars, handleVars,
                   endVars, lateVars>>

CleanupRemove(r) ==
    /\ pc[r] = "sent"
    /\ runs' = runs \ {r}
    /\ Goto(r, "removed")
    /\ UNCHANGED <<core, rpc, cancelled, turnVars, toolVars, handleVars, endVars,
                   lateVars>>

\* Mutant of CleanupDeny: only the run handle is removed.
CleanupDenyMutant(r) ==
    /\ pc[r] = "removed"
    /\ Goto(r, "done")
    /\ UNCHANGED <<core, rpc, runs, cancelled, turnVars, toolVars, handleVars,
                   endVars, lateVars>>

CleanupDeny(r) ==
    /\ pc[r] = "removed"
    /\ DenyPendingPermissionsForRun(r)
    /\ Goto(r, "done")
    /\ UNCHANGED <<core, rpc, runs, cancelled, turnVars, toolVars, endVars,
                   lateVars>>

-----------------------------------------------------------------------------
Requests ==
    \/ Initialize
    \/ StopReading
    \/ Exit
    \/ \E r \in Runs :
        \/ AgentReply(r)
        \/ AgentCancel(r)
        \/ CancelStore(r)
        \/ CancelDeny(r)
        \/ \E p \in Perms, decision \in {"Approve", "Deny"} :
               PermissionResolve(r, p, decision)

\* The steps a run task takes by itself, its inner timeouts included.
ToolStep(r) ==
    \/ SkipTool(r)
    \/ TaskTool(r)
    \/ \E kind \in {"builtin", "agent"} : DispatchTool(r, kind)
    \/ \E allow \in BOOLEAN : PolicyDecides(r, allow)
    \/ AskForCall(r)
    \/ AnnouncePermission(r)
    \/ CallDecided(r)
    \/ OutputDecided(r)
    \/ PermissionTimeout(r)
    \/ CheckBeforeTool(r)
    \/ StartTool(r)
    \/ ToolReturns(r)
    \/ AskForOutput(r)

TurnStep(r) ==
    \/ RunStarted(r)
    \/ ProviderMissing(r)
    \/ TurnsUsedUp(r)
    \/ TurnCancelled(r)
    \/ BeginTurn(r)
    \/ OpenStream(r)
    \/ StreamItem(r)
    \/ StreamCancelled(r)
    \/ \E res \in {"Err", "ErrCancelled"} : AttemptFails(r, res)
    \/ RetryAttempt(r)
    \/ Backoff(r)
    \/ EmptyTurn(r)
    \/ TurnReceived(r)
    \/ \E followup \in BOOLEAN : GoOn(r, followup)
    \/ LastTurn(r)

EndStep(r) ==
    \/ ClassifyResult(r)
    \/ BuildTerminal(r)
    \/ SendTerminal(r)
    \/ CleanupRemove(r)
    \/ CleanupDeny(r)

\* The process has ended.
Exited == core = "Exited" /\ UNCHANGED vars

Next ==
    \/ Requests
    \/ \E r \in Runs : TurnStep(r) \/ ToolStep(r) \/ EndStep(r) \/ TotalTimeout(r)
    \/ Exited

Spec == Init /\ [][Next]_vars

RunStep(r) == TurnStep(r) \/ ToolStep(r) \/ EndStep(r)

\* A provider attempt is over.
AttemptEnds(r) ==
    \/ StreamCancelled(r)
    \/ \E res \in {"Err", "ErrCancelled"} : AttemptFails(r, res)
    \/ RetryAttempt(r)
    \/ EmptyTurn(r)
    \/ TurnReceived(r)

\* tokio runs every task that can run, and the inner timeouts (turn, tool,
\* permission) are steps of the task; turn_timeout_ms ends an attempt even
\* if the provider never stops streaming.  The request loop finishes the
\* request it is in.  Nothing is assumed of the user, and the total timeout
\* is not needed.
FairSpec ==
    /\ Spec
    /\ \A r \in Runs : /\ WF_vars(RunStep(r))
                       /\ WF_vars(AttemptEnds(r))
                       /\ WF_vars(CancelStore(r) \/ CancelDeny(r))
    /\ WF_vars(Exit)

-----------------------------------------------------------------------------
(* Properties                                                              *)

\* Every variable has its type.
TypeOK ==
    /\ core \in {"Spawned", "Initialized", "Draining", "Exited"}
    /\ rpc \in RpcStates
    /\ runs \subseteq Runs
    /\ cancelled \in [Runs -> BOOLEAN]
    /\ pc \in [Runs -> Positions]
    /\ turn \in [Runs -> 0..MaxTurns]
    /\ retries \in [Runs -> 0..MaxRetries]
    /\ got \in [Runs -> BOOLEAN]
    /\ todo \in [Runs -> 0..MaxTools]
    /\ sawTools \in [Runs -> BOOLEAN]
    /\ hasTools \in [Runs -> BOOLEAN]
    /\ awaiting \in [Runs -> BOOLEAN]
    /\ openTasks \in [Runs -> BOOLEAN]
    /\ tool \in [Runs -> {"none", "builtin", "agent"}]
    /\ purpose \in [Runs -> {"call", "output"}]
    /\ ask \in [Runs -> Perms \cup {NoPerm}]
    /\ raw \in [Runs -> BOOLEAN]
    /\ perm \in [Perms -> {"unused", "inserted", "announced", "taken"}]
    /\ owner \in [Perms -> Runs \cup {"none"}]
    /\ answer \in [Perms -> {"none", "Approve", "Deny", "AutoDeny"}]
    /\ result \in [Runs -> {"none", "Ok", "Err", "ErrCancelled"}]
    /\ term \in [Runs -> {"none", "completed", "cancelled", "error"}]
    /\ lateReqs \in [Runs -> Nat]
    /\ lateTools \in [Runs -> Nat]

\* A tool that had to be confirmed runs, and sensitive output is returned
\* unredacted, only on an Approve given for that very request of that very
\* run: not on a timeout, a cancel, or the answer to another run's request
\* (ensure_tool_permission, resolve_sensitive_output, take_permission_for_run).
GrantedMeansApproved ==
    \A r \in Runs :
        (ask[r] # NoPerm /\ (raw[r] \/ pc[r] \in {"granted", "ready", "exec"}))
            => owner[ask[r]] = r /\ answer[ask[r]] = "Approve"

\* Every handle in the permission table belongs to a run that is still
\* registered or whose cleanup_run is about to deny it, so no request
\* outlives its run, whatever timeout or cancel ended it.
NoOrphanPermission ==
    \A p \in Pending : owner[p] \in runs \/ pc[owner[p]] = "removed"

\* The core refuses a request on its own only for a run that was cancelled
\* or is over: cancelling or finishing one run leaves the requests of the
\* others alone.
OnlyOwnRunDenied ==
    \A p \in Perms : answer[p] = "AutoDeny" =>
        cancelled[owner[p]] \/ pc[owner[p]] = "done"

\* Once the flag is stored a run opens at most one more provider request and
\* starts at most one more builtin tool, the ones already past their test,
\* although neither the retry sleep nor the tool hook tests it again.
BoundedWorkAfterCancel ==
    \A r \in Runs : lateReqs[r] <= 1 /\ lateTools[r] <= 1

\* A run that ends well with turns to spare has no tool results the model
\* never reacted to, and no open task list unless the model went silent.
NothingLeftDangling ==
    \A r \in Runs : (result[r] = "Ok" /\ turn[r] < MaxTurns) =>
        ~hasTools[r] /\ (got[r] => ~openTasks[r])

\* Every accepted run reaches its terminal event and is cleaned up, even if
\* the provider hangs and nobody answers a permission request.
EveryRunEnds ==
    \A r \in Runs : pc[r] = "started" ~> pc[r] = "done"

\* A core that has stopped reading requests drains its runs and exits.
ShutdownExits == core = "Draining" ~> core = "Exited"

\* The life of each run as the protocol describes it: its terminal event
\* decides how it ended.
RunStatus ==
    [r \in Runs |->
        IF pc[r] = "idle" THEN "none"
        ELSE IF term[r] = "error" THEN "failed"
        ELSE IF term[r] # "none" THEN term[r]
        ELSE IF pc[r] = "waiting" THEN "waiting_permission" ELSE "running"]

Lifecycle == INSTANCE RunLifecycle WITH status <- RunStatus, wanted <- cancelled

\* The run engine implements the protocol's run state machine: one terminal
\* outcome per run, and never completed once the cancel has taken effect.
KeepsLifecycle == Lifecycle!SafeSpec
=============================================================================

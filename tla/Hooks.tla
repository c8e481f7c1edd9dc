------------------------------- MODULE Hooks -------------------------------
(***************************************************************************)
(* Hooks of a workspace: the server reads and writes .night24/hooks.json,  *)
(* the core loads it when a run begins, and the run and its sub-agents     *)
(* call the hooks of an event one after the other.  All scripts of a run   *)
(* go through one worker thread and its queue; a caller waits no longer    *)
(* than the timeout of the hook, whatever the worker is busy with.         *)
(*                                                                         *)
(* Time is one fact about a job: its deadline has passed or not.  The      *)
(* caller's timer starts after the deadline was taken, so a caller gives   *)
(* up only when the deadline has passed.                                   *)
(***************************************************************************)
EXTENDS Integers, Sequences, FiniteSets, SequencesExt

CONSTANTS HookCallers,    \* the run and its sub-agents
          HookFiles,      \* sequences of hook definitions, as a client spells them
          ScriptChoices,  \* what a script may print, and whether it fails
          ReturnChoices,  \* what execute may return, or that it fails
          MaxHookCalls,
          MaxEdits

VARIABLES hooksFile,   \* hooks.json: [is, hooks]; it is "absent", "broken" or "json"
          named,       \* the same of NIGHT24_HOOKS_FILE, which may be "unset"
          reply,       \* the answer to the last request, until the run begins
          loaded,      \* the hooks of the run: <<>>, or <<hooks>> once it has begun
          calls,       \* run_hooks calls so far
          caller,      \* HookCallers -> [at, event, todo, job, outputs]
          queue,       \* ids of jobs the worker has not received
          jobs,        \* id -> [hook, expired, left]
          worker,      \* [at, job, outputs]
          answer,      \* id -> <<>>, or <<outputs>>: the oneshot channel
          begun,       \* <<id, phase>> of the script phases begun
          edits        \* requests and edits so far

hookVars == <<hooksFile, named, reply, loaded, calls, caller, queue, jobs, worker, answer, begun, edits>>
configVars == <<hooksFile, named, reply, edits>>
No(is) == [is |-> is, hooks |-> <<>>]
Json(hooks) == [is |-> "json", hooks |-> hooks]
NoReply == [status |-> 0, hooks |-> <<>>]
HookEvents == {"before_tool", "run_failed"}   \* two of the seven

---------------------------------------------------------------------------
(* Definitions.  event and engine are [name, padded]; script and inline     *)
(* are "" (absent or empty), "blank" or "text".                             *)

\* validate_hook_definition, which trims
ValidHook(h) ==
    /\ h.event.name \in HookEvents
    /\ h.engine.name \in {"absent", "", "gts"}
    /\ h.script = "text" \/ h.inline = "text"
    /\ h.timeout # 0 /\ h.limit # 0

\* The core's definitions are enums, which do not trim.
CoreParses(hooks) ==
    \A i \in DOMAIN hooks : /\ hooks[i].event.name \in HookEvents /\ ~hooks[i].event.padded
                            /\ hooks[i].engine.name \in {"absent", "gts"} /\ ~hooks[i].engine.padded

\* has_executor: a blank path is a path
HasExecutor(h) == h.script # "" \/ h.inline = "text"

\* from_environment: a file that cannot be used gives no hooks.
FromEnvironment ==
    LET file == IF named.is = "unset" THEN hooksFile ELSE named
    IN  IF file.is # "json" \/ ~CoreParses(file.hooks) THEN <<>>
        ELSE SelectSeq(file.hooks, LAMBDA h : h.enabled /\ HasExecutor(h))

\* from_hook
ScriptKind(h) == IF h.inline = "text" THEN "source" ELSE "file"
HookSource(h, event) == <<event, IF h.name = "" THEN "gts" ELSE h.name>>

---------------------------------------------------------------------------
(* Outputs are [stream, text]. *)
Out(stream, text) == [stream |-> stream, text |-> text]
PushOutput(outs, o) == IF o.text = "" THEN outs ELSE Append(outs, o)
TimedOut == Out("stderr", "timed out")

\* push_structured_gts_outputs: value is "none", "error", "no outputs", "no
\* array" or "items" and a sequence of [object, stream, text].
PushItem(outs, item) ==
    IF ~item.object \/ item.stream \notin {"absent", "stdout", "stderr"} \/ item.text \in {"absent", "number"}
    THEN Append(outs, Out("stderr", "warning"))
    ELSE PushOutput(outs, Out(IF item.stream = "stderr" THEN "stderr" ELSE "stdout", item.text))
PushStructured(outs, value) ==
    CASE value \in {<<"none">>, <<"no outputs">>} -> outs
      [] value = <<"error">> -> Append(outs, Out("stderr", "error"))
      [] value = <<"no array">> -> Append(outs, Out("stderr", "warning"))
      [] OTHER -> FoldLeft(PushItem, outs, value[2])

---------------------------------------------------------------------------
(* The server *)
GetHooks ==
    /\ reply' = [status |-> IF hooksFile.is = "broken" THEN 400 ELSE 200, hooks |-> hooksFile.hooks]
    /\ UNCHANGED <<hooksFile, named>>

PutHooks(hooks) ==
    /\ IF \A i \in DOMAIN hooks : ValidHook(hooks[i])
       THEN hooksFile' = Json(hooks) /\ reply' = [status |-> 200, hooks |-> hooks]
       ELSE hooksFile' = hooksFile /\ reply' = [status |-> 400, hooks |-> <<>>]
    /\ UNCHANGED named

\* The user edits either file.
EditHooks ==
    \E f \in {No("absent"), No("broken")} \cup {Json(h) : h \in HookFiles} :
        \/ hooksFile' = f /\ UNCHANGED <<named, reply>>
        \/ named.is # "unset" /\ named' = f /\ UNCHANGED <<hooksFile, reply>>

Configure ==
    /\ loaded = <<>> /\ edits < MaxEdits /\ edits' = edits + 1
    /\ GetHooks \/ EditHooks \/ \E hooks \in HookFiles : PutHooks(hooks)
    /\ UNCHANGED <<loaded, calls, caller, queue, jobs, worker, answer, begun>>

---------------------------------------------------------------------------
(* The callers *)
LoadHooks ==
    /\ loaded = <<>>
    /\ loaded' = <<FromEnvironment>> /\ reply' = NoReply
    /\ UNCHANGED <<hooksFile, named, edits, calls, caller, queue, jobs, worker, answer, begun>>

\* HookRunner::run, up to its first await
CallHooks(c, event) ==
    /\ loaded # <<>> /\ caller[c].at = "idle" /\ calls < MaxHookCalls
    /\ calls' = calls + 1
    /\ caller' = [caller EXCEPT ![c] = [at |-> "next", event |-> event, job |-> 0, outputs |-> <<>>,
                                        todo |-> SelectSeq(loaded[1], LAMBDA h : h.event.name = event)]]
    /\ UNCHANGED <<configVars, loaded, queue, jobs, worker, answer, begun>>

\* GtsHookWorker::run: the job is queued with its deadline.
SendJob(c) ==
    /\ caller[c].at = "next" /\ caller[c].todo # <<>>
    /\ LET id == Len(jobs) + 1
       IN  /\ jobs' = Append(jobs, [hook |-> Head(caller[c].todo), expired |-> FALSE, left |-> "no"])
           /\ queue' = Append(queue, id)
           /\ answer' = Append(answer, <<>>)
           /\ caller' = [caller EXCEPT ![c].at = "waiting", ![c].job = id, ![c].todo = Tail(@)]
    /\ UNCHANGED <<configVars, loaded, calls, worker, begun>>

\* The outputs of one hook, under its source.
Collect(c, outs) ==
    LET source == HookSource(jobs[caller[c].job].hook, caller[c].event)
    IN  caller' = [caller EXCEPT ![c].at = "next", ![c].outputs =
                     @ \o [i \in DOMAIN outs |-> [source |-> source, out |-> outs[i]]]]

Receive(c) ==
    /\ caller[c].at = "waiting" /\ answer[caller[c].job] # <<>>
    /\ Collect(c, answer[caller[c].job][1])
    /\ answer' = [answer EXCEPT ![caller[c].job] = <<>>]
    /\ UNCHANGED <<configVars, loaded, calls, queue, jobs, worker, begun>>

Phase(id) == IF id \in Range(queue) THEN "queued"
             ELSE IF worker.job = id /\ worker.at \in {"script", "execute"} THEN worker.at ELSE "between"

\* The timer of the caller; the worker is not told.
GiveUp(c) ==
    /\ caller[c].at = "waiting" /\ answer[caller[c].job] = <<>> /\ jobs[caller[c].job].expired
    /\ jobs' = [jobs EXCEPT ![caller[c].job].left = Phase(caller[c].job)]
    /\ Collect(c, <<TimedOut>>)
    /\ UNCHANGED <<configVars, loaded, calls, queue, worker, answer, begun>>

\* Every hook of the event is done, and run_hooks sends the outputs as
\* RunOutput events (their way is in AgentRun).
HooksDone(c) ==
    /\ caller[c].at = "next" /\ caller[c].todo = <<>>
    /\ caller' = [caller EXCEPT ![c].at = "idle", ![c].outputs = <<>>, ![c].job = 0]
    /\ UNCHANGED <<configVars, loaded, calls, queue, jobs, worker, answer, begun>>

Expire(id) ==
    /\ ~jobs[id].expired /\ (id \in Range(queue) \/ worker.job = id)
    /\ jobs' = [jobs EXCEPT ![id].expired = TRUE]
    /\ UNCHANGED <<configVars, loaded, calls, caller, queue, worker, answer, begun>>

---------------------------------------------------------------------------
(* The worker thread *)
Free == [at |-> "free", job |-> 0, outputs |-> <<>>]

\* Mutant: the deadline is not looked at.
AlwaysTimeMutant(id) == id \in DOMAIN jobs

\* Instant::now() < deadline, and remaining_hook_timeout
TimeLeft(id) == ~jobs[id].expired

\* An answer nobody waits for any more is dropped.
Answer(id, outs) ==
    /\ answer' = IF jobs[id].left = "no" THEN [answer EXCEPT ![id] = <<outs>>] ELSE answer
    /\ worker' = Free

ReceiveJob ==
    /\ worker.at = "free" /\ queue # <<>>
    /\ queue' = Tail(queue)
    /\ IF TimeLeft(Head(queue))
       THEN worker' = [at |-> "ready", job |-> Head(queue), outputs |-> <<>>] /\ UNCHANGED answer
       ELSE Answer(Head(queue), <<TimedOut>>)
    /\ UNCHANGED <<configVars, loaded, calls, caller, jobs, begun>>

\* A phase begins if there is time left for it.
BeginPhase(phase) ==
    IF TimeLeft(worker.job)
    THEN /\ worker' = [worker EXCEPT !.at = phase]
         /\ begun' = begun \cup {<<worker.job, phase>>} /\ UNCHANGED answer
    ELSE Answer(worker.job, Append(worker.outputs, TimedOut)) /\ UNCHANGED begun

BeginScript ==
    /\ worker.at = "ready" /\ BeginPhase("script")
    /\ UNCHANGED <<configVars, loaded, calls, caller, queue, jobs>>

\* The script is over: by itself, by its limit, or by the timeout of the
\* machine; a script in a native call may also never come back.
EndScript ==
    /\ worker.at = "script"
    /\ \E r \in ScriptChoices :
         LET outs == FoldLeft(PushOutput, worker.outputs, r.prints)
         IN  IF r.fails THEN Answer(worker.job, Append(outs, Out("stderr", "error")))
             ELSE worker' = [worker EXCEPT !.at = "returned", !.outputs = outs] /\ UNCHANGED answer
    /\ UNCHANGED <<configVars, loaded, calls, caller, queue, jobs, begun>>

BeginExecute ==
    /\ worker.at = "returned" /\ BeginPhase("execute")
    /\ UNCHANGED <<configVars, loaded, calls, caller, queue, jobs>>

EndExecute ==
    /\ worker.at = "execute"
    /\ \E value \in ReturnChoices, r \in ScriptChoices :
         Answer(worker.job, PushStructured(FoldLeft(PushOutput, worker.outputs, r.prints), value))
    /\ UNCHANGED <<configVars, loaded, calls, caller, queue, jobs, begun>>

---------------------------------------------------------------------------
HooksInit ==
    /\ hooksFile = No("absent") /\ named \in {No("unset"), No("absent")}
    /\ reply = NoReply
    /\ loaded = <<>> /\ calls = 0 /\ queue = <<>> /\ jobs = <<>> /\ worker = Free
    /\ caller = [c \in HookCallers |-> [at |-> "idle", event |-> "", todo |-> <<>>, job |-> 0, outputs |-> <<>>]]
    /\ answer = <<>> /\ begun = {} /\ edits = 0

HooksNext ==
    \/ Configure \/ LoadHooks \/ ReceiveJob \/ BeginScript \/ EndScript \/ BeginExecute \/ EndExecute
    \/ \E c \in HookCallers : SendJob(c) \/ Receive(c) \/ GiveUp(c) \/ HooksDone(c)
    \/ \E c \in HookCallers, event \in HookEvents : CallHooks(c, event)
    \/ \E id \in DOMAIN jobs : Expire(id)

HooksSpec == HooksInit /\ [][HooksNext]_hookVars

---------------------------------------------------------------------------
\* No hook is run for nobody: a job whose caller gave up while it was queued
\* never begins, and one whose caller gave up while the script ran never
\* calls execute, however long the worker was kept busy by another hook.
NoStaleHook ==
    \A id \in DOMAIN jobs :
        /\ jobs[id].left = "queued" => <<id, "script">> \notin begun
        /\ jobs[id].left = "script" => <<id, "execute">> \notin begun
=============================================================================

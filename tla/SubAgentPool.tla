---------------------------- MODULE SubAgentPool ----------------------------
(***************************************************************************)
(* What the pool of sub-agents tells those who ask (subagents.rs, the      *)
(* sub-agent tools and agent.subagents of lib.rs).  Parents and sub-agents *)
(* spawn, look, write messages, wait and cancel, while the worker of each  *)
(* sub-agent marks its record.  The events of the workers are in           *)
(* SubAgents; here is the record, and the order in which its states become *)
(* known.                                                                  *)
(***************************************************************************)
EXTENDS Integers, Sequences, FiniteSets, SequencesExt

CONSTANTS PoolIds,      \* ids of sub-agents
          SpawnArgs,    \* arguments of a spawn: [name, task, mode]
          ChildEnds,    \* events a sub-agent's run may leave behind
          MaxWords,     \* MAX_PREVIEW
          MaxAsks       \* tool calls and requests (a bound)

ASSUME PoolAssumption == MaxWords \in Nat

VARIABLES records,  \* the pool: a function on some of PoolIds
          at,       \* where run_subagent_once of each sub-agent is
          inside,   \* what the tool call of each caller is doing
          told,     \* the statuses told of each sub-agent, without repetition
          verdict,  \* the last answer of a wait: <<>>, or <<snapshot>>
          asks

poolVars == <<records, at, inside, told, verdict, asks>>

PoolCallers == {"parent"} \cup PoolIds
\* A sub-agent's run has a session of its own, named like the sub-agent.
SessionOfRun(c) == IF c = "parent" THEN "s1" ELSE c
IsTerminal(status) == status \in {"Completed", "Failed", "Cancelled"}
NoText == <<>>
NotInside == [does |-> "nothing", id |-> "parent"]

---------------------------------------------------------------------------
(* The record and its pictures.  A text is a sequence of words.            *)

\* from_value: anything that is not a word for sync is async
ModeFrom(value) == IF value \in {"sync", "synchronous", "blocking"} THEN "sync" ELSE "async"

NewRecord(args, session) ==
    [name |-> IF args.name = "" THEN "subagent" ELSE args.name, task |-> args.task, mode |-> ModeFrom(args.mode),
     session |-> session, status |-> "Queued", cancelled |-> FALSE, messages |-> <<>>, result |-> <<>>, error |-> <<>>]

Preview(text) == IF Len(text) <= MaxWords THEN text ELSE Append(SubSeq(text, 1, MaxWords), "...")

\* snapshot_record
Picture(r, withMessages, withResult) ==
    [name |-> r.name, status |-> r.status, count |-> Len(r.messages),
     preview |-> IF r.result = <<>> THEN NoText ELSE Preview(r.result[1]),
     result |-> IF withResult THEN r.result ELSE <<>>, error |-> r.error,
     messages |-> IF withMessages THEN r.messages ELSE <<>>]

\* match_parent_session; an empty filter is none
Matching(filter) == {a \in DOMAIN records : filter = "" \/ records[a].session = filter}

\* Mutant of Ended: the worker's word is taken though the record was cancelled.
FlagIgnoredMutant(r, ok, text) ==
    IF ok THEN [r EXCEPT !.status = "Completed", !.result = <<text>>]
          ELSE [r EXCEPT !.status = "Failed", !.error = <<text>>]

\* mark_completed, mark_failed
Ended(r, ok, text) ==
    LET status == IF r.cancelled THEN "Cancelled" ELSE IF ok THEN "Completed" ELSE "Failed"
    IN  IF ok THEN [r EXCEPT !.status = status, !.result = <<text>>]
              ELSE [r EXCEPT !.status = status, !.error = <<text>>]

CancelledRecord(r) == [r EXCEPT !.cancelled = TRUE, !.status = IF IsTerminal(@) THEN @ ELSE "Cancelled"]

\* message_text_from_value of the messages of a finish event, joined
SaidInFinish(messages) ==
    FlattenSeq([i \in DOMAIN messages |->
        IF messages[i].role \in {"assistant", "tool"} THEN messages[i].text ELSE NoText])

\* subagent_result_from_events: the last terminal event decides.
ResultOf(events) ==
    LET ends == SelectSeq(events, LAMBDA e : e.type \in {"finish", "error"})
        last == ends[Len(ends)]
        said == SaidInFinish(last.messages)
    IN  CASE ends = <<>>                             -> [ok |-> FALSE, text |-> <<"no_terminal_event">>]
          [] last.type = "error"                     -> [ok |-> FALSE, text |-> last.text]
          [] last.status \in {"cancelled", "failed"} -> [ok |-> FALSE, text |-> <<last.status>>]
          [] said = NoText                           -> [ok |-> TRUE, text |-> <<last.status>>]
          [] OTHER                                   -> [ok |-> TRUE, text |-> said]

---------------------------------------------------------------------------
PoolInit ==
    /\ records = [a \in {} |-> 0]
    /\ at = [a \in PoolIds |-> "none"]
    /\ inside = [c \in PoolCallers |-> NotInside]
    /\ told = [a \in PoolIds |-> <<>>]
    /\ verdict = <<>>
    /\ asks = 0

\* The answer shows the records of ids as they are in rs.
Tell(ids, rs) ==
    told' = [a \in PoolIds |-> IF a \in ids /\ (told[a] = <<>> \/ Last(told[a]) # rs[a].status)
                               THEN Append(told[a], rs[a].status) ELSE told[a]]

\* A run makes tool calls one at a time, and a sub-agent only while it runs.
Calls(c) ==
    /\ asks < MaxAsks
    /\ inside[c] = NotInside
    /\ c # "parent" => at[c] = "live"
    /\ asks' = asks + 1

\* spawn_subagent.  Without a task the tool fails and nothing is made.
SpawnSubagent(c, a, args) ==
    /\ Calls(c)
    /\ a \notin DOMAIN records
    /\ IF args.task = "" THEN UNCHANGED <<records, at, inside>>
       ELSE /\ records' = [x \in DOMAIN records \cup {a} |->
                              IF x = a THEN NewRecord(args, SessionOfRun(c)) ELSE records[x]]
            /\ at' = [at EXCEPT ![a] = "made"]
            /\ inside' = [inside EXCEPT ![c] = [does |-> ModeFrom(args.mode), id |-> a]]
    /\ UNCHANGED <<told, verdict>>

\* The call of an async spawn answers with a picture of the whole pool; the
\* worker may have begun by then.
SpawnAnswers(c) ==
    /\ inside[c].does = "async"
    /\ inside' = [inside EXCEPT ![c] = NotInside]
    /\ Tell(DOMAIN records, records)
    /\ UNCHANGED <<records, at, verdict, asks>>

\* run_subagent_once begins; mark_running overwrites whatever the status is.
MarkRunningInPool(a) ==
    /\ at[a] = "made"
    /\ at' = [at EXCEPT ![a] = "live"]
    /\ records' = [records EXCEPT ![a].status = "Running"]
    /\ UNCHANGED <<inside, told, verdict, asks>>

\* The thread of an async worker cannot be made, so that the call fails, or
\* its runtime cannot, which the thread records.
ThreadFails(c) ==
    /\ inside[c].does = "async"
    /\ at[inside[c].id] = "made"
    /\ at' = [at EXCEPT ![inside[c].id] = "over"]
    /\ inside' = [inside EXCEPT ![c] = NotInside]
    /\ UNCHANGED <<records, told, verdict, asks>>
RuntimeFails(a) ==
    /\ at[a] = "made"
    /\ records[a].mode = "async"
    /\ at' = [at EXCEPT ![a] = "over"]
    /\ records' = [records EXCEPT ![a] = Ended(@, FALSE, <<"no_runtime">>)]
    /\ UNCHANGED <<inside, told, verdict, asks>>

\* The run of a sub-agent is over, cancelled only if somebody cancelled it.
\* A sync caller then waits for the record, which shows at the first poll.
ChildEnded(a, events) ==
    /\ at[a] = "live"
    /\ inside[a] = NotInside
    /\ records[a].cancelled \/ \A i \in DOMAIN events : events[i].status # "cancelled"
    /\ at' = [at EXCEPT ![a] = "over"]
    /\ records' = [records EXCEPT ![a] = Ended(@, ResultOf(events).ok, ResultOf(events).text)]
    /\ inside' = [c \in PoolCallers |-> IF inside[c] = [does |-> "sync", id |-> a]
                                        THEN [does |-> "poll_once", id |-> a] ELSE inside[c]]
    /\ UNCHANGED <<told, verdict, asks>>

\* developer__subagent_status of one sub-agent or of all, whosever they are;
\* one that is not there is an error.
SubagentStatus(c, ids) ==
    /\ Calls(c)
    /\ ids \in {DOMAIN records} \cup {{a} : a \in PoolIds}
    /\ Tell(ids \cap DOMAIN records, records)
    /\ UNCHANGED <<records, at, inside, verdict>>

\* agent.subagents of the server, with a session to filter by
AgentSubagents(filter) ==
    /\ asks < MaxAsks
    /\ asks' = asks + 1
    /\ Tell(Matching(filter), records)
    /\ UNCHANGED <<records, at, inside, verdict>>

\* developer__subagent_message.  The sub-agent meant is the caller itself
\* when none is named; the message is kept in the record, whatever the
\* record's status.
SubagentMessage(c, a) ==
    /\ Calls(c)
    /\ LET rs == [records EXCEPT ![a].messages =
                     Append(@, IF c = a THEN "child_to_parent" ELSE "parent_to_child")]
       IN  IF a \in DOMAIN records THEN records' = rs /\ Tell({a}, rs)
                                   ELSE UNCHANGED <<records, told>>
    /\ UNCHANGED <<at, inside, verdict>>

\* developer__subagent_wait, which fails at once for one that is not there
SubagentWait(c, a) ==
    /\ Calls(c)
    /\ inside' = IF a \in DOMAIN records THEN [inside EXCEPT ![c] = [does |-> "wait", id |-> a]] ELSE inside
    /\ UNCHANGED <<records, at, told, verdict>>

\* terminal_snapshot is polled until it has something to show ...
WaitAnswers(c) ==
    /\ inside[c].does \in {"wait", "poll_once"}
    /\ IsTerminal(records[inside[c].id].status)
    /\ verdict' = <<Picture(records[inside[c].id], TRUE, TRUE)>>
    /\ Tell({inside[c].id}, records)
    /\ inside' = [inside EXCEPT ![c] = NotInside]
    /\ UNCHANGED <<records, at, asks>>

\* ... or the time is over, which need not be before the record is terminal.
WaitTimesOut(c) ==
    /\ inside[c].does = "wait"
    /\ inside' = [inside EXCEPT ![c] = NotInside]
    /\ UNCHANGED <<records, at, told, verdict, asks>>

\* developer__subagent_cancel of one sub-agent, or of all of the pool
SubagentCancel(c, ids) ==
    /\ Calls(c)
    /\ ids \in {DOMAIN records} \cup {{a} : a \in PoolIds}
    /\ LET rs == [a \in DOMAIN records |-> IF a \in ids THEN CancelledRecord(records[a]) ELSE records[a]]
       IN  IF ids \subseteq DOMAIN records THEN records' = rs /\ Tell(DOMAIN records, rs)
                                           ELSE UNCHANGED <<records, told>>
    /\ UNCHANGED <<at, inside, verdict>>

PoolNext ==
    \/ \E c \in PoolCallers :
          \/ \E a \in PoolIds : \/ \E args \in SpawnArgs : SpawnSubagent(c, a, args)
                                \/ SubagentMessage(c, a)
                                \/ SubagentWait(c, a)
          \/ \E ids \in SUBSET PoolIds : SubagentStatus(c, ids) \/ SubagentCancel(c, ids)
          \/ SpawnAnswers(c) \/ ThreadFails(c) \/ WaitAnswers(c) \/ WaitTimesOut(c)
    \/ \E a \in PoolIds : \/ MarkRunningInPool(a) \/ RuntimeFails(a)
                          \/ \E events \in ChildEnds : ChildEnded(a, events)
    \/ \E filter \in {""} \cup {SessionOfRun(c) : c \in PoolCallers} : AgentSubagents(filter)

PoolSpec == PoolInit /\ [][PoolNext]_poolVars

---------------------------------------------------------------------------
\* What callers learn of a sub-agent agrees: once somebody has been told that
\* it completed or failed, nobody is ever told anything else; once somebody
\* has been told that it is cancelled, nobody is told that it completed or
\* failed (though it may be shown running again, mark_running being what it
\* is).  An answer of a wait is terminal, and a verdict comes with its reason.
VerdictsAgree ==
    /\ \A a \in DOMAIN records :
          LET known == Append(told[a], records[a].status) IN
          \A i, j \in DOMAIN known : i < j =>
              /\ known[i] \in {"Completed", "Failed"} => known[j] = known[i]
              /\ known[i] = "Cancelled" => known[j] \notin {"Completed", "Failed"}
    /\ \A i \in DOMAIN verdict :
          /\ IsTerminal(verdict[i].status)
          /\ verdict[i].status = "Completed" => verdict[i].result # <<>> /\ verdict[i].preview # NoText
          /\ verdict[i].status = "Failed" => verdict[i].error # <<>>
=============================================================================

---------------------------- MODULE StateProofs ----------------------------
(***************************************************************************)
(* What the core and the server keep beside the run itself, for any number *)
(* of sub-agents, callers, hooks, jobs, requests, sessions, skills, files  *)
(* and tasks: what the pool of sub-agents tells does not contradict        *)
(* itself, the hook worker runs nothing for nobody, sessions that were     *)
(* only saved from fresh copies are as if the requests had come one at a   *)
(* time, a prompt lists the skills as they were found, a change of the     *)
(* workspace during a reply is announced, and the stored tasks are the     *)
(* ones the last answer showed.                                            *)
(***************************************************************************)
EXTENDS SubAgentPool, Hooks, Sessions, Skills, Workspace, Tasks, FilteringProofs, TLAPS

---------------------------------------------------------------------------
(* The pool of sub-agents                                                  *)

Statuses == {"Queued", "Running", "Completed", "Failed", "Cancelled"}
Decided == {"Completed", "Failed"}

\* A record has its fields, whatever the texts in them.
Shaped(r) ==
    r = [name |-> r.name, task |-> r.task, mode |-> r.mode, session |-> r.session,
         status |-> r.status, cancelled |-> r.cancelled, messages |-> r.messages,
         result |-> r.result, error |-> r.error]

\* A record whose run is where says: it is not decided before its run is
\* over, and a decision comes with its reason.
RecordOK(r, where) ==
    /\ Shaped(r)
    /\ r.status \in Statuses
    /\ where \in {"made", "live", "over"}
    /\ where # "over" => r.status \notin Decided
    /\ r.status = "Cancelled" => r.cancelled
    /\ r.status = "Completed" => \E text : r.result = <<text>> /\ text # NoText
    /\ r.status = "Failed" => r.error # <<>>

\* A history of told statuses that the record does not contradict.
AgreesWith(history, r) ==
    /\ history \in Seq(Statuses)
    /\ \A i, j \in DOMAIN history : i < j =>
          /\ history[i] \in Decided => history[j] = history[i]
          /\ history[i] = "Cancelled" => history[j] \notin Decided
    /\ \A i \in DOMAIN history :
          /\ history[i] \in Decided => r.status = history[i]
          /\ history[i] = "Cancelled" => r.cancelled /\ r.status \notin Decided

VerdictOK(v) ==
    \A i \in DOMAIN v :
        /\ IsTerminal(v[i].status)
        /\ v[i].status = "Completed" => v[i].result # <<>> /\ v[i].preview # NoText
        /\ v[i].status = "Failed" => v[i].error # <<>>

PoolTypeOK ==
    /\ DOMAIN records \subseteq PoolIds
    /\ records = [a \in DOMAIN records |-> records[a]]
    /\ at \in [PoolIds -> {"none", "made", "live", "over"}]
    /\ inside \in [PoolCallers -> [does : {"nothing", "sync", "async", "wait", "poll_once"},
                                   id : PoolCallers]]
    /\ \A c \in PoolCallers : inside[c].does # "nothing" => inside[c].id \in DOMAIN records
    /\ told = [a \in PoolIds |-> told[a]]

\* The inductive invariant.
PoolInv ==
    /\ PoolTypeOK
    /\ \A a \in DOMAIN records : RecordOK(records[a], at[a]) /\ AgreesWith(told[a], records[a])
    /\ \A a \in PoolIds \ DOMAIN records : told[a] = <<>> /\ at[a] = "none"
    /\ VerdictOK(verdict)

\* A status that is told agrees with the record it was read from.
LEMMA ToldAgrees ==
    ASSUME NEW h, NEW r, NEW where, RecordOK(r, where), AgreesWith(h, r)
    PROVE  AgreesWith(Append(h, r.status), r)
<1>1. h \in Seq(Statuses) /\ r.status \in Statuses
  BY DEF RecordOK, AgreesWith
<1>2. /\ Append(h, r.status) \in Seq(Statuses)
      /\ \A i \in DOMAIN Append(h, r.status) :
            \/ i \in DOMAIN h /\ Append(h, r.status)[i] = h[i]
            \/ i = Len(h) + 1 /\ Append(h, r.status)[i] = r.status
      /\ \A i \in DOMAIN h : ~ (Len(h) + 1 < i)
  BY <1>1
<1>3. ~ (Len(h) + 1 < Len(h) + 1)
  BY <1>1
<1> DEFINE n == Len(h) + 1
           g == Append(h, r.status)
<1> HIDE DEF n, g
<1>4. /\ g \in Seq(Statuses)
      /\ \A i \in DOMAIN g : \/ i \in DOMAIN h /\ g[i] = h[i]
                             \/ i = n /\ g[i] = r.status
      /\ \A i \in DOMAIN h : ~ (n < i)
      /\ ~ (n < n)
  BY <1>2, <1>3 DEF n, g
<1>5. AgreesWith(g, r)
  BY <1>4 DEF AgreesWith, RecordOK, Decided
<1> QED
  BY <1>5 DEF g

\* mark_running: the run has not ended, so that nothing was decided.
LEMMA RunningAgrees ==
    ASSUME NEW h, NEW r, RecordOK(r, "made"), AgreesWith(h, r)
    PROVE  LET q == [r EXCEPT !.status = "Running"]
           IN  RecordOK(q, "live") /\ AgreesWith(h, q)
<1> DEFINE q == [r EXCEPT !.status = "Running"]
<1>1. Shaped(q) /\ q.status = "Running" /\ q.cancelled = r.cancelled
  BY DEF RecordOK, Shaped
<1> HIDE DEF q
<1>2. RecordOK(q, "live") /\ AgreesWith(h, q)
  BY <1>1 DEF RecordOK, AgreesWith, Decided, Statuses
<1> QED
  BY <1>2 DEF q

\* mark_completed and mark_failed: the flag of a cancelled record wins.
LEMMA EndedAgrees ==
    ASSUME NEW h, NEW r, NEW where \in {"made", "live"}, NEW ok \in BOOLEAN, NEW text,
           ok => text # NoText, RecordOK(r, where), AgreesWith(h, r)
    PROVE  RecordOK(Ended(r, ok, text), "over") /\ AgreesWith(h, Ended(r, ok, text))
<1> DEFINE q == Ended(r, ok, text)
<1>1. /\ Shaped(q) /\ q.cancelled = r.cancelled
      /\ q.status = IF r.cancelled THEN "Cancelled" ELSE IF ok THEN "Completed" ELSE "Failed"
      /\ ok => q.result = <<text>>
      /\ ~ ok => q.error = <<text>>
  BY DEF RecordOK, Shaped, Ended
<1> HIDE DEF q
<1>2. <<text>> # <<>>
  OBVIOUS
<1>3. RecordOK(q, "over")
  BY <1>1, <1>2 DEF RecordOK, Decided, Statuses
<1>4. AgreesWith(h, q)
  BY <1>1 DEF RecordOK, AgreesWith, Decided, Statuses
<1> QED
  BY <1>3, <1>4 DEF q

\* A cancellation leaves a terminal record as it is, but for the flag.
LEMMA CancelAgrees ==
    ASSUME NEW h, NEW r, NEW where, RecordOK(r, where), AgreesWith(h, r)
    PROVE  RecordOK(CancelledRecord(r), where) /\ AgreesWith(h, CancelledRecord(r))
<1> DEFINE q == CancelledRecord(r)
<1>1. /\ Shaped(q) /\ q.cancelled = TRUE
      /\ q.status = IF IsTerminal(r.status) THEN r.status ELSE "Cancelled"
      /\ q.result = r.result /\ q.error = r.error
  <2>1. q = [r EXCEPT !.cancelled = TRUE,
                      !.status = IF IsTerminal(r.status) THEN r.status ELSE "Cancelled"]
    BY DEF CancelledRecord
  <2> DEFINE status == IF IsTerminal(r.status) THEN r.status ELSE "Cancelled"
  <2> HIDE DEF q, status
  <2>2. q = [r EXCEPT !.cancelled = TRUE, !.status = status]
    BY <2>1 DEF status
  <2>3. Shaped(q) /\ q.cancelled = TRUE /\ q.status = status
        /\ q.result = r.result /\ q.error = r.error
    BY <2>2 DEF RecordOK, Shaped
  <2> QED
    BY <2>3 DEF status
<1> HIDE DEF q
<1>2. RecordOK(q, where)
  BY <1>1 DEF RecordOK, Decided, Statuses, IsTerminal
<1>3. AgreesWith(h, q)
  BY <1>1 DEF RecordOK, AgreesWith, Decided, Statuses, IsTerminal
<1> QED
  BY <1>2, <1>3 DEF q

\* A message changes nothing that a status tells.
LEMMA MessageAgrees ==
    ASSUME NEW h, NEW r, NEW where, NEW m, RecordOK(r, where), AgreesWith(h, r)
    PROVE  LET q == [r EXCEPT !.messages = m]
           IN  RecordOK(q, where) /\ AgreesWith(h, q)
<1> DEFINE q == [r EXCEPT !.messages = m]
<1>1. /\ Shaped(q) /\ q.cancelled = r.cancelled /\ q.status = r.status
      /\ q.result = r.result /\ q.error = r.error
  BY DEF RecordOK, Shaped
<1> HIDE DEF q
<1>2. RecordOK(q, where) /\ AgreesWith(h, q)
  BY <1>1 DEF RecordOK, AgreesWith
<1> QED
  BY <1>2 DEF q

\* The picture of a terminal record shows the reason of its verdict.
LEMMA PictureOK ==
    ASSUME NEW r, NEW where, RecordOK(r, where), IsTerminal(r.status)
    PROVE  VerdictOK(<<Picture(r, TRUE, TRUE)>>)
<1> DEFINE p == Picture(r, TRUE, TRUE)
<1>1. /\ p.status = r.status /\ p.result = r.result /\ p.error = r.error
      /\ p.preview = IF r.result = <<>> THEN NoText ELSE Preview(r.result[1])
  BY DEF Picture
<1>2. ASSUME NEW text, text # NoText
      PROVE  Preview(text) # NoText
  <2>1. \A s : Append(SubSeq(text, 1, MaxWords), s) # <<>>
    BY PoolAssumption
  <2> QED
    BY <1>2, <2>1 DEF Preview, NoText
<1> HIDE DEF p
<1>3. r.status = "Completed" => p.result # <<>> /\ p.preview # NoText
  <2>1. SUFFICES ASSUME NEW text, r.result = <<text>>, text # NoText
                 PROVE  p.result # <<>> /\ p.preview # NoText
    BY DEF RecordOK
  <2>2. r.result # <<>> /\ r.result[1] = text
    BY <2>1
  <2> QED
    BY <1>1, <1>2, <2>1, <2>2
<1>4. \A i \in DOMAIN <<p>> : <<p>>[i] = p
  OBVIOUS
<1>5. VerdictOK(<<p>>)
  BY <1>1, <1>3, <1>4 DEF VerdictOK, RecordOK
<1> QED
  BY <1>5 DEF p

\* What an answer tells agrees with the records it was read from.
LEMMA TellKeeps ==
    ASSUME NEW ids, NEW rs, NEW a \in PoolIds, NEW where, Tell(ids, rs),
           RecordOK(rs[a], where), AgreesWith(told[a], rs[a])
    PROVE  AgreesWith(told'[a], rs[a])
<1>1. told'[a] = told[a] \/ told'[a] = Append(told[a], rs[a].status)
  BY DEF Tell
<1> QED
  BY <1>1, ToldAgrees

\* An answer tells nothing of a sub-agent that it does not show.
LEMMA TellNothing ==
    ASSUME NEW ids, NEW rs, Tell(ids, rs)
    PROVE  /\ told' = [a \in PoolIds |-> told'[a]]
           /\ \A a \in PoolIds \ ids : told'[a] = told[a]
BY DEF Tell

\* Steps that change neither a record nor where a run is: they tell, or not.
LEMMA AnswerStep ==
    ASSUME PoolInv, UNCHANGED <<records, at>>,
           told' = told \/ (\E ids \in SUBSET DOMAIN records : Tell(ids, records)),
           verdict' = verdict \/ VerdictOK(verdict'),
           inside' \in [PoolCallers -> [does : {"nothing", "sync", "async", "wait", "poll_once"},
                                        id : PoolCallers]],
           \A c \in PoolCallers : inside'[c].does # "nothing" => inside'[c].id \in DOMAIN records
    PROVE  PoolInv'
<1>1. VerdictOK(verdict)'
  BY DEF PoolInv, VerdictOK
<1>2. CASE told' = told
  BY <1>1, <1>2 DEF PoolInv, PoolTypeOK
<1>3. ASSUME NEW ids \in SUBSET DOMAIN records, Tell(ids, records)
      PROVE  PoolInv'
  <2>1. PoolTypeOK'
    BY <1>3, TellNothing DEF PoolInv, PoolTypeOK
  <2>2. ASSUME NEW a \in DOMAIN records
        PROVE  RecordOK(records[a], at[a]) /\ AgreesWith(told'[a], records[a])
    BY <1>3, TellKeeps DEF PoolInv, PoolTypeOK
  <2>3. \A a \in PoolIds \ DOMAIN records : told'[a] = <<>> /\ at[a] = "none"
    BY <1>3, TellNothing DEF PoolInv
  <2> QED
    BY <1>1, <2>1, <2>2, <2>3 DEF PoolInv
<1> QED
  BY <1>2, <1>3

\* Steps that change one record and where its run is, and tell nothing.
LEMMA RecordStep ==
    ASSUME PoolInv, NEW a \in DOMAIN records, NEW r, NEW where,
           records' = [records EXCEPT ![a] = r], at' = [at EXCEPT ![a] = where],
           RecordOK(r, where), AgreesWith(told[a], r),
           UNCHANGED <<told, verdict>>,
           inside' \in [PoolCallers -> [does : {"nothing", "sync", "async", "wait", "poll_once"},
                                        id : PoolCallers]],
           \A c \in PoolCallers : inside'[c].does # "nothing" => inside'[c].id \in DOMAIN records
    PROVE  PoolInv'
<1>1. /\ DOMAIN records' = DOMAIN records /\ a \in PoolIds
      /\ records' = [b \in DOMAIN records' |-> records'[b]]
      /\ records'[a] = r /\ at'[a] = where
      /\ \A b \in DOMAIN records \ {a} : records'[b] = records[b] /\ at'[b] = at[b]
      /\ \A b \in PoolIds \ {a} : at'[b] = at[b]
  BY DEF PoolInv, PoolTypeOK
<1>2. PoolTypeOK'
  BY <1>1 DEF PoolInv, PoolTypeOK, RecordOK
<1>3. \A b \in DOMAIN records' : RecordOK(records'[b], at'[b]) /\ AgreesWith(told'[b], records'[b])
  BY <1>1 DEF PoolInv
<1>4. \A b \in PoolIds \ DOMAIN records' : told'[b] = <<>> /\ at'[b] = "none"
  BY <1>1 DEF PoolInv
<1> QED
  BY <1>2, <1>3, <1>4 DEF PoolInv

\* The run of a sub-agent ends with something to say for itself.
LEMMA ResultHasText ==
    ASSUME NEW events
    PROVE  ResultOf(events).ok \in BOOLEAN /\ (ResultOf(events).ok => ResultOf(events).text # NoText)
<1> DEFINE ends == SelectSeq(events, LAMBDA e : e.type \in {"finish", "error"})
           last == ends[Len(ends)]
           said == SaidInFinish(last.messages)
<1> HIDE DEF ends, last, said
<1>1. ResultOf(events) =
        CASE ends = <<>>                             -> [ok |-> FALSE, text |-> <<"no_terminal_event">>]
          [] last.type = "error"                     -> [ok |-> FALSE, text |-> last.text]
          [] last.status \in {"cancelled", "failed"} -> [ok |-> FALSE, text |-> <<last.status>>]
          [] said = NoText                           -> [ok |-> TRUE, text |-> <<last.status>>]
          [] OTHER                                   -> [ok |-> TRUE, text |-> said]
  BY DEF ResultOf, ends, last, said
<1>2. <<last.status>> # NoText
  BY DEF NoText
<1> QED
  BY <1>1, <1>2

\* A spawn makes a record that nobody has been told of.
LEMMA SpawnKeeps ==
    ASSUME PoolInv, NEW c \in PoolCallers, NEW a \in PoolIds, NEW args, SpawnSubagent(c, a, args)
    PROVE  PoolInv'
<1>1. CASE args.task = ""
  <2>1. UNCHANGED <<records, at, inside, told, verdict>>
    BY <1>1 DEF SpawnSubagent
  <2> QED
    BY <2>1 DEF PoolInv, PoolTypeOK, VerdictOK
<1>2. CASE args.task # ""
  <2> DEFINE r == NewRecord(args, SessionOfRun(c))
             q == [does |-> ModeFrom(args.mode), id |-> a]
  <2>1. /\ Shaped(r) /\ r.status = "Queued" /\ r.cancelled = FALSE
    BY DEF NewRecord, Shaped
  <2>2. q \in [does : {"sync", "async"}, id : PoolCallers]
    BY DEF ModeFrom, PoolCallers
  <2>3. q.id = a
    OBVIOUS
  <2> HIDE DEF r, q
  <2>4. /\ a \notin DOMAIN records
        /\ records' = [x \in DOMAIN records \cup {a} |-> IF x = a THEN r ELSE records[x]]
        /\ at' = [at EXCEPT ![a] = "made"]
        /\ inside' = [inside EXCEPT ![c] = q]
        /\ UNCHANGED <<told, verdict>>
    BY <1>2 DEF SpawnSubagent, r, q
  <2>5. told[a] = <<>>
    BY <2>4 DEF PoolInv
  <2>6. RecordOK(r, "made") /\ AgreesWith(told[a], r)
    BY <2>1, <2>5 DEF RecordOK, AgreesWith, Statuses, Decided
  <2>7. /\ DOMAIN records' = DOMAIN records \cup {a}
        /\ records' = [x \in DOMAIN records' |-> records'[x]]
        /\ at' \in [PoolIds -> {"none", "made", "live", "over"}]
    BY <2>4 DEF PoolInv, PoolTypeOK
  <2>8. /\ inside' \in [PoolCallers -> [does : {"nothing", "sync", "async", "wait", "poll_once"},
                                       id : PoolCallers]]
        /\ \A d \in PoolCallers : inside'[d].does # "nothing" => inside'[d].id \in DOMAIN records'
    BY <2>2, <2>3, <2>4, <2>7 DEF PoolInv, PoolTypeOK
  <2>9. PoolTypeOK'
    BY <2>4, <2>7, <2>8 DEF PoolInv, PoolTypeOK
  <2>10. \A b \in DOMAIN records' : RecordOK(records'[b], at'[b]) /\ AgreesWith(told'[b], records'[b])
    <3>1. records'[a] = r /\ at'[a] = "made" /\ told'[a] = told[a]
      BY <2>4, <2>7 DEF PoolInv, PoolTypeOK
    <3>2. \A b \in DOMAIN records : records'[b] = records[b] /\ at'[b] = at[b] /\ told'[b] = told[b]
      BY <2>4, <2>7 DEF PoolInv, PoolTypeOK
    <3> QED
      BY <2>6, <2>7, <3>1, <3>2 DEF PoolInv
  <2>11. \A b \in PoolIds \ DOMAIN records' : told'[b] = <<>> /\ at'[b] = "none"
    BY <2>4, <2>7 DEF PoolInv, PoolTypeOK
  <2> QED
    BY <2>4, <2>9, <2>10, <2>11 DEF PoolInv, VerdictOK
<1> QED
  BY <1>1, <1>2

\* The worker takes the record up.
LEMMA MarkRunningKeeps ==
    ASSUME PoolInv, NEW a \in PoolIds, MarkRunningInPool(a)
    PROVE  PoolInv'
<1> DEFINE q == [records[a] EXCEPT !.status = "Running"]
<1>1. a \in DOMAIN records /\ at[a] = "made"
  BY DEF PoolInv, MarkRunningInPool
<1>2. RecordOK(q, "live") /\ AgreesWith(told[a], q)
  BY <1>1, RunningAgrees DEF PoolInv
<1>3. records' = [records EXCEPT ![a] = q]
  BY DEF MarkRunningInPool
<1> HIDE DEF q
<1>4. /\ at' = [at EXCEPT ![a] = "live"]
      /\ UNCHANGED <<inside, told, verdict>>
  BY DEF MarkRunningInPool
<1> QED
  BY <1>1, <1>2, <1>3, <1>4, RecordStep DEF PoolInv, PoolTypeOK

\* No thread for an async worker: its record stays as it is.
LEMMA ThreadFailsKeeps ==
    ASSUME PoolInv, NEW c \in PoolCallers, ThreadFails(c)
    PROVE  PoolInv'
<1> DEFINE a == inside[c].id
           r == records[a]
<1>1. a \in DOMAIN records /\ at[a] = "made"
  BY DEF ThreadFails, PoolInv, PoolTypeOK
<1>2. RecordOK(r, "over") /\ AgreesWith(told[a], r)
  BY <1>1 DEF PoolInv, RecordOK
<1>3. /\ records' = [records EXCEPT ![a] = r]
      /\ at' = [at EXCEPT ![a] = "over"]
      /\ inside' = [inside EXCEPT ![c] = NotInside]
      /\ UNCHANGED <<told, verdict>>
  BY DEF ThreadFails, PoolInv, PoolTypeOK
<1>4. NotInside \in [does : {"nothing"}, id : PoolCallers]
  BY DEF NotInside, PoolCallers
<1>5. /\ inside' \in [PoolCallers -> [does : {"nothing", "sync", "async", "wait", "poll_once"},
                                     id : PoolCallers]]
      /\ \A d \in PoolCallers : inside'[d].does # "nothing" => inside'[d].id \in DOMAIN records
  BY <1>3, <1>4 DEF PoolInv, PoolTypeOK
<1> HIDE DEF a, r
<1> QED
  BY <1>1, <1>2, <1>3, <1>5, RecordStep

\* No runtime for it: the thread records a failure.
LEMMA RuntimeFailsKeeps ==
    ASSUME PoolInv, NEW a \in PoolIds, RuntimeFails(a)
    PROVE  PoolInv'
<1> DEFINE q == Ended(records[a], FALSE, <<"no_runtime">>)
<1>1. a \in DOMAIN records /\ at[a] = "made"
  BY DEF PoolInv, RuntimeFails
<1>2. RecordOK(q, "over") /\ AgreesWith(told[a], q)
  BY <1>1, EndedAgrees DEF PoolInv
<1>3. records' = [records EXCEPT ![a] = q]
  BY DEF RuntimeFails
<1> HIDE DEF q
<1>4. /\ at' = [at EXCEPT ![a] = "over"]
      /\ UNCHANGED <<inside, told, verdict>>
  BY DEF RuntimeFails
<1> QED
  BY <1>1, <1>2, <1>3, <1>4, RecordStep DEF PoolInv, PoolTypeOK

\* The run of a sub-agent ends, and its record with it.
LEMMA ChildEndedKeeps ==
    ASSUME PoolInv, NEW a \in PoolIds, NEW events, ChildEnded(a, events)
    PROVE  PoolInv'
<1> DEFINE ok == ResultOf(events).ok
           text == ResultOf(events).text
           q == Ended(records[a], ok, text)
<1>1. a \in DOMAIN records /\ at[a] = "live"
  BY DEF PoolInv, ChildEnded
<1>2. ok \in BOOLEAN /\ (ok => text # NoText)
  BY ResultHasText
<1>3. /\ records' = [records EXCEPT ![a] = q]
      /\ at' = [at EXCEPT ![a] = "over"]
      /\ inside' = [d \in PoolCallers |-> IF inside[d] = [does |-> "sync", id |-> a]
                                          THEN [does |-> "poll_once", id |-> a] ELSE inside[d]]
      /\ UNCHANGED <<told, verdict>>
  BY DEF ChildEnded
<1> HIDE DEF ok, text
<1>4. RecordOK(q, "over") /\ AgreesWith(told[a], q)
  BY <1>1, <1>2, EndedAgrees DEF PoolInv
<1>5. /\ inside' \in [PoolCallers -> [does : {"nothing", "sync", "async", "wait", "poll_once"},
                                     id : PoolCallers]]
      /\ \A d \in PoolCallers : inside'[d].does # "nothing" => inside'[d].id \in DOMAIN records
  BY <1>1, <1>3 DEF PoolInv, PoolTypeOK, PoolCallers
<1> HIDE DEF q
<1> QED
  BY <1>1, <1>3, <1>4, <1>5, RecordStep

\* A message is kept in the record and the record shown.
LEMMA MessageKeeps ==
    ASSUME PoolInv, NEW c \in PoolCallers, NEW a \in PoolIds, SubagentMessage(c, a)
    PROVE  PoolInv'
<1> DEFINE m == Append(records[a].messages, IF c = a THEN "child_to_parent" ELSE "parent_to_child")
           q == [records[a] EXCEPT !.messages = m]
           rs == [records EXCEPT ![a] = q]
<1>1. UNCHANGED <<at, inside, verdict>>
  BY DEF SubagentMessage
<1>2. CASE a \notin DOMAIN records
  <2>1. UNCHANGED <<records, told>>
    BY <1>2 DEF SubagentMessage
  <2> QED
    BY <1>1, <2>1 DEF PoolInv, PoolTypeOK, VerdictOK
<1>3. CASE a \in DOMAIN records
  <2>1. records' = rs /\ Tell({a}, rs)
    BY <1>3 DEF SubagentMessage
  <2>2. RecordOK(q, at[a]) /\ AgreesWith(told[a], q)
    BY <1>3, MessageAgrees DEF PoolInv
  <2> HIDE DEF q
  <2>3. /\ DOMAIN rs = DOMAIN records /\ rs = [b \in DOMAIN rs |-> rs[b]] /\ a \in PoolIds
        /\ rs[a] = q /\ \A b \in DOMAIN records \ {a} : rs[b] = records[b]
    BY <1>3 DEF PoolInv, PoolTypeOK
  <2> HIDE DEF rs
  <2>4. AgreesWith(told'[a], q)
    BY <2>1, <2>2, <2>3, TellKeeps
  <2>5. told' = [b \in PoolIds |-> told'[b]] /\ \A b \in PoolIds \ {a} : told'[b] = told[b]
    BY <2>1, TellNothing
  <2>6. PoolTypeOK'
    BY <1>1, <2>1, <2>3, <2>5 DEF PoolInv, PoolTypeOK
  <2>7. \A b \in DOMAIN records' : RecordOK(records'[b], at'[b]) /\ AgreesWith(told'[b], records'[b])
    BY <1>1, <2>1, <2>2, <2>3, <2>4, <2>5 DEF PoolInv, PoolTypeOK
  <2>8. \A b \in PoolIds \ DOMAIN records' : told'[b] = <<>> /\ at'[b] = "none"
    BY <1>1, <1>3, <2>1, <2>3, <2>5 DEF PoolInv
  <2> QED
    BY <1>1, <2>6, <2>7, <2>8 DEF PoolInv, VerdictOK
<1> QED
  BY <1>2, <1>3

\* A cancellation marks the records it is about and shows all of them.
LEMMA CancelKeeps ==
    ASSUME PoolInv, NEW c \in PoolCallers, NEW ids \in SUBSET PoolIds, SubagentCancel(c, ids)
    PROVE  PoolInv'
<1> DEFINE rs == [a \in DOMAIN records |-> IF a \in ids THEN CancelledRecord(records[a]) ELSE records[a]]
<1>1. UNCHANGED <<at, inside, verdict>>
  BY DEF SubagentCancel
<1>2. CASE ~ (ids \subseteq DOMAIN records)
  <2>1. UNCHANGED <<records, told>>
    BY <1>2 DEF SubagentCancel
  <2> QED
    BY <1>1, <2>1 DEF PoolInv, PoolTypeOK, VerdictOK
<1>3. CASE ids \subseteq DOMAIN records
  <2>1. records' = rs /\ Tell(DOMAIN records, rs)
    BY <1>3 DEF SubagentCancel
  <2>2. ASSUME NEW a \in DOMAIN records
        PROVE  RecordOK(rs[a], at[a]) /\ AgreesWith(told[a], rs[a])
    <3>1. RecordOK(records[a], at[a]) /\ AgreesWith(told[a], records[a])
      BY DEF PoolInv
    <3>2. CASE a \in ids
      BY <3>1, <3>2, CancelAgrees
    <3>3. CASE a \notin ids
      BY <3>1, <3>3
    <3> QED
      BY <3>2, <3>3
  <2>3. DOMAIN rs = DOMAIN records /\ rs = [b \in DOMAIN rs |-> rs[b]]
    OBVIOUS
  <2> HIDE DEF rs
  <2>4. \A a \in DOMAIN records : AgreesWith(told'[a], rs[a])
    BY <2>1, <2>2, TellKeeps DEF PoolInv, PoolTypeOK
  <2>5. /\ told' = [b \in PoolIds |-> told'[b]]
        /\ \A b \in PoolIds \ DOMAIN records : told'[b] = told[b]
    BY <2>1, TellNothing
  <2>6. PoolTypeOK'
    BY <1>1, <2>1, <2>3, <2>5 DEF PoolInv, PoolTypeOK
  <2>7. \A b \in DOMAIN records' : RecordOK(records'[b], at'[b]) /\ AgreesWith(told'[b], records'[b])
    BY <1>1, <2>1, <2>2, <2>3, <2>4
  <2>8. \A b \in PoolIds \ DOMAIN records' : told'[b] = <<>> /\ at'[b] = "none"
    BY <1>1, <2>1, <2>3, <2>5 DEF PoolInv
  <2> QED
    BY <1>1, <2>6, <2>7, <2>8 DEF PoolInv, VerdictOK
<1> QED
  BY <1>2, <1>3

\* The answers that only show records.
LEMMA LookKeeps ==
    ASSUME PoolInv, NEW ids \in SUBSET DOMAIN records, Tell(ids, records),
           UNCHANGED <<records, at, inside, verdict>>
    PROVE  PoolInv'
BY AnswerStep DEF PoolInv, PoolTypeOK

\* A caller is answered and goes on, by whichever of the four ways.
LEMMA ReturnKeeps ==
    ASSUME PoolInv, NEW c \in PoolCallers, inside' = [inside EXCEPT ![c] = NotInside],
           UNCHANGED <<records, at>>,
           told' = told \/ (\E ids \in SUBSET DOMAIN records : Tell(ids, records)),
           verdict' = verdict \/ VerdictOK(verdict')
    PROVE  PoolInv'
<1>1. NotInside \in [does : {"nothing"}, id : PoolCallers] /\ NotInside.does = "nothing"
  BY DEF NotInside, PoolCallers
<1>2. /\ inside' \in [PoolCallers -> [does : {"nothing", "sync", "async", "wait", "poll_once"},
                                     id : PoolCallers]]
      /\ \A d \in PoolCallers : inside'[d].does # "nothing" => inside'[d].id \in DOMAIN records
  BY <1>1 DEF PoolInv, PoolTypeOK
<1> QED
  BY <1>2, AnswerStep

\* A wait that is answered: the record is terminal.
LEMMA WaitKeeps ==
    ASSUME PoolInv, NEW c \in PoolCallers, WaitAnswers(c)
    PROVE  PoolInv'
<1> DEFINE a == inside[c].id
<1>1. a \in DOMAIN records /\ IsTerminal(records[a].status)
  BY DEF WaitAnswers, PoolInv, PoolTypeOK
<1>2. VerdictOK(<<Picture(records[a], TRUE, TRUE)>>)
  BY <1>1, PictureOK DEF PoolInv
<1>3. /\ verdict' = <<Picture(records[a], TRUE, TRUE)>>
      /\ Tell({a}, records)
      /\ inside' = [inside EXCEPT ![c] = NotInside]
      /\ UNCHANGED <<records, at>>
  BY DEF WaitAnswers
<1> HIDE DEF a
<1>4. VerdictOK(verdict')
  BY <1>2, <1>3
<1>5. {a} \in SUBSET DOMAIN records
  BY <1>1
<1> QED
  BY <1>3, <1>4, <1>5, ReturnKeeps

\* A caller begins to wait for a sub-agent that is there.
LEMMA WaitBegins ==
    ASSUME PoolInv, NEW c \in PoolCallers, NEW a \in PoolIds, SubagentWait(c, a)
    PROVE  PoolInv'
<1>1. /\ inside' \in [PoolCallers -> [does : {"nothing", "sync", "async", "wait", "poll_once"},
                                     id : PoolCallers]]
      /\ \A d \in PoolCallers : inside'[d].does # "nothing" => inside'[d].id \in DOMAIN records
  BY DEF SubagentWait, PoolInv, PoolTypeOK, PoolCallers
<1>2. UNCHANGED <<records, at, told, verdict>>
  BY DEF SubagentWait
<1> QED
  BY <1>1, <1>2, AnswerStep

\* The invariant is inductive.
LEMMA PoolStep ==
    PoolInv /\ [PoolNext]_poolVars => PoolInv'
<1> SUFFICES ASSUME PoolInv, [PoolNext]_poolVars PROVE PoolInv'
  OBVIOUS
<1>1. ASSUME NEW c \in PoolCallers, NEW a \in PoolIds,
             \/ \E args \in SpawnArgs : SpawnSubagent(c, a, args)
             \/ SubagentMessage(c, a) \/ SubagentWait(c, a)
      PROVE  PoolInv'
  BY <1>1, SpawnKeeps, MessageKeeps, WaitBegins
<1>2. ASSUME NEW c \in PoolCallers, NEW ids \in SUBSET PoolIds,
             SubagentStatus(c, ids) \/ SubagentCancel(c, ids)
      PROVE  PoolInv'
  <2>1. CASE SubagentStatus(c, ids)
    <3>1. ids \cap DOMAIN records \in SUBSET DOMAIN records
      OBVIOUS
    <3> QED
      BY <2>1, <3>1, LookKeeps DEF SubagentStatus
  <2> QED
    BY <1>2, <2>1, CancelKeeps
<1>3. ASSUME NEW c \in PoolCallers,
             SpawnAnswers(c) \/ ThreadFails(c) \/ WaitAnswers(c) \/ WaitTimesOut(c)
      PROVE  PoolInv'
  <2>1. CASE SpawnAnswers(c)
    <3>1. DOMAIN records \in SUBSET DOMAIN records
      OBVIOUS
    <3> QED
      BY <2>1, <3>1, ReturnKeeps DEF SpawnAnswers
  <2>2. CASE WaitTimesOut(c)
    BY <2>2, ReturnKeeps DEF WaitTimesOut
  <2> QED
    BY <1>3, <2>1, <2>2, ThreadFailsKeeps, WaitKeeps
<1>4. ASSUME NEW a \in PoolIds,
             \/ MarkRunningInPool(a) \/ RuntimeFails(a)
             \/ \E events \in ChildEnds : ChildEnded(a, events)
      PROVE  PoolInv'
  BY <1>4, MarkRunningKeeps, RuntimeFailsKeeps, ChildEndedKeeps
<1>5. ASSUME NEW filter, AgentSubagents(filter)
      PROVE  PoolInv'
  <2>1. Matching(filter) \in SUBSET DOMAIN records
    BY DEF Matching
  <2> QED
    BY <1>5, <2>1, LookKeeps DEF AgentSubagents
<1>6. CASE UNCHANGED poolVars
  BY <1>6 DEF poolVars, PoolInv, PoolTypeOK, VerdictOK
<1> QED
  BY <1>1, <1>2, <1>3, <1>4, <1>5, <1>6 DEF PoolNext

\* The invariant holds at first: the pool is empty.
LEMMA PoolStarts ==
    PoolInit => PoolInv
<1> SUFFICES ASSUME PoolInit PROVE PoolInv
  OBVIOUS
<1>1. NotInside \in [does : {"nothing"}, id : PoolCallers] /\ NotInside.does = "nothing"
  BY DEF NotInside, PoolCallers
<1>2. PoolTypeOK
  BY <1>1 DEF PoolInit, PoolTypeOK
<1> QED
  BY <1>2 DEF PoolInit, PoolInv, VerdictOK

\* What was told and what the record says now never contradict each other.
LEMMA PoolSuffices ==
    PoolInv => VerdictsAgree
<1> SUFFICES ASSUME PoolInv PROVE VerdictsAgree
  OBVIOUS
<1>1. VerdictOK(verdict)
  BY DEF PoolInv
<1>2. ASSUME NEW a \in DOMAIN records
      PROVE  LET known == Append(told[a], records[a].status) IN
             \A i, j \in DOMAIN known : i < j =>
                 /\ known[i] \in {"Completed", "Failed"} => known[j] = known[i]
                 /\ known[i] = "Cancelled" => known[j] \notin {"Completed", "Failed"}
  <2>1. AgreesWith(Append(told[a], records[a].status), records[a])
    BY ToldAgrees DEF PoolInv
  <2> QED
    BY <2>1 DEF AgreesWith, Decided
<1> QED
  BY <1>1, <1>2 DEF VerdictsAgree, VerdictOK

\* However the workers of the sub-agents, those who cancel and those who ask
\* interleave: what the pool once said of a sub-agent that ended is never
\* taken back, and a wait is answered with a verdict and its reason.
THEOREM PoolVerdictsAgree == PoolSpec => []VerdictsAgree
<1> QED
  BY PoolStarts, PoolStep, PoolSuffices, PTL DEF PoolSpec

---------------------------------------------------------------------------
(* The hooks of a run                                                      *)

\* A job has its fields, whatever hook it is of.
JobOK(r) ==
    /\ r = [hook |-> r.hook, expired |-> r.expired, left |-> r.left]
    /\ r.expired \in BOOLEAN

JobsOK ==
    /\ \E S : jobs \in Seq(S)
    /\ \A id \in DOMAIN jobs : JobOK(jobs[id])

\* An id is queued once, is no longer queued when the worker has it, and has
\* begun nothing while it is queued; what has begun is a job.
QueueOK ==
    /\ queue \in Seq(DOMAIN jobs)
    /\ \A i, j \in DOMAIN queue : queue[i] = queue[j] => i = j
    /\ \A i \in DOMAIN queue : worker.job # queue[i] /\ \A b \in begun : b[1] # queue[i]
    /\ \A b \in begun : b[1] \in DOMAIN jobs

\* The worker has a job unless it is free, and calls execute last.
WorkerOK ==
    /\ worker = [at |-> worker.at, job |-> worker.job, outputs |-> worker.outputs]
    /\ worker.at \in {"free", "ready", "script", "returned", "execute"}
    /\ worker.job = 0 \/ worker.job \in DOMAIN jobs
    /\ worker.at # "free" => worker.job # 0
    /\ worker.at = "ready" => <<worker.job, "script">> \notin begun
    /\ worker.at \in {"ready", "script", "returned"} => <<worker.job, "execute">> \notin begun

\* A caller gives up only when the deadline has passed, so that what it left
\* begins no further phase.
LeftOK ==
    \A id \in DOMAIN jobs :
        /\ jobs[id].left # "no" => jobs[id].expired
        /\ jobs[id].left = "queued" => <<id, "script">> \notin begun
        /\ jobs[id].left = "script" => <<id, "execute">> \notin begun

\* The inductive invariant.
HookInv == JobsOK /\ QueueOK /\ WorkerOK /\ LeftOK

\* Steps that touch neither the jobs nor the worker.
LEMMA HookFrame ==
    ASSUME HookInv, UNCHANGED <<queue, jobs, worker, begun>>
    PROVE  HookInv'
BY DEF HookInv, JobsOK, QueueOK, WorkerOK, LeftOK

\* A job changes in a way that keeps LeftOK: the rest speaks of its id only.
LEMMA JobChanges ==
    ASSUME HookInv, NEW id \in DOMAIN jobs, NEW hook, NEW left, NEW j,
           j = [hook |-> hook, expired |-> TRUE, left |-> left],
           left = "queued" => <<id, "script">> \notin begun,
           left = "script" => <<id, "execute">> \notin begun,
           jobs' = [jobs EXCEPT ![id] = j],
           UNCHANGED <<queue, worker, begun>>
    PROVE  HookInv'
<1>1. DOMAIN jobs' = DOMAIN jobs /\ jobs'[id] = j /\ \A i \in DOMAIN jobs \ {id} : jobs'[i] = jobs[i]
  BY DEF HookInv, JobsOK
<1>2. JobsOK'
  <2>1. PICK S : jobs \in Seq(S)
    BY DEF HookInv, JobsOK
  <2>2. jobs' \in Seq(S \cup {j})
    BY <2>1
  <2>3. JobOK(j)
    BY DEF JobOK
  <2> QED
    BY <1>1, <2>2, <2>3 DEF HookInv, JobsOK
<1>3. LeftOK'
  <2>1. j.expired = TRUE /\ j.left = left
    OBVIOUS
  <2>2. ASSUME NEW i \in DOMAIN jobs
        PROVE  LET r == jobs'[i]
               IN  /\ r.left # "no" => r.expired
                   /\ r.left = "queued" => <<i, "script">> \notin begun
                   /\ r.left = "script" => <<i, "execute">> \notin begun
    <3>1. CASE i = id
      BY <1>1, <2>1, <3>1
    <3>2. CASE i # id
      BY <1>1, <3>2 DEF HookInv, LeftOK
    <3> QED
      BY <3>1, <3>2
  <2> QED
    BY <1>1, <2>2 DEF LeftOK
<1> QED
  BY <1>1, <1>2, <1>3 DEF HookInv, QueueOK, WorkerOK

\* The caller gives up: nothing further was begun for what is queued, or for
\* what runs its script.
LEMMA GiveUpKeeps ==
    ASSUME HookInv, NEW c \in HookCallers, GiveUp(c)
    PROVE  HookInv'
<1> DEFINE id == caller[c].job
           j == [jobs[id] EXCEPT !.left = Phase(id)]
<1>1. /\ jobs[id].expired
      /\ jobs' = [jobs EXCEPT ![id] = j]
      /\ UNCHANGED <<queue, worker, begun>>
  BY DEF GiveUp
<1>2. CASE id \notin DOMAIN jobs
  <2>1. jobs' = jobs
    BY <1>1, <1>2 DEF HookInv, JobsOK
  <2> QED
    BY <1>1, <2>1, HookFrame
<1>3. CASE id \in DOMAIN jobs
  <2>1. Phase(id) = "queued" => \E i \in DOMAIN queue : queue[i] = id
    BY DEF Phase, Range, HookInv, WorkerOK
  <2>2. Phase(id) = "queued" => <<id, "script">> \notin begun
    BY <2>1 DEF HookInv, QueueOK
  <2>3. Phase(id) = "script" => worker.job = id /\ worker.at = "script"
    BY DEF Phase
  <2>4. Phase(id) = "script" => <<id, "execute">> \notin begun
    BY <2>3 DEF HookInv, WorkerOK
  <2>5. j = [hook |-> jobs[id].hook, expired |-> jobs[id].expired, left |-> Phase(id)]
    BY <1>3 DEF HookInv, JobsOK, JobOK
  <2>6. jobs[id].expired = TRUE
    BY <1>1, <1>3 DEF HookInv, JobsOK, JobOK
  <2>7. j = [hook |-> jobs[id].hook, expired |-> TRUE, left |-> Phase(id)]
    BY <2>5, <2>6
  <2> HIDE DEF j, id
  <2> QED
    BY <1>1, <1>3, <2>2, <2>4, <2>7, JobChanges
<1> QED
  BY <1>2, <1>3

\* A job is queued under a number of its own.
LEMMA SendJobKeeps ==
    ASSUME HookInv, NEW c \in HookCallers, SendJob(c)
    PROVE  HookInv'
<1> DEFINE id == Len(jobs) + 1
           j == [hook |-> Head(caller[c].todo), expired |-> FALSE, left |-> "no"]
<1>1. /\ jobs' = Append(jobs, j)
      /\ queue' = Append(queue, id)
      /\ UNCHANGED <<worker, begun>>
  BY DEF SendJob
<1>2. PICK S : jobs \in Seq(S)
  BY DEF HookInv, JobsOK
<1> HIDE DEF j
<1>3. /\ jobs' \in Seq(S \cup {j})
      /\ DOMAIN jobs' = DOMAIN jobs \cup {id} /\ id \notin DOMAIN jobs
      /\ jobs'[id] = j /\ \A i \in DOMAIN jobs : jobs'[i] = jobs[i]
  BY <1>1, <1>2
<1> HIDE DEF id
<1>4. /\ queue' \in Seq(DOMAIN jobs')
      /\ \A i \in DOMAIN queue' : \/ i \in DOMAIN queue /\ queue'[i] = queue[i]
                                  \/ i = Len(queue) + 1 /\ queue'[i] = id
      /\ \A i \in DOMAIN queue : queue[i] \in DOMAIN jobs
  <2>1. queue \in Seq(DOMAIN jobs)
    BY DEF HookInv, QueueOK
  <2>2. queue \in Seq(DOMAIN jobs')
    BY <1>3, <2>1
  <2> QED
    BY <1>1, <1>3, <2>1, <2>2
<1>5. JobsOK'
  <2>1. JobOK(j)
    BY DEF JobOK, j
  <2> QED
    BY <1>3, <2>1 DEF HookInv, JobsOK
<1>a. id # 0 /\ ~ (Len(queue) + 1 \in DOMAIN queue)
  BY <1>2 DEF id, HookInv, QueueOK
<1>b. \A b \in begun : b[1] \in DOMAIN jobs
  BY DEF HookInv, QueueOK
<1>6. QueueOK'
  BY <1>a, <1>b, <1>1, <1>3, <1>4 DEF HookInv, QueueOK, WorkerOK
<1>7. WorkerOK'
  BY <1>1, <1>3 DEF HookInv, WorkerOK
<1>8. LeftOK'
  <2>1. j.left = "no"
    BY DEF j
  <2> QED
    BY <1>1, <1>3, <2>1 DEF HookInv, LeftOK
<1> QED
  BY <1>5, <1>6, <1>7, <1>8 DEF HookInv

\* A deadline passes.
LEMMA ExpireKeeps ==
    ASSUME HookInv, NEW id \in DOMAIN jobs, Expire(id)
    PROVE  HookInv'
<1> DEFINE j == [jobs[id] EXCEPT !.expired = TRUE]
<1>1. j = [hook |-> jobs[id].hook, expired |-> TRUE, left |-> jobs[id].left]
  <2> DEFINE r == jobs[id]
  <2>1. JobOK(r)
    BY DEF HookInv, JobsOK
  <2> HIDE DEF r
  <2>2. \A v : [r EXCEPT !.expired = v] = [hook |-> r.hook, expired |-> v, left |-> r.left]
    BY <2>1 DEF JobOK
  <2> QED
    BY <2>2 DEF r
<1>2. jobs' = [jobs EXCEPT ![id] = j] /\ UNCHANGED <<queue, worker, begun>>
  BY DEF Expire
<1>3. /\ jobs[id].left = "queued" => <<id, "script">> \notin begun
      /\ jobs[id].left = "script" => <<id, "execute">> \notin begun
  BY <1>1 DEF HookInv, LeftOK
<1> HIDE DEF j
<1> QED
  BY <1>1, <1>2, <1>3, JobChanges

\* The worker stops, whatever it answers.
LEMMA AnswerKeeps ==
    ASSUME HookInv, worker' = Free, UNCHANGED <<queue, jobs, begun>>
    PROVE  HookInv'
<1>1. worker' = [at |-> "free", job |-> 0, outputs |-> <<>>]
  BY DEF Free
<1>2. WorkerOK'
  BY <1>1 DEF HookInv, WorkerOK
<1>3. \A i \in DOMAIN queue : queue[i] # 0
  BY DEF HookInv, QueueOK, JobsOK
<1>4. QueueOK'
  BY <1>1, <1>3 DEF HookInv, QueueOK
<1> QED
  BY <1>2, <1>4 DEF HookInv, JobsOK, LeftOK

\* The worker takes the next job, or answers for it that its time is over.
LEMMA ReceiveJobKeeps ==
    ASSUME HookInv, ReceiveJob
    PROVE  HookInv'
<1> DEFINE id == Head(queue)
<1>1. /\ queue # <<>> /\ queue' = Tail(queue)
      /\ UNCHANGED <<jobs, begun>>
      /\ \/ worker' = [at |-> "ready", job |-> id, outputs |-> <<>>]
         \/ worker' = Free
  BY DEF ReceiveJob, Answer
<1>2. queue \in Seq(DOMAIN jobs)
  BY DEF HookInv, QueueOK
<1>3. /\ queue' \in Seq(DOMAIN jobs) /\ id \in DOMAIN jobs /\ 1 \in DOMAIN queue /\ id = queue[1]
      /\ \A i \in DOMAIN queue' : i + 1 \in DOMAIN queue /\ queue'[i] = queue[i + 1] /\ i + 1 # 1 /\ i \in Nat
  BY <1>1, <1>2
<1>4. id # 0 /\ \A i \in DOMAIN queue : queue[i] # 0
  BY <1>2, <1>3 DEF HookInv, JobsOK
<1> HIDE DEF id
<1>5. /\ \A i, j \in DOMAIN queue' : queue'[i] = queue'[j] => i = j
      /\ \A i \in DOMAIN queue' : id # queue'[i] /\ 0 # queue'[i] /\ \A b \in begun : b[1] # queue'[i]
      /\ \A b \in begun : b[1] # id
  BY <1>3, <1>4 DEF HookInv, QueueOK
<1>6. QueueOK'
  <2>1. worker'.job \in {0, id}
    BY <1>1 DEF Free
  <2> QED
    BY <1>1, <1>3, <1>5, <2>1 DEF HookInv, QueueOK
<1>7. WorkerOK'
  <2>1. <<id, "script">> \notin begun /\ <<id, "execute">> \notin begun
    BY <1>5
  <2>2. CASE worker' = Free
    BY <2>2 DEF WorkerOK, Free
  <2>3. CASE worker' = [at |-> "ready", job |-> id, outputs |-> <<>>]
    <3>1. worker'.at = "ready" /\ worker'.job = id
          /\ worker' = [at |-> worker'.at, job |-> worker'.job, outputs |-> worker'.outputs]
      BY <2>3
    <3> QED
      BY <1>1, <1>3, <1>4, <2>1, <3>1 DEF WorkerOK
  <2> QED
    BY <1>1, <2>2, <2>3
<1> QED
  BY <1>1, <1>6, <1>7 DEF HookInv, JobsOK, LeftOK

\* A phase begins only while there is time, so for nobody who has left.
LEMMA BeginKeeps ==
    ASSUME HookInv, UNCHANGED <<queue, jobs>>,
           NEW phase \in {"script", "execute"},
           worker.at = IF phase = "script" THEN "ready" ELSE "returned",
           BeginPhase(phase)
    PROVE  HookInv'
<1>1. CASE TimeLeft(worker.job)
  <2> DEFINE id == worker.job
  <2>1. /\ worker' = [at |-> phase, job |-> id, outputs |-> worker.outputs]
        /\ begun' = begun \cup {<<id, phase>>}
    BY <1>1 DEF BeginPhase, HookInv, WorkerOK
  <2>2. id \in DOMAIN jobs /\ id # 0
    BY DEF HookInv, WorkerOK
  <2>3. jobs[id].left = "no"
    BY <1>1, <2>2 DEF TimeLeft, HookInv, LeftOK
  <2>4. WorkerOK'
    <3>1. worker'.at = phase /\ worker'.job = id
          /\ worker' = [at |-> worker'.at, job |-> worker'.job, outputs |-> worker'.outputs]
      BY <2>1
    <3>2. phase = "script" => <<id, "execute">> \notin begun'
      BY <2>1 DEF HookInv, WorkerOK
    <3> QED
      BY <2>2, <3>1, <3>2 DEF HookInv, WorkerOK
  <2>5. QueueOK'
    BY <2>1, <2>2 DEF HookInv, QueueOK
  <2>6. LeftOK'
    BY <2>1, <2>3 DEF HookInv, LeftOK
  <2> QED
    BY <2>4, <2>5, <2>6 DEF HookInv, JobsOK
<1>2. CASE ~ TimeLeft(worker.job)
  BY <1>2, AnswerKeeps DEF BeginPhase, Answer
<1> QED
  BY <1>1, <1>2

\* The script returned, or failed and is answered.
LEMMA EndScriptKeeps ==
    ASSUME HookInv, EndScript
    PROVE  HookInv'
<1>1. UNCHANGED <<queue, jobs, begun>> /\ worker.at = "script"
  BY DEF EndScript
<1>2. \/ worker' = Free
      \/ \E outs : worker' = [worker EXCEPT !.at = "returned", !.outputs = outs]
  BY DEF EndScript, Answer
<1>3. ASSUME NEW outs, worker' = [worker EXCEPT !.at = "returned", !.outputs = outs]
      PROVE  HookInv'
  <2>1. worker' = [at |-> "returned", job |-> worker.job, outputs |-> outs]
    BY <1>3 DEF HookInv, WorkerOK
  <2> QED
    BY <1>1, <2>1 DEF HookInv, JobsOK, QueueOK, WorkerOK, LeftOK
<1> QED
  BY <1>1, <1>2, <1>3, AnswerKeeps

\* The invariant is inductive.
LEMMA HookStep ==
    HookInv /\ [HooksNext]_hookVars => HookInv'
<1> SUFFICES ASSUME HookInv, [HooksNext]_hookVars PROVE HookInv'
  OBVIOUS
<1>1. CASE Configure \/ LoadHooks \/ UNCHANGED hookVars
  BY <1>1, HookFrame DEF Configure, LoadHooks, hookVars
<1>2. CASE \E c \in HookCallers, event \in HookEvents : CallHooks(c, event)
  BY <1>2, HookFrame DEF CallHooks
<1>3. CASE \E c \in HookCallers : SendJob(c) \/ Receive(c) \/ GiveUp(c) \/ HooksDone(c)
  BY <1>3, HookFrame, SendJobKeeps, GiveUpKeeps DEF Receive, HooksDone
<1>4. CASE \E id \in DOMAIN jobs : Expire(id)
  BY <1>4, ExpireKeeps
<1>5. CASE ReceiveJob
  BY <1>5, ReceiveJobKeeps
<1>6. CASE BeginScript
  BY <1>6, BeginKeeps DEF BeginScript
<1>7. CASE EndScript
  BY <1>7, EndScriptKeeps
<1>8. CASE BeginExecute
  BY <1>8, BeginKeeps DEF BeginExecute
<1>9. CASE EndExecute
  BY <1>9, AnswerKeeps DEF EndExecute, Answer
<1> QED
  BY <1>1, <1>2, <1>3, <1>4, <1>5, <1>6, <1>7, <1>8, <1>9 DEF HooksNext

\* The invariant holds at first: no job, and a free worker.
LEMMA HookStarts ==
    HooksInit => HookInv
<1> SUFFICES ASSUME HooksInit PROVE HookInv
  OBVIOUS
<1>1. jobs = <<>> /\ queue = <<>> /\ begun = {} /\ worker = [at |-> "free", job |-> 0, outputs |-> <<>>]
  BY DEF HooksInit, Free
<1>2. jobs \in Seq({}) /\ queue \in Seq(DOMAIN jobs) /\ DOMAIN jobs = {} /\ DOMAIN queue = {}
  BY <1>1
<1> QED
  BY <1>1, <1>2 DEF HookInv, JobsOK, QueueOK, WorkerOK, LeftOK

\* However long the worker was kept by another hook, it never begins a phase
\* of a hook whose caller gave up before that phase.
THEOREM HooksRunForSomebody == HooksSpec => []NoStaleHook
<1>1. HookInv => NoStaleHook
  BY DEF HookInv, LeftOK, NoStaleHook
<1> QED
  BY <1>1, HookStarts, HookStep, PTL DEF HooksSpec

---------------------------------------------------------------------------
(* Sessions                                                                *)

\* A session and an operation have their fields, whatever is in them.
WholeSession(s) == s = [name |-> s.name, parent |-> s.parent, conv |-> s.conv]

WholeOp(o) ==
    /\ o = [kind |-> o.kind, at |-> o.at, id |-> o.id, copy |-> o.copy, stale |-> o.stale,
            result |-> o.result]
    /\ WholeSession(o.copy)

StoreOK ==
    /\ made \in 1..MaxSessions
    /\ DOMAIN rows = DOMAIN msgs /\ DOMAIN rows \subseteq 1..made
    /\ mixed \subseteq 1..made
    /\ ideal = [i \in 1..MaxSessions |-> ideal[i]]
    /\ \A i \in 1..MaxSessions : WholeSession(ideal[i])

\* An operation that works on a session works on one that was made.
PlaceOK(c, o) ==
    /\ WholeOp(o)
    /\ o.kind \in Kinds \union {"none"}
    /\ o.id \in 0..made
    /\ o.at \in {"row", "messages", "work", "save", "delete"} => o.id # 0
    /\ o.at = "create" => o.kind \in {"create", "create_child"}
    /\ o.stale \subseteq Clients \ {c}

\* What was loaded from a session that nobody wrote since, and that was never
\* written from a stale copy, is what the session ideally holds.
CopyOK(o) ==
    o.stale = {} /\ o.id \notin mixed =>
        /\ o.at = "messages" => o.copy.name = ideal[o.id].name /\ o.copy.parent = ideal[o.id].parent
        /\ o.at \in {"work", "save"} /\ o.kind # "create_child" => o.copy = ideal[o.id]

\* The inductive invariant.
SessionInv ==
    /\ StoreOK
    /\ op = [c \in Clients |-> op[c]]
    /\ \A c \in Clients : PlaceOK(c, op[c]) /\ CopyOK(op[c])
    /\ FreshSavesSerial

\* What an operation makes of a session is a session.
LEMMA EffectIsSession ==
    ASSUME NEW c, NEW s, WholeSession(s)
    PROVE  WholeSession(Effect(c, s))
<1>1. WholeSession([s EXCEPT !.name = "named"])
  BY DEF WholeSession
<1>2. WholeSession([s EXCEPT !.conv = Compacted(c, @)])
  BY DEF WholeSession
<1>3. ASSUME NEW upTo
      PROVE  WholeSession(Forked(s, upTo))
  <2>1. ASSUME NEW n, NEW conv
        PROVE  WholeSession([s EXCEPT !.name = n, !.conv = conv])
    <3>1. PICK a, b, d : s = [name |-> a, parent |-> b, conv |-> d]
      BY DEF WholeSession
    <3> DEFINE t == [s EXCEPT !.name = n]
    <3>2. t = [name |-> n, parent |-> b, conv |-> d]
      BY <3>1
    <3>3. [s EXCEPT !.name = n, !.conv = conv] = [t EXCEPT !.conv = conv]
      BY <3>1
    <3> HIDE DEF t
    <3>4. [t EXCEPT !.conv = conv] = [name |-> n, parent |-> b, conv |-> conv]
      BY <3>2
    <3> QED
      BY <3>3, <3>4 DEF WholeSession
  <2> QED
    BY <2>1 DEF Forked
<1>4. ASSUME NEW heard
      PROVE  WholeSession(Replied(c, s, heard))
  <2> DEFINE before == Append(StripPlaceholders(s.conv), Said(c, "user"))
             after == CASE heard = "message" -> Append(before, Said(c, "assistant"))
                        [] heard = "nothing" -> Append(before, Said(c, "placeholder"))
                        [] OTHER             -> before
             t == [s EXCEPT !.conv = after]
  <2>1. Replied(c, s, heard) = [t EXCEPT !.name = DerivedName(t)]
    BY DEF Replied
  <2> HIDE DEF after
  <2>2. t = [name |-> s.name, parent |-> s.parent, conv |-> after]
    BY DEF WholeSession
  <2> HIDE DEF t
  <2>3. ASSUME NEW n
        PROVE  WholeSession([t EXCEPT !.name = n])
    BY <2>2 DEF WholeSession
  <2> QED
    BY <2>1, <2>3
<1> QED
  <2>1. CASE op[c].kind = "rename"
    BY <1>1, <2>1 DEF Effect
  <2>2. CASE op[c].kind = "compact"
    BY <1>2, <2>2 DEF Effect
  <2>3. CASE op[c].kind = "fork"
    BY <1>3, <2>3 DEF Effect
  <2>4. CASE op[c].kind = "reply"
    BY <1>4, <2>4 DEF Effect
  <2>5. CASE op[c].kind \notin {"rename", "compact", "fork", "reply"}
    BY <2>5 DEF Effect
  <2> QED
    BY <2>1, <2>2, <2>3, <2>4, <2>5

\* Only the session that is written changes, and it is what was written.
LEMMA UpsertStores ==
    ASSUME NEW id, NEW s, WholeSession(s), Upsert(id, s), DOMAIN rows = DOMAIN msgs
    PROVE  /\ DOMAIN rows' = DOMAIN rows \union {id} /\ DOMAIN msgs' = DOMAIN rows'
           /\ Stored(id)' = s
           /\ \A i : i # id => Stored(i)' = Stored(i)
<1>1. /\ DOMAIN rows' = DOMAIN rows \union {id} /\ DOMAIN msgs' = DOMAIN rows'
      /\ rows'[id] = [name |-> s.name, parent |-> s.parent] /\ msgs'[id] = s.conv
      /\ \A i \in DOMAIN rows : i # id => rows'[i] = rows[i] /\ msgs'[i] = msgs[i]
  BY DEF Upsert
<1>2. (id \in DOMAIN rows')
      /\ [name |-> rows'[id].name, parent |-> rows'[id].parent, conv |-> msgs'[id]] = s
  BY <1>1 DEF WholeSession
<1>3. ASSUME NEW i, i # id
      PROVE  Stored(i)' = Stored(i)
  <2>1. CASE i \in DOMAIN rows
    BY <1>1, <1>3, <2>1 DEF Stored
  <2>2. CASE i \notin DOMAIN rows
    BY <1>1, <1>3, <2>2 DEF Stored
  <2> QED
    BY <2>1, <2>2
<1> QED
  BY <1>1, <1>2, <1>3 DEF Stored

\* A step that changes only the operation of c, which then fits.
LEMMA OneOperation ==
    ASSUME SessionInv, NEW c \in Clients, NEW o,
           op' = [op EXCEPT ![c] = o], UNCHANGED <<rows, msgs, ideal, mixed, made>>,
           PlaceOK(c, o), CopyOK(o)
    PROVE  SessionInv'
<1>1. op' = [d \in Clients |-> op'[d]]
  BY DEF SessionInv
<1>2. \A d \in Clients : op'[d] = IF d = c THEN o ELSE op[d]
  BY DEF SessionInv
<1>3. \A d \in Clients : PlaceOK(d, op[d])' /\ CopyOK(op[d])'
  <2> SUFFICES ASSUME NEW d \in Clients
               PROVE  PlaceOK(d, op[d])' /\ CopyOK(op[d])'
    OBVIOUS
  <2>1. PlaceOK(d, op'[d]) /\ CopyOK(op'[d])
    BY <1>2 DEF SessionInv
  <2> QED
    BY <2>1 DEF PlaceOK, CopyOK
<1>4. StoreOK' /\ FreshSavesSerial'
  BY DEF SessionInv, StoreOK, FreshSavesSerial, Stored
<1> QED
  BY <1>1, <1>3, <1>4 DEF SessionInv

\* The two ends of an operation that writes session id: it is done, and the
\* others that work on the session are stale.
LEMMA OthersStale ==
    ASSUME NEW c \in Clients, NEW id, NEW result,
           op = [d \in Clients |-> op[d]], \A d \in Clients : PlaceOK(d, op[d]),
           op' = Done(MarkStale(op, c, id), c, result)
    PROVE  /\ op' = [d \in Clients |-> op'[d]]
           /\ op'[c] = [op[c] EXCEPT !.at = "done", !.result = result]
           /\ \A d \in Clients \ {c} :
                 op'[d] = IF op[d].id = id /\ op[d].at \notin {"idle", "create", "row", "done"}
                          THEN [op[d] EXCEPT !.stale = @ \union {c}] ELSE op[d]
<1> DEFINE f == MarkStale(op, c, id)
<1>1. f = [d \in Clients |-> f[d]] /\ f[c] = op[c]
  BY DEF MarkStale
<1>2. \A d \in Clients \ {c} :
         f[d] = IF op[d].id = id /\ op[d].at \notin {"idle", "create", "row", "done"}
                THEN [op[d] EXCEPT !.stale = @ \union {c}] ELSE op[d]
  BY DEF MarkStale
<1> HIDE DEF f
<1>3. op' = [f EXCEPT ![c].at = "done", ![c].result = result]
  BY DEF Done, f
<1>4. op'[c] = [f[c] EXCEPT !.at = "done", !.result = result]
  BY <1>1, <1>3
<1>5. op' = [d \in Clients |-> op'[d]] /\ \A d \in Clients \ {c} : op'[d] = f[d]
  BY <1>1, <1>3
<1> QED
  BY <1>1, <1>2, <1>4, <1>5

\* An operation other than the writer's, after session id was written.
LEMMA BystanderKeeps ==
    ASSUME SessionInv, NEW c \in Clients, NEW d \in Clients \ {c}, NEW id, NEW o,
           o = IF op[d].id = id /\ op[d].at \notin {"idle", "create", "row", "done"}
               THEN [op[d] EXCEPT !.stale = @ \union {c}] ELSE op[d],
           made' \in Nat, made <= made', mixed \subseteq mixed',
           \A i \in 1..made : i # id => ideal'[i] = ideal[i]
    PROVE  PlaceOK(d, o)' /\ CopyOK(o)'
<1>1. PlaceOK(d, op[d]) /\ CopyOK(op[d])
  BY DEF SessionInv
<1>2. CASE op[d].id = id /\ op[d].at \notin {"idle", "create", "row", "done"}
  <2>1. o = [op[d] EXCEPT !.stale = @ \union {c}]
    BY <1>2
  <2>2. /\ o = [kind |-> op[d].kind, at |-> op[d].at, id |-> op[d].id, copy |-> op[d].copy,
                stale |-> op[d].stale \union {c}, result |-> op[d].result]
    BY <1>1, <2>1 DEF PlaceOK, WholeOp
  <2>3. o.stale # {}
    BY <2>2
  <2>4. PlaceOK(d, o)'
    <3>1. 0..made \subseteq 0..made'
      BY DEF SessionInv, StoreOK
    <3>2. WholeOp(o)
      BY <1>1, <2>2 DEF PlaceOK, WholeOp
    <3> QED
      BY <1>1, <2>2, <3>1, <3>2 DEF PlaceOK, WholeOp, WholeSession
  <2> QED
    BY <2>3, <2>4 DEF CopyOK
<1>3. CASE ~(op[d].id = id /\ op[d].at \notin {"idle", "create", "row", "done"})
  <2>1. o = op[d]
    BY <1>3
  <2>2. PlaceOK(d, o)'
    <3>1. 0..made \subseteq 0..made'
      BY DEF SessionInv, StoreOK
    <3> QED
      BY <1>1, <2>1, <3>1 DEF PlaceOK, WholeOp, WholeSession
  <2>3. CopyOK(o)'
    <3>1. CASE o.at \in {"messages", "work", "save"} /\ o.stale = {} /\ o.id \notin mixed'
      <4>1. o.id \in 1..made /\ o.id # id /\ o.id \notin mixed
        BY <1>1, <1>3, <2>1, <3>1 DEF PlaceOK, SessionInv, StoreOK
      <4>2. ideal'[o.id] = ideal[o.id]
        BY <4>1
      <4> QED
        BY <1>1, <2>1, <3>1, <4>1, <4>2 DEF CopyOK
    <3>2. CASE ~(o.at \in {"messages", "work", "save"} /\ o.stale = {} /\ o.id \notin mixed')
      BY <3>2 DEF CopyOK
    <3> QED
      BY <3>1, <3>2
  <2> QED
    BY <2>2, <2>3
<1> QED
  BY <1>2, <1>3

\* A step that changes one session and the operations, when the others are
\* marked and the writer is done or goes on with a copy of its own.
LEMMA OneSession ==
    ASSUME SessionInv, NEW c \in Clients, NEW id \in 1..made', NEW s,
           op' = [d \in Clients |-> op'[d]],
           PlaceOK(c, op[c])', CopyOK(op[c])',
           \A d \in Clients \ {c} :
              op'[d] = IF op[d].id = id /\ op[d].at \notin {"idle", "create", "row", "done"}
                       THEN [op[d] EXCEPT !.stale = @ \union {c}] ELSE op[d],
           made' \in {made, id}, made <= made', made' \in 1..MaxSessions,
           mixed \subseteq mixed', mixed' \subseteq mixed \union {id},
           ideal' = [ideal EXCEPT ![id] = s], WholeSession(s),
           DOMAIN rows' = DOMAIN msgs', DOMAIN rows' \subseteq DOMAIN rows \union {id},
           \A i : i # id => Stored(i)' = Stored(i),
           id \notin mixed' => Stored(id)' = s,
           made' # made => made' = made + 1
    PROVE  SessionInv'
<1>1. made \in 1..MaxSessions /\ MaxSessions \in Nat
  BY LimitsAssumption DEF SessionInv, StoreOK
<1>2. id \in 1..MaxSessions
  BY <1>1
<1>3. /\ ideal' = [i \in 1..MaxSessions |-> ideal'[i]] /\ ideal'[id] = s
      /\ \A i \in 1..MaxSessions : i # id => ideal'[i] = ideal[i]
  BY <1>2 DEF SessionInv, StoreOK
<1>4. StoreOK'
  <2>1. DOMAIN rows' \subseteq 1..made' /\ mixed' \subseteq 1..made'
    BY <1>1 DEF SessionInv, StoreOK
  <2>2. \A i \in 1..MaxSessions : WholeSession(ideal'[i])
    BY <1>3 DEF SessionInv, StoreOK
  <2>3. \A i \in 1..MaxSessions : WholeSession(ideal[i])'
    BY <2>2 DEF WholeSession
  <2> QED
    BY <1>3, <2>1, <2>3 DEF StoreOK
<1>5. \A d \in Clients : PlaceOK(d, op[d])' /\ CopyOK(op[d])'
  <2> SUFFICES ASSUME NEW d \in Clients \ {c}
               PROVE  PlaceOK(d, op[d])' /\ CopyOK(op[d])'
    OBVIOUS
  <2>1. \A i \in 1..made : i # id => ideal'[i] = ideal[i]
    BY <1>1, <1>3
  <2>2. made' \in Nat
    BY <1>1
  <2>3. PICK o : o = op'[d]
    OBVIOUS
  <2>4. o = IF op[d].id = id /\ op[d].at \notin {"idle", "create", "row", "done"}
            THEN [op[d] EXCEPT !.stale = @ \union {c}] ELSE op[d]
    BY <2>3
  <2>5. PlaceOK(d, o)' /\ CopyOK(o)'
    BY <2>1, <2>2, <2>4, BystanderKeeps
  <2> QED
    BY <2>3, <2>5 DEF PlaceOK, CopyOK
<1>6. FreshSavesSerial'
  <2> SUFFICES ASSUME NEW i \in 1..made', i \notin mixed'
               PROVE  Stored(i)' = ideal'[i]
    BY DEF FreshSavesSerial
  <2>1. CASE i = id
    BY <1>3, <2>1
  <2>2. CASE i # id
    <3>1. i \in 1..made /\ i \notin mixed /\ i \in 1..MaxSessions
      BY <1>1, <2>2
    <3> QED
      BY <1>3, <2>2, <3>1 DEF SessionInv, FreshSavesSerial
  <2> QED
    BY <2>1, <2>2
<1> QED
  BY <1>4, <1>5, <1>6 DEF SessionInv
\* What the assignments of the steps make of an operation.
LEMMA OpField ==
    ASSUME NEW o, WholeOp(o), NEW a
    PROVE   /\ [o EXCEPT !.kind = a] =
                 [kind |-> a, at |-> o.at, id |-> o.id,
                  copy |-> o.copy, stale |-> o.stale, result |-> o.result]
           /\ [o EXCEPT !.at = a] =
                 [kind |-> o.kind, at |-> a, id |-> o.id,
                  copy |-> o.copy, stale |-> o.stale, result |-> o.result]
           /\ [o EXCEPT !.id = a] =
                 [kind |-> o.kind, at |-> o.at, id |-> a,
                  copy |-> o.copy, stale |-> o.stale, result |-> o.result]
           /\ [o EXCEPT !.result = a] =
                 [kind |-> o.kind, at |-> o.at, id |-> o.id,
                  copy |-> o.copy, stale |-> o.stale, result |-> a]
           /\ [o EXCEPT !.copy = a] =
                 [kind |-> o.kind, at |-> o.at, id |-> o.id,
                  copy |-> a, stale |-> o.stale, result |-> o.result]
<1>1. PICK k, l, i, c, s, r :
         o = [kind |-> k, at |-> l, id |-> i, copy |-> c, stale |-> s, result |-> r]
  BY DEF WholeOp
<1> QED
  BY <1>1

\* A record of an operation with another result.
LEMMA OpAtResult ==
    ASSUME NEW o, WholeOp(o), NEW a, NEW b
    PROVE  [o EXCEPT !.at = a, !.result = b] =
              [kind |-> o.kind, at |-> a, id |-> o.id,
               copy |-> o.copy, stale |-> o.stale, result |-> b]
<1> DEFINE t == [o EXCEPT !.at = a]
<1>1. t = [kind |-> o.kind, at |-> a, id |-> o.id,
           copy |-> o.copy, stale |-> o.stale, result |-> o.result]
  BY OpField
<1>2. [o EXCEPT !.at = a, !.result = b] = [t EXCEPT !.result = b]
  BY DEF WholeOp
<1> HIDE DEF t
<1>3. [t EXCEPT !.result = b] =
         [kind |-> o.kind, at |-> a, id |-> o.id,
          copy |-> o.copy, stale |-> o.stale, result |-> b]
  BY <1>1
<1> QED
  BY <1>2, <1>3

\* One with another copy.
LEMMA OpAtCopy ==
    ASSUME NEW o, WholeOp(o), NEW a, NEW b
    PROVE  [o EXCEPT !.at = a, !.copy = b] =
              [kind |-> o.kind, at |-> a, id |-> o.id,
               copy |-> b, stale |-> o.stale, result |-> o.result]
<1> DEFINE t == [o EXCEPT !.at = a]
<1>1. t = [kind |-> o.kind, at |-> a, id |-> o.id,
           copy |-> o.copy, stale |-> o.stale, result |-> o.result]
  BY OpField
<1>2. [o EXCEPT !.at = a, !.copy = b] = [t EXCEPT !.copy = b]
  BY DEF WholeOp
<1> HIDE DEF t
<1>3. [t EXCEPT !.copy = b] =
         [kind |-> o.kind, at |-> a, id |-> o.id,
          copy |-> b, stale |-> o.stale, result |-> o.result]
  BY <1>1
<1> QED
  BY <1>2, <1>3

\* One with another session.
LEMMA OpAtId ==
    ASSUME NEW o, WholeOp(o), NEW a, NEW b
    PROVE  [o EXCEPT !.at = a, !.id = b] =
              [kind |-> o.kind, at |-> a, id |-> b,
               copy |-> o.copy, stale |-> o.stale, result |-> o.result]
<1> DEFINE t == [o EXCEPT !.at = a]
<1>1. t = [kind |-> o.kind, at |-> a, id |-> o.id,
           copy |-> o.copy, stale |-> o.stale, result |-> o.result]
  BY OpField
<1>2. [o EXCEPT !.at = a, !.id = b] = [t EXCEPT !.id = b]
  BY DEF WholeOp
<1> HIDE DEF t
<1>3. [t EXCEPT !.id = b] =
         [kind |-> o.kind, at |-> a, id |-> b,
          copy |-> o.copy, stale |-> o.stale, result |-> o.result]
  BY <1>1
<1> QED
  BY <1>2, <1>3

\* One that begins.
LEMMA OpKindId ==
    ASSUME NEW o, WholeOp(o), NEW a, NEW b
    PROVE  [o EXCEPT !.kind = a, !.id = b] =
              [kind |-> a, at |-> o.at, id |-> b,
               copy |-> o.copy, stale |-> o.stale, result |-> o.result]
<1> DEFINE t == [o EXCEPT !.kind = a]
<1>1. t = [kind |-> a, at |-> o.at, id |-> o.id,
           copy |-> o.copy, stale |-> o.stale, result |-> o.result]
  BY OpField
<1>2. [o EXCEPT !.kind = a, !.id = b] = [t EXCEPT !.id = b]
  BY DEF WholeOp
<1> HIDE DEF t
<1>3. [t EXCEPT !.id = b] =
         [kind |-> a, at |-> o.at, id |-> b,
          copy |-> o.copy, stale |-> o.stale, result |-> o.result]
  BY <1>1
<1> QED
  BY <1>2, <1>3

\* One that works on a copy.
LEMMA OpAtIdCopy ==
    ASSUME NEW o, WholeOp(o), NEW a, NEW b, NEW d
    PROVE  [o EXCEPT !.at = a, !.id = b, !.copy = d] =
              [kind |-> o.kind, at |-> a, id |-> b,
               copy |-> d, stale |-> o.stale, result |-> o.result]
<1> DEFINE t == [o EXCEPT !.at = a, !.id = b]
<1>1. t = [kind |-> o.kind, at |-> a, id |-> b,
           copy |-> o.copy, stale |-> o.stale, result |-> o.result]
  BY OpAtId
<1>2. [o EXCEPT !.at = a, !.id = b, !.copy = d] = [t EXCEPT !.copy = d]
  BY DEF WholeOp
<1> HIDE DEF t
<1>3. [t EXCEPT !.copy = d] =
         [kind |-> o.kind, at |-> a, id |-> b,
          copy |-> d, stale |-> o.stale, result |-> o.result]
  BY <1>1
<1> QED
  BY <1>2, <1>3

\* One that begins at a step.
LEMMA OpKindIdAt ==
    ASSUME NEW o, WholeOp(o), NEW a, NEW b, NEW d
    PROVE  [o EXCEPT !.kind = a, !.id = b, !.at = d] =
              [kind |-> a, at |-> d, id |-> b,
               copy |-> o.copy, stale |-> o.stale, result |-> o.result]
<1> DEFINE t == [o EXCEPT !.kind = a, !.id = b]
<1>1. t = [kind |-> a, at |-> o.at, id |-> b,
           copy |-> o.copy, stale |-> o.stale, result |-> o.result]
  BY OpKindId
<1>2. [o EXCEPT !.kind = a, !.id = b, !.at = d] = [t EXCEPT !.at = d]
  BY DEF WholeOp
<1> HIDE DEF t
<1>3. [t EXCEPT !.at = d] =
         [kind |-> a, at |-> d, id |-> b,
          copy |-> o.copy, stale |-> o.stale, result |-> o.result]
  BY <1>1
<1> QED
  BY <1>2, <1>3

\* One whose copy has another conversation.
LEMMA OpConvAt ==
    ASSUME NEW o, WholeOp(o), NEW x, NEW a
    PROVE  [o EXCEPT !.copy.conv = x, !.at = a] =
              [kind |-> o.kind, at |-> a, id |-> o.id,
               copy |-> [name |-> o.copy.name, parent |-> o.copy.parent, conv |-> x],
               stale |-> o.stale, result |-> o.result]
<1> DEFINE s == [o.copy EXCEPT !.conv = x]
           t == [o EXCEPT !.copy = s]
<1>1. s = [name |-> o.copy.name, parent |-> o.copy.parent, conv |-> x]
  BY DEF WholeOp, WholeSession
<1>2. [o EXCEPT !.copy.conv = x, !.at = a] = [t EXCEPT !.at = a]
  BY DEF WholeOp
<1> HIDE DEF s
<1>3. t = [kind |-> o.kind, at |-> o.at, id |-> o.id, copy |-> s, stale |-> o.stale, result |-> o.result]
  BY OpField
<1> HIDE DEF t
<1>4. [t EXCEPT !.at = a] =
         [kind |-> o.kind, at |-> a, id |-> o.id, copy |-> s, stale |-> o.stale, result |-> o.result]
  BY <1>3
<1> QED
  BY <1>1, <1>2, <1>4

\* An operation that is done needs nothing of the store.
LEMMA DoneFits ==
    ASSUME NEW c, NEW result, PlaceOK(c, op[c]), made \in Nat, made' \in Nat, made <= made',
           op'[c] = [op[c] EXCEPT !.at = "done", !.result = result]
    PROVE  PlaceOK(c, op[c])' /\ CopyOK(op[c])'
<1>1. op'[c] = [kind |-> op[c].kind, at |-> "done", id |-> op[c].id, copy |-> op[c].copy,
                stale |-> op[c].stale, result |-> result]
  <2>1. \A l, r : [op[c] EXCEPT !.at = l, !.result = r] =
                     [kind |-> op[c].kind, at |-> l, id |-> op[c].id, copy |-> op[c].copy,
                      stale |-> op[c].stale, result |-> r]
    BY OpAtResult DEF PlaceOK
  <2> QED
    BY <2>1
<1>2. op[c].id \in 0..made'
  BY DEF PlaceOK
<1>3. WholeSession(op[c].copy) /\ op[c].kind \in Kinds \union {"none"} /\ op[c].stale \subseteq Clients \ {c}
  BY DEF PlaceOK, WholeOp
<1>4. PICK o : o = op'[c]
  OBVIOUS
<1>5. PlaceOK(c, o)'
  BY <1>1, <1>2, <1>3, <1>4 DEF PlaceOK, WholeOp, WholeSession
<1>6. CopyOK(o)'
  BY <1>1, <1>4 DEF CopyOK
<1> QED
  BY <1>4, <1>5, <1>6 DEF PlaceOK, CopyOK

\* A request that begins leaves the table alone.
LEMMA BeginKeepsSessions ==
    ASSUME SessionInv, NEW c \in Clients, NEW kind \in Kinds, NEW id \in 0..made, Begin(c, kind, id)
    PROVE  SessionInv'
<1> DEFINE a == IF kind \in {"create", "create_child"} THEN "create"
                ELSE IF kind = "delete" THEN "delete" ELSE "row"
           o == [op[c] EXCEPT !.kind = kind, !.id = id, !.at = a]
<1>1. op' = [op EXCEPT ![c] = o] /\ (kind = "create" <=> id = 0)
      /\ UNCHANGED <<rows, msgs, ideal, mixed, made>>
  BY DEF Begin
<1>2. PlaceOK(c, op[c])
  BY DEF SessionInv
<1>3. /\ a \in {"create", "delete", "row"}
      /\ a = "create" <=> kind \in {"create", "create_child"}
  OBVIOUS
<1> HIDE DEF a
<1>4. \A k, i, l : [op[c] EXCEPT !.kind = k, !.id = i, !.at = l] =
                    [kind |-> k, at |-> l, id |-> i, copy |-> op[c].copy, stale |-> op[c].stale,
                     result |-> op[c].result]
  BY <1>2, OpKindIdAt DEF PlaceOK
<1>5. o = [kind |-> kind, at |-> a, id |-> id, copy |-> op[c].copy, stale |-> op[c].stale,
           result |-> op[c].result]
  BY <1>4
<1> HIDE DEF o
<1>6. PlaceOK(c, o)
  BY <1>1, <1>2, <1>3, <1>5 DEF PlaceOK, WholeOp
<1>7. CopyOK(o)
  BY <1>3, <1>5 DEF CopyOK
<1> QED
  BY <1>1, <1>6, <1>7, OneOperation

\* Reading a row gives a copy of it.
LEMMA ReadRowKeeps ==
    ASSUME SessionInv, NEW c \in Clients, ReadRow(c)
    PROVE  SessionInv'
<1> DEFINE id == op[c].id
           copy == [Gone EXCEPT !.name = rows[id].name, !.parent = rows[id].parent]
           found == [op[c] EXCEPT !.at = "messages", !.copy = copy]
           lost == [op[c] EXCEPT !.at = "done", !.result = "not_found"]
<1>1. /\ op[c].at = "row" /\ UNCHANGED <<rows, msgs, ideal, mixed, made>>
      /\ op' = IF id \in DOMAIN rows THEN [op EXCEPT ![c] = found] ELSE [op EXCEPT ![c] = lost]
  BY DEF ReadRow, Done
<1>2. PlaceOK(c, op[c])
  BY DEF SessionInv
<1>3. CASE id \in DOMAIN rows
  <2>1. copy = [name |-> rows[id].name, parent |-> rows[id].parent, conv |-> <<>>]
    <3> DEFINE t == [Gone EXCEPT !.name = rows[id].name]
    <3>1. t = [name |-> rows[id].name, parent |-> 0, conv |-> <<>>]
      BY DEF Gone
    <3>2. copy = [t EXCEPT !.parent = rows[id].parent]
      BY DEF Gone
    <3> HIDE DEF t
    <3> QED
      BY <3>1, <3>2
  <2> HIDE DEF copy
  <2>2. found = [kind |-> op[c].kind, at |-> "messages", id |-> id, copy |-> copy,
                 stale |-> op[c].stale, result |-> op[c].result]
    BY <1>2, OpAtCopy DEF PlaceOK
  <2>3. PlaceOK(c, found)
    BY <1>1, <1>2, <2>1, <2>2 DEF PlaceOK, WholeOp, WholeSession
  <2>4. CopyOK(found)
    <3>1. CASE id \notin mixed
      <4>1. ideal[id] = [name |-> rows[id].name, parent |-> rows[id].parent, conv |-> msgs[id]]
        BY <1>1, <1>2, <1>3, <3>1 DEF SessionInv, FreshSavesSerial, Stored, StoreOK
      <4> QED
        BY <2>1, <2>2, <4>1 DEF CopyOK
    <3>2. CASE id \in mixed
      BY <2>2, <3>2 DEF CopyOK
    <3> QED
      BY <3>1, <3>2
  <2> HIDE DEF found
  <2> QED
    BY <1>1, <1>3, <2>3, <2>4, OneOperation
<1>4. CASE id \notin DOMAIN rows
  <2>1. lost = [kind |-> op[c].kind, at |-> "done", id |-> id, copy |-> op[c].copy,
                stale |-> op[c].stale, result |-> "not_found"]
    <3>1. \A l, r : [op[c] EXCEPT !.at = l, !.result = r] =
                       [kind |-> op[c].kind, at |-> l, id |-> id, copy |-> op[c].copy,
                        stale |-> op[c].stale, result |-> r]
      BY <1>2, OpAtResult DEF PlaceOK
    <3> QED
      BY <3>1
  <2>2. PlaceOK(c, lost) /\ CopyOK(lost)
    BY <1>2, <2>1 DEF PlaceOK, WholeOp, CopyOK
  <2> HIDE DEF lost
  <2> QED
    BY <1>1, <1>4, <2>2, OneOperation
<1> QED
  BY <1>3, <1>4

\* Reading the messages gives a copy of them.
LEMMA ReadMessagesKeeps ==
    ASSUME SessionInv, NEW c \in Clients, ReadMessages(c)
    PROVE  SessionInv'
<1> DEFINE id == op[c].id
           conv == IF id \in DOMAIN msgs THEN msgs[id] ELSE <<>>
           next == CASE op[c].kind = "history" -> "done"
                     [] op[c].kind = "compact" /\ Len(conv) <= MaxMessages -> "done"
                     [] op[c].kind \in {"reply", "fork"} -> "work"
                     [] OTHER -> "save"
           o == [op[c] EXCEPT !.copy.conv = conv, !.at = next]
<1>1. /\ op[c].at = "messages" /\ UNCHANGED <<rows, msgs, ideal, mixed, made>>
      /\ op' = [op EXCEPT ![c].copy.conv = conv, ![c].at = next]
  BY DEF ReadMessages
<1>2. next \in {"done", "work", "save"}
  OBVIOUS
<1>3. PlaceOK(c, op[c]) /\ CopyOK(op[c]) /\ op = [d \in Clients |-> op[d]]
  BY DEF SessionInv
<1>4. id \notin mixed => Stored(id) = ideal[id]
  <2>1. id \in 1..made
    BY <1>1, <1>3 DEF SessionInv, PlaceOK, StoreOK
  <2> QED
    BY <2>1 DEF SessionInv, FreshSavesSerial
<1>5. DOMAIN rows = DOMAIN msgs
  BY DEF SessionInv, StoreOK
<1>6. Stored(id).conv = conv
  BY <1>5 DEF Stored, Gone
<1>7. WholeSession(ideal[id])
  BY <1>1, <1>3, LimitsAssumption DEF SessionInv, StoreOK, PlaceOK
<1> HIDE DEF conv, next
<1>8. op' = [op EXCEPT ![c] = o]
  BY <1>1, <1>3
<1>9. o = [kind |-> op[c].kind, at |-> next, id |-> id,
           copy |-> [name |-> op[c].copy.name, parent |-> op[c].copy.parent, conv |-> conv],
           stale |-> op[c].stale, result |-> op[c].result]
  BY <1>3, OpConvAt DEF PlaceOK
<1> HIDE DEF o
<1>10. PlaceOK(c, o)
  BY <1>1, <1>2, <1>3, <1>9 DEF PlaceOK, WholeOp, WholeSession
<1>11. CopyOK(o)
  <2>1. SUFFICES ASSUME op[c].stale = {}, id \notin mixed, next # "done"
                 PROVE  o.copy = ideal[id]
    BY <1>2, <1>9 DEF CopyOK
  <2>2. op[c].copy.name = ideal[id].name /\ op[c].copy.parent = ideal[id].parent
    BY <1>1, <1>3, <2>1 DEF CopyOK
  <2>3. conv = ideal[id].conv
    BY <1>4, <1>6, <2>1
  <2> QED
    BY <1>7, <1>9, <2>2, <2>3 DEF WholeSession
<1> QED
  BY <1>1, <1>8, <1>10, <1>11, OneOperation

\* What a request does outside the store changes its own record only.
LEMMA WorkKeeps ==
    ASSUME SessionInv, NEW c \in Clients, NEW choice, Work(c, choice)
    PROVE  SessionInv'
<1> DEFINE a == IF choice = "not_started" THEN "done" ELSE "save"
           o == [op[c] EXCEPT !.at = a, !.result = choice]
<1>1. /\ op[c].at = "work" /\ UNCHANGED <<rows, msgs, ideal, mixed, made>>
      /\ op' = [op EXCEPT ![c] = o]
  BY DEF Work, Done
<1>2. PlaceOK(c, op[c]) /\ CopyOK(op[c])
  BY DEF SessionInv
<1>3. o = [kind |-> op[c].kind, at |-> a, id |-> op[c].id, copy |-> op[c].copy,
           stale |-> op[c].stale, result |-> choice]
  <2>1. \A l, r : [op[c] EXCEPT !.at = l, !.result = r] =
                     [kind |-> op[c].kind, at |-> l, id |-> op[c].id, copy |-> op[c].copy,
                      stale |-> op[c].stale, result |-> r]
    BY <1>2, OpAtResult DEF PlaceOK
  <2> QED
    BY <2>1
<1>4. PlaceOK(c, o)
  BY <1>1, <1>2, <1>3 DEF PlaceOK, WholeOp
<1>5. CopyOK(o)
  BY <1>1, <1>2, <1>3 DEF CopyOK
<1> QED
  BY <1>1, <1>4, <1>5, OneOperation

\* A save that fails changes nothing.
LEMMA SaveFailsKeeps ==
    ASSUME SessionInv, NEW c \in Clients, SaveFails(c)
    PROVE  SessionInv'
<1> DEFINE result == IF op[c].kind = "reply" THEN "ok" ELSE "error"
           o == [op[c] EXCEPT !.at = "done", !.result = result]
<1>1. UNCHANGED <<rows, msgs, ideal, mixed, made>> /\ op' = [op EXCEPT ![c] = o]
  BY DEF SaveFails, Done
<1>2. PlaceOK(c, op[c])
  BY DEF SessionInv
<1>3. o = [kind |-> op[c].kind, at |-> "done", id |-> op[c].id, copy |-> op[c].copy,
           stale |-> op[c].stale, result |-> result]
  <2>1. \A l, r : [op[c] EXCEPT !.at = l, !.result = r] =
                     [kind |-> op[c].kind, at |-> l, id |-> op[c].id, copy |-> op[c].copy,
                      stale |-> op[c].stale, result |-> r]
    BY <1>2, OpAtResult DEF PlaceOK
  <2> QED
    BY <2>1
<1>4. PlaceOK(c, o) /\ CopyOK(o)
  BY <1>2, <1>3 DEF PlaceOK, WholeOp, CopyOK
<1> QED
  BY <1>1, <1>4, OneOperation

\* A session is created at once, in the tables and in the ideal.
LEMMA CreateKeeps ==
    ASSUME SessionInv, NEW c \in Clients, Create(c)
    PROVE  SessionInv'
<1>id. PICK id : id = made + 1
  OBVIOUS
<1>par. PICK par : par = op[c].id
  OBVIOUS
<1> DEFINE s == [name |-> "session", parent |-> 0, conv |-> <<>>]
           child == [s EXCEPT !.parent = par]
           done == [op[c] EXCEPT !.at = "done", !.result = "ok"]
           half == [op[c] EXCEPT !.at = "save", !.id = id, !.copy = child]
           next == IF op[c].kind = "create" THEN done ELSE half
<1>1. /\ op[c].at = "create" /\ made < MaxSessions /\ made' = id /\ mixed' = mixed
      /\ Upsert(id, s) /\ ideal' = [ideal EXCEPT ![id] = s]
      /\ op' = [op EXCEPT ![c] = next]
  BY <1>id, <1>par DEF Create, Done
<1>2. /\ made \in Nat /\ made \in 1..MaxSessions /\ MaxSessions \in Nat
      /\ DOMAIN rows = DOMAIN msgs /\ op = [d \in Clients |-> op[d]] /\ PlaceOK(c, op[c])
      /\ mixed \subseteq 1..made
  BY LimitsAssumption DEF SessionInv, StoreOK
<1>3. WholeSession(s)
  BY DEF WholeSession
<1>4. child = [name |-> "session", parent |-> par, conv |-> <<>>]
  OBVIOUS
<1> HIDE DEF s, child
<1>5. /\ done = [kind |-> op[c].kind, at |-> "done", id |-> op[c].id, copy |-> op[c].copy,
                 stale |-> op[c].stale, result |-> "ok"]
      /\ half = [kind |-> op[c].kind, at |-> "save", id |-> id, copy |-> child,
                 stale |-> op[c].stale, result |-> op[c].result]
  <2>1. /\ \A l, r : [op[c] EXCEPT !.at = l, !.result = r] =
                       [kind |-> op[c].kind, at |-> l, id |-> op[c].id, copy |-> op[c].copy,
                        stale |-> op[c].stale, result |-> r]
    BY <1>2, OpAtResult DEF PlaceOK
  <2>2. \A l, i, d : [op[c] EXCEPT !.at = l, !.id = i, !.copy = d] =
                       [kind |-> op[c].kind, at |-> l, id |-> i, copy |-> d,
                        stale |-> op[c].stale, result |-> op[c].result]
    BY <1>2, OpAtIdCopy DEF PlaceOK
  <2>3. done = [kind |-> op[c].kind, at |-> "done", id |-> op[c].id, copy |-> op[c].copy,
                stale |-> op[c].stale, result |-> "ok"]
    BY <2>1
  <2>4. half = [kind |-> op[c].kind, at |-> "save", id |-> id, copy |-> child,
                stale |-> op[c].stale, result |-> op[c].result]
    BY <2>2
  <2> QED
    BY <2>3, <2>4
<1> HIDE DEF done, half
<1>6. op[c].kind \in {"create", "create_child"}
  BY <1>1, <1>2 DEF SessionInv, PlaceOK
<1>7. id \in 0..made' /\ id # 0 /\ WholeSession(child) /\ op[c].id \in 0..made'
  BY <1>id, <1>1, <1>2, <1>4 DEF WholeSession, PlaceOK
<1> HIDE DEF next
<1>8. op'[c] = next /\ op' = [d \in Clients |-> op'[d]] /\ \A d \in Clients \ {c} : op'[d] = op[d]
  BY <1>1, <1>2
<1>9. PlaceOK(c, op[c])' /\ CopyOK(op[c])'
  <2>1. PICK o : o = next
    OBVIOUS
  <2>2. PlaceOK(c, o)' /\ CopyOK(o)'
    <3>1. CASE op[c].kind = "create"
      <4>1. o = done
        BY <2>1, <3>1 DEF next
      <4> QED
        BY <1>1, <1>2, <1>5, <1>7, <4>1 DEF PlaceOK, CopyOK, WholeOp, WholeSession
    <3>2. CASE op[c].kind = "create_child"
      <4>1. o = half
        BY <2>1, <3>2 DEF next
      <4>2. PlaceOK(c, o)'
        BY <1>2, <1>5, <1>7, <4>1 DEF PlaceOK, WholeOp, WholeSession
      <4>3. CopyOK(o)'
        BY <1>5, <3>2, <4>1 DEF CopyOK
      <4> QED
        BY <4>2, <4>3
    <3> QED
      BY <1>6, <3>1, <3>2
  <2> QED
    BY <1>8, <2>1, <2>2 DEF PlaceOK, CopyOK
<1>10. \A d \in Clients \ {c} : op[d].id # id
  BY <1>id, <1>2 DEF SessionInv, PlaceOK
<1>11. /\ DOMAIN rows' = DOMAIN rows \union {id} /\ DOMAIN msgs' = DOMAIN rows'
       /\ Stored(id)' = s /\ \A i : i # id => Stored(i)' = Stored(i)
  BY <1>1, <1>2, <1>3, UpsertStores
<1>12. id \in 1..made' /\ made <= made' /\ made' \in 1..MaxSessions /\ made' = made + 1
  BY <1>id, <1>1, <1>2
<1> QED
  BY <1>1, <1>3, <1>8, <1>9, <1>10, <1>11, <1>12, OneSession

\* A save writes a whole session, whatever the kind of the request.
LEMMA SaveKeeps ==
    ASSUME SessionInv, NEW c \in Clients, Save(c)
    PROVE  SessionInv'
<1>id. PICK id : id = op[c].id
  OBVIOUS
<1>new. PICK new : new = IF op[c].kind = "fork" THEN made + 1 ELSE id
  OBVIOUS
<1> DEFINE written == Effect(c, op[c].copy)
           should == IF op[c].kind = "create_child" THEN op[c].copy ELSE Effect(c, ideal[id])
<1>1. /\ op[c].at = "save" /\ (op[c].kind = "fork" => made < MaxSessions)
      /\ Upsert(new, written) /\ ideal' = [ideal EXCEPT ![new] = should]
      /\ mixed' = IF op[c].stale # {} \/ id \in mixed THEN mixed \union {new} ELSE mixed
      /\ made' = IF op[c].kind = "fork" THEN new ELSE made
      /\ op' = Done(MarkStale(op, c, new), c, "ok")
  BY <1>id, <1>new DEF Save
<1>2. /\ made \in Nat /\ made \in 1..MaxSessions /\ MaxSessions \in Nat
      /\ DOMAIN rows = DOMAIN msgs /\ op = [d \in Clients |-> op[d]]
      /\ \A d \in Clients : PlaceOK(d, op[d])
      /\ PlaceOK(c, op[c]) /\ CopyOK(op[c]) /\ mixed \subseteq 1..made
  BY LimitsAssumption DEF SessionInv, StoreOK
<1>3. id \in 1..made /\ id \in 1..MaxSessions
  BY <1>id, <1>1, <1>2 DEF PlaceOK
<1>4. WholeSession(op[c].copy) /\ WholeSession(ideal[id])
  BY <1>2, <1>3 DEF SessionInv, StoreOK, PlaceOK, WholeOp
<1>5. WholeSession(written) /\ WholeSession(should)
  BY <1>4, EffectIsSession
<1>6. op[c].kind = "create_child" => written = should
  BY DEF Effect
<1>7. new \notin mixed' => written = should
  <2> SUFFICES ASSUME new \notin mixed', op[c].kind # "create_child"
               PROVE  written = should
    BY <1>6
  <2>1. op[c].stale = {} /\ id \notin mixed
    BY <1>1
  <2>2. op[c].copy = ideal[id]
    BY <1>id, <1>1, <1>2, <2>1 DEF CopyOK
  <2> QED
    BY <2>2
<1> HIDE DEF written, should
<1>8. new \in 1..made' /\ made' \in {made, new} /\ made <= made' /\ made' \in 1..MaxSessions
      /\ (made' # made => made' = made + 1)
  BY <1>new, <1>1, <1>2, <1>3
<1>9. mixed \subseteq mixed' /\ mixed' \subseteq mixed \union {new}
  BY <1>1
<1>w. PICK w : w = written
  OBVIOUS
<1>10. /\ DOMAIN rows' = DOMAIN rows \union {new} /\ DOMAIN msgs' = DOMAIN rows'
       /\ Stored(new)' = w /\ \A i : i # new => Stored(i)' = Stored(i)
  BY <1>w, <1>1, <1>2, <1>5, UpsertStores
<1>11. /\ op' = [d \in Clients |-> op'[d]]
       /\ op'[c] = [op[c] EXCEPT !.at = "done", !.result = "ok"]
       /\ \A d \in Clients \ {c} :
             op'[d] = IF op[d].id = new /\ op[d].at \notin {"idle", "create", "row", "done"}
                      THEN [op[d] EXCEPT !.stale = @ \union {c}] ELSE op[d]
  BY <1>1, <1>2, OthersStale
<1>12. PlaceOK(c, op[c])' /\ CopyOK(op[c])'
  <2>1. made' \in Nat /\ made <= made'
    BY <1>2, <1>8
  <2> QED
    BY <1>2, <1>11, <2>1, DoneFits
<1>v. PICK v : v = should
  OBVIOUS
<1>13. new \notin mixed' => Stored(new)' = v
  BY <1>v, <1>w, <1>7, <1>10
<1> QED
  BY <1>1, <1>5, <1>8, <1>9, <1>10, <1>11, <1>12, <1>13, <1>v, OneSession

\* A session that is deleted is gone.
LEMMA DeleteKeeps ==
    ASSUME SessionInv, NEW c \in Clients, Delete(c)
    PROVE  SessionInv'
<1>id. PICK id : id = op[c].id
  OBVIOUS
<1> DEFINE result == IF id \in DOMAIN rows THEN "ok" ELSE "not_found"
<1>1. /\ op[c].at = "delete" /\ RemoveSession(id) /\ ideal' = [ideal EXCEPT ![id] = Gone]
      /\ op' = Done(MarkStale(op, c, id), c, result) /\ mixed' = mixed /\ made' = made
  BY <1>id DEF Delete
<1>2. /\ made \in Nat /\ made \in 1..MaxSessions /\ MaxSessions \in Nat
      /\ DOMAIN rows = DOMAIN msgs /\ op = [d \in Clients |-> op[d]]
      /\ \A d \in Clients : PlaceOK(d, op[d])
      /\ PlaceOK(c, op[c])
  BY LimitsAssumption DEF SessionInv, StoreOK
<1>3. id \in 1..made'
  BY <1>id, <1>1, <1>2 DEF PlaceOK
<1>r. PICK r : r = result
  OBVIOUS
<1>d. op' = Done(MarkStale(op, c, id), c, r)
  BY <1>1, <1>r
<1> HIDE DEF result
<1>v. PICK v : v = Gone
  OBVIOUS
<1>4. /\ op' = [d \in Clients |-> op'[d]]
      /\ op'[c] = [op[c] EXCEPT !.at = "done", !.result = r]
      /\ \A d \in Clients \ {c} :
            op'[d] = IF op[d].id = id /\ op[d].at \notin {"idle", "create", "row", "done"}
                     THEN [op[d] EXCEPT !.stale = @ \union {c}] ELSE op[d]
  BY <1>2, <1>d, OthersStale
<1>5. PlaceOK(c, op[c])' /\ CopyOK(op[c])'
  <2>1. made' \in Nat /\ made <= made'
    BY <1>1, <1>2
  <2> QED
    BY <1>2, <1>4, <2>1, DoneFits
<1>6. DOMAIN rows' = DOMAIN rows \ {id} /\ DOMAIN msgs' = DOMAIN rows \ {id}
      /\ \A i \in DOMAIN rows \ {id} : rows'[i] = rows[i] /\ msgs'[i] = msgs[i]
  BY <1>1, <1>2 DEF RemoveSession
<1>7. Stored(id)' = Gone /\ \A i : i # id => Stored(i)' = Stored(i)
  BY <1>6 DEF Stored
<1>8. WholeSession(v)
  BY <1>v DEF WholeSession, Gone
<1>9. /\ ideal' = [ideal EXCEPT ![id] = v] /\ Stored(id)' = v
      /\ DOMAIN rows' = DOMAIN msgs' /\ DOMAIN rows' \subseteq DOMAIN rows \union {id}
      /\ made' \in {made, id} /\ made <= made' /\ made' \in 1..MaxSessions
      /\ mixed \subseteq mixed' /\ mixed' \subseteq mixed \union {id}
  BY <1>v, <1>1, <1>2, <1>6, <1>7
<1> QED
  BY <1>9, <1>1, <1>2, <1>3, <1>4, <1>5, <1>6, <1>7, <1>8, OneSession

\* Every step keeps the invariant.
LEMMA SessionStep == SessionInv /\ [Next]_vars => SessionInv'
<1> SUFFICES ASSUME SessionInv, [Next]_vars
             PROVE  SessionInv'
  OBVIOUS
<1>1. CASE UNCHANGED vars
  BY <1>1 DEF vars, SessionInv, StoreOK, PlaceOK, CopyOK, FreshSavesSerial, Stored
<1>2. CASE Next
  <2> SUFFICES ASSUME NEW c \in Clients,
                      \/ \E kind \in Kinds, id \in 0..made : Begin(c, kind, id)
                      \/ Create(c) \/ ReadRow(c) \/ ReadMessages(c)
                      \/ \E choice : Work(c, choice)
                      \/ Save(c) \/ SaveFails(c) \/ Delete(c)
               PROVE  SessionInv'
    BY <1>2 DEF Next
  <2> QED
    BY BeginKeepsSessions, CreateKeeps, ReadRowKeeps, ReadMessagesKeeps, WorkKeeps, SaveKeeps,
       SaveFailsKeeps, DeleteKeeps
<1> QED
  BY <1>1, <1>2

\* No session, no request.
LEMMA SessionStarts == Init => SessionInv
<1> SUFFICES ASSUME Init
             PROVE  SessionInv
  OBVIOUS
<1>1. WholeSession(First) /\ WholeSession(Gone) /\ WholeOp(Idle)
  BY DEF WholeSession, WholeOp, First, Gone, Idle
<1>2. StoreOK
  BY <1>1, LimitsAssumption DEF Init, StoreOK
<1>3. \A c \in Clients : PlaceOK(c, op[c]) /\ CopyOK(op[c])
  BY <1>1 DEF Init, PlaceOK, CopyOK, Idle
<1>4. FreshSavesSerial
  <2>1. Stored(1) = [name |-> First.name, parent |-> 0, conv |-> First.conv]
    BY DEF Init, Stored
  <2>2. Stored(1) = First
    BY <2>1 DEF First
  <2> QED
    BY <2>2, LimitsAssumption DEF Init, FreshSavesSerial
<1> QED
  BY <1>2, <1>3, <1>4 DEF SessionInv, Init

\* Whatever the handlers interleave, a session that was only saved from fresh
\* copies holds what the same operations give one at a time, for any number of
\* requests and sessions.
THEOREM FreshSavesAreSerial == Spec => []FreshSavesSerial
<1>1. SessionInv => FreshSavesSerial
  BY DEF SessionInv
<1> QED
  BY <1>1, SessionStep, SessionStarts, PTL DEF Spec

---------------------------------------------------------------------------
(* Skills                                                                  *)

\* What the prompt of a run lists was found when the run began, could be used
\* then, and came from the first root that had one of that name.
ListedOK(n) ==
    LET p == registry[1][n].place
        was(q) == Record(q, atStart[q][1])
    IN  /\ n \in DOMAIN registry[1]
        /\ registry[1][n] = was(p) /\ was(p).name = n
        /\ was(p).eligible /\ was(p).model_invocable
        /\ atStart[p] # <<>>
        /\ \A q \in Places : (q.root < p.root /\ atStart[q] # <<>> /\ atStart[q][1].closed)
                                => was(q).name # n

SkillInv ==
    /\ listed \in Seq(Range(NameOrder))
    /\ registry # <<>> => \A i \in DOMAIN listed : ListedOK(listed[i])

\* The beginning of a sequence has its elements.
LEMMA SubSeqOf ==
    ASSUME NEW S, NEW s \in Seq(S), NEW m \in 0..Len(s)
    PROVE  /\ SubSeq(s, 1, m) \in Seq(S)
           /\ \A i \in DOMAIN SubSeq(s, 1, m) : i \in DOMAIN s /\ SubSeq(s, 1, m)[i] = s[i]
OBVIOUS

\* The prompt offers what the registry has and the model may call.
LEMMA PromptOffers ==
    ASSUME NEW reg
    PROVE  /\ ForPrompt(reg) \in Seq(Range(NameOrder))
           /\ \A i \in DOMAIN ForPrompt(reg) :
                LET n == ForPrompt(reg)[i]
                IN  n \in DOMAIN reg /\ reg[n].eligible /\ reg[n].model_invocable
<1> DEFINE N == Range(NameOrder)
           Good == {n \in DOMAIN reg : reg[n].eligible /\ reg[n].model_invocable}
           fit(root) == Only(NameOrder, {n \in DOMAIN reg : /\ reg[n].place.root = root
                                                            /\ reg[n].eligible /\ reg[n].model_invocable})
           all == fit(0) \o fit(1) \o fit(2)
           m == IF Len(all) < MaxListed THEN Len(all) ELSE MaxListed
<1>1. NameOrder \in Seq(N) /\ MaxListed \in Nat
  BY SkillsAssumption
<1>2. ASSUME NEW root PROVE fit(root) \in Seq(N \cap Good)
  <2> DEFINE T == {n \in DOMAIN reg : /\ reg[n].place.root = root
                                      /\ reg[n].eligible /\ reg[n].model_invocable}
  <2>1. Only(NameOrder, T) \in Seq(N \cap T)
    BY <1>1, OnlyType
  <2>2. N \cap T \subseteq N \cap Good
    OBVIOUS
  <2> HIDE DEF T, Good, N
  <2>3. Only(NameOrder, T) \in Seq(N \cap Good)
    BY <2>1, <2>2, SeqDef
  <2> QED
    BY <2>3 DEF T
<1>3. all \in Seq(N \cap Good)
  <2> HIDE DEF fit, N, Good
  <2>1. fit(0) \in Seq(N \cap Good) /\ fit(1) \in Seq(N \cap Good) /\ fit(2) \in Seq(N \cap Good)
    BY <1>2
  <2> QED
    BY <2>1, ConcatProperties
<1>4. ForPrompt(reg) = SubSeq(all, 1, m)
  BY DEF ForPrompt
<1> HIDE DEF all
<1>5. m \in 0..Len(all)
  BY <1>1, <1>3
<1> HIDE DEF m, N, Good
<1>6. /\ ForPrompt(reg) \in Seq(N \cap Good)
      /\ \A i \in DOMAIN ForPrompt(reg) : ForPrompt(reg)[i] \in N \cap Good
  <2>1. ForPrompt(reg) \in Seq(N \cap Good)
    BY <1>3, <1>4, <1>5, SubSeqOf
  <2> QED
    BY <2>1, LenProperties, ElementOfSeq
<1>7. ForPrompt(reg) \in Seq(N)
  BY <1>6, SeqDef
<1> QED
  BY <1>6, <1>7 DEF N, Good

\* A registry gives a name to a record that was found in the first root.
LEMMA RegistryHolds ==
    ASSUME NEW reg \in Registries, NEW n \in DOMAIN reg
    PROVE  LET p == reg[n].place
           IN  /\ p \in Places /\ Parses(p) /\ reg[n] = Record(p, skillFiles[p][1]) /\ reg[n].name = n
               /\ \A q \in Places : q.root < p.root /\ Parses(q)
                                      => Record(q, skillFiles[q][1]).name # n
<1>1. reg[n] \in Found /\ reg[n].name = n
      /\ \A s \in Found : s.name = n => reg[n].place.root <= s.place.root
  BY DEF Registries, Kept
<1>2. PICK p \in Places : Parses(p) /\ reg[n] = Record(p, skillFiles[p][1])
  BY <1>1 DEF Found
<1>3. \A q \in Places : Record(q, skillFiles[q][1]).place = q
  BY DEF Record
<1>4. ASSUME NEW q \in Places, q.root < p.root, Parses(q), Record(q, skillFiles[q][1]).name = n
      PROVE  FALSE
  <2>1. Record(q, skillFiles[q][1]) \in Found
    BY <1>4 DEF Found
  <2>2. p.root <= q.root
    BY <1>1, <1>2, <1>3, <1>4, <2>1
  <2> QED
    BY <1>4, <2>2, SkillsAssumption
<1> QED
  BY <1>1, <1>2, <1>3, <1>4

\* Every step keeps the invariant.
LEMMA SkillsStep == SkillInv /\ [SkillsNext]_skillVars => SkillInv'
<1> SUFFICES ASSUME SkillInv, [SkillsNext]_skillVars
             PROVE  SkillInv'
  OBVIOUS
<1>1. CASE UNCHANGED <<registry, listed, atStart>>
  BY <1>1 DEF SkillInv, ListedOK
<1>2. CASE StartSkillRun
  <2>1. PICK reg \in Registries : registry' = <<reg>> /\ listed' = ForPrompt(reg) /\ atStart' = skillFiles
    BY <1>2 DEF StartSkillRun
  <2>2. registry'[1] = reg
    BY <2>1
  <2>3. ASSUME NEW i \in DOMAIN listed' PROVE ListedOK(listed[i])'
    <3> DEFINE n == listed'[i]
    <3>1. n \in DOMAIN reg /\ reg[n].eligible /\ reg[n].model_invocable
      BY <2>1, <2>3, PromptOffers
    <3> HIDE DEF n
    <3>2. LET p == reg[n].place
          IN  /\ p \in Places /\ Parses(p) /\ reg[n] = Record(p, skillFiles[p][1]) /\ reg[n].name = n
              /\ \A q \in Places : q.root < p.root /\ Parses(q)
                                      => Record(q, skillFiles[q][1]).name # n
      BY <3>1, RegistryHolds
    <3> QED
      BY <2>1, <2>2, <3>1, <3>2 DEF ListedOK, Parses, n
  <2> QED
    BY <2>1, <2>3, PromptOffers DEF SkillInv
<1> QED
  BY <1>1, <1>2 DEF SkillsNext, skillVars, SkillLoadTool, GetWorkspaceSkill, AgentSkillLoad, EditSkill

\* Whatever users do to the files of skills, at any time: the prompt of a run
\* offers what a load gives, and from the first root that had it.
THEOREM SkillsAreAsListed == SkillsSpec => []SkillAsListed
<1>1. SkillInv => SkillAsListed
  BY DEF SkillInv, SkillAsListed, ListedOK, LoadSkill
<1>2. SkillsInit => SkillInv
  BY EmptySeq DEF SkillsInit, SkillInv
<1> QED
  BY <1>1, <1>2, SkillsStep, PTL DEF SkillsSpec

---------------------------------------------------------------------------
(* The workspace of a reply                                                *)

Stages == {"idle", "started", "first", "pumping", "last", "done"}

\* A reply has its fields, whatever is in them.
Whole(x) ==
    x = [at |-> x.at, mode |-> x.mode, over |-> x.over, tool |-> x.tool, status |-> x.status,
         baseline |-> x.baseline, diffReady |-> x.diffReady, touched |-> x.touched,
         then |-> x.then, end |-> x.end]

\* What git diff said of the workspace as it was, and what a snapshot is now.
DiffOf(t) == [p \in {q \in Paths : t.staged[q] # Absent /\ t.disk[q] # t.staged[q]}
                |-> <<t.staged[p], t.disk[p]>>]
StatusNow == IF isGit THEN <<GitStatus>> ELSE <<>>
SnapshotNow == IF isGit THEN [is |-> TRUE, status |-> GitStatus, diff |-> GitDiff] ELSE NoSnapshot

Announced(x) ==
    /\ (x.then.git /\ x.end.git /\ \E p \in Paths :
           /\ x.end.staged[p] = x.then.staged[p] /\ x.end.staged[p] # Absent
           /\ x.end.disk[p] \notin {x.then.disk[p], x.end.staged[p]})
       => x.diffReady # <<>>
    /\ ~x.touched => x.diffReady = <<>>
    /\ x.diffReady # <<>> => x.diffReady[1].files_changed > 0

\* While nothing touches the workspace the looks of a reply are what a look
\* would give now; and git is not forgotten once it was there.
LooksOK(x) ==
    /\ x.at \in Stages
    /\ x.status # <<>> => DOMAIN x.status[1] \subseteq Paths
    /\ x.at \in {"pumping", "last"} =>
         /\ x.baseline = NoSnapshot
            \/ (x.baseline.is /\ x.baseline.diff = DiffOf(x.then) /\ x.baseline # NoSnapshot)
         /\ x.then.git => isGit
    /\ x.at = "last" => (x.then.git => x.status # <<>>)
    /\ x.at \in {"first", "last"} /\ ~x.touched => x.status = StatusNow
    /\ x.at \in {"pumping", "last"} /\ ~x.touched => x.baseline = SnapshotNow
    /\ x.at = "done" => Announced(x)

WorkspaceInv ==
    /\ runOf = [r \in Replies |-> runOf[r]]
    /\ \A r \in Replies : Whole(runOf[r]) /\ LooksOK(runOf[r])

\* Only what is not looked at changes.
Alike(x, y) ==
    /\ Whole(y)
    /\ y.at = x.at /\ y.status = x.status /\ y.baseline = x.baseline /\ y.diffReady = x.diffReady
    /\ y.touched = x.touched /\ y.then = x.then /\ y.end = x.end

\* A reply that notes a tool is otherwise as it was.
LEMMA ToolAlike ==
    ASSUME NEW x, Whole(x), NEW t, NEW y, y = [x EXCEPT !.tool = t]
    PROVE  Alike(x, y)
<1>1. y = [at |-> x.at, mode |-> x.mode, over |-> x.over, tool |-> t, status |-> x.status,
           baseline |-> x.baseline, diffReady |-> x.diffReady, touched |-> x.touched,
           then |-> x.then, end |-> x.end]
  BY DEF Whole
<1> QED
  BY <1>1 DEF Alike, Whole

\* A reply whose run is over is otherwise as it was.
LEMMA OverAlike ==
    ASSUME NEW x, Whole(x), NEW y, y = [x EXCEPT !.over = TRUE]
    PROVE  Alike(x, y)
<1>1. y = [at |-> x.at, mode |-> x.mode, over |-> TRUE, tool |-> x.tool, status |-> x.status,
           baseline |-> x.baseline, diffReady |-> x.diffReady, touched |-> x.touched,
           then |-> x.then, end |-> x.end]
  BY DEF Whole
<1> QED
  BY <1>1 DEF Alike, Whole

\* A change of the tree is noted by the replies that pump.
LEMMA Touched ==
    ASSUME NEW x, Whole(x), NEW y, y = [x EXCEPT !.touched = TRUE]
    PROVE  /\ Whole(y) /\ y.touched
           /\ y.at = x.at /\ y.status = x.status /\ y.baseline = x.baseline
           /\ y.diffReady = x.diffReady /\ y.then = x.then /\ y.end = x.end
<1>1. y = [at |-> x.at, mode |-> x.mode, over |-> x.over, tool |-> x.tool, status |-> x.status,
           baseline |-> x.baseline, diffReady |-> x.diffReady, touched |-> TRUE,
           then |-> x.then, end |-> x.end]
  BY DEF Whole
<1> QED
  BY <1>1 DEF Whole

\* The looks are of the tree, while it stays.
LEMMA TreeStays ==
    ASSUME UNCHANGED treeVars
    PROVE  /\ GitStatus' = GitStatus /\ GitDiff' = GitDiff
           /\ StatusNow' = StatusNow /\ SnapshotNow' = SnapshotNow /\ isGit' = isGit
<1>1. UNCHANGED <<isGit, head, staged, disk>>
  BY DEF treeVars
<1>2. GitStatus' = GitStatus /\ GitDiff' = GitDiff
  BY <1>1 DEF GitStatus, StatusOfPath, GitDiff
<1> QED
  BY <1>1, <1>2 DEF StatusNow, SnapshotNow

\* One reply does what is not looked at.
LEMMA AlikeKeeps ==
    ASSUME WorkspaceInv, UNCHANGED treeVars, NEW r \in Replies, NEW y,
           Alike(runOf[r], y), runOf' = [runOf EXCEPT ![r] = y]
    PROVE  WorkspaceInv'
<1>1. /\ runOf' = [s \in Replies |-> runOf'[s]] /\ runOf'[r] = y
      /\ \A s \in Replies : s # r => runOf'[s] = runOf[s]
  BY DEF WorkspaceInv
<1>2. ASSUME NEW s \in Replies PROVE Alike(runOf[s], runOf'[s])
  <2>1. CASE s = r
    BY <1>1, <2>1
  <2>2. CASE s # r
    <3>1. Whole(runOf[s]) /\ runOf'[s] = runOf[s]
      BY <1>1, <2>2 DEF WorkspaceInv
    <3> QED
      BY <3>1 DEF Alike
  <2> QED
    BY <2>1, <2>2
<1>3. ASSUME NEW s \in Replies PROVE LooksOK(runOf[s])'
  <2>1. LooksOK(runOf[s])
    BY DEF WorkspaceInv
  <2> QED
    BY <1>2, <2>1, TreeStays, SMTT(30) DEF LooksOK, Alike, Announced
<1>4. ASSUME NEW s \in Replies PROVE Whole(runOf'[s])
  BY <1>2 DEF Alike
<1>5. (\A s \in Replies : Whole(runOf[s]) /\ LooksOK(runOf[s]))'
  BY <1>3, <1>4 DEF Whole
<1> QED
  BY <1>1, <1>5 DEF WorkspaceInv

\* Something touches the workspace, and all know.
LEMMA TouchKeeps ==
    ASSUME WorkspaceInv, NEW f, f = Touch(runOf),
           runOf' = f \/ \E r \in Replies : \E t : runOf' = [f EXCEPT ![r].tool = t],
           isGit => isGit'
    PROVE  WorkspaceInv'
<1> DEFINE Like(x, y) ==
        /\ Whole(y) /\ y.touched
        /\ y.at = x.at /\ y.status = x.status /\ y.baseline = x.baseline
        /\ y.diffReady = x.diffReady /\ y.then = x.then /\ y.end = x.end
<1>1. /\ f = [s \in Replies |-> f[s]]
      /\ \A s \in Replies : f[s] = [runOf[s] EXCEPT !.touched = TRUE]
  BY DEF Touch
<1>2. ASSUME NEW s \in Replies PROVE Like(runOf[s], f[s])
  BY <1>1, Touched DEF WorkspaceInv
<1>3. runOf' = [s \in Replies |-> runOf'[s]] /\ \A s \in Replies : Like(runOf[s], runOf'[s])
  <2>1. CASE runOf' = f
    BY <1>1, <1>2, <2>1
  <2>2. ASSUME NEW r \in Replies, NEW t, runOf' = [f EXCEPT ![r].tool = t]
        PROVE  runOf' = [s \in Replies |-> runOf'[s]] /\ \A s \in Replies : Like(runOf[s], runOf'[s])
    <3> DEFINE y == [f[r] EXCEPT !.tool = t]
    <3>1. runOf' = [f EXCEPT ![r] = y]
      BY <2>2
    <3>2. Alike(f[r], y)
      BY <1>2, ToolAlike
    <3> HIDE DEF y
    <3>3. /\ runOf' = [s \in Replies |-> runOf'[s]] /\ runOf'[r] = y
          /\ \A s \in Replies : s # r => runOf'[s] = f[s]
      BY <1>1, <3>1
    <3>4. Like(runOf[r], y)
      BY <1>2, <3>2 DEF Alike
    <3> HIDE DEF Like
    <3> QED
      BY <1>2, <3>3, <3>4
  <2> QED
    BY <2>1, <2>2
<1>4. ASSUME NEW s \in Replies PROVE LooksOK(runOf[s])'
  <2>1. LooksOK(runOf[s]) /\ Like(runOf[s], runOf'[s])
    BY <1>3 DEF WorkspaceInv
  <2> QED
    BY <2>1 DEF LooksOK, Announced
<1> QED
  BY <1>3, <1>4 DEF WorkspaceInv

---------------------------------------------------------------------------
\* What git diff says now.
LEMMA DiffNow == GitDiff = DiffOf([git |-> isGit, staged |-> staged, disk |-> disk])
BY DEF GitDiff, DiffOf

\* What is announced at the end.
LEMMA ReadyIsRight ==
    ASSUME NEW x, x.at = "last", LooksOK(x), NEW current,
           current = IF x.status = <<>> THEN NoSnapshot
                     ELSE [is |-> TRUE, status |-> x.status[1], diff |-> GitDiff],
           NEW ready,
           ready = IF ~current.is \/ current = x.baseline THEN <<>>
                   ELSE IF DOMAIN current.status = {} /\ DOMAIN current.diff = {} THEN <<>>
                   ELSE LET a == DiffFiles(current.diff)
                            b == StatusFiles(current.status)
                        IN  <<[files_changed |-> IF a > b THEN a ELSE b]>>
    PROVE  /\ (x.then.git /\ isGit /\ \E p \in Paths :
                 /\ staged[p] = x.then.staged[p] /\ staged[p] # Absent
                 /\ disk[p] \notin {x.then.disk[p], staged[p]})
              => ready # <<>>
           /\ ~x.touched => ready = <<>>
           /\ ready # <<>> => ready[1].files_changed > 0
<1>1. ASSUME x.then.git, NEW p \in Paths, staged[p] = x.then.staged[p], staged[p] # Absent,
             disk[p] \notin {x.then.disk[p], staged[p]}
      PROVE  ready # <<>>
  <2>1. x.status # <<>>
    BY <1>1 DEF LooksOK
  <2>2. current = [is |-> TRUE, status |-> x.status[1], diff |-> GitDiff]
    BY <2>1
  <2>3. current.is /\ current.diff = GitDiff
    BY <2>2
  <2>4. p \in DOMAIN GitDiff /\ GitDiff[p] = <<staged[p], disk[p]>>
    BY <1>1 DEF GitDiff
  <2>5. current # x.baseline
    <3>1. CASE x.baseline = NoSnapshot
      BY <2>3, <3>1 DEF NoSnapshot
    <3>2. CASE x.baseline.diff = DiffOf(x.then)
      <4>1. SUFFICES ASSUME GitDiff = DiffOf(x.then) PROVE FALSE
        BY <2>3, <3>2
      <4>2. p \in DOMAIN DiffOf(x.then)
        BY <2>4, <4>1
      <4>3. DiffOf(x.then)[p] = <<x.then.staged[p], x.then.disk[p]>>
        BY <4>2 DEF DiffOf
      <4>4. <<staged[p], disk[p]>> = <<x.then.staged[p], x.then.disk[p]>>
        BY <2>4, <4>1, <4>3
      <4> QED
        BY <1>1, <4>4
    <3> QED
      BY <3>1, <3>2 DEF LooksOK
  <2>6. DOMAIN current.diff # {}
    BY <2>3, <2>4
  <2> QED
    BY <2>3, <2>5, <2>6
<1>2. ASSUME ~x.touched PROVE ready = <<>>
  <2>1. x.status = StatusNow /\ x.baseline = SnapshotNow
    BY <1>2 DEF LooksOK
  <2>2. CASE isGit
    <3>1. x.status = <<GitStatus>> /\ x.status # <<>> /\ x.status[1] = GitStatus
      BY <2>1, <2>2 DEF StatusNow
    <3>2. current = x.baseline
      BY <2>1, <2>2, <3>1 DEF SnapshotNow
    <3> QED
      BY <3>2
  <2>3. CASE ~isGit
    BY <2>1, <2>3 DEF StatusNow, NoSnapshot
  <2> QED
    BY <2>2, <2>3
<1>3. ASSUME ready # <<>> PROVE ready[1].files_changed > 0
  <2> DEFINE a == DiffFiles(current.diff)
             b == StatusFiles(current.status)
  <2>1. /\ current.is /\ (DOMAIN current.status # {} \/ DOMAIN current.diff # {})
        /\ ready = <<[files_changed |-> IF a > b THEN a ELSE b]>>
    BY <1>3
  <2>2. x.status # <<>>
    BY <2>1 DEF NoSnapshot
  <2>3. current = [is |-> TRUE, status |-> x.status[1], diff |-> GitDiff]
    BY <2>2
  <2>4. DOMAIN current.status \subseteq Paths /\ DOMAIN current.diff \subseteq Paths
    BY <2>2, <2>3 DEF LooksOK, GitDiff
  <2>5. IsFiniteSet(DOMAIN current.status) /\ IsFiniteSet(DOMAIN current.diff)
    BY <2>4, PathsAssumption, FS_Subset
  <2>6. /\ a \in Nat /\ b \in Nat
        /\ DOMAIN current.diff # {} => a # 0
        /\ DOMAIN current.status # {} => b # 0
    BY <2>5, FS_CardinalityType, FS_EmptySet DEF DiffFiles, StatusFiles
  <2> HIDE DEF a, b
  <2>7. (IF a > b THEN a ELSE b) > 0
    BY <2>1, <2>6
  <2> QED
    BY <2>1, <2>7
<1> QED
  BY <1>1, <1>2, <1>3

\* The other replies are as they were.
LEMMA OthersStay ==
    ASSUME WorkspaceInv, UNCHANGED treeVars, NEW r \in Replies, NEW y,
           runOf' = [runOf EXCEPT ![r] = y], Whole(y), LooksOK(y)'
    PROVE  WorkspaceInv'
<1>1. /\ runOf' = [s \in Replies |-> runOf'[s]] /\ runOf'[r] = y
      /\ \A s \in Replies : s # r => runOf'[s] = runOf[s]
  BY DEF WorkspaceInv
<1>2. ASSUME NEW s \in Replies, s # r PROVE LooksOK(runOf[s])'
  <2>1. LooksOK(runOf[s]) /\ runOf'[s] = runOf[s]
    BY <1>1, <1>2 DEF WorkspaceInv
  <2> QED
    BY <2>1, TreeStays DEF LooksOK
<1>3. LooksOK(runOf[r])'
  BY <1>1
<1> QED
  BY <1>1, <1>2, <1>3 DEF WorkspaceInv

\* The status lists paths.
LEMMA StatusIsOfPaths == DOMAIN GitStatus \subseteq Paths
BY DEF GitStatus

\* A reply begins.
LEMMA StartKeeps ==
    ASSUME WorkspaceInv, NEW r \in Replies, StartReply(r)
    PROVE  WorkspaceInv'
<1> DEFINE x == runOf[r]
<1>1. Whole(x) /\ LooksOK(x) /\ x.at = "idle" /\ UNCHANGED treeVars
  BY DEF StartReply, WorkspaceInv
<1>y. PICK y : y = [x EXCEPT !.at = "started"]
  OBVIOUS
<1>2. runOf' = [runOf EXCEPT ![r] = y]
  BY <1>y DEF StartReply
<1>3. y = [at |-> "started", mode |-> x.mode, over |-> x.over, tool |-> x.tool, status |-> x.status,
           baseline |-> x.baseline, diffReady |-> x.diffReady, touched |-> x.touched,
           then |-> x.then, end |-> x.end]
  BY <1>1, <1>y DEF Whole
<1>4. Whole(y) /\ y.at = "started" /\ y.status = x.status
  BY <1>3 DEF Whole
<1> HIDE DEF x
<1>5. LooksOK(y)'
  BY <1>1, <1>4 DEF LooksOK, Stages
<1> QED
  BY <1>1, <1>2, <1>4, <1>5, OthersStay

\* A reply looks at the status.
LEMMA StatusKeeps ==
    ASSUME WorkspaceInv, NEW r \in Replies, TakeStatus(r)
    PROVE  WorkspaceInv'
<1> DEFINE x == runOf[r]
           reached == IF x.at = "started" THEN "first" ELSE "last"
           touched == IF x.at = "started" THEN FALSE ELSE x.touched
<1>1. Whole(x) /\ LooksOK(x) /\ x.at \in {"started", "pumping"} /\ UNCHANGED treeVars
  BY DEF TakeStatus, WorkspaceInv
<1>y. PICK y : y = [x EXCEPT !.at = reached, !.touched = touched, !.status = StatusNow]
  OBVIOUS
<1>2. runOf' = [runOf EXCEPT ![r] = y]
  <2>1. runOf' = [runOf EXCEPT
         ![r].at = IF @ = "started" THEN "first" ELSE "last",
         ![r].touched = IF runOf[r].at = "started" THEN FALSE ELSE @,
         ![r].status = StatusNow]
    BY DEF TakeStatus, StatusNow
  <2> QED
    BY <1>y, <2>1
<1> HIDE DEF reached, touched
<1>3. y = [at |-> reached, mode |-> x.mode, over |-> x.over, tool |-> x.tool, status |-> StatusNow,
           baseline |-> x.baseline, diffReady |-> x.diffReady, touched |-> touched,
           then |-> x.then, end |-> x.end]
  BY <1>1, <1>y DEF Whole
<1>4. /\ Whole(y) /\ y.at = reached /\ y.status = StatusNow /\ y.touched = touched
      /\ y.baseline = x.baseline /\ y.then = x.then
  BY <1>3 DEF Whole
<1> HIDE DEF x
<1>5. y.status # <<>> => DOMAIN y.status[1] \subseteq Paths
  <2>1. StatusNow # <<>> => StatusNow = <<GitStatus>> /\ StatusNow[1] = GitStatus
    BY DEF StatusNow
  <2> QED
    BY <1>4, <2>1, StatusIsOfPaths
<1>6. isGit => y.status # <<>>
  BY <1>4 DEF StatusNow
<1>7. x.at = "started" => reached = "first"
  BY DEF reached
<1>8. x.at = "pumping" => reached = "last" /\ touched = x.touched
  BY DEF reached, touched
<1>9. LooksOK(y)'
  <2>1. CASE x.at = "started"
    BY <1>1, <1>4, <1>5, <1>7, <2>1, TreeStays DEF LooksOK, Stages
  <2>2. CASE x.at = "pumping"
    BY <1>1, <1>4, <1>5, <1>6, <1>8, <2>2, TreeStays DEF LooksOK, Stages
  <2> QED
    BY <1>1, <2>1, <2>2
<1> QED
  BY <1>1, <1>2, <1>4, <1>9, OthersStay

\* A reply takes its baseline.
LEMMA BaselineKeeps ==
    ASSUME WorkspaceInv, NEW r \in Replies, TakeBaseline(r)
    PROVE  WorkspaceInv'
<1> DEFINE x == runOf[r]
           now == [git |-> isGit, staged |-> staged, disk |-> disk]
<1>1. Whole(x) /\ LooksOK(x) /\ x.at = "first" /\ UNCHANGED treeVars
  BY DEF TakeBaseline, WorkspaceInv
<1>y. PICK y : y = [x EXCEPT !.at = "pumping", !.baseline = Snapshot(r), !.then = now]
  OBVIOUS
<1>2. runOf' = [runOf EXCEPT ![r] = y]
  BY <1>y DEF TakeBaseline
<1> HIDE DEF now
<1>3. y = [at |-> "pumping", mode |-> x.mode, over |-> x.over, tool |-> x.tool, status |-> x.status,
           baseline |-> Snapshot(r), diffReady |-> x.diffReady, touched |-> x.touched,
           then |-> now, end |-> x.end]
  BY <1>1, <1>y DEF Whole
<1>4. /\ Whole(y) /\ y.at = "pumping" /\ y.status = x.status /\ y.touched = x.touched
      /\ y.baseline = Snapshot(r) /\ y.then = now
  BY <1>3 DEF Whole
<1>5. Snapshot(r) = IF x.status = <<>> THEN NoSnapshot
                    ELSE [is |-> TRUE, status |-> x.status[1], diff |-> GitDiff]
  BY DEF Snapshot
<1>6. now.git = isGit /\ GitDiff = DiffOf(now)
  BY DiffNow DEF now
<1> HIDE DEF x
<1>7. Snapshot(r) = NoSnapshot
      \/ (Snapshot(r).is /\ Snapshot(r).diff = DiffOf(now) /\ Snapshot(r) # NoSnapshot)
  <2>1. CASE x.status = <<>>
    BY <1>5, <2>1
  <2>2. CASE x.status # <<>>
    <3>1. Snapshot(r) = [is |-> TRUE, status |-> x.status[1], diff |-> GitDiff]
      BY <1>5, <2>2
    <3>2. Snapshot(r).is /\ Snapshot(r).diff = GitDiff
      BY <3>1
    <3> QED
      BY <1>6, <3>2 DEF NoSnapshot
  <2> QED
    BY <2>1, <2>2
<1>8. ~x.touched => Snapshot(r) = SnapshotNow
  <2> SUFFICES ASSUME ~x.touched PROVE Snapshot(r) = SnapshotNow
    OBVIOUS
  <2>1. x.status = StatusNow
    BY <1>1 DEF LooksOK
  <2>2. CASE isGit
    <3>1. x.status = <<GitStatus>> /\ x.status # <<>> /\ x.status[1] = GitStatus
      BY <2>1, <2>2 DEF StatusNow
    <3> QED
      BY <1>5, <2>2, <3>1 DEF SnapshotNow
  <2>3. CASE ~isGit
    BY <1>5, <2>1, <2>3 DEF StatusNow, SnapshotNow
  <2> QED
    BY <2>2, <2>3
<1>9. LooksOK(y)'
  <2>1. x.status # <<>> => DOMAIN x.status[1] \subseteq Paths
    BY <1>1 DEF LooksOK
  <2> HIDE DEF now
  <2>2. (y.then.git => isGit)'
    <3>1. isGit' = isGit
      BY <1>1, TreeStays
    <3> QED
      BY <1>4, <1>6, <3>1
  <2>3. (~y.touched => y.baseline = SnapshotNow)'
    <3>1. SnapshotNow' = SnapshotNow
      BY <1>1, TreeStays
    <3> QED
      BY <1>4, <1>8, <3>1
  <2> QED
    BY <1>4, <1>7, <2>1, <2>2, <2>3 DEF LooksOK, Stages
<1> QED
  BY <1>1, <1>2, <1>4, <1>9, OthersStay

\* A reply takes its last snapshot and tells what changed.
LEMMA FinishKeeps ==
    ASSUME WorkspaceInv, NEW r \in Replies, FinishReply(r)
    PROVE  WorkspaceInv'
<1> DEFINE x == runOf[r]
           now == [git |-> isGit, staged |-> staged, disk |-> disk]
<1>1. Whole(x) /\ LooksOK(x) /\ x.at = "last" /\ UNCHANGED treeVars
  BY DEF FinishReply, WorkspaceInv
<1>y. PICK y : y = [x EXCEPT !.at = "done", !.diffReady = BuildDiffReady(r), !.end = now]
  OBVIOUS
<1>2. runOf' = [runOf EXCEPT ![r] = y]
  BY <1>y DEF FinishReply
<1> HIDE DEF now
<1>3. y = [at |-> "done", mode |-> x.mode, over |-> x.over, tool |-> x.tool, status |-> x.status,
           baseline |-> x.baseline, diffReady |-> BuildDiffReady(r), touched |-> x.touched,
           then |-> x.then, end |-> now]
  BY <1>1, <1>y DEF Whole
<1>4. /\ Whole(y) /\ y.at = "done" /\ y.status = x.status /\ y.touched = x.touched
      /\ y.diffReady = BuildDiffReady(r) /\ y.then = x.then /\ y.end = now
  BY <1>3 DEF Whole
<1>5. now.git = isGit /\ now.staged = staged /\ now.disk = disk
  BY DEF now
<1> DEFINE current == IF x.status = <<>> THEN NoSnapshot
                      ELSE [is |-> TRUE, status |-> x.status[1], diff |-> GitDiff]
<1>6. BuildDiffReady(r) = IF ~current.is \/ current = x.baseline THEN <<>>
        ELSE IF DOMAIN current.status = {} /\ DOMAIN current.diff = {} THEN <<>>
        ELSE LET a == DiffFiles(current.diff)
                 b == StatusFiles(current.status)
             IN  <<[files_changed |-> IF a > b THEN a ELSE b]>>
  BY DEF BuildDiffReady, Snapshot
<1>c. current = IF x.status = <<>> THEN NoSnapshot
                ELSE [is |-> TRUE, status |-> x.status[1], diff |-> GitDiff]
  OBVIOUS
<1> HIDE DEF x, current
<1>7. /\ (x.then.git /\ isGit /\ \E p \in Paths :
            /\ staged[p] = x.then.staged[p] /\ staged[p] # Absent
            /\ disk[p] \notin {x.then.disk[p], staged[p]})
         => BuildDiffReady(r) # <<>>
      /\ ~x.touched => BuildDiffReady(r) = <<>>
      /\ BuildDiffReady(r) # <<>> => BuildDiffReady(r)[1].files_changed > 0
  BY <1>1, <1>6, <1>c, ReadyIsRight
<1>8. Announced(y)
  BY <1>4, <1>5, <1>7 DEF Announced
<1>9. LooksOK(y)'
  <2>1. x.status # <<>> => DOMAIN x.status[1] \subseteq Paths
    BY <1>1 DEF LooksOK
  <2> QED
    BY <1>4, <1>8, <2>1 DEF LooksOK, Stages
<1> QED
  BY <1>1, <1>2, <1>4, <1>9, OthersStay

\* No reply has begun.
LEMMA WorkspaceStarts == WorkspaceInit => WorkspaceInv
<1> SUFFICES ASSUME WorkspaceInit PROVE WorkspaceInv
  OBVIOUS
<1>1. PICK mode \in Modes : runOf = [r \in Replies |-> Waiting(mode)]
  BY DEF WorkspaceInit
<1>2. Whole(Waiting(mode)) /\ Waiting(mode).at = "idle" /\ Waiting(mode).status = <<>>
  BY DEF Waiting, Whole
<1>3. LooksOK(Waiting(mode))
  BY <1>2 DEF LooksOK, Stages
<1> QED
  BY <1>1, <1>2, <1>3 DEF WorkspaceInv

\* Every step keeps the invariant.
LEMMA WorkspaceStep == WorkspaceInv /\ [WorkspaceNext]_wsVars => WorkspaceInv'
<1> SUFFICES ASSUME WorkspaceInv, [WorkspaceNext]_wsVars
             PROVE  WorkspaceInv'
  OBVIOUS
<1>1. ASSUME UNCHANGED treeVars, UNCHANGED runOf PROVE WorkspaceInv'
  BY <1>1, TreeStays DEF WorkspaceInv, LooksOK
<1>2. ASSUME NEW r \in Replies, UNCHANGED treeVars, NEW t, runOf' = [runOf EXCEPT ![r].tool = t]
      PROVE  WorkspaceInv'
  <2>1. Whole(runOf[r])
    BY DEF WorkspaceInv
  <2> DEFINE y == [runOf[r] EXCEPT !.tool = t]
  <2>2. Alike(runOf[r], y)
    BY <2>1, ToolAlike
  <2>3. runOf' = [runOf EXCEPT ![r] = y]
    BY <1>2
  <2> HIDE DEF y
  <2> QED
    BY <1>2, <2>2, <2>3, AlikeKeeps
<1>3. ASSUME NEW e, Apply(e) PROVE isGit => isGit'
  BY <1>3 DEF Apply
<1>4. ASSUME NEW r \in Replies, RunEnds(r) PROVE WorkspaceInv'
  <2>1. Whole(runOf[r]) /\ UNCHANGED treeVars
    BY <1>4 DEF WorkspaceInv, RunEnds
  <2> DEFINE y == [runOf[r] EXCEPT !.over = TRUE]
  <2>2. Alike(runOf[r], y)
    BY <2>1, OverAlike
  <2>3. runOf' = [runOf EXCEPT ![r] = y]
    BY <1>4 DEF RunEnds
  <2> HIDE DEF y
  <2> QED
    BY <2>1, <2>2, <2>3, AlikeKeeps
<1>5. ASSUME NEW r \in Replies, ToolReturns(r) PROVE WorkspaceInv'
  <2>1. isGit => isGit'
    BY <1>3, <1>5 DEF ToolReturns
  <2>2. runOf' = [Touch(runOf) EXCEPT ![r].tool = <<>>]
    BY <1>5 DEF ToolReturns
  <2> QED
    BY <2>1, <2>2, TouchKeeps
<1>6. ASSUME NEW e \in late, LateEffect(e) PROVE WorkspaceInv'
  <2>1. (isGit => isGit') /\ runOf' = Touch(runOf)
    BY <1>3, <1>6 DEF LateEffect
  <2> QED
    BY <2>1, TouchKeeps
<1>7. ASSUME NEW r \in Replies,
             ToolTimesOut(r) \/ (\E p \in Paths, text \in FileTexts : WriteFile(r, p, text))
               \/ (\E e \in Effects : RunCommand(r, e))
      PROVE  WorkspaceInv'
  <2>1. UNCHANGED treeVars /\ \E t : runOf' = [runOf EXCEPT ![r].tool = t]
    BY <1>7 DEF ToolTimesOut, WriteFile, RunCommand
  <2> QED
    BY <1>2, <2>1
<1>8. ASSUME NEW r \in Replies, ToolRefused(r) \/ \E c \in Reads : ReadTool(r, c) PROVE WorkspaceInv'
  BY <1>1, <1>8 DEF ToolRefused, ReadTool
<1>9. ASSUME (\E c \in Reads : Look(c)) \/ (\E root \in Roots : OpenWorkspace(root)) PROVE WorkspaceInv'
  BY <1>1, <1>9 DEF Look, OpenWorkspace
<1>10. CASE UNCHANGED wsVars
  BY <1>1, <1>10 DEF wsVars, treeVars
<1> QED
  BY <1>4, <1>5, <1>6, <1>7, <1>8, <1>9, <1>10, StartKeeps, StatusKeeps, BaselineKeeps, FinishKeeps
     DEF WorkspaceNext

\* However runs, commands that outlive them and the looks of a reply
\* interleave: changes that are there are announced, and no others.
THEOREM ChangesAreAnnounced == WorkspaceSpec => []ChangesAnnounced
<1>1. WorkspaceInv => ChangesAnnounced
  BY DEF WorkspaceInv, LooksOK, Announced, ChangesAnnounced
<1> QED
  BY <1>1, WorkspaceStarts, WorkspaceStep, PTL DEF WorkspaceSpec

---------------------------------------------------------------------------
(* The task list                                                           *)

\* A sequence, of whatever elements.
IsSeq(s) == s \in Seq(Range(s))

\* A sequence of anything is a sequence of its own elements.
LEMMA SeqIsSeq ==
    ASSUME NEW S, NEW s \in Seq(S)
    PROVE  IsSeq(s)
  BY DEF IsSeq, Range

---------------------------------------------------------------------------
\* The lines under a heading end at the next heading or at the end.
UnderEnds(lines, i, last) ==
    /\ last \in i..Len(lines)
    /\ \A k \in i + 1 .. last : ~IsHeading(lines[k])
    /\ last = Len(lines) \/ IsHeading(lines[last + 1])

\* There is such an end, and the lines under the heading go there.
LEMMA UnderIs ==
    ASSUME NEW lines, IsSeq(lines), NEW i \in 1..Len(lines)
    PROVE  \E last \in i..Len(lines) : /\ UnderEnds(lines, i, last)
                                       /\ Under(lines, i) = SubSeq(lines, i + 1, last)
  <1> DEFINE E == {j \in i..Len(lines) : j = Len(lines) \/ IsHeading(lines[j + 1])}
  <1>0. Len(lines) \in Nat
    BY DEF IsSeq
  <1>1. Len(lines) \in E /\ E \in SUBSET Nat
    BY <1>0
  <1>2. PICK m \in E : \A k \in E : m <= k
    BY <1>1, LeastNumber
  <1>3. \A k \in i + 1 .. m : ~IsHeading(lines[k])
    <2> SUFFICES ASSUME NEW k \in i + 1 .. m, IsHeading(lines[k]) PROVE FALSE
      OBVIOUS
    <2>0. m \in Nat /\ m <= Len(lines) /\ k \in Nat /\ k <= m /\ i + 1 <= k
      BY <1>0, <1>2
    <2>1. k - 1 \in i..Len(lines) /\ (k - 1) + 1 = k
      BY <1>0, <2>0
    <2>2. k - 1 \in E
      BY <2>1
    <2>3. m <= k - 1
      BY <1>2, <2>2
    <2> HIDE DEF E
    <2> QED BY <2>0, <2>3
  <1>4. UnderEnds(lines, i, m)
    BY <1>2, <1>3 DEF UnderEnds
  <1> DEFINE l == CHOOSE j \in i .. Len(lines) : /\ \A k \in i + 1 .. j : ~IsHeading(lines[k])
                                                 /\ j = Len(lines) \/ IsHeading(lines[j + 1])
  <1>5. l \in i..Len(lines) /\ UnderEnds(lines, i, l)
    BY <1>4 DEF UnderEnds
  <1>6. Under(lines, i) = SubSeq(lines, i + 1, l)
    BY DEF Under
  <1> HIDE DEF l
  <1> QED BY <1>5, <1>6

\* The lines under a heading are later lines of the text.
LEMMA UnderWithin ==
    ASSUME NEW lines, IsSeq(lines), NEW i \in 1..Len(lines)
    PROVE  /\ IsSeq(Under(lines, i))
           /\ \A j \in 1..Len(Under(lines, i)) : \E k \in i + 1 .. Len(lines) : Under(lines, i)[j] = lines[k]
  <1>1. PICK last \in i..Len(lines) : Under(lines, i) = SubSeq(lines, i + 1, last)
    BY UnderIs
  <1>2. SubSeq(lines, i + 1, last) \in Seq(Range(lines)) /\ Len(lines) \in Nat
    BY DEF IsSeq
  <1>3. IsSeq(Under(lines, i))
    BY <1>1, <1>2, SeqIsSeq
  <1>4. \A j \in 1..Len(Under(lines, i)) : i + j \in i + 1 .. Len(lines) /\ Under(lines, i)[j] = lines[i + j]
    BY <1>1, <1>2 DEF IsSeq
  <1> QED BY <1>3, <1>4

\* No items, no tasks.
LEMMA NothingParsed ==
    ASSUME NEW lines, IsSeq(lines), \A i \in 1..Len(lines) : lines[i].kind # "item"
    PROVE  ParseTasks(lines) = <<>>
  <1> DEFINE T == {l \in Range(lines) : l.kind = "item"}
             boxes == Only(lines, T)
  <1>1. lines \in Seq(Range(lines)) /\ DOMAIN lines = 1..Len(lines)
    BY DEF IsSeq
  <1>2. Range(lines) \cap T = {}
    BY <1>1 DEF Range
  <1>3. boxes = <<>>
    BY <1>1, <1>2, OnlyNone
  <1>4. ParseTasks(lines) = [i \in DOMAIN boxes |-> [title |-> boxes[i].title, done |-> boxes[i].done]]
    BY DEF ParseTasks
  <1> QED BY <1>3, <1>4

\* The headings of a text, in their order.
Heads(lines) == Only([i \in DOMAIN lines |-> i], {i \in DOMAIN lines : lines[i].kind \in {"tasks", "steps"}})

\* They are places of headings.
LEMMA HeadsType ==
    ASSUME NEW lines, IsSeq(lines)
    PROVE  /\ [i \in DOMAIN lines |-> i] \in Seq(1..Len(lines))
           /\ Heads(lines) \in Seq({i \in 1..Len(lines) : lines[i].kind \in {"tasks", "steps"}})
  <1>1. DOMAIN lines = 1..Len(lines) /\ Len(lines) \in Nat
    BY DEF IsSeq
  <1>2. [i \in DOMAIN lines |-> i] \in Seq(1..Len(lines))
    BY <1>1
  <1> DEFINE H == {i \in DOMAIN lines : lines[i].kind \in {"tasks", "steps"}}
  <1>3. Heads(lines) \in Seq((1..Len(lines)) \cap H)
    BY <1>2, OnlyType DEF Heads
  <1>4. (1..Len(lines)) \cap H = {i \in 1..Len(lines) : lines[i].kind \in {"tasks", "steps"}}
    BY <1>1
  <1> QED BY <1>2, <1>3, <1>4

\* A text without items has no list.
LEMMA NothingExtracted ==
    ASSUME NEW lines, IsSeq(lines), ~HasItems(lines)
    PROVE  ExtractTaskLists(lines) = <<>>
  <1> DEFINE heads == Heads(lines)
             found == [i \in DOMAIN heads |-> ParseTasks(Under(lines, heads[i]))]
             lists == Only(found, Range(found) \ {<<>>})
  <1>1. \A i \in 1..Len(lines) : lines[i].kind # "item"
    BY DEF HasItems, IsSeq
  <1>2. ParseTasks(lines) = <<>>
    BY <1>1, NothingParsed
  <1>3. heads \in Seq(1..Len(lines))
    <2>1. heads \in Seq({i \in 1..Len(lines) : lines[i].kind \in {"tasks", "steps"}})
      BY HeadsType
    <2>2. {i \in 1..Len(lines) : lines[i].kind \in {"tasks", "steps"}} \subseteq 1..Len(lines)
      OBVIOUS
    <2> HIDE DEF heads
    <2> QED BY <2>1, <2>2
  <1>4. \A i \in DOMAIN heads : found[i] = <<>>
    <2> SUFFICES ASSUME NEW i \in DOMAIN heads PROVE ParseTasks(Under(lines, heads[i])) = <<>>
      OBVIOUS
    <2>1. heads[i] \in 1..Len(lines) /\ Len(lines) \in Nat
      BY <1>3 DEF IsSeq
    <2> QED BY <2>1, <1>1, UnderWithin, NothingParsed
  <1>5. found \in Seq({<<>>})
    BY <1>3, <1>4
  <1>6. lists = <<>>
    BY <1>5, OnlyNone
  <1>7. ExtractTaskLists(lines) = IF lists # <<>> THEN lists
                                 ELSE IF ParseTasks(lines) = <<>> THEN <<>> ELSE <<ParseTasks(lines)>>
    BY DEF ExtractTaskLists, Heads
  <1> QED BY <1>2, <1>6, <1>7
---------------------------------------------------------------------------
\* What the store should hold of a list, and what a list looks like in a text.
KeptList(list) == [i \in DOMAIN list |-> [title |-> MarkdownTitle(list[i]), done |-> list[i].status = "Completed"]]
ItemsOf(list) == [i \in DOMAIN list |-> ItemLine(MarkdownTitle(list[i]), list[i].status = "Completed")]
IsReport(rep) == rep = <<>> \/ \E r : rep = <<r>> /\ IsSeq(r)

\* Where the elements of a concatenation come from.
LEMMA Concatenated ==
    ASSUME NEW S, NEW a \in Seq(S), NEW b \in Seq(S), NEW n \in Nat, NEW k \in Nat, Len(a) = n, Len(b) = k
    PROVE  /\ a \o b \in Seq(S) /\ Len(a \o b) = n + k
           /\ \A i \in 1..n : (a \o b)[i] = a[i]
           /\ \A j \in 1..k : (a \o b)[n + j] = b[j]
  OBVIOUS

\* The fields of an item.
LEMMA ItemLineIs ==
    ASSUME NEW t, NEW d
    PROVE  ItemLine(t, d).kind = "item" /\ ItemLine(t, d).title = t /\ ItemLine(t, d).done = d
  BY Zenon DEF ItemLine

\* The items of a list are as many as its tasks.
LEMMA ItemsOfSeq ==
    ASSUME NEW list, IsSeq(list)
    PROVE  /\ ItemsOf(list) \in Seq(Range(ItemsOf(list))) /\ Len(ItemsOf(list)) = Len(list) /\ Len(list) \in Nat
           /\ \A i \in 1..Len(list) :
                 ItemsOf(list)[i] = ItemLine(MarkdownTitle(list[i]), list[i].status = "Completed")
  <1>1. DOMAIN list = 1..Len(list) /\ Len(list) \in Nat
    BY DEF IsSeq
  <1> DEFINE f == ItemsOf(list)
  <1>2. f = [i \in 1..Len(list) |-> ItemLine(MarkdownTitle(list[i]), list[i].status = "Completed")]
    BY <1>1 DEF ItemsOf
  <1>3. \A i \in 1..Len(list) : f[i] = ItemLine(MarkdownTitle(list[i]), list[i].status = "Completed")
    BY <1>2
  <1>4. f = [i \in 1..Len(list) |-> f[i]] /\ DOMAIN f = 1..Len(list)
    BY <1>2
  <1> HIDE DEF f
  <1>5. f \in Seq(Range(f)) /\ Len(f) = Len(list)
    BY <1>4, <1>1 DEF Range
  <1> QED BY <1>1, <1>3, <1>5 DEF f

\* The lines of a list in markdown, one by one.
IsMarkdown(lines, list, rep) ==
    LET n == Len(list)
        r == rep[1]
    IN  /\ IsSeq(lines)
        /\ n \in Nat /\ n >= 1
        /\ lines[1] = Line("tasks")
        /\ \A i \in 1..n : lines[i + 1] = ItemsOf(list)[i]
        /\ rep = <<>> => Len(lines) = n + 1
        /\ rep # <<>> => /\ Len(lines) = n + 3 + Len(r) /\ Len(r) \in Nat
                         /\ lines[n + 2] = Line("text")
                         /\ lines[n + 3] = Line("report")
                         /\ \A i \in 1..Len(r) : lines[n + 3 + i] = r[i]

\* So it is in what markdown returns.
LEMMA MarkdownLines ==
    ASSUME NEW list, NEW rep, IsSeq(list), list # <<>>, IsReport(rep)
    PROVE  IsMarkdown(Markdown(list, rep), list, rep)
  <1> DEFINE f == ItemsOf(list)
             n == Len(list)
             lines == Markdown(list, rep)
  <1>1. f \in Seq(Range(f)) /\ Len(f) = n /\ n \in Nat
    BY ItemsOfSeq
  <1>2. n >= 1
    BY <1>1 DEF IsSeq
  <1>3. lines = <<Line("tasks")>> \o f \o (IF rep = <<>> THEN <<>> ELSE <<Line("text"), Line("report")>> \o rep[1])
    BY DEF Markdown, ItemsOf
  <1> HIDE DEF f, lines
  <1>4. CASE rep = <<>>
    <2>1. lines = <<Line("tasks")>> \o f \o <<>>
      BY <1>3, <1>4
    <2> DEFINE S == Range(f) \cup {Line("tasks")}
    <2>2. f \in Seq(S) /\ <<Line("tasks")>> \in Seq(S) /\ <<>> \in Seq(S)
      BY <1>1
    <2> HIDE DEF S
    <2>3. /\ lines \in Seq(S) /\ Len(lines) = n + 1 /\ lines[1] = Line("tasks")
          /\ \A i \in 1..n : lines[i + 1] = f[i]
      BY <2>1, <2>2, <1>1
    <2>4. IsSeq(lines)
      BY <2>3, SeqIsSeq
    <2>5. IsMarkdown(lines, list, rep)
      BY <1>1, <1>2, <1>4, <2>3, <2>4 DEF IsMarkdown, f
    <2> QED BY <2>5 DEF lines
  <1>5. CASE rep # <<>>
    <2>0. PICK r : rep = <<r>> /\ IsSeq(r)
      BY <1>5 DEF IsReport
    <2>1. lines = <<Line("tasks")>> \o f \o (<<Line("text"), Line("report")>> \o r)
      BY <1>3, <1>5, <2>0
    <2> DEFINE S == Range(f) \cup {Line("tasks"), Line("text"), Line("report")} \cup Range(r)
               a == <<Line("tasks")>> \o f
               b == <<Line("text"), Line("report")>> \o r
    <2>2. f \in Seq(S) /\ <<Line("tasks")>> \in Seq(S) /\ r \in Seq(S) /\ <<Line("text"), Line("report")>> \in Seq(S)
      BY <1>1, <2>0 DEF IsSeq
    <2> HIDE DEF S
    <2>3. a \in Seq(S) /\ Len(a) = n + 1 /\ a[1] = Line("tasks") /\ \A i \in 1..n : a[i + 1] = f[i]
      BY <2>2, <1>1
    <2>4. Len(r) \in Nat /\ b \in Seq(S) /\ Len(b) = 2 + Len(r)
      BY <2>2
    <2>5. b[1] = Line("text") /\ b[2] = Line("report") /\ \A i \in 1..Len(r) : b[2 + i] = r[i]
      BY <2>2
    <2> HIDE DEF a, b
    <2>6. lines = a \o b
      BY <2>1 DEF a, b
    <2> DEFINE k == Len(b)
               m == Len(a)
    <2>15. /\ lines \in Seq(S) /\ Len(lines) = m + k
           /\ \A i \in 1..m : lines[i] = a[i]
           /\ \A j \in 1..k : lines[m + j] = b[j]
      <3>1. m \in Nat /\ k \in Nat /\ Len(a) = m /\ Len(b) = k
        BY <2>3, <2>4, <1>1
      <3>2. a \in Seq(S) /\ b \in Seq(S)
        BY <2>3, <2>4
      <3> HIDE DEF m, k
      <3>3. /\ a \o b \in Seq(S) /\ Len(a \o b) = m + k
            /\ \A i \in 1..m : (a \o b)[i] = a[i]
            /\ \A j \in 1..k : (a \o b)[m + j] = b[j]
        BY <3>1, <3>2
      <3> QED BY <3>3, <2>6, Zenon
    <2>16. m = n + 1 /\ k = 2 + Len(r)
      BY <2>3, <2>4
    <2> HIDE DEF m, k
    <2>7. lines \in Seq(S) /\ Len(lines) = n + 3 + Len(r)
      BY <2>15, <2>16, <1>1, <2>4
    <2>8. \A i \in 1..(n + 1) : lines[i] = a[i]
      BY <2>15, <2>16
    <2>9. \A j \in 1..(2 + Len(r)) : lines[n + 1 + j] = b[j]
      BY <2>15, <2>16
    <2>10. lines[1] = Line("tasks") /\ \A i \in 1..n : lines[i + 1] = f[i]
      BY <2>3, <2>8, <1>1
    <2>11. lines[n + 2] = b[1] /\ lines[n + 3] = b[2]
      BY <2>9, <2>4, <1>1, (n + 1) + 1 = n + 2, (n + 1) + 2 = n + 3
    <2>12. \A i \in 1..Len(r) : lines[n + 3 + i] = r[i]
      <3> SUFFICES ASSUME NEW i \in 1..Len(r) PROVE lines[n + 3 + i] = r[i]
        OBVIOUS
      <3>1. 2 + i \in 1..(2 + Len(r)) /\ n + 1 + (2 + i) = n + 3 + i
        BY <2>4, <1>1
      <3> QED BY <3>1, <2>9, <2>5
    <2>13. IsSeq(lines)
      BY <2>7, SeqIsSeq
    <2>14. rep[1] = r
      BY <2>0
    <2>17. IsMarkdown(lines, list, rep)
      BY <1>1, <1>2, <1>5, <2>4, <2>5, <2>7, <2>10, <2>11, <2>12, <2>13, <2>14 DEF IsMarkdown, f
    <2> QED BY <2>17 DEF lines
  <1> QED BY <1>4, <1>5

\* The items of a list, read back.
LEMMA ItemsParse ==
    ASSUME NEW list, IsSeq(list), NEW seg,
           seg = ItemsOf(list) \/ seg = Append(ItemsOf(list), Line("text"))
    PROVE  ParseTasks(seg) = KeptList(list)
  <1> DEFINE f == ItemsOf(list)
             n == Len(list)
             T == {l \in Range(seg) : l.kind = "item"}
  <1>1. /\ f \in Seq(Range(f)) /\ Len(f) = n /\ n \in Nat
        /\ \A i \in 1..n : f[i] = ItemLine(MarkdownTitle(list[i]), list[i].status = "Completed")
    BY ItemsOfSeq
  <1>2. \A i \in 1..n : f[i].kind = "item" /\ f[i].title = MarkdownTitle(list[i])
                        /\ f[i].done = (list[i].status = "Completed")
    <2> SUFFICES ASSUME NEW i \in 1..n
                 PROVE  /\ f[i].kind = "item" /\ f[i].title = MarkdownTitle(list[i])
                        /\ f[i].done = (list[i].status = "Completed")
      OBVIOUS
    <2> HIDE DEF f, n
    <2>1. f[i] = ItemLine(MarkdownTitle(list[i]), list[i].status = "Completed")
      BY <1>1
    <2> DEFINE t == MarkdownTitle(list[i])
               d == list[i].status = "Completed"
    <2> HIDE DEF t, d
    <2>2. f[i] = ItemLine(t, d)
      BY <2>1 DEF t, d
    <2>3. ItemLine(t, d).kind = "item" /\ ItemLine(t, d).title = t /\ ItemLine(t, d).done = d
      BY ItemLineIs, Zenon
    <2>4. f[i].kind = "item" /\ f[i].title = t /\ f[i].done = d
      BY <2>2, <2>3, Zenon
    <2> QED BY <2>4, Zenon DEF t, d
  <1> HIDE DEF f
  <1>3. seg = f \/ seg = Append(f, Line("text"))
    BY DEF f
  <1>4. \A i \in 1..n : f[i] \in Range(seg)
    <2> SUFFICES ASSUME NEW i \in 1..n PROVE f[i] \in Range(seg)
      OBVIOUS
    <2>1. i \in DOMAIN seg /\ seg[i] = f[i]
      BY <1>1, <1>3
    <2> QED BY <2>1 DEF Range
  <1>5. f \in Seq(T)
    <2>1. \A i \in 1..n : f[i] \in T
      BY <1>2, <1>4
    <2> HIDE DEF T
    <2> QED BY <2>1, <1>1
  <1>6. Line("text") \notin T
    BY DEF Line
  <1>7. Only(seg, T) = f
    <2>1. Only(f, T) = f
      BY <1>5, OnlyAll
    <2> DEFINE S == T \cup {Line("text")}
    <2>2. f \in Seq(S) /\ Line("text") \in S
      BY <1>5
    <2>3. Only(Append(f, Line("text")), T) = f
      <3> HIDE DEF S, T
      <3> QED BY <2>1, <2>2, <1>6, OnlyAppend
    <2> QED BY <2>1, <2>3, <1>3
  <1>8. ParseTasks(seg) = [i \in DOMAIN f |-> [title |-> f[i].title, done |-> f[i].done]]
    BY <1>7 DEF ParseTasks
  <1>9. DOMAIN f = 1..n /\ DOMAIN list = 1..n
    BY <1>1 DEF IsSeq
  <1>10. ParseTasks(seg) = [i \in 1..n |-> [title |-> MarkdownTitle(list[i]), done |-> list[i].status = "Completed"]]
    BY <1>8, <1>9, <1>2
  <1> QED BY <1>9, <1>10 DEF KeptList

\* Where the lines under the first heading end.
LEMMA UnderFirst ==
    ASSUME NEW lines, IsSeq(lines), NEW e \in 1..Len(lines),
           \A k \in 2..e : ~IsHeading(lines[k]),
           e = Len(lines) \/ IsHeading(lines[e + 1])
    PROVE  Under(lines, 1) = SubSeq(lines, 2, e)
  <1>1. Len(lines) \in Nat /\ 1 \in 1..Len(lines)
    BY DEF IsSeq
  <1>2. PICK last \in 1..Len(lines) : UnderEnds(lines, 1, last) /\ Under(lines, 1) = SubSeq(lines, 1 + 1, last)
    BY <1>1, UnderIs
  <1>3. last = e
    <2>1. CASE last < e
      <3>1. last + 1 \in 2..e /\ last # Len(lines)
        BY <2>1, <1>1
      <3>2. IsHeading(lines[last + 1])
        BY <1>2, <3>1 DEF UnderEnds
      <3> QED BY <3>1, <3>2
    <2>2. CASE last > e
      <3>1. e + 1 \in 1 + 1 .. last /\ e # Len(lines)
        BY <2>2, <1>1
      <3>2. ~IsHeading(lines[e + 1])
        BY <3>1, <1>2 DEF UnderEnds
      <3> QED BY <3>1, <3>2
    <2> QED BY <2>1, <2>2, <1>1
  <1> QED BY <1>2, <1>3

\* The lines under the list itself are its items.
LEMMA FirstList ==
    ASSUME NEW list, NEW rep, IsSeq(list), list # <<>>, IsReport(rep)
    PROVE  /\ 1 \in 1..Len(Markdown(list, rep))
           /\ ParseTasks(Under(Markdown(list, rep), 1)) = KeptList(list)
  <1> DEFINE lines == Markdown(list, rep)
             n == Len(list)
             f == ItemsOf(list)
             q == Len(rep[1])
  <1>1. /\ IsSeq(lines) /\ n \in Nat /\ n >= 1 /\ lines[1] = Line("tasks")
        /\ \A i \in 1..n : lines[i + 1] = f[i]
        /\ rep = <<>> => Len(lines) = n + 1
        /\ rep # <<>> => /\ Len(lines) = n + 3 + q /\ q \in Nat
                         /\ lines[n + 2] = Line("text") /\ lines[n + 3] = Line("report")
    <2>1. IsMarkdown(lines, list, rep)
      BY MarkdownLines
    <2> HIDE DEF lines
    <2> QED BY <2>1 DEF IsMarkdown
  <1>2. f \in Seq(Range(f)) /\ Len(f) = n /\ \A i \in 1..n : ~IsHeading(f[i])
    <2>1. /\ f \in Seq(Range(f)) /\ Len(f) = n
          /\ \A i \in 1..n : f[i] = ItemLine(MarkdownTitle(list[i]), list[i].status = "Completed")
      BY ItemsOfSeq
    <2> HIDE DEF f, n
    <2>2. ASSUME NEW i \in 1..n PROVE ~IsHeading(f[i])
      <3>1. f[i].kind = "item"
        BY <2>1, ItemLineIs
      <3> QED BY <3>1 DEF IsHeading
    <2> QED BY <2>1, <2>2
  <1> HIDE DEF lines, n, f, q
  <1>3. Len(lines) \in Nat /\ lines \in Seq(Range(lines))
    BY <1>1 DEF IsSeq
  <1>5. \A k \in 2..(n + 1) : ~IsHeading(lines[k])
    <2> SUFFICES ASSUME NEW k \in 2..(n + 1) PROVE ~IsHeading(lines[k])
      OBVIOUS
    <2>1. k - 1 \in 1..n /\ (k - 1) + 1 = k
      BY <1>1
    <2> QED BY <2>1, <1>1, <1>2
  <1>6. Under(lines, 1) = f \/ Under(lines, 1) = Append(f, Line("text"))
    <2>1. CASE rep = <<>>
      <3>1. Len(lines) = n + 1 /\ n + 1 \in 1..Len(lines)
        BY <2>1, <1>1
      <3> DEFINE seg == SubSeq(lines, 2, n + 1)
      <3>2. Under(lines, 1) = seg
        BY <3>1, <1>1, <1>5, UnderFirst
      <3>3. seg \in Seq(Range(lines)) /\ Len(seg) = n /\ \A i \in 1..n : seg[i] = lines[i + 1]
        BY <3>1, <1>3, <1>1
      <3> HIDE DEF seg
      <3>4. \A i \in 1..n : seg[i] = f[i]
        BY <3>3, <1>1
      <3>5. seg = f
        BY <3>3, <3>4, <1>2
      <3> QED BY <3>2, <3>5
    <2>2. CASE rep # <<>>
      <3>1. /\ Len(lines) = n + 3 + q /\ q \in Nat
            /\ lines[n + 2] = Line("text") /\ lines[n + 3] = Line("report")
        BY <2>2, <1>1
      <3>2. n + 2 \in 1..Len(lines) /\ (n + 2) + 1 = n + 3
        BY <3>1, <1>1
      <3>3. ~IsHeading(Line("text")) /\ IsHeading(Line("report"))
        BY DEF IsHeading, Line
      <3>4. \A k \in 2..(n + 2) : ~IsHeading(lines[k])
        <4> SUFFICES ASSUME NEW k \in 2..(n + 2) PROVE ~IsHeading(lines[k])
          OBVIOUS
        <4>1. k \in 2..(n + 1) \/ k = n + 2
          BY <1>1
        <4> QED BY <4>1, <1>5, <3>1, <3>3
      <3> DEFINE seg == SubSeq(lines, 2, n + 2)
      <3>5. Under(lines, 1) = seg
        BY <3>1, <3>2, <3>3, <3>4, <1>1, UnderFirst
      <3>6. seg \in Seq(Range(lines)) /\ Len(seg) = n + 1 /\ \A i \in 1..(n + 1) : seg[i] = lines[i + 1]
        BY <3>1, <1>3, <1>1
      <3> HIDE DEF seg
      <3>7. \A i \in 1..n : seg[i] = f[i]
        BY <3>6, <1>1
      <3>8. seg[n + 1] = Line("text")
        <4>1. n + 1 \in 1..(n + 1) /\ (n + 1) + 1 = n + 2
          BY <1>1
        <4> QED BY <4>1, <3>6, <3>1
      <3> DEFINE g == Append(f, Line("text"))
      <3>9. /\ g \in Seq(Range(f) \cup {Line("text")}) /\ Len(g) = n + 1 /\ g[n + 1] = Line("text")
            /\ \A i \in 1..n : g[i] = f[i]
        BY <1>2, <1>1
      <3> HIDE DEF g
      <3>10. \A i \in 1..(n + 1) : seg[i] = g[i]
        BY <3>7, <3>8, <3>9, <1>1
      <3>11. seg = g
        BY <3>6, <3>9, <3>10
      <3> QED BY <3>5, <3>11 DEF g
    <2> QED BY <2>1, <2>2
  <1>7. ParseTasks(Under(lines, 1)) = KeptList(list)
    BY <1>6, ItemsParse DEF f
  <1>8. 1 \in 1..Len(lines)
    BY <1>1, <1>3
  <1> QED BY <1>7, <1>8 DEF lines

\* No other heading of the text has items below it, unless the report does.
LEMMA OtherLists ==
    ASSUME NEW list, NEW rep, IsSeq(list), list # <<>>, IsReport(rep),
           rep = <<>> \/ ~Carries(rep[1]),
           NEW h \in 2..Len(Markdown(list, rep)), Markdown(list, rep)[h].kind \in {"tasks", "steps"}
    PROVE  ParseTasks(Under(Markdown(list, rep), h)) = <<>>
  <1> DEFINE lines == Markdown(list, rep)
             n == Len(list)
             r == rep[1]
  <1>1. /\ IsSeq(lines) /\ n \in Nat /\ n >= 1
        /\ \A i \in 1..n : lines[i + 1] = ItemsOf(list)[i]
        /\ rep = <<>> => Len(lines) = n + 1
        /\ rep # <<>> => /\ Len(lines) = n + 3 + Len(r) /\ Len(r) \in Nat
                         /\ lines[n + 2] = Line("text") /\ lines[n + 3] = Line("report")
                         /\ \A i \in 1..Len(r) : lines[n + 3 + i] = r[i]
    <2>1. IsMarkdown(lines, list, rep)
      BY MarkdownLines
    <2> HIDE DEF lines
    <2> QED BY <2>1 DEF IsMarkdown
  <1>2. \A i \in 1..n : ItemsOf(list)[i].kind = "item"
    <2>1. \A i \in 1..n : ItemsOf(list)[i] = ItemLine(MarkdownTitle(list[i]), list[i].status = "Completed")
      BY ItemsOfSeq
    <2> QED BY <2>1, ItemLineIs
  <1>3. h \in 2..Len(lines) /\ lines[h].kind \in {"tasks", "steps"}
    OBVIOUS
  <1> HIDE DEF lines, n, r
  <1>4. Len(lines) \in Nat
    BY <1>1 DEF IsSeq
  <1>5. h > n + 1
    <2>1. ASSUME h <= n + 1 PROVE FALSE
      <3>1. h - 1 \in 1..n /\ (h - 1) + 1 = h
        BY <2>1, <1>1, <1>3, <1>4
      <3>2. lines[h].kind = "item"
        BY <3>1, <1>1, <1>2
      <3> QED BY <3>2, <1>3
    <2> QED BY <2>1, <1>1, <1>3, <1>4
  <1>6. rep # <<>>
    BY <1>5, <1>1, <1>3, <1>4
  <1> DEFINE q == Len(r)
             k == h - (n + 3)
  <1>15. Len(lines) = n + 3 + q /\ q \in Nat
    BY <1>1, <1>6
  <1> HIDE DEF q
  <1>7. h # n + 2 /\ h # n + 3
    <2>1. Line("text").kind = "text" /\ Line("report").kind = "report"
      BY DEF Line
    <2>2. lines[n + 2].kind = "text" /\ lines[n + 3].kind = "report"
      BY <2>1, <1>1, <1>6
    <2> QED BY <2>2, <1>3
  <1>8. k \in 1..q /\ lines[h] = r[k] /\ n + 3 + k = h
    <2>0. h \in 2..Len(lines) /\ n \in Nat
      BY <1>1, <1>3
    <2>1. h \in Nat /\ h <= n + 3 + q /\ h > n + 3
      BY <2>0, <1>15, <1>5, <1>7
    <2>2. k \in 1..q /\ n + 3 + k = h
      BY <2>0, <2>1, <1>15
    <2>3. lines[n + 3 + k] = r[k]
      <3> HIDE DEF k
      <3> QED BY <2>2, <1>1, <1>6 DEF q
    <2> QED BY <2>2, <2>3
  <1>9. IsSeq(r)
    BY <1>6 DEF IsReport, r
  <1>10. \A i \in 1..Len(r) : r[i].kind # "item"
    <2>1. DOMAIN r = 1..Len(r)
      BY <1>9 DEF IsSeq
    <2>2. ~Carries(r)
      BY <1>6 DEF r
    <2>3. r[k].kind \in {"tasks", "steps"}
      BY <1>8, <1>3
    <2> HIDE DEF k
    <2> QED BY <2>1, <2>2, <2>3, <1>8 DEF q, Carries, HasItems
  <1>11. \A j \in h + 1 .. Len(lines) : lines[j].kind # "item"
    <2> SUFFICES ASSUME NEW j \in h + 1 .. Len(lines) PROVE lines[j].kind # "item"
      OBVIOUS
    <2> DEFINE x == j - (n + 3)
    <2>0. h \in 2..Len(lines) /\ n \in Nat /\ h > n + 3
      <3>1. k \in 1..q /\ n + 3 + k = h
        BY <1>8
      <3> QED BY <3>1, <1>1, <1>3, <1>15
    <2>1. x \in 1..q /\ n + 3 + x = j
      BY <2>0, <1>15
    <2> HIDE DEF x
    <2>2. lines[j] = r[x]
      BY <2>1, <1>1, <1>6 DEF q
    <2> QED BY <2>1, <2>2, <1>10 DEF q
  <1>12. h \in 1..Len(lines)
    BY <1>3, <1>4
  <1>13. /\ IsSeq(Under(lines, h))
         /\ \A j \in 1..Len(Under(lines, h)) : Under(lines, h)[j].kind # "item"
    <2>1. IsSeq(lines)
      BY <1>1
    <2>2. /\ IsSeq(Under(lines, h))
          /\ \A j \in 1..Len(Under(lines, h)) : \E i \in h + 1 .. Len(lines) : Under(lines, h)[j] = lines[i]
      BY <2>1, <1>12, UnderWithin
    <2> DEFINE seg == Under(lines, h)
    <2> HIDE DEF seg
    <2>3. \A j \in 1..Len(seg) : \E i \in h + 1 .. Len(lines) : seg[j] = lines[i]
      BY <2>2 DEF seg
    <2>4. \A j \in 1..Len(seg) : seg[j].kind # "item"
      BY <2>3, <1>11
    <2> QED BY <2>2, <2>4 DEF seg
  <1>14. ParseTasks(Under(lines, h)) = <<>>
    BY <1>13, NothingParsed
  <1> QED BY <1>14 DEF lines

\* The empty sequence has no length.
LEMMA NoLength == Len(<<>>) = 0
  OBVIOUS

\* What the store reads from the markdown of a list is that list.
LEMMA ListReadBack ==
    ASSUME NEW list, NEW rep, IsSeq(list), list # <<>>, IsReport(rep),
           rep = <<>> \/ ~Carries(rep[1])
    PROVE  ExtractTaskLists(Markdown(list, rep)) = <<KeptList(list)>>
  <1> DEFINE lines == Markdown(list, rep)
             idx == [i \in DOMAIN lines |-> i]
             H == {i \in DOMAIN lines : lines[i].kind \in {"tasks", "steps"}}
             heads == Heads(lines)
             found == [i \in DOMAIN heads |-> ParseTasks(Under(lines, heads[i]))]
             T == Range(found) \ {<<>>}
             lists == Only(found, T)
  <1>1. IsSeq(lines) /\ lines[1] = Line("tasks") /\ 1 \in 1..Len(lines)
    <2>1. IsMarkdown(lines, list, rep)
      BY MarkdownLines
    <2> QED BY <2>1, FirstList DEF IsMarkdown
  <1>2. DOMAIN lines = 1..Len(lines) /\ Len(lines) \in Nat
    BY <1>1 DEF IsSeq
  <1>3. \A h \in 2..Len(lines) : lines[h].kind \in {"tasks", "steps"} => ParseTasks(Under(lines, h)) = <<>>
    BY OtherLists
  <1>4. ParseTasks(Under(lines, 1)) = KeptList(list)
    BY FirstList
  <1> HIDE DEF lines
  <1>5. /\ idx \in Seq(1..Len(lines)) /\ idx # <<>> /\ Head(idx) = 1
        /\ Tail(idx) \in Seq(2..Len(lines))
    <2> DEFINE m == Len(lines)
    <2>1. idx = [i \in 1..m |-> i] /\ m \in Nat /\ m >= 1
      BY <1>1, <1>2
    <2> HIDE DEF idx, m
    <2>2. idx \in Seq(1..m) /\ Len(idx) = m /\ \A i \in 1..m : idx[i] = i
      BY <2>1
    <2>3. idx # <<>> /\ Head(idx) = 1
      BY <2>1, <2>2
    <2>4. Tail(idx) \in Seq(1..m) /\ Len(Tail(idx)) = m - 1 /\ \A i \in 1..(m - 1) : Tail(idx)[i] = idx[i + 1]
      BY <2>1, <2>2, <2>3
    <2>5. \A i \in 1..(m - 1) : Tail(idx)[i] \in 2..m
      BY <2>1, <2>2, <2>4
    <2> DEFINE tl == Tail(idx)
    <2>7. tl \in Seq(1..m) /\ Len(tl) = m - 1 /\ \A i \in 1..(m - 1) : tl[i] \in 2..m
      BY <2>4, <2>5
    <2> HIDE DEF tl
    <2>8. m - 1 \in Nat /\ DOMAIN tl = 1..(m - 1) /\ tl = [i \in 1..(m - 1) |-> tl[i]]
      BY <2>1, <2>7
    <2>9. tl \in Seq(2..m)
      <3> DEFINE V == 2..m
                 k == m - 1
      <3>1. k \in Nat /\ tl = [i \in 1..k |-> tl[i]] /\ \A i \in 1..k : tl[i] \in V
        BY <2>7, <2>8
      <3> HIDE DEF V, k
      <3>2. tl \in [1..k -> V]
        BY <3>1
      <3>3. tl \in Seq(V)
        BY <3>1, <3>2
      <3> QED BY <3>3 DEF V
    <2>6. Tail(idx) \in Seq(2..m)
      BY <2>9 DEF tl
    <2> QED BY <2>2, <2>3, <2>6 DEF m
  <1>6. 1 \in H
    <2>1. Line("tasks").kind = "tasks"
      BY DEF Line
    <2> QED BY <2>1, <1>1, <1>2
  <1>7. heads = Only(idx, H)
    BY DEF Heads
  <1>8. heads # <<>> /\ Head(heads) = 1 /\ Tail(heads) = Only(Tail(idx), H)
    <2> HIDE DEF idx, H, heads
    <2> QED BY <1>5, <1>6, <1>7, OnlyTail
  <1>9. heads \in Seq(1..Len(lines))
    <2>1. heads \in Seq({i \in 1..Len(lines) : lines[i].kind \in {"tasks", "steps"}})
      BY <1>1, HeadsType
    <2>2. {i \in 1..Len(lines) : lines[i].kind \in {"tasks", "steps"}} \subseteq 1..Len(lines)
      OBVIOUS
    <2> HIDE DEF heads
    <2> QED BY <2>1, <2>2
  <1>10. Tail(heads) \in Seq((2..Len(lines)) \cap H)
    <2> HIDE DEF idx, H, heads
    <2> QED BY <1>5, <1>8, OnlyType
  <1>11. heads[1] = 1 /\ \A k \in 2..Len(heads) : heads[k] \in (2..Len(lines)) \cap H
    <2> HIDE DEF heads
    <2> DEFINE U == (2..Len(lines)) \cap H
    <2>1. Tail(heads) \in Seq(U)
      BY <1>10
    <2> HIDE DEF U
    <2>2. \A k \in 2..Len(heads) : heads[k] = Tail(heads)[k - 1] /\ k - 1 \in 1..Len(Tail(heads))
      BY <1>8, <1>9
    <2>3. \A k \in 2..Len(heads) : heads[k] \in U
      BY <2>1, <2>2
    <2>4. heads[1] = 1
      BY <1>8, <1>9
    <2> QED BY <2>3, <2>4 DEF U
  <1>12. found[1] = KeptList(list) /\ \A k \in 2..Len(heads) : found[k] = <<>>
    <2>1. 1 \in DOMAIN heads /\ DOMAIN heads = 1..Len(heads) /\ Len(heads) \in Nat
      BY <1>8, <1>9
    <2>2. found[1] = KeptList(list)
      BY <2>1, <1>11, <1>4
    <2>3. ASSUME NEW k \in 2..Len(heads) PROVE found[k] = <<>>
      <3>1. k \in DOMAIN heads
        BY <2>1
      <3>2. heads[k] \in 2..Len(lines) /\ lines[heads[k]].kind \in {"tasks", "steps"}
        BY <1>11
      <3> QED BY <3>1, <3>2, <1>3
    <2> QED BY <2>2, <2>3
  <1>13. Len(heads) \in Nat /\ Len(heads) >= 1 /\ DOMAIN heads = 1..Len(heads)
    BY <1>8, <1>9
  <1>14. KeptList(list) # <<>>
    BY DEF KeptList, IsSeq
  <1>15. DOMAIN found = 1..Len(heads)
    BY <1>13
  <1>16. found = [k \in 1..Len(heads) |-> found[k]]
    BY <1>13
  <1> DEFINE W == {KeptList(list), <<>>}
             m == Len(heads)
  <1> HIDE DEF found
  <1>17. found \in Seq(W) /\ Len(found) = m /\ found # <<>> /\ Head(found) = KeptList(list)
         /\ Tail(found) \in Seq({<<>>})
    <2> HIDE DEF m, heads
    <2>1. m \in Nat /\ m >= 1 /\ found = [k \in 1..m |-> found[k]] /\ DOMAIN found = 1..m
          /\ found[1] = KeptList(list) /\ \A k \in 2..m : found[k] = <<>>
      BY <1>12, <1>13, <1>15, <1>16 DEF m
    <2>2. \A k \in 1..m : found[k] \in W
      <3> SUFFICES ASSUME NEW k \in 1..m PROVE found[k] \in W
        OBVIOUS
      <3>1. k = 1 \/ k \in 2..m
        BY <2>1
      <3>2. KeptList(list) \in W /\ <<>> \in W
        OBVIOUS
      <3> HIDE DEF W
      <3> QED BY <3>1, <3>2, <2>1
    <2> HIDE DEF W
    <2>3. found \in Seq(W) /\ Len(found) = m
      BY <2>1, <2>2
    <2>4. found # <<>> /\ Head(found) = KeptList(list)
      BY <2>1, <2>3
    <2>5. /\ Tail(found) \in Seq(W) /\ Len(Tail(found)) = m - 1
          /\ \A k \in 1..(m - 1) : Tail(found)[k] = found[k + 1]
      BY <2>1, <2>3, <2>4
    <2> DEFINE tl == Tail(found)
    <2> HIDE DEF tl
    <2>8. tl \in Seq(W) /\ Len(tl) = m - 1 /\ \A k \in 1..(m - 1) : tl[k] = found[k + 1]
      BY <2>5 DEF tl
    <2>6. \A k \in 1..(m - 1) : tl[k] = <<>>
      <3> SUFFICES ASSUME NEW k \in 1..(m - 1) PROVE tl[k] = <<>>
        OBVIOUS
      <3>1. k + 1 \in 2..m
        BY <2>1
      <3> QED BY <3>1, <2>1, <2>8
    <2>7. Tail(found) \in Seq({<<>>})
      <3>1. m - 1 \in Nat /\ DOMAIN tl = 1..(m - 1) /\ tl = [k \in 1..(m - 1) |-> tl[k]]
        BY <2>1, <2>8
      <3>2. tl \in Seq({<<>>})
        BY <3>1, <2>6
      <3> QED BY <3>2 DEF tl
    <2> QED BY <2>3, <2>4, <2>7
  <1>18. KeptList(list) \in T
    <2>1. 1 \in DOMAIN found /\ found[1] = KeptList(list)
      BY <1>12, <1>13, <1>15
    <2> QED BY <2>1, <1>14 DEF Range
  <1>19. lists # <<>> /\ Head(lists) = KeptList(list) /\ Tail(lists) = <<>>
    <2> HIDE DEF W
    <2>1. lists # <<>> /\ Head(lists) = KeptList(list) /\ Tail(lists) = Only(Tail(found), T)
      <3> HIDE DEF T
      <3> QED BY <1>17, <1>18, OnlyTail
    <2>2. {<<>>} \cap T = {}
      OBVIOUS
    <2>3. Only(Tail(found), T) = <<>>
      <3> HIDE DEF T
      <3> QED BY <1>17, <2>2, OnlyNone
    <2> QED BY <2>1, <2>3
  <1>20. lists \in Seq(W)
    <2>1. lists \in Seq(W \cap T)
      BY <1>17, OnlyType
    <2> DEFINE V == W \cap T
    <2>2. V \subseteq W
      OBVIOUS
    <2>3. lists \in Seq(V)
      BY <2>1
    <2> HIDE DEF W, T, V, lists
    <2> QED BY <2>2, <2>3
  <1>21. lists = <<KeptList(list)>>
    <2> HIDE DEF lists, W
    <2>1. lists \in Seq(W) /\ lists # <<>> /\ Tail(lists) = <<>>
      BY <1>19, <1>20
    <2>2. Len(Tail(lists)) = 0
      BY <2>1, NoLength
    <2>3. lists = <<Head(lists)>>
      BY <2>1, <2>2, OneLeft
    <2> QED BY <2>3, <1>19
  <1>22. ExtractTaskLists(lines) = IF lists # <<>> THEN lists
                                  ELSE IF ParseTasks(lines) = <<>> THEN <<>> ELSE <<ParseTasks(lines)>>
    BY DEF ExtractTaskLists, Heads, found
  <1>23. ExtractTaskLists(lines) = <<KeptList(list)>>
    <2> HIDE DEF lists
    <2>1. lists # <<>>
      BY <1>19
    <2> QED BY <2>1, <1>21, <1>22
  <1> QED BY <1>23 DEF lines
---------------------------------------------------------------------------
\* A block, and a message of one block: a tool message answers a request that
\* was made before it, by name.
BlockOK(b) ==
    /\ b.kind \in {"text", "request", "response"} /\ IsSeq(b.lines)
    /\ b.kind = "request" => b.name # ""
Requested(t, n, id) == \E k \in 1..(n - 1) : t[k].blocks[1].kind = "request" /\ t[k].blocks[1].id = id
MessageOK(t, n) ==
    LET b == t[n].blocks[1]
    IN  /\ t[n].blocks = <<b>> /\ BlockOK(b)
        /\ t[n].role = "tool" => b.kind = "response" /\ Requested(t, n, b.id)
TalkOK(t) == IsSeq(t) /\ \A n \in 1..Len(t) : MessageOK(t, n)

\* The last answer of a task_list tool is where it is said to be.
ShownOK(t, sh) ==
    /\ IsSeq(sh.list) /\ IsReport(sh.rep)
    /\ sh.list # <<>> =>
          /\ sh.at \in 1..Len(t) /\ t[sh.at].role = "tool"
          /\ t[sh.at].blocks[1].lines = Markdown(sh.list, sh.rep)

\* What was saved is of the whole conversation, or of less of it.
SavedOK ==
    /\ IsSeq(columns) /\ Len(columns) <= Len(talk)
    /\ columns # <<>> /\ Len(columns) = Len(talk) =>
          tasks = LatestTaskList(talk) /\ columns = [n \in DOMAIN talk |-> Metadata(talk, n)]

TaskInv == IsSeq(items) /\ IsReport(report) /\ TalkOK(talk) /\ ShownOK(talk, shown) /\ SavedOK

\* The text of a message of one block.
LEMMA TextOf ==
    ASSUME NEW m, NEW b, m.blocks = <<b>>, BlockOK(b)
    PROVE  /\ IsSeq(TaskText(m))
           /\ m.role # "user" /\ b.kind # "request" => TaskText(m) = b.lines
  <1> DEFINE texts == Only(m.blocks, {c \in Range(m.blocks) : c.kind # "request"})
  <1>1. texts = IF b.kind # "request" THEN <<b>> ELSE <<>>
    <2>1. Range(m.blocks) = {b}
      BY DEF Range
    <2>2. b \in {c \in Range(m.blocks) : c.kind # "request"} <=> b.kind # "request"
      BY <2>1
    <2> QED BY <2>2, OnlyOne
  <1>2. IsSeq(b.lines) /\ IsSeq(<<>>)
    <2>1. <<>> \in Seq({})
      OBVIOUS
    <2> QED BY <2>1, SeqIsSeq DEF BlockOK
  <1>3. CASE m.role = "user"
    BY <1>2, <1>3 DEF TaskText
  <1>4. CASE m.role # "user" /\ b.kind = "request"
    <2>1. texts = <<>> /\ Len(texts) = 0
      BY <1>1, <1>4
    <2> DEFINE j == CHOOSE f : f = [i \in 0..Len(texts) |-> IF i = 0 THEN <<>> ELSE f[i - 1] \o texts[i].lines]
    <2>2. TaskText(m) = j[Len(texts)]
      BY <1>4 DEF TaskText
    <2> HIDE DEF texts
    <2>3. \E f : f = [i \in 0..Len(texts) |-> IF i = 0 THEN <<>> ELSE f[i - 1] \o texts[i].lines]
      <3> DEFINE w == [i \in 0..0 |-> <<>>]
      <3>1. w = [i \in 0..Len(texts) |-> IF i = 0 THEN <<>> ELSE w[i - 1] \o texts[i].lines]
        BY <2>1
      <3> QED BY <3>1
    <2>4. j = [i \in 0..Len(texts) |-> IF i = 0 THEN <<>> ELSE j[i - 1] \o texts[i].lines]
      BY <2>3
    <2> HIDE DEF j
    <2>5. j[0] = <<>>
      BY <2>4, <2>1
    <2> QED BY <2>2, <2>5, <2>1, <1>2, <1>4
  <1>5. CASE m.role # "user" /\ b.kind # "request"
    <2>1. texts = <<b>> /\ Len(texts) = 1 /\ texts[1] = b
      BY <1>1, <1>5
    <2> DEFINE j == CHOOSE f : f = [i \in 0..Len(texts) |-> IF i = 0 THEN <<>> ELSE f[i - 1] \o texts[i].lines]
    <2>2. TaskText(m) = j[Len(texts)]
      BY <1>5 DEF TaskText
    <2> HIDE DEF texts
    <2>3. \E f : f = [i \in 0..Len(texts) |-> IF i = 0 THEN <<>> ELSE f[i - 1] \o texts[i].lines]
      <3> DEFINE w == [i \in 0..1 |-> IF i = 0 THEN <<>> ELSE <<>> \o b.lines]
      <3>1. w[0] = <<>> /\ DOMAIN w = 0..1 /\ w[1] = <<>> \o b.lines
        OBVIOUS
      <3>2. \A i \in 0..1 : w[i] = IF i = 0 THEN <<>> ELSE w[i - 1] \o texts[i].lines
        <4>1. \A i \in 0..1 : i = 0 \/ (i = 1 /\ i - 1 = 0)
          OBVIOUS
        <4> HIDE DEF w
        <4> QED BY <4>1, <3>1, <2>1
      <3>3. w = [i \in 0..Len(texts) |-> IF i = 0 THEN <<>> ELSE w[i - 1] \o texts[i].lines]
        <4>1. w = [i \in 0..1 |-> w[i]]
          OBVIOUS
        <4> HIDE DEF w
        <4> QED BY <4>1, <3>2, <2>1
      <3> HIDE DEF w
      <3> QED BY <3>3
    <2>4. j = [i \in 0..Len(texts) |-> IF i = 0 THEN <<>> ELSE j[i - 1] \o texts[i].lines]
      BY <2>3
    <2> HIDE DEF j
    <2>5. j[0] = <<>> /\ j[1] = j[0] \o texts[1].lines
      BY <2>4, <2>1
    <2>6. j[1] = <<>> \o b.lines
      BY <2>5, <2>1
    <2>7. <<>> \o b.lines = b.lines
      BY <1>2 DEF IsSeq
    <2> QED BY <2>2, <2>6, <2>7, <2>1, <1>2
  <1> QED BY <1>3, <1>4, <1>5

\* The answer of a tool stands under the name of the tool.
LEMMA ToolNamed ==
    ASSUME NEW t, TalkOK(t), NEW n \in 1..Len(t), t[n].role = "tool"
    PROVE  Metadata(t, n).tool_name # ""
  <1> DEFINE b == t[n].blocks[1]
             blocks == t[n].blocks
             requests == Only(blocks, {c \in Range(blocks) : c.kind = "request"})
             responses == Only(blocks, {c \in Range(blocks) : c.kind = "response"})
             names == ToolNames(t, n)
             earlier == {c \in UNION {Range(t[i].blocks) : i \in 1 .. n - 1} : c.kind = "request"}
  <1>1. blocks = <<b>> /\ b.kind = "response" /\ Requested(t, n, b.id)
    BY DEF TalkOK, MessageOK
  <1>2. Len(t) \in Nat /\ \A k \in 1..(n - 1) : MessageOK(t, k)
    BY DEF TalkOK, IsSeq
  <1>3. Range(blocks) = {b}
    <2> HIDE DEF b, blocks
    <2> QED BY <1>1 DEF Range
  <1>4. requests = <<>>
    <2>1. b \notin {c \in Range(blocks) : c.kind = "request"}
      BY <1>1
    <2> HIDE DEF b
    <2> QED BY <2>1, <1>1, OnlyOne DEF requests
  <1>5. responses = <<b>>
    <2>1. b \in {c \in Range(blocks) : c.kind = "response"}
      BY <1>1, <1>3
    <2> HIDE DEF b
    <2> QED BY <2>1, <1>1, OnlyOne DEF responses
  <1>6. \A c \in earlier : c.name # ""
    <2> SUFFICES ASSUME NEW k \in 1..(n - 1), NEW c \in Range(t[k].blocks), c.kind = "request"
                 PROVE  c.name # ""
      OBVIOUS
    <2>1. t[k].blocks = <<t[k].blocks[1]>> /\ BlockOK(t[k].blocks[1])
      BY <1>2 DEF MessageOK
    <2>2. c = t[k].blocks[1]
      BY <2>1 DEF Range
    <2> QED BY <2>1, <2>2 DEF BlockOK
  <1>7. \E c \in earlier : c.id = b.id
    <2>1. PICK k \in 1..(n - 1) : t[k].blocks[1].kind = "request" /\ t[k].blocks[1].id = b.id
      BY <1>1 DEF Requested
    <2>2. t[k].blocks = <<t[k].blocks[1]>>
      BY <1>2 DEF MessageOK
    <2>3. t[k].blocks[1] \in Range(t[k].blocks)
      BY <2>2 DEF Range
    <2>4. t[k].blocks[1] \in earlier
      BY <2>1, <2>3
    <2> HIDE DEF earlier
    <2> QED BY <2>1, <2>4
  <1>8. names = [id \in {c.id : c \in earlier} |-> (CHOOSE c \in earlier : c.id = id).name]
    BY DEF ToolNames
  <1> HIDE DEF earlier
  <1>9. b.id \in DOMAIN names /\ names[b.id] # ""
    <2>1. b.id \in {c.id : c \in earlier}
      BY <1>7
    <2> DEFINE c0 == CHOOSE c \in earlier : c.id = b.id
    <2>2. c0 \in earlier
      <3>1. \E c \in earlier : c.id = b.id
        BY <1>7
      <3> DEFINE j == b.id
      <3> HIDE DEF j
      <3>2. \E c \in earlier : c.id = j
        BY <3>1 DEF j
      <3>3. (CHOOSE c \in earlier : c.id = j) \in earlier
        BY <3>2, Zenon
      <3> QED BY <3>3 DEF j
    <2>3. names[b.id] = c0.name
      <3> HIDE DEF b, names
      <3> QED BY <1>8, <2>1
    <2> QED BY <1>8, <2>1, <2>2, <2>3, <1>6
  <1>10. Metadata(t, n).tool_name = IF requests # <<>> THEN requests[1].name
                                   ELSE IF responses # <<>> /\ responses[1].id \in DOMAIN names
                                   THEN names[responses[1].id] ELSE ""
    BY DEF Metadata
  <1>11. responses # <<>> /\ responses[1] = b
    <2> HIDE DEF responses, b
    <2> QED BY <1>5
  <1> HIDE DEF requests, responses, names, b
  <1> QED BY <1>4, <1>9, <1>10, <1>11

\* Nothing after the list has one of its own, nor has its report.
LastShown(t, sh) ==
    /\ sh.list # <<>>
    /\ \A i \in sh.at + 1 .. Len(t) : ~HasItems(TaskText(t[i]))
    /\ sh.rep = <<>> \/ ~Carries(sh.rep[1])

\* The last list of a conversation is the one that was shown last.
LEMMA LatestIs ==
    ASSUME NEW t, NEW sh, TalkOK(t), ShownOK(t, sh), LastShown(t, sh)
    PROVE  LatestTaskList(t) = KeptList(sh.list)
  <1> DEFINE a == sh.at
             lists(i) == ExtractTaskLists(TaskText(t[i]))
             with == {i \in DOMAIN t : lists(i) # <<>>}
  <1>1. DOMAIN t = 1..Len(t) /\ Len(t) \in Nat
    BY DEF TalkOK, IsSeq
  <1>2. a \in 1..Len(t) /\ t[a].role = "tool" /\ t[a].blocks[1].lines = Markdown(sh.list, sh.rep)
    BY DEF ShownOK, LastShown
  <1>3. \A i \in 1..Len(t) : IsSeq(TaskText(t[i]))
    BY TextOf DEF TalkOK, MessageOK
  <1>4. TaskText(t[a]) = Markdown(sh.list, sh.rep)
    <2>1. /\ t[a].blocks = <<t[a].blocks[1]>> /\ BlockOK(t[a].blocks[1])
          /\ t[a].blocks[1].kind = "response"
      BY <1>2 DEF TalkOK, MessageOK
    <2> QED BY <2>1, <1>2, TextOf
  <1>5. lists(a) = <<KeptList(sh.list)>>
    <2>1. IsSeq(sh.list) /\ IsReport(sh.rep)
      BY DEF ShownOK
    <2> QED BY <2>1, <1>4, ListReadBack DEF LastShown
  <1>6. \A i \in a + 1 .. Len(t) : lists(i) = <<>>
    <2> SUFFICES ASSUME NEW i \in a + 1 .. Len(t) PROVE lists(i) = <<>>
      OBVIOUS
    <2>1. i \in 1..Len(t)
      BY <1>1, <1>2
    <2>2. IsSeq(TaskText(t[i])) /\ ~HasItems(TaskText(t[i]))
      BY <2>1, <1>3 DEF LastShown
    <2> QED BY <2>2, NothingExtracted
  <1> HIDE DEF lists
  <1>7. a \in with /\ \A i \in with : i <= a
    <2>1. a \in with
      <3>1. lists(a) # <<>>
        BY <1>5
      <3>2. a \in DOMAIN t
        BY <1>1, <1>2
      <3> HIDE DEF a
      <3> QED BY <3>1, <3>2
    <2>2. ASSUME NEW i \in with PROVE i <= a
      <3>1. i \in 1..Len(t) /\ lists(i) # <<>> /\ a \in 1..Len(t)
        BY <1>1, <1>2
      <3>2. i \notin a + 1 .. Len(t)
        BY <3>1, <1>6
      <3> QED BY <3>1, <3>2, <1>1
    <2> HIDE DEF with
    <2> QED BY <2>1, <2>2
  <1>8. with \subseteq Nat
    BY <1>1
  <1> DEFINE z == CHOOSE i \in with : \A j \in with : j <= i
  <1>9. z = a
    <2>1. z \in with /\ \A j \in with : j <= z
      <3> HIDE DEF with
      <3> QED BY <1>7
    <2> HIDE DEF with, z
    <2>2. z <= a /\ a <= z /\ a \in Nat /\ z \in Nat
      BY <2>1, <1>7, <1>8
    <2> QED BY <2>2
  <1>10. LatestTaskList(t) = IF with = {} THEN <<>> ELSE Last(lists(z))
    BY DEF LatestTaskList, lists
  <1>11. Last(lists(a)) = KeptList(sh.list)
    BY <1>5 DEF Last
  <1> HIDE DEF with, z
  <1> QED BY <1>7, <1>9, <1>10, <1>11
---------------------------------------------------------------------------
\* u is t with the message m after it.
Extended(t, u, m) ==
    /\ TalkOK(u) /\ Len(t) \in Nat /\ Len(u) = Len(t) + 1 /\ u[Len(t) + 1] = m
    /\ \A n \in 1..Len(t) : u[n] = t[n]

\* A tool message that may come next: it answers a request.
Answered(t, role, b) == role = "tool" => b.kind = "response" /\ Requested(t, Len(t) + 1, b.id)

\* One more message keeps a conversation in order.
LEMMA TalkAppends ==
    ASSUME NEW t, TalkOK(t), NEW role, NEW b, BlockOK(b),
           Answered(t, role, b)
    PROVE  Extended(t, Append(t, [role |-> role, blocks |-> <<b>>]), [role |-> role, blocks |-> <<b>>])
  <1> DEFINE m == [role |-> role, blocks |-> <<b>>]
             u == Append(t, m)
             S == Range(t) \cup {m}
             l == Len(t)
  <1>1. t \in Seq(S) /\ m \in S
    BY DEF TalkOK, IsSeq
  <1>2. m.role = role /\ m.blocks = <<b>> /\ m.blocks[1] = b
    OBVIOUS
  <1> HIDE DEF m, S
  <1>3. l \in Nat /\ u \in Seq(S) /\ Len(u) = l + 1 /\ u[l + 1] = m /\ \A n \in 1..l : u[n] = t[n]
    BY <1>1
  <1> HIDE DEF u, l
  <1>4. IsSeq(u)
    BY <1>3, SeqIsSeq
  <1>5. ASSUME NEW n \in 1..l PROVE MessageOK(u, n)
    <2>1. MessageOK(t, n) /\ u[n] = t[n] /\ \A k \in 1..(n - 1) : u[k] = t[k]
      BY <1>3 DEF TalkOK, l
    <2> QED BY <2>1 DEF MessageOK, Requested
  <1>6. MessageOK(u, l + 1)
    <2>1. ASSUME role = "tool" PROVE b.kind = "response" /\ Requested(u, l + 1, b.id)
      <3> DEFINE w == l + 1
                 id == b.id
      <3>1. b.kind = "response" /\ Requested(t, w, id)
        BY <2>1 DEF Answered, l
      <3>4. \A k \in 1..(w - 1) : k \in 1..l
        BY <1>3
      <3> HIDE DEF w, id
      <3>2. PICK k \in 1..(w - 1) : t[k].blocks[1].kind = "request" /\ t[k].blocks[1].id = id
        BY <3>1 DEF Requested
      <3>3. u[k] = t[k]
        BY <1>3, <3>4
      <3>5. Requested(u, w, id)
        BY <3>2, <3>3 DEF Requested
      <3> QED BY <3>1, <3>5 DEF w, id
    <2> QED BY <1>2, <1>3, <2>1 DEF MessageOK
  <1>7. TalkOK(u)
    <2>1. \A n \in 1..Len(u) : n \in 1..l \/ n = l + 1
      BY <1>3
    <2> QED BY <2>1, <1>4, <1>5, <1>6 DEF TalkOK
  <1>8. Extended(t, u, m)
    BY <1>3, <1>7 DEF Extended, l
  <1> QED BY <1>8 DEF u, m

\* A list stays where it was shown while messages are added.
LEMMA ShownStays ==
    ASSUME NEW t, NEW u, NEW sh, ShownOK(t, sh), Len(t) \in Nat, Len(u) \in Nat, Len(t) <= Len(u),
           \A n \in 1..Len(t) : u[n] = t[n]
    PROVE  ShownOK(u, sh)
  BY DEF ShownOK

\* While the conversation grows nothing that was saved is of the whole of it.
LEMMA SavedEarlier ==
    ASSUME TaskInv, Len(talk') \in Nat, Len(talk') > Len(talk), UNCHANGED <<tasks, columns>>
    PROVE  SavedOK'
  <1>1. Len(talk) \in Nat /\ IsSeq(columns) /\ Len(columns) <= Len(talk) /\ Len(columns) \in Nat
    BY DEF TaskInv, SavedOK, TalkOK, IsSeq
  <1>2. columns' = columns /\ Len(columns') # Len(talk') /\ Len(columns') <= Len(talk')
    BY <1>1
  <1> QED BY <1>1, <1>2 DEF SavedOK, IsSeq, Range

\* A call of a tool and its answer are added, a text between them or not.
CallAdded(t, u, b) ==
    /\ TalkOK(u) /\ Len(u) \in Nat /\ Len(u) > Len(t) /\ \A n \in 1..Len(t) : u[n] = t[n]
    /\ u[Len(u)].role = "tool" /\ u[Len(u)].blocks[1] = b

\* A tool has a name.
Named(name) == name # ""

\* A request with a name is a block.
LEMMA RequestOK ==
    ASSUME NEW id, NEW name, Named(name)
    PROVE  BlockOK(Request(id, name))
  <1>1. <<>> \in Seq({})
    OBVIOUS
  <1>2. IsSeq(<<>>)
    BY <1>1, SeqIsSeq
  <1> QED BY <1>2 DEF BlockOK, Request, Named

\* Messages added one by one or at once.
LEMMA AppendsAre ==
    ASSUME NEW S, NEW t \in Seq(S), NEW a \in S, NEW b \in S, NEW c \in S
    PROVE  /\ Append(Append(t, a), c) = t \o <<a, c>>
           /\ Append(Append(Append(t, a), b), c) = t \o <<a, b, c>>
  <1>1. Append(Append(t, a), c) = t \o <<a, c>>
    OBVIOUS
  <1> DEFINE u == Append(Append(t, a), b)
             l == Len(t)
             x == Append(u, c)
             y == t \o <<a, b, c>>
  <1>2. l \in Nat /\ u \in Seq(S) /\ Len(u) = l + 2 /\ u[l + 1] = a /\ u[l + 2] = b /\ \A n \in 1..l : u[n] = t[n]
    OBVIOUS
  <1>3. y \in Seq(S) /\ Len(y) = l + 3 /\ y[l + 1] = a /\ y[l + 2] = b /\ y[l + 3] = c /\ \A n \in 1..l : y[n] = t[n]
    OBVIOUS
  <1> HIDE DEF u, l, y
  <1>4. /\ x \in Seq(S) /\ Len(x) = Len(u) + 1 /\ x[Len(u) + 1] = c /\ \A n \in 1..Len(u) : x[n] = u[n]
    BY <1>2
  <1> HIDE DEF x
  <1>5. \A n \in 1..(l + 3) : x[n] = y[n]
    <2> SUFFICES ASSUME NEW n \in 1..(l + 3) PROVE x[n] = y[n]
      OBVIOUS
    <2>1. n \in 1..l \/ n = l + 1 \/ n = l + 2 \/ n = l + 3
      BY <1>2
    <2>2. CASE n \in 1..l
      BY <2>2, <1>2, <1>3, <1>4
    <2>3. CASE n = l + 1
      BY <2>3, <1>2, <1>3, <1>4
    <2>4. CASE n = l + 2
      BY <2>4, <1>2, <1>3, <1>4
    <2>5. CASE n = l + 3
      BY <2>5, <1>2, <1>3, <1>4
    <2> QED BY <2>1, <2>2, <2>3, <2>4, <2>5
  <1>6. x = y
    BY <1>2, <1>3, <1>4, <1>5
  <1> QED BY <1>1, <1>6 DEF x, y, u

\* The messages of a call of a tool keep the conversation in order.
LEMMA CallAdds ==
    ASSUME NEW t, TalkOK(t), NEW id, NEW name, BlockOK(Request(id, name)), NEW lines, IsSeq(lines)
    PROVE  LET question == [role |-> "assistant", blocks |-> <<Request(id, name)>>]
               speech == [role |-> "assistant", blocks |-> <<TextBlock(lines)>>]
               replies == [role |-> "tool", blocks |-> <<Response(id, lines)>>]
           IN  /\ CallAdded(t, t \o <<question, replies>>, Response(id, lines))
               /\ CallAdded(t, t \o <<question, speech, replies>>, Response(id, lines))
               /\ Len(t \o <<question, speech, replies>>) = Len(t) + 3
  <1> DEFINE q == Request(id, name)
             p == TextBlock(lines)
             r == Response(id, lines)
             question == [role |-> "assistant", blocks |-> <<q>>]
             speech == [role |-> "assistant", blocks |-> <<p>>]
             replies == [role |-> "tool", blocks |-> <<r>>]
             t1 == Append(t, question)
             t2 == Append(t1, speech)
             u == Append(t1, replies)
             v == Append(t2, replies)
  <1>0. IsSeq(<<>>)
    <2>1. <<>> \in Seq({})
      OBVIOUS
    <2> QED BY <2>1, SeqIsSeq
  <1>1. BlockOK(q) /\ BlockOK(p) /\ BlockOK(r) /\ r.kind = "response" /\ r.id = id /\ q.kind = "request" /\ q.id = id
    BY <1>0 DEF BlockOK, Request, TextBlock, Response
  <1> HIDE DEF q, p, r
  <1>2. /\ question.blocks[1] = q /\ replies.role = "tool" /\ replies.blocks[1] = r
    OBVIOUS
  <1>3. Extended(t, t1, question)
    <2>1. Answered(t, "assistant", q)
      BY DEF Answered
    <2> QED BY <1>1, <2>1, TalkAppends
  <1> HIDE DEF t1
  <1>4. Extended(t1, t2, speech)
    <2>1. Answered(t1, "assistant", p) /\ TalkOK(t1)
      BY <1>3 DEF Extended, Answered
    <2> QED BY <1>1, <2>1, TalkAppends
  <1> HIDE DEF t2
  <1> DEFINE l == Len(t)
  <1>11. /\ l \in Nat /\ Len(t1) = l + 1 /\ t1[l + 1] = question
         /\ \A n \in 1..l : t1[n] = t[n]
    BY <1>3 DEF Extended
  <1>12. Len(t2) = Len(t1) + 1 /\ \A n \in 1..Len(t1) : t2[n] = t1[n]
    BY <1>4 DEF Extended
  <1> HIDE DEF l, question, speech, replies
  <1>13. l + 1 \in 1..Len(t1) /\ Len(t2) = l + 2 /\ Len(t1) \in Nat /\ Len(t2) \in Nat
    BY <1>11, <1>12
  <1>5. Requested(t1, Len(t1) + 1, r.id) /\ Requested(t2, Len(t2) + 1, r.id)
    <2>1. l + 1 \in 1..(Len(t1) + 1 - 1) /\ l + 1 \in 1..(Len(t2) + 1 - 1)
      BY <1>11, <1>13
    <2>2. t1[l + 1].blocks[1] = q /\ t2[l + 1].blocks[1] = q
      BY <1>2, <1>11, <1>12, <1>13
    <2> QED BY <2>1, <2>2, <1>1 DEF Requested
  <1>6. Extended(t1, u, replies)
    <2>1. TalkOK(t1) /\ Answered(t1, "tool", r)
      BY <1>3, <1>1, <1>5 DEF Extended, Answered
    <2> QED BY <1>1, <2>1, TalkAppends DEF replies
  <1>7. Extended(t2, v, replies)
    <2>1. TalkOK(t2) /\ Answered(t2, "tool", r)
      BY <1>4, <1>1, <1>5 DEF Extended, Answered
    <2> QED BY <1>1, <2>1, TalkAppends DEF replies
  <1>8. u = t \o <<question, replies>> /\ v = t \o <<question, speech, replies>>
    <2> DEFINE S == Range(t) \cup {question, speech, replies}
    <2>1. t \in Seq(S)
      <3>1. t \in Seq(Range(t)) /\ Range(t) \subseteq S
        BY DEF TalkOK, IsSeq
      <3> HIDE DEF S
      <3> QED BY <3>1
    <2>2. question \in S /\ speech \in S /\ replies \in S
      OBVIOUS
    <2> HIDE DEF S
    <2>3. Append(Append(t, question), replies) = t \o <<question, replies>>
      <3> HIDE DEF question, speech, replies
      <3> QED BY <2>1, <2>2, AppendsAre
    <2>4. Append(Append(Append(t, question), speech), replies) = t \o <<question, speech, replies>>
      <3> HIDE DEF question, speech, replies
      <3> QED BY <2>1, <2>2, AppendsAre
    <2> QED BY <2>3, <2>4, Zenon DEF t1, t2
  <1> HIDE DEF u, v
  <1>9. CallAdded(t, u, r)
    <2>0. TalkOK(u) /\ Len(u) = Len(t1) + 1 /\ u[Len(t1) + 1] = replies /\ \A n \in 1..Len(t1) : u[n] = t1[n]
      BY <1>6 DEF Extended
    <2>1. Len(u) = l + 2 /\ Len(u) \in Nat /\ Len(u) > l
      BY <1>11, <2>0
    <2>2. \A n \in 1..l : n \in 1..Len(t1)
      BY <1>11
    <2>3. \A n \in 1..l : u[n] = t[n]
      BY <1>11, <2>0, <2>2
    <2>4. u[Len(u)] = replies
      BY <2>0
    <2> QED BY <2>0, <2>1, <2>3, <2>4, <1>2 DEF CallAdded, l
  <1>10. CallAdded(t, v, r) /\ Len(v) = Len(t) + 3
    <2>0. TalkOK(v) /\ Len(v) = Len(t2) + 1 /\ v[Len(t2) + 1] = replies /\ \A n \in 1..Len(t2) : v[n] = t2[n]
      BY <1>7 DEF Extended
    <2>1. Len(v) = l + 3 /\ Len(v) \in Nat /\ Len(v) > l
      BY <1>11, <1>13, <2>0
    <2>2. \A n \in 1..l : n \in 1..Len(t1) /\ n \in 1..Len(t2)
      BY <1>11, <1>13
    <2>3. \A n \in 1..l : v[n] = t[n]
      BY <1>11, <1>12, <2>0, <2>2
    <2>4. v[Len(v)] = replies
      BY <2>0
    <2> QED BY <2>0, <2>1, <2>3, <2>4, <1>2 DEF CallAdded, l
  <1> QED BY <1>8, <1>9, <1>10 DEF question, speech, replies, q, p, r

\* Markdown is a sequence of lines.
LEMMA MarkdownIsText ==
    ASSUME NEW list, NEW rep, IsSeq(list), IsReport(rep)
    PROVE  IsSeq(Markdown(list, rep))
  <1>1. CASE list # <<>>
    BY <1>1, MarkdownLines DEF IsMarkdown
  <1>2. CASE list = <<>>
    <2> DEFINE it == ItemLine(Placeholder, FALSE)
               tl == IF rep = <<>> THEN <<>> ELSE <<Line("text"), Line("report")>> \o rep[1]
    <2>1. Markdown(list, rep) = <<Line("tasks")>> \o <<it>> \o tl
      BY <1>2 DEF Markdown
    <2> DEFINE S == {Line("tasks"), it, Line("text"), Line("report")} \cup Range(rep[1])
    <2> HIDE DEF it
    <2>2. tl \in Seq(S)
      <3>1. CASE rep = <<>>
        BY <3>1
      <3>2. CASE rep # <<>>
        <4>1. rep[1] \in Seq(Range(rep[1]))
          BY <3>2 DEF IsReport, IsSeq
        <4> DEFINE r == rep[1]
        <4> HIDE DEF r
        <4>2. r \in Seq(S) /\ <<Line("text"), Line("report")>> \in Seq(S)
          BY <4>1 DEF r
        <4> HIDE DEF S
        <4>3. <<Line("text"), Line("report")>> \o r \in Seq(S)
          BY <4>2
        <4> QED BY <4>3, <3>2 DEF r
      <3> QED BY <3>1, <3>2
    <2>3. <<Line("tasks")>> \in Seq(S) /\ <<it>> \in Seq(S)
      OBVIOUS
    <2> HIDE DEF S, tl
    <2>4. Markdown(list, rep) \in Seq(S)
      BY <2>1, <2>2, <2>3
    <2> QED BY <2>4, SeqIsSeq
  <1> QED BY <1>1, <1>2

\* What a task_list tool returns is shown at the end of the conversation.
LEMMA TalkLength ==
    ASSUME TaskInv
    PROVE  Len(talk) \in Nat
  <1>1. talk \in Seq(Range(talk))
    BY DEF TaskInv, TalkOK, IsSeq
  <1> HIDE DEF TaskInv
  <1> QED BY <1>1

\* The invariant of the next state, part by part.
LEMMA TaskParts ==
    ASSUME IsSeq(items'), IsReport(report'), TalkOK(talk'), ShownOK(talk', shown'), SavedOK'
    PROVE  TaskInv'
  <1>1. IsSeq(items)' /\ IsReport(report)'
    BY DEF IsSeq, IsReport, Range
  <1>2. TalkOK(talk)'
    BY DEF TalkOK, MessageOK, BlockOK, Requested, IsSeq, Range
  <1>3. ShownOK(talk, shown)'
    BY DEF ShownOK, IsSeq, IsReport, Range
  <1> QED BY <1>1, <1>2, <1>3 DEF TaskInv

LEMMA ReturnsKeep ==
    ASSUME TaskInv, NEW name, Named(name), NEW list, NEW rep, IsSeq(list), IsReport(rep),
           TaskToolReturns(name, list, rep)
    PROVE  TaskInv'
  <1> DEFINE lines == Markdown(list, rep)
             r == Response(turns + 1, lines)
  <1>1. CallAdded(talk, talk', r) /\ Len(talk') = Len(talk) + 3
    <2>1. IsSeq(lines)
      BY MarkdownIsText
    <2>2. TalkOK(talk)
      BY DEF TaskInv
    <2>3. BlockOK(Request(turns + 1, name))
      BY RequestOK
    <2> HIDE DEF lines
    <2> QED BY <2>1, <2>2, <2>3, CallAdds DEF TaskToolReturns, Asks, Answers, lines
  <1>2. shown' = [at |-> Len(talk) + 3, list |-> list, rep |-> rep] /\ items' = list /\ report' = rep
    BY DEF TaskToolReturns
  <1>3. r.lines = lines
    BY DEF Response
  <1> HIDE DEF lines, r
  <1>4. shown'.at = Len(talk') /\ shown'.list = list /\ shown'.rep = rep
    BY <1>1, <1>2
  <1>5. ShownOK(talk', shown')
    <2>1. Len(talk) \in Nat
      BY TalkLength
    <2>2. Len(talk') \in 1..Len(talk') /\ talk'[Len(talk')].role = "tool" /\ talk'[Len(talk')].blocks[1] = r
      BY <2>1, <1>1 DEF CallAdded
    <2> QED BY <2>2, <1>3, <1>4 DEF ShownOK, lines
  <1>6. SavedOK'
    BY <1>1, SavedEarlier DEF CallAdded, TaskToolReturns
  <1>7. TalkOK(talk') /\ IsSeq(items') /\ IsReport(report')
    BY <1>1, <1>2 DEF CallAdded
  <1> QED BY <1>5, <1>6, <1>7, TaskParts

\* Any other tool, and a task_list tool that fails, only answers.
LEMMA AnswersKeep ==
    ASSUME TaskInv, NEW name, Named(name), NEW lines, IsSeq(lines),
           talk' = talk \o <<Asks(name), Answers(lines)>>,
           UNCHANGED <<items, report, tasks, columns, shown>>
    PROVE  TaskInv'
  <1>1. CallAdded(talk, talk', Response(turns + 1, lines))
    <2>1. TalkOK(talk)
      BY DEF TaskInv
    <2>2. BlockOK(Request(turns + 1, name))
      BY RequestOK
    <2> QED BY <2>1, <2>2, CallAdds DEF Asks, Answers
  <1>2. SavedOK'
    BY <1>1, SavedEarlier DEF CallAdded
  <1>3. ShownOK(talk', shown)
    <2>1. ShownOK(talk, shown) /\ Len(talk) \in Nat
      BY TalkLength DEF TaskInv
    <2>2. Len(talk') \in Nat /\ Len(talk) <= Len(talk') /\ \A n \in 1..Len(talk) : talk'[n] = talk[n]
      BY <1>1, <2>1 DEF CallAdded
    <2> QED BY <2>1, <2>2, ShownStays
  <1>4. IsSeq(items') /\ IsReport(report') /\ TalkOK(talk') /\ shown' = shown
    BY <1>1 DEF TaskInv, CallAdded
  <1> QED BY <1>2, <1>3, <1>4, TaskParts

\* A text of the user or of the model is added.
LEMMA TextKeeps ==
    ASSUME TaskInv, NEW role \in {"user", "assistant"}, NEW lines, IsSeq(lines),
           talk' = Append(talk, [role |-> role, blocks |-> <<TextBlock(lines)>>]),
           IsSeq(items'), IsReport(report'),
           UNCHANGED <<tasks, columns, shown>>
    PROVE  TaskInv'
  <1>1. BlockOK(TextBlock(lines))
    BY DEF BlockOK, TextBlock
  <1>2. Extended(talk, talk', [role |-> role, blocks |-> <<TextBlock(lines)>>])
    <2>1. TalkOK(talk) /\ Answered(talk, role, TextBlock(lines))
      BY DEF TaskInv, Answered
    <2> DEFINE b == TextBlock(lines)
    <2>2. BlockOK(b) /\ talk' = Append(talk, [role |-> role, blocks |-> <<b>>])
      BY <1>1
    <2> HIDE DEF b
    <2> QED BY <2>1, <2>2, TalkAppends
  <1>5. /\ TalkOK(talk') /\ Len(talk) \in Nat /\ Len(talk') = Len(talk) + 1
        /\ \A n \in 1..Len(talk) : talk'[n] = talk[n]
    BY <1>2 DEF Extended
  <1>6. Len(talk') \in Nat /\ Len(talk') > Len(talk) /\ Len(talk) <= Len(talk')
    BY <1>5
  <1>3. SavedOK'
    BY <1>6, SavedEarlier
  <1>4. ShownOK(talk', shown)
    <2>1. ShownOK(talk, shown)
      BY DEF TaskInv
    <2> QED BY <2>1, <1>5, <1>6, ShownStays
  <1> QED BY <1>3, <1>4, <1>5, TaskParts

\* The shortest texts are sequences of lines.
LEMMA NoLines ==
    /\ IsSeq(<<>>) /\ Len(<<>>) = 0
    /\ IsSeq(<<Line("text")>>)
  <1>1. <<>> \in Seq({}) /\ Len(<<>>) = 0
    OBVIOUS
  <1>2. <<Line("text")>> \in Seq({Line("text")})
    OBVIOUS
  <1> QED BY <1>1, <1>2, SeqIsSeq

\* A session begins without messages and tasks.
LEMMA TaskInvInit ==
    ASSUME TasksInit
    PROVE  TaskInv
  <1>1. /\ items = <<>> /\ report = <<>> /\ talk = <<>> /\ columns = <<>>
        /\ shown = [at |-> 0, list |-> <<>>, rep |-> <<>>]
    BY DEF TasksInit
  <1>2. shown.list = <<>> /\ shown.rep = <<>>
    BY <1>1
  <1>3. IsSeq(items) /\ IsReport(report)
    BY <1>1, NoLines DEF IsReport
  <1>4. TalkOK(talk)
    BY <1>1, NoLines DEF TalkOK
  <1>5. ShownOK(talk, shown)
    BY <1>2, NoLines DEF ShownOK, IsReport
  <1>6. SavedOK
    BY <1>1, NoLines DEF SavedOK
  <1> QED BY <1>3, <1>4, <1>5, <1>6 DEF TaskInv

\* The lists a task_list tool returns are sequences.
LEMMA ListsAre ==
    /\ \A n \in Nat : \A args \in [1..n -> TaskArgs] : IsSeq(Created(args))
    /\ IsSeq(items) => \A a \in UpdateArgs : IsSeq(Updated(items, a))
    /\ IsSeq(items) => IsSeq(Finished(items))
  <1>1. ASSUME NEW n \in Nat, NEW f, DOMAIN f = 1..n, f = [i \in 1..n |-> f[i]] PROVE IsSeq(f)
    <2>1. \A i \in 1..n : f[i] \in Range(f)
      BY <1>1 DEF Range
    <2>2. f \in Seq(Range(f))
      BY <1>1, <2>1
    <2> QED BY <2>2 DEF IsSeq
  <1>2. ASSUME NEW n \in Nat, NEW args \in [1..n -> TaskArgs] PROVE IsSeq(Created(args))
    <2> DEFINE f == Created(args)
    <2>1. DOMAIN args = 1..n
      BY <1>2
    <2>2. f = [i \in 1..n |-> [title |-> args[i].title, status |-> StatusOf(args[i].status)]]
      BY <2>1 DEF Created
    <2>3. DOMAIN f = 1..n /\ f = [i \in 1..n |-> f[i]]
      BY <2>2
    <2> HIDE DEF f
    <2>4. IsSeq(f)
      BY <2>3, <1>1
    <2> QED BY <2>4 DEF f
  <1>3. ASSUME IsSeq(items), NEW a \in UpdateArgs PROVE IsSeq(Updated(items, a))
    <2> DEFINE f == Updated(items, a)
               n == Len(items)
    <2>1. n \in Nat /\ DOMAIN items = 1..n /\ items = [i \in 1..n |-> items[i]]
      BY <1>3 DEF IsSeq
    <2> HIDE DEF n
    <2>2. DOMAIN f = 1..n /\ f = [i \in 1..n |-> f[i]]
      BY <2>1 DEF Updated
    <2> HIDE DEF f
    <2>3. IsSeq(f)
      BY <2>1, <2>2, <1>1
    <2> QED BY <2>3 DEF f
  <1>4. ASSUME IsSeq(items) PROVE IsSeq(Finished(items))
    <2> DEFINE f == Finished(items)
               n == Len(items)
    <2>1. n \in Nat /\ DOMAIN items = 1..n
      BY <1>4 DEF IsSeq
    <2> HIDE DEF n
    <2>2. f = [i \in 1..n |-> [items[i] EXCEPT !.status = "Completed"]]
      BY <2>1 DEF Finished
    <2>3. DOMAIN f = 1..n /\ f = [i \in 1..n |-> f[i]]
      BY <2>2
    <2> HIDE DEF f
    <2>4. IsSeq(f)
      BY <2>1, <2>3, <1>1
    <2> QED BY <2>4 DEF f
  <1> QED BY <1>2, <1>3, <1>4

\* The tools have names.
LEMMA NamesAre == Named("create") /\ Named("update") /\ Named("status") /\ Named("finish") /\ Named("read_file")
  BY DEF Named

\* A failing tool is a tool that answers with a text.
LEMMA FailsKeep ==
    ASSUME TaskInv, NEW name, Named(name), TaskToolFails(name)
    PROVE  TaskInv'
  BY NoLines, AnswersKeep DEF TaskToolFails

\* A save is of the whole conversation.
LEMMA TaskInvSaved ==
    ASSUME TaskInv, UpsertTasks
    PROVE  TaskInv'
  <1>1. /\ tasks' = LatestTaskList(talk) /\ columns' = [n \in DOMAIN talk |-> Metadata(talk, n)]
        /\ items' = items /\ report' = report /\ talk' = talk /\ shown' = shown
    BY DEF UpsertTasks
  <1> DEFINE f == columns'
             l == Len(talk)
  <1>2. l \in Nat /\ DOMAIN talk = 1..l
    <2>1. talk \in Seq(Range(talk))
      BY DEF TaskInv, TalkOK, IsSeq
    <2> HIDE DEF TaskInv
    <2> QED BY <2>1
  <1> HIDE DEF l
  <1>3. DOMAIN f = 1..l /\ f = [n \in 1..l |-> f[n]]
    BY <1>1, <1>2
  <1> HIDE DEF f
  <1>4. IsSeq(f) /\ Len(f) = l
    <2>1. \A i \in 1..l : f[i] \in Range(f)
      BY <1>3 DEF Range
    <2>2. f \in Seq(Range(f)) /\ Len(f) = l
      BY <1>2, <1>3, <2>1
    <2> QED BY <2>2 DEF IsSeq
  <1>5. SavedOK'
    <2>1. IsSeq(columns)' /\ Len(columns') = Len(talk')
      BY <1>1, <1>4 DEF f, l, IsSeq, Range
    <2>2. Len(columns') <= Len(talk')
      BY <2>1, <1>1, <1>2 DEF l
    <2>3. talk' = talk
      BY <1>1
    <2>4. LatestTaskList(talk)' = LatestTaskList(talk)
      BY <2>3
    <2>5. [n \in DOMAIN talk |-> Metadata(talk, n)]' = [n \in DOMAIN talk |-> Metadata(talk, n)]
      BY <2>3
    <2> QED BY <2>1, <2>2, <2>4, <2>5, <1>1 DEF SavedOK
  <1>6. IsSeq(items') /\ IsReport(report') /\ TalkOK(talk') /\ ShownOK(talk', shown')
    BY <1>1 DEF TaskInv
  <1> QED BY <1>5, <1>6, TaskParts

\* What does not touch the conversation keeps the invariant.
LEMMA TaskInvUnchanged ==
    ASSUME TaskInv, UNCHANGED <<items, report, talk, tasks, columns, shown>>
    PROVE  TaskInv'
  <1>1. SavedOK'
    <2>1. SavedOK /\ talk' = talk
      BY DEF TaskInv
    <2>2. LatestTaskList(talk)' = LatestTaskList(talk)
      BY <2>1
    <2>3. [n \in DOMAIN talk |-> Metadata(talk, n)]' = [n \in DOMAIN talk |-> Metadata(talk, n)]
      BY <2>1
    <2>4. IsSeq(columns)' = IsSeq(columns)
      BY DEF IsSeq, Range
    <2> QED BY <2>1, <2>2, <2>3, <2>4 DEF SavedOK
  <1>2. IsSeq(items') /\ IsReport(report') /\ TalkOK(talk') /\ ShownOK(talk', shown')
    BY DEF TaskInv
  <1> QED BY <1>1, <1>2, TaskParts

\* Every step keeps the invariant.
LEMMA TaskInvKept ==
    ASSUME TaskInv, [TasksNext]_taskVars
    PROVE  TaskInv'
  <1>0. IsSeq(items) /\ IsReport(report)
    BY DEF TaskInv
  <1>t. \A text \in Texts \cup Reports : IsSeq(text)
    BY TasksAssumption DEF IsSeq
  <1>1. CASE StartRun
    <2>1. talk' = Append(talk, [role |-> "user", blocks |-> <<TextBlock(<<Line("text")>>)>>])
      BY <1>1 DEF StartRun
    <2>2. IsSeq(items') /\ IsReport(report') /\ UNCHANGED <<tasks, columns, shown>>
      BY <1>1, NoLines DEF StartRun, IsReport
    <2> DEFINE lines == <<Line("text")>>
               role == "user"
    <2>3. IsSeq(lines) /\ role \in {"user", "assistant"}
      BY NoLines
    <2>4. talk' = Append(talk, [role |-> role, blocks |-> <<TextBlock(lines)>>])
      BY <2>1
    <2> HIDE DEF lines, role
    <2> QED BY <2>2, <2>3, <2>4, TextKeeps
  <1>2. CASE TaskListCreate
    <2>1. PICK n \in 0..MaxTasks : \E args \in [1 .. n -> TaskArgs] :
             IF n = 0 \/ \E i \in 1 .. n : args[i].title = "" THEN TaskToolFails("create")
             ELSE TaskToolReturns("create", Created(args), <<>>)
      BY <1>2 DEF TaskListCreate
    <2>2. PICK args \in [1 .. n -> TaskArgs] :
             TaskToolFails("create") \/ TaskToolReturns("create", Created(args), <<>>)
      BY <2>1
    <2>3. n \in Nat
      BY TasksAssumption
    <2>4. IsSeq(Created(args)) /\ IsReport(<<>>)
      BY <2>3, ListsAre DEF IsReport
    <2>5. CASE TaskToolFails("create")
      BY <2>5, NamesAre, FailsKeep
    <2>6. CASE TaskToolReturns("create", Created(args), <<>>)
      BY <2>4, <2>6, NamesAre, ReturnsKeep
    <2> QED BY <2>2, <2>5, <2>6
  <1>3. CASE TaskListUpdate
    <2>1. PICK a \in UpdateArgs : TaskToolFails("update") \/ TaskToolReturns("update", Updated(items, a), report)
      BY <1>3 DEF TaskListUpdate
    <2>2. IsSeq(Updated(items, a))
      BY <1>0, ListsAre
    <2>3. CASE TaskToolFails("update")
      BY <2>3, NamesAre, FailsKeep
    <2>4. CASE TaskToolReturns("update", Updated(items, a), report)
      BY <1>0, <2>2, <2>4, NamesAre, ReturnsKeep
    <2> QED BY <2>1, <2>3, <2>4
  <1>4. CASE TaskListStatus
    BY <1>0, <1>4, NamesAre, ReturnsKeep DEF TaskListStatus
  <1>5. CASE TaskListFinish
    <2>1. PICK rep \in {<<>>} \cup {<<r>> : r \in Reports} :
             TaskToolFails("finish") \/ TaskToolReturns("finish", Finished(items), rep)
      BY <1>5 DEF TaskListFinish
    <2>2. IsSeq(Finished(items)) /\ IsReport(rep)
      BY <1>0, <1>t, ListsAre DEF IsReport
    <2>3. CASE TaskToolFails("finish")
      BY <2>3, NamesAre, FailsKeep
    <2>4. CASE TaskToolReturns("finish", Finished(items), rep)
      BY <2>2, <2>4, NamesAre, ReturnsKeep
    <2> QED BY <2>1, <2>3, <2>4
  <1>6. CASE OtherTool
    <2>1. PICK lines \in Texts : talk' = talk \o <<Asks("read_file"), Answers(lines)>>
      BY <1>6 DEF OtherTool
    <2>2. UNCHANGED <<items, report, tasks, columns, shown>>
      BY <1>6 DEF OtherTool
    <2> QED BY <1>t, <2>1, <2>2, NamesAre, AnswersKeep
  <1>7. CASE ModelSays
    <2>1. PICK lines \in Texts : talk' = Append(talk, [role |-> "assistant", blocks |-> <<TextBlock(lines)>>])
      BY <1>7 DEF ModelSays
    <2>2. UNCHANGED <<items, report, tasks, columns, shown>>
      BY <1>7 DEF ModelSays
    <2>3. IsSeq(items') /\ IsReport(report') /\ IsSeq(lines)
      BY <1>0, <1>t, <2>2
    <2> DEFINE role == "assistant"
    <2>4. role \in {"user", "assistant"} /\ talk' = Append(talk, [role |-> role, blocks |-> <<TextBlock(lines)>>])
      BY <2>1
    <2> HIDE DEF role
    <2> QED BY <2>2, <2>3, <2>4, TextKeeps
  <1>8. CASE RunBreaks
    BY <1>8, TaskInvUnchanged DEF RunBreaks
  <1>9. CASE UpsertTasks
    BY <1>9, TaskInvSaved
  <1>10. CASE UNCHANGED taskVars
    BY <1>10, TaskInvUnchanged DEF taskVars
  <1> QED
    BY <1>1, <1>2, <1>3, <1>4, <1>5, <1>6, <1>7, <1>8, <1>9, <1>10 DEF TasksNext

\* What the invariant says of the store.
LEMMA TaskInvSays ==
    ASSUME TaskInv
    PROVE  StoredAsShown
  <1> SUFFICES ASSUME columns # <<>>, Len(columns) = Len(talk)
               PROVE  /\ LastShown(talk, shown) => tasks = KeptList(shown.list)
                      /\ \A n \in DOMAIN talk : talk[n].role = "tool" => columns[n].tool_name # ""
    BY DEF StoredAsShown, LastShown, KeptList
  <1>1. tasks = LatestTaskList(talk) /\ columns = [n \in DOMAIN talk |-> Metadata(talk, n)]
    BY DEF TaskInv, SavedOK
  <1>2. TalkOK(talk) /\ ShownOK(talk, shown)
    BY DEF TaskInv
  <1>3. LastShown(talk, shown) => tasks = KeptList(shown.list)
    BY <1>1, <1>2, LatestIs
  <1>4. DOMAIN talk = 1..Len(talk)
    BY <1>2 DEF TalkOK, IsSeq
  <1>5. ASSUME NEW n \in DOMAIN talk, talk[n].role = "tool" PROVE columns[n].tool_name # ""
    BY <1>1, <1>2, <1>4, <1>5, ToolNamed
  <1> QED BY <1>3, <1>5

\* After a save the tasks table holds the list of the last answer of a
\* task_list tool, however long the conversation and whatever was said in it,
\* unless a later text or the report has a list; and an answer of a tool is
\* stored under the tool's name.
THEOREM TasksStoredAsShown == TasksSpec => []StoredAsShown
  <1>1. TasksInit => TaskInv
    BY TaskInvInit
  <1>2. TaskInv /\ [TasksNext]_taskVars => TaskInv'
    BY TaskInvKept
  <1>3. TaskInv => StoredAsShown
    BY TaskInvSays
  <1> QED BY <1>1, <1>2, <1>3, PTL DEF TasksSpec
=============================================================================

------------------------------- MODULE Tasks -------------------------------
(***************************************************************************)
(* The task list of a run, which exists three times: as the state of the   *)
(* task_list tools in the core (task_list.rs), as markdown in the          *)
(* conversation, from which the core decides whether a run goes on         *)
(* (task_workflow_state), and in the tasks table of the session store,     *)
(* which is read back from that markdown (session_store.rs).               *)
(*                                                                         *)
(* A text is a sequence of lines.  A line is [kind, title, done]: a        *)
(* heading of a task list ("tasks"), of a completion report ("report"), of *)
(* a plan in the words only the store knows ("steps"), any other heading   *)
(* ("heading"), a list item with a check box ("item"), or plain text.      *)
(***************************************************************************)
EXTENDS Integers, Sequences, FiniteSets, SequencesExt, Filtering

CONSTANTS Titles,       \* titles of tasks
          Texts,        \* what the model says and other tools return
          Reports,      \* completion reports
          TaskArgs,     \* a task in the arguments of create; "" is one without a title
          UpdateArgs,   \* arguments of update: [index, title, status], "" for not given
          MaxTurns,     \* user messages and turns of the model
          MaxTasks      \* tasks of one list

ASSUME TasksAssumption ==
    MaxTasks \in Nat /\ \A text \in Texts \cup Reports : text \in Seq(Range(text))

VARIABLES items,     \* TaskListState: [title, status] of each task
          report,    \* TaskListState: <<>>, or <<lines>>
          talk,      \* the messages of the session: [role, blocks]
          running,   \* a run is under way
          turns,     \* user messages and turns so far
          tasks,     \* the tasks table: [title, done] by position
          columns,   \* the messages table: [type, tool_call_id, tool_name] by position
          shown      \* the list in the last answer of a task_list tool, and where

taskVars == <<items, report, talk, running, turns, tasks, columns, shown>>

Line(kind) == [kind |-> kind, title |-> "", done |-> FALSE]
ItemLine(title, done) == [kind |-> "item", title |-> title, done |-> done]
Placeholder == "none yet"
Doing == [t \in Titles |-> t \o " (in progress)"]

---------------------------------------------------------------------------
(* task_list.rs *)

\* TaskStatus::from_value, of a status as the model writes it.
StatusOf(raw) == CASE raw = "done" -> "Completed" [] raw = "doing" -> "InProgress" [] OTHER -> "Pending"

MarkdownTitle(item) == IF item.status = "InProgress" THEN Doing[item.title] ELSE item.title

\* markdown
Markdown(list, rep) ==
    <<Line("tasks")>>
    \o (IF list = <<>> THEN <<ItemLine(Placeholder, FALSE)>>
        ELSE [i \in DOMAIN list |-> ItemLine(MarkdownTitle(list[i]), list[i].status = "Completed")])
    \o (IF rep = <<>> THEN <<>> ELSE <<Line("text"), Line("report")>> \o rep[1])

HasOpenTasks == report = <<>> /\ \E i \in DOMAIN items : items[i].status # "Completed"

\* update names its task by index or by id; both are checked.
Created(args) == [i \in DOMAIN args |-> [title |-> args[i].title, status |-> StatusOf(args[i].status)]]
Updated(list, a) ==
    [list EXCEPT ![a.index].title = IF a.title = "" THEN @ ELSE a.title,
                 ![a.index].status = IF a.status = "" THEN @ ELSE StatusOf(a.status)]
Finished(list) == [i \in DOMAIN list |-> [list[i] EXCEPT !.status = "Completed"]]

---------------------------------------------------------------------------
(* session_store.rs: what upsert_session writes beside the messages. *)
Roles == {"user", "assistant", "tool"}
TextBlock(lines) == [kind |-> "text", id |-> 0, name |-> "", lines |-> lines]
Request(id, name) == [kind |-> "request", id |-> id, name |-> name, lines |-> <<>>]
Response(id, lines) == [kind |-> "response", id |-> id, name |-> "", lines |-> lines]

\* task_text_from_message
TaskText(msg) ==
    LET texts == Only(msg.blocks, {b \in Range(msg.blocks) : b.kind # "request"})
        joined[i \in 0 .. Len(texts)] == IF i = 0 THEN <<>> ELSE joined[i - 1] \o texts[i].lines
    IN  IF msg.role = "user" THEN <<>> ELSE joined[Len(texts)]

ParseTasks(lines) ==
    LET boxes == Only(lines, {l \in Range(lines) : l.kind = "item"})
    IN  [i \in DOMAIN boxes |-> [title |-> boxes[i].title, done |-> boxes[i].done]]

IsHeading(l) == l.kind \in {"tasks", "steps", "report", "heading"}
\* The lines under heading i.
Under(lines, i) ==
    LET last == CHOOSE j \in i .. Len(lines) : /\ \A k \in i + 1 .. j : ~IsHeading(lines[k])
                                               /\ j = Len(lines) \/ IsHeading(lines[j + 1])
    IN  SubSeq(lines, i + 1, last)

HeadingsIgnoredMutant(lines) ==
    LET all == ParseTasks(lines) IN IF all = <<>> THEN <<>> ELSE <<all>>

\* extract_task_lists: the lists under task headings, or else every item.
ExtractTaskLists(lines) ==
    LET heads == Only([i \in DOMAIN lines |-> i], {i \in DOMAIN lines : lines[i].kind \in {"tasks", "steps"}})
        found == [i \in DOMAIN heads |-> ParseTasks(Under(lines, heads[i]))]
        lists == Only(found, Range(found) \ {<<>>})
        all   == ParseTasks(lines)
    IN  IF lists # <<>> THEN lists ELSE IF all = <<>> THEN <<>> ELSE <<all>>

\* latest_task_list: of the last message that has one.
LatestTaskList(msgs) ==
    LET with == {i \in DOMAIN msgs : ExtractTaskLists(TaskText(msgs[i])) # <<>>}
    IN  IF with = {} THEN <<>>
        ELSE Last(ExtractTaskLists(TaskText(msgs[CHOOSE i \in with : \A j \in with : j <= i])))

\* record_tool_request_names: the names known before message n.
ToolNames(msgs, n) ==
    LET seen == {b \in UNION {Range(msgs[i].blocks) : i \in 1 .. n - 1} : b.kind = "request"}
    IN  [id \in {b.id : b \in seen} |-> (CHOOSE b \in seen : b.id = id).name]

MessageType(blocks) ==
    LET kinds == {blocks[i].kind : i \in DOMAIN blocks}
    IN  IF kinds = {} THEN "empty" ELSE IF Cardinality(kinds) = 1 THEN CHOOSE k \in kinds : TRUE ELSE "mixed"

\* MessageMetadata::from_message: the first request comes before the first
\* response; a response takes its name from its request.
Metadata(msgs, n) ==
    LET blocks    == msgs[n].blocks
        requests  == Only(blocks, {b \in Range(blocks) : b.kind = "request"})
        responses == Only(blocks, {b \in Range(blocks) : b.kind = "response"})
        names     == ToolNames(msgs, n)
        id        == IF requests # <<>> THEN requests[1].id ELSE IF responses # <<>> THEN responses[1].id ELSE 0
    IN  [type |-> MessageType(blocks), tool_call_id |-> id,
         tool_name |-> IF requests # <<>> THEN requests[1].name
                       ELSE IF responses # <<>> /\ responses[1].id \in DOMAIN names
                       THEN names[responses[1].id] ELSE ""]

---------------------------------------------------------------------------
(* Deciding whether a run goes on: message_has_open_task_list. *)
CoreSees(msg) ==
    LET lines == TaskText(msg)
        lists == {i \in DOMAIN lines : lines[i].kind = "tasks"}
        open  == \E i \in lists : \E l \in Range(Under(lines, i)) : l.kind = "item" /\ ~l.done
    IN  msg.role = "assistant" /\ open /\ ~\E i \in DOMAIN lines : lines[i].kind = "report"

---------------------------------------------------------------------------
(* The run. *)
TasksInit ==
    /\ items = <<>> /\ report = <<>> /\ talk = <<>> /\ running = FALSE /\ turns = 0
    /\ tasks = <<>> /\ columns = <<>> /\ shown = [at |-> 0, list |-> <<>>, rep |-> <<>>]

\* A new run begins with an empty TaskListState and the old conversation.
StartRun ==
    /\ ~running /\ turns < MaxTurns /\ turns' = turns + 1
    /\ running' = TRUE /\ items' = <<>> /\ report' = <<>>
    /\ talk' = Append(talk, [role |-> "user", blocks |-> <<TextBlock(<<Line("text")>>)>>])
    /\ UNCHANGED <<tasks, columns, shown>>

Takes == running /\ turns < MaxTurns /\ turns' = turns + 1
Asks(name) == [role |-> "assistant", blocks |-> <<Request(turns + 1, name)>>]
Answers(lines) == [role |-> "tool", blocks |-> <<Response(turns + 1, lines)>>]

\* execute_task_list_tool_with_events: the list is sent as a message of its
\* own and returned as the answer of the tool; a failure only answers.
TaskToolReturns(name, list, rep) ==
    /\ items' = list /\ report' = rep
    /\ talk' = talk \o <<Asks(name), [role |-> "assistant", blocks |-> <<TextBlock(Markdown(list, rep))>>],
                         Answers(Markdown(list, rep))>>
    /\ shown' = [at |-> Len(talk) + 3, list |-> list, rep |-> rep]
    /\ UNCHANGED <<running, tasks, columns>>
TaskToolFails(name) ==
    /\ talk' = talk \o <<Asks(name), Answers(<<Line("text")>>)>>
    /\ UNCHANGED <<items, report, running, tasks, columns, shown>>

TaskListCreate ==
    /\ Takes
    /\ \E n \in 0 .. MaxTasks : \E args \in [1 .. n -> TaskArgs] :
         IF n = 0 \/ \E i \in 1 .. n : args[i].title = "" THEN TaskToolFails("create")
         ELSE TaskToolReturns("create", Created(args), <<>>)

TaskListUpdate ==
    /\ Takes
    /\ \E a \in UpdateArgs :
         IF a.index \notin DOMAIN items THEN TaskToolFails("update")
         ELSE TaskToolReturns("update", Updated(items, a), report)

TaskListStatus == Takes /\ TaskToolReturns("status", items, report)

TaskListFinish ==
    /\ Takes
    /\ \E rep \in {<<>>} \cup {<<r>> : r \in Reports} :
         IF items = <<>> THEN TaskToolFails("finish")
         ELSE TaskToolReturns("finish", Finished(items), rep)

\* Another tool, whose output may hold anything.
OtherTool ==
    /\ Takes
    /\ \E lines \in Texts : talk' = talk \o <<Asks("read_file"), Answers(lines)>>
    /\ UNCHANGED <<items, report, running, tasks, columns, shown>>

\* A turn without tools: the run goes on while a list is open.
ModelSays ==
    /\ Takes
    /\ \E lines \in Texts :
         LET msg == [role |-> "assistant", blocks |-> <<TextBlock(lines)>>]
         IN  talk' = Append(talk, msg) /\ running' = (CoreSees(msg) \/ HasOpenTasks)
    /\ UNCHANGED <<items, report, tasks, columns, shown>>

\* A run may also be cancelled, fail or run out of turns.
RunBreaks ==
    /\ running /\ running' = FALSE
    /\ UNCHANGED <<items, report, talk, turns, tasks, columns, shown>>

\* upsert_session, of the whole conversation.
UpsertTasks ==
    /\ ~running /\ Len(columns) # Len(talk)
    /\ tasks' = LatestTaskList(talk)
    /\ columns' = [n \in DOMAIN talk |-> Metadata(talk, n)]
    /\ UNCHANGED <<items, report, talk, running, turns, shown>>

TasksNext ==
    \/ StartRun \/ TaskListCreate \/ TaskListUpdate \/ TaskListStatus \/ TaskListFinish
    \/ OtherTool \/ ModelSays \/ RunBreaks \/ UpsertTasks

TasksSpec == TasksInit /\ [][TasksNext]_taskVars

---------------------------------------------------------------------------
\* The store shows the list the core keeps: whatever was said before, after
\* a save the tasks table holds the list of the last answer of a task_list
\* tool, item by item, unless a later text (or the report itself) carries a
\* list of its own; and the answers of tools stand under the tool's name.
HasItems(lines) == \E i \in DOMAIN lines : lines[i].kind = "item"
Carries(lines) == \E i \in DOMAIN lines : lines[i].kind \in {"tasks", "steps"} /\ HasItems(lines)
StoredAsShown ==
    (columns # <<>> /\ Len(columns) = Len(talk)) =>
        /\ (/\ shown.list # <<>>
            /\ \A i \in shown.at + 1 .. Len(talk) : ~HasItems(TaskText(talk[i]))
            /\ shown.rep = <<>> \/ ~Carries(shown.rep[1]))
           => tasks = [i \in DOMAIN shown.list |->
                         [title |-> MarkdownTitle(shown.list[i]), done |-> shown.list[i].status = "Completed"]]
        /\ \A n \in DOMAIN talk : talk[n].role = "tool" => columns[n].tool_name # ""
=============================================================================

----------------------------- MODULE Workspace -----------------------------
(***************************************************************************)
(* A workspace on disk under git: the tools of runs change it, the server  *)
(* shows it, and at the end of a reply compares it with a snapshot taken   *)
(* at the beginning and sends diff_ready when it changed (workspace.rs,    *)
(* tool_executor, reply.rs).                                               *)
(*                                                                         *)
(* Several runs work in one directory at once.  A snapshot is two git      *)
(* commands, a tool that times out goes on in its thread, and the first    *)
(* snapshot is taken only after the core has accepted the run: files may   *)
(* change between any two of these steps.                                  *)
(*                                                                         *)
(* A path is a sequence of names; directories are the prefixes of files.   *)
(* Renames and type changes of git status are left out.                    *)
(***************************************************************************)
EXTENDS Integers, Sequences, FiniteSets, SequencesExt

CONSTANTS Replies,      \* runs of the behaviour
          Paths,        \* files the tools name
          FileTexts,    \* contents: [kind, id]; kind is "text", "secret", "binary" or "large"
          Tracked,      \* Paths -> content in the first commit, or Absent
          Effects,      \* what one command may do to the workspace
          Reads,        \* calls of the reading tools and handlers
          Modes,        \* permission modes; the replies of a behaviour ask for the same
          Roots,        \* directories that can be opened
          RecentsLimit,
          MaxTools,
          MaxLooks

ASSUME PathsAssumption == IsFiniteSet(Paths)

VARIABLES isGit,   \* the directory is in a git work tree
          head, staged, disk,   \* Paths -> content: commit, index, files
          runOf,   \* Replies -> the reply and the tool it executes
          late,    \* effects of tools that timed out and still run
          opened,  \* WorkspaceState: [current, recent]
          seen,    \* answer of the last handler or reading tool
          tools,   \* writing tools so far
          looks    \* reading requests and tools so far

wsVars == <<isGit, head, staged, disk, runOf, late, opened, seen, tools, looks>>
treeVars == <<isGit, head, staged, disk>>

Absent == [kind |-> "absent", id |-> 0]
NoSnapshot == [is |-> FALSE]

---------------------------------------------------------------------------
(* git, as the code reads it *)
\* status --porcelain: the two letters of every file that is not clean
StatusOfPath(p) ==
    IF head[p] = Absent /\ staged[p] = Absent THEN IF disk[p] = Absent THEN "  " ELSE "??"
    ELSE (IF staged[p] = head[p] THEN " " ELSE IF staged[p] = Absent THEN "D" ELSE IF head[p] = Absent THEN "A" ELSE "M")
      \o (IF disk[p] = staged[p] \/ staged[p] = Absent THEN " " ELSE IF disk[p] = Absent THEN "D" ELSE "M")
GitStatus ==
    [p \in {q \in Paths : StatusOfPath(q) # "  "} |-> StatusOfPath(p)]
\* diff: files of the index that differ on disk; diff --cached: index and commit
GitDiff == [p \in {q \in Paths : staged[q] # Absent /\ disk[q] # staged[q]} |-> <<staged[p], disk[p]>>]
GitDiffCached == [p \in {q \in Paths : staged[q] # head[q]} |-> <<head[p], staged[p]>>]

\* diff_stats and parse_git_status, as far as the numbers of files
DiffFiles(diff) == Cardinality(DOMAIN diff)
StatusFiles(status) == Cardinality(DOMAIN status)

---------------------------------------------------------------------------
(* Changes *)
\* An effect is [does, path, text].
Apply(e) ==
    /\ disk' = CASE e.does = "write"    -> [disk EXCEPT ![e.path] = e.text]
                 [] e.does = "remove"   -> [disk EXCEPT ![e.path] = Absent]
                 [] e.does = "checkout" -> IF isGit /\ staged[e.path] # Absent
                                           THEN [disk EXCEPT ![e.path] = staged[e.path]] ELSE disk
                 [] OTHER -> disk
    /\ staged' = IF e.does = "add" /\ isGit THEN [staged EXCEPT ![e.path] = disk[e.path]] ELSE staged
    /\ head' = IF e.does = "commit" /\ isGit THEN staged ELSE head
    /\ isGit' = (isGit \/ e.does = "init")

\* Every reply between its first and its last look has seen a change.
Touch(f) == [r \in Replies |-> [f[r] EXCEPT !.touched = TRUE]]

---------------------------------------------------------------------------
(* Tools: execute_tool_inner *)
Busy(r) == runOf[r].at # "idle" /\ ~runOf[r].over

\* permission_manager_for_mode and check: a policy for the tool, or the
\* default level.  A tool to confirm was confirmed before (see AgentRun).
Policies(mode) == IF mode = "Permissive" THEN [t \in {"read"} |-> "Allow"] ELSE <<>>
DefaultLevel(mode) == CASE mode = "AllowAll" -> "Allow" [] mode = "DenyAll" -> "Deny" [] OTHER -> "Confirm"
Level(r, tool) ==
    LET p == Policies(runOf[r].mode)
    IN  IF tool \in DOMAIN p THEN p[tool] ELSE DefaultLevel(runOf[r].mode)

\* developer__write_file: a path of the working directory, parents are made
WriteFile(r, p, text) ==
    /\ Busy(r) /\ runOf[r].tool = <<>>
    /\ Level(r, "write") # "Deny" /\ tools < MaxTools /\ tools' = tools + 1
    /\ runOf' = [runOf EXCEPT ![r].tool = <<[does |-> "write", path |-> p, text |-> text]>>]
    /\ UNCHANGED <<treeVars, late, opened, seen, looks>>

\* developer__shell, developer__code_interpreter: run_shell_command in a
\* thread of its own; a shell command that inspect_input flags is not run.
RunCommand(r, e) ==
    /\ Busy(r) /\ runOf[r].tool = <<>>
    /\ Level(r, "shell") # "Deny" /\ e.flagged = FALSE /\ tools < MaxTools /\ tools' = tools + 1
    /\ runOf' = [runOf EXCEPT ![r].tool = <<e>>]
    /\ UNCHANGED <<treeVars, late, opened, seen, looks>>

\* Denied, flagged, outside the directory, missing argument: an answer only
ToolRefused(r) ==
    /\ Busy(r) /\ runOf[r].tool = <<>>
    /\ \/ \E t \in {"write", "shell", "read"} : Level(r, t) = "Deny"
       \/ \E e \in Effects : e.flagged
    /\ seen' = [status |-> 0, body |-> <<>>]
    /\ UNCHANGED <<treeVars, tools, runOf, late, opened, looks>>

ToolReturns(r) ==
    /\ runOf[r].tool # <<>>
    /\ Apply(runOf[r].tool[1])
    /\ runOf' = [Touch(runOf) EXCEPT ![r].tool = <<>>]
    /\ UNCHANGED <<tools, late, opened, seen, looks>>

\* Ten seconds are over; the thread goes on.
ToolTimesOut(r) ==
    /\ runOf[r].tool # <<>>
    /\ late' = late \cup {runOf[r].tool[1]}
    /\ runOf' = [runOf EXCEPT ![r].tool = <<>>]
    /\ UNCHANGED <<treeVars, tools, opened, seen, looks>>

LateEffect(e) ==
    /\ Apply(e)
    /\ late' = late \ {e} /\ runOf' = Touch(runOf)
    /\ UNCHANGED <<tools, opened, seen, looks>>

---------------------------------------------------------------------------
(* Reading: tools and handlers *)
SkippedNames == {".git", "target", "node_modules", ".venv", "venv", "__pycache__"}
Files == {p \in Paths : disk[p] # Absent}
Below(dir, p) == Len(p) > Len(dir) /\ SubSeq(p, 1, Len(dir)) = dir
IsDir(dir) == dir = <<>> \/ \E p \in Files : Below(dir, p)

\* list_files, recursive or not, lists one directory.
Listed(dir) == {p[Len(dir) + 1] : p \in {q \in Files : Below(dir, q)}}

\* glob_match
GlobMatch[pattern \in STRING, name \in STRING] ==
    LET rest(s) == SubSeq(s, 2, Len(s))
        first(s) == SubSeq(s, 1, 1)
    IN  IF pattern = "" THEN name = ""
        ELSE CASE first(pattern) = "*" -> \/ rest(pattern) = ""
                                          \/ \E i \in 1 .. Len(name) :
                                               GlobMatch[rest(pattern), SubSeq(name, i, Len(name))]
               [] first(pattern) = "?" -> name # "" /\ GlobMatch[rest(pattern), rest(name)]
               [] OTHER -> /\ name # "" /\ first(name) = first(pattern)
                           /\ GlobMatch[rest(pattern), rest(name)]

\* file_search: files below dir with the words, outside skipped directories
SearchHits(dir, words, pattern) ==
    IF dir \in Files THEN {p \in {dir} : disk[p] = words}
    ELSE {p \in Files : /\ Below(dir, p) /\ disk[p] = words
                        /\ \A i \in Len(dir) .. Len(p) - 1 : i = 0 \/ p[i] \notin SkippedNames
                        /\ GlobMatch[pattern, Last(p)]}

\* sanitize_output: lines with credentials are replaced.
Sanitized(text) == IF text.kind = "secret" THEN [kind |-> "redacted", id |-> text.id] ELSE text
\* resolve_sensitive_output: the user may be asked for the text as it is.
Returned(r, text) ==
    CASE text = Sanitized(text) \/ Level(r, "sensitive_output") = "Allow" -> {text}
      [] Level(r, "sensitive_output") = "Deny" -> {Sanitized(text)}
      [] OTHER -> {text, Sanitized(text)}

\* build_file_tree: three levels, without the skipped names
Tree(dir) == {p \in Files : /\ Below(dir, p) /\ Len(p) - Len(dir) <= 3
                            /\ \A i \in Len(dir) + 1 .. Len(p) : p[i] \notin SkippedNames}

\* workspace_file: what cannot be shown has an error instead of contents.
FileShown(p) == IF disk[p].kind \in {"large", "binary"} THEN [kind |-> disk[p].kind, id |-> 0] ELSE disk[p]

Shown(c) ==
    CASE c.call = "read_file"   -> IF c.dir \in Files THEN <<disk[c.dir]>> ELSE <<>>
      [] c.call = "list_files"  -> IF IsDir(c.dir) THEN <<Listed(c.dir)>> ELSE <<>>
      [] c.call = "file_search" -> <<SearchHits(c.dir, c.words, c.pattern)>>
      [] c.call = "tree"        -> IF IsDir(c.dir) THEN <<Tree(c.dir)>> ELSE <<>>
      [] c.call = "file"        -> IF c.dir \in Files THEN <<FileShown(c.dir)>> ELSE <<>>
      [] c.call = "status"      -> IF isGit THEN <<GitStatus>> ELSE <<>>
      [] c.call = "diff"        -> IF isGit THEN <<GitDiff>> ELSE <<>>
      [] c.call = "diff_staged" -> IF isGit THEN <<GitDiffCached>> ELSE <<>>

Handlers == {"tree", "file", "status", "diff", "diff_staged"}
Status(body) == [status |-> IF body = <<>> THEN 400 ELSE 200, body |-> body]
\* A handler needs an open workspace, a tool a run.
Look(c) ==
    /\ c.call \in Handlers /\ looks < MaxLooks /\ looks' = looks + 1
    /\ seen' = IF opened.current = "none" THEN [status |-> 409, body |-> <<>>] ELSE Status(Shown(c))
    /\ UNCHANGED <<treeVars, tools, runOf, late, opened>>
ReadTool(r, c) ==
    /\ c.call \notin Handlers /\ looks < MaxLooks /\ looks' = looks + 1
    /\ Busy(r) /\ runOf[r].tool = <<>> /\ Level(r, "read") # "Deny"
    /\ IF c.call = "read_file" /\ Shown(c) # <<>>
       THEN \E text \in Returned(r, Shown(c)[1]) : seen' = Status(<<text>>)
       ELSE seen' = Status(Shown(c))
    /\ UNCHANGED <<treeVars, tools, runOf, late, opened>>

OpenWorkspace(root) ==
    /\ opened' = [current |-> root,
                  recent |-> LET all == <<root>> \o SelectSeq(opened.recent, LAMBDA x : x # root)
                             IN  SubSeq(all, 1, IF Len(all) < RecentsLimit THEN Len(all) ELSE RecentsLimit)]
    /\ UNCHANGED <<treeVars, tools, runOf, late, seen, looks>>

---------------------------------------------------------------------------
(* The reply: start_reply, then the baseline, then the events of the run *)
StartReply(r) ==
    /\ runOf[r].at = "idle"
    /\ runOf' = [runOf EXCEPT ![r].at = "started"]
    /\ UNCHANGED <<treeVars, tools, late, opened, seen, looks>>

\* The run is over in the core; its terminal event is on its way.
RunEnds(r) ==
    /\ Busy(r) /\ runOf[r].tool = <<>>
    /\ runOf' = [runOf EXCEPT ![r].over = TRUE]
    /\ UNCHANGED <<treeVars, tools, late, opened, seen, looks>>

\* workspace_change_snapshot: git status, then git diff; both fail outside git.
TakeStatus(r) ==
    /\ \/ runOf[r].at = "started"
       \/ runOf[r].at = "pumping" /\ runOf[r].over
    /\ runOf' = [runOf EXCEPT
         ![r].at = IF @ = "started" THEN "first" ELSE "last",
         ![r].touched = IF runOf[r].at = "started" THEN FALSE ELSE @,
         ![r].status = IF isGit THEN <<GitStatus>> ELSE <<>>]
    /\ UNCHANGED <<treeVars, tools, late, opened, seen, looks>>

StatusOnlyMutant(r) ==
    IF runOf[r].status = <<>> THEN NoSnapshot
    ELSE [is |-> TRUE, status |-> runOf[r].status[1], diff |-> <<>>]

Snapshot(r) ==
    IF runOf[r].status = <<>> THEN NoSnapshot
    ELSE [is |-> TRUE, status |-> runOf[r].status[1], diff |-> GitDiff]

TakeBaseline(r) ==
    /\ runOf[r].at = "first"
    /\ runOf' = [runOf EXCEPT ![r].at = "pumping", ![r].baseline = Snapshot(r),
                              ![r].then = [git |-> isGit, staged |-> staged, disk |-> disk]]
    /\ UNCHANGED <<treeVars, tools, late, opened, seen, looks>>

\* build_diff_ready_event, when the pump meets the terminal event
BuildDiffReady(r) ==
    LET current == Snapshot(r)
    IN  IF ~current.is \/ current = runOf[r].baseline THEN <<>>
        ELSE IF DOMAIN current.status = {} /\ DOMAIN current.diff = {} THEN <<>>
        ELSE LET a == DiffFiles(current.diff)
                 b == StatusFiles(current.status)
             IN  <<[files_changed |-> IF a > b THEN a ELSE b]>>

FinishReply(r) ==
    /\ runOf[r].at = "last"
    /\ runOf' = [runOf EXCEPT ![r].at = "done", ![r].diffReady = BuildDiffReady(r),
                              ![r].end = [git |-> isGit, staged |-> staged, disk |-> disk]]
    /\ UNCHANGED <<treeVars, tools, late, opened, seen, looks>>

---------------------------------------------------------------------------
Nothing == [git |-> FALSE, staged |-> [p \in Paths |-> Absent], disk |-> [p \in Paths |-> Absent]]
Waiting(mode) == [at |-> "idle", mode |-> mode, over |-> FALSE, tool |-> <<>>, status |-> <<>>, baseline |-> NoSnapshot,
            diffReady |-> <<>>, touched |-> FALSE, then |-> Nothing, end |-> Nothing]

WorkspaceInit ==
    /\ isGit \in BOOLEAN
    /\ head = IF isGit THEN Tracked ELSE Nothing.disk
    /\ staged = head /\ disk = Tracked
    /\ \E mode \in Modes : runOf = [r \in Replies |-> Waiting(mode)]
    /\ late = {} /\ tools = 0 /\ looks = 0
    /\ opened = [current |-> "none", recent |-> <<>>] /\ seen = [status |-> 0, body |-> <<>>]

WorkspaceNext ==
    \/ \E r \in Replies :
         \/ StartReply(r) \/ RunEnds(r) \/ TakeStatus(r) \/ TakeBaseline(r) \/ FinishReply(r)
         \/ ToolRefused(r) \/ ToolReturns(r) \/ ToolTimesOut(r)
         \/ \E p \in Paths, text \in FileTexts : WriteFile(r, p, text)
         \/ \E e \in Effects : RunCommand(r, e)
         \/ \E c \in Reads : ReadTool(r, c)
    \/ \E e \in late : LateEffect(e)
    \/ \E c \in Reads : Look(c)
    \/ \E root \in Roots : OpenWorkspace(root)

WorkspaceSpec == WorkspaceInit /\ [][WorkspaceNext]_wsVars

---------------------------------------------------------------------------
\* A reply announces changes: when a file of the index has other contents at
\* the end than when the baseline was taken (its index entry being the same,
\* and differing from it), diff_ready is sent before the terminal event; and
\* it is not sent when nothing touched the workspace in between.
ChangesAnnounced ==
    \A r \in Replies : LET x == runOf[r] IN
        x.at = "done" =>
            /\ (x.then.git /\ x.end.git /\ \E p \in Paths :
                   /\ x.end.staged[p] = x.then.staged[p] /\ x.end.staged[p] # Absent
                   /\ x.end.disk[p] \notin {x.then.disk[p], x.end.staged[p]})
               => x.diffReady # <<>>
            /\ ~x.touched => x.diffReady = <<>>
            /\ x.diffReady # <<>> => x.diffReady[1].files_changed > 0
=============================================================================

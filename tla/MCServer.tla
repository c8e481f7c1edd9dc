------------------------------ MODULE MCServer ------------------------------
(***************************************************************************)
(* What the server and the core keep: the sessions in the store, the task  *)
(* list in their messages, of a workspace its files, hooks and skills, and *)
(* the pool of sub-agents.  The parts share no state here, so a behaviour  *)
(* follows one of them.                                                    *)
(***************************************************************************)
EXTENDS Sessions, Tasks, Hooks, Workspace, Skills, SubAgentPool

CONSTANT ServerParts
VARIABLE serverPart

serverVars == <<vars, taskVars, hookVars, wsVars, skillVars, poolVars, serverPart>>

\* Texts and reports: without a list, with one, with a list under a heading
\* of the store's own, with headings that close a list.
MCTexts == {<<Line("text")>>, <<Line("text"), ItemLine("t1", TRUE)>>, <<Line("steps"), ItemLine("t2", FALSE)>>,
            <<Line("tasks"), ItemLine("t2", FALSE), Line("report"), ItemLine("t1", TRUE)>>}
MCReports == {<<Line("text")>>, <<ItemLine("t1", TRUE), Line("heading")>>, <<Line("steps"), ItemLine("t2", FALSE)>>}
MCTaskArgs == {[title |-> "t1", status |-> "done"], [title |-> "t2", status |-> "doing"], [title |-> "", status |-> "later"]}
MCUpdateArgs == {[index |-> 1, title |-> "", status |-> "later"], [index |-> 2, title |-> "t1", status |-> ""],
                 [index |-> 2, title |-> "", status |-> "done"]}

\* A hook of each event, one more that is disabled, and a spelling only the
\* server accepts.
MCHook == [event |-> [name |-> "before_tool", padded |-> FALSE], engine |-> [name |-> "gts", padded |-> FALSE],
           name |-> "", script |-> "", inline |-> "text", enabled |-> TRUE, timeout |-> 1, limit |-> 1]
MCFileHook == [MCHook EXCEPT !.script = "text", !.inline = "blank", !.name = "f", !.engine.name = "absent",
                              !.event.name = "run_failed"]
MCHookFiles == {<<MCHook, [MCFileHook EXCEPT !.enabled = FALSE], MCFileHook>>,
                <<[MCHook EXCEPT !.event.padded = TRUE]>>,
                <<[MCHook EXCEPT !.timeout = 0]>>}
MCScripts == {[prints |-> <<>>, fails |-> FALSE], [prints |-> <<Out("stdout", "a"), Out("stderr", "")>>, fails |-> TRUE]}
MCItem(o, s, t) == [object |-> o, stream |-> s, text |-> t]
MCReturns == {<<"items", <<MCItem(TRUE, "stderr", "b"), MCItem(FALSE, "absent", "")>>>>}

\* One committed file and one that is not there yet.
MCText(k, i) == [kind |-> k, id |-> i]
MCPaths == {<<"a">>, <<"src", "b.rs">>}
MCTracked == [p \in MCPaths |-> IF p = <<"a">> THEN MCText("text", 1) ELSE Absent]
MCFileTexts == {MCText("secret", 2)}
MCEffect(d) == [does |-> d, path |-> <<"a">>, text |-> MCText("text", 1), flagged |-> FALSE]
MCEffects == {MCEffect(d) : d \in {"remove", "checkout", "add", "commit", "init"}}
             \cup {[MCEffect("remove") EXCEPT !.flagged = TRUE]}
MCRead(c, d) == [call |-> c, dir |-> d, words |-> MCText("secret", 2), pattern |-> "*.r?"]
MCReads == {MCRead("read_file", <<"a">>), MCRead("file_search", <<>>), MCRead("diff_staged", <<>>)}

\* Two directories of the first root, one of each other.
MCPlaces == {[root |-> 0, dir |-> "a"], [root |-> 0, dir |-> "c"], [root |-> 1, dir |-> "a"], [root |-> 2, dir |-> "b"]}
MCLine(k, v) == [key |-> k, value |-> v]
MCSkill(lines, body) == [closed |-> TRUE, lines |-> <<MCLine("description", "d")>> \o lines, body |-> body]
MCSkillTexts == {MCSkill(<<MCLine("name", "b"), MCLine("requires.env", "here")>>, 1),
                 MCSkill(<<MCLine("name", "A b"), MCLine("model_invocable", "false")>>, 2),
                 MCSkill(<<MCLine("requires", ""), MCLine("bins", "nowhere"), MCLine("enabled", "maybe")>>, 3),
                 MCSkill(<<MCLine("requires.bins", "nowhere")>>, 4),
                 [closed |-> FALSE, lines |-> <<>>, body |-> 5]}
MCNameOrder == <<"a", "b", "c">>

\* Spawns in both modes and one without a task; ends with and without a verdict.
MCSpawnArgs == {[name |-> "", task |-> "t", mode |-> "blocking"], [name |-> "n", task |-> "t", mode |-> ""],
                [name |-> "n", task |-> "", mode |-> ""]}
MCChildEvent(type, status, messages) == [type |-> type, status |-> status, messages |-> messages, text |-> <<"boom">>]
MCChildEnds == {<<MCChildEvent("message", "", <<>>)>>,
                <<MCChildEvent("error", "", <<>>)>>,
                <<MCChildEvent("finish", "cancelled", <<>>)>>,
                <<MCChildEvent("finish", "completed", <<[role |-> "tool", text |-> <<>>]>>)>>,
                <<MCChildEvent("finish", "completed", <<[role |-> "user", text |-> <<"u">>],
                                                        [role |-> "assistant", text |-> <<"v", "w">>]>>)>>}

\* The replies in one workspace are alike.
ReplySymmetry == Permutations(Replies)

ServerInit ==
    /\ serverPart \in ServerParts
    /\ Init /\ TasksInit /\ HooksInit /\ WorkspaceInit /\ SkillsInit /\ PoolInit
    /\ serverPart # "hooks" => named = No("unset")
    /\ serverPart # "workspace" => ~isGit /\ \A r \in Replies : Level(r, "read") = "Deny"

ServerNext ==
    /\ \/ serverPart = "sessions"  /\ Next /\ UNCHANGED <<taskVars, hookVars, wsVars, skillVars, poolVars>>
       \/ serverPart = "tasks"     /\ TasksNext /\ UNCHANGED <<vars, hookVars, wsVars, skillVars, poolVars>>
       \/ serverPart = "hooks"     /\ HooksNext /\ UNCHANGED <<vars, taskVars, wsVars, skillVars, poolVars>>
       \/ serverPart = "workspace" /\ WorkspaceNext /\ UNCHANGED <<vars, taskVars, hookVars, skillVars, poolVars>>
       \/ serverPart = "skills"    /\ SkillsNext /\ UNCHANGED <<vars, taskVars, hookVars, wsVars, poolVars>>
       \/ serverPart = "pool"      /\ PoolNext /\ UNCHANGED <<vars, taskVars, hookVars, wsVars, skillVars>>
    /\ UNCHANGED serverPart

ServerSpec == ServerInit /\ [][ServerNext]_serverVars
=============================================================================

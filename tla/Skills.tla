------------------------------- MODULE Skills -------------------------------
(***************************************************************************)
(* Skills: SKILL.md files in three roots (workspace, project agents, user),*)
(* read into a registry when a run begins.  The prompt of the run lists    *)
(* the skills of the registry; a skill is loaded, by the user's words or   *)
(* by the model's tool call, from the file the registry names, as the file *)
(* is then.  Users edit the files at any time (skills.rs, agent-core       *)
(* lib.rs).                                                                *)
(***************************************************************************)
EXTENDS Integers, Sequences, FiniteSets, SequencesExt, Filtering

CONSTANTS Places,       \* directories a skill may be in: [root, dir]; root 0 comes first
          SkillTexts,   \* contents of SKILL.md: [closed, lines, body]
          NameOrder,    \* skill names, in the order of the prompt
          ValidNames,   \* those valid_skill_name accepts
          Present,      \* requirements of skills this machine meets
          MaxListed,    \* lines that MAX_SKILL_LIST_CHARS has room for
          MaxSkillEdits,
          MaxLoads

\* Skills are read from three roots; the prompt takes every name there is.
ASSUME SkillsAssumption ==
    /\ \A p \in Places : p.root \in 0..2
    /\ NameOrder \in Seq(Range(NameOrder)) /\ MaxListed \in Nat

VARIABLES skillFiles,  \* Places -> <<>>, or <<text>>
          registry,    \* <<>>, or <<name -> record>> of the run
          listed,      \* names in the prompt of the run
          invoked,     \* what the user's first words loaded
          got,         \* what the last load returned: <<>>, or <<name, place, body>>
          atStart,     \* skillFiles when the run began
          skillEdits, loads

skillVars == <<skillFiles, registry, listed, invoked, got, atStart, skillEdits, loads>>

---------------------------------------------------------------------------
(* The manifest: lines [key, value].  A line "key:" opens a section, but   *)
(* every line with a colon closes it again before its key is looked at, so *)
(* the keys of a section are never found.                                  *)
Default == [name |-> "", description |-> "", enabled |-> TRUE, user_invocable |-> TRUE,
            model_invocable |-> TRUE, requires |-> {}]

\* parse_bool: anything else is the default
ParseBool(value) == value # "false"

ParseLine(m, line) ==
    CASE line.key = "name"            -> [m EXCEPT !.name = line.value]
      [] line.key = "description"     -> [m EXCEPT !.description = line.value]
      [] line.key = "enabled"         -> [m EXCEPT !.enabled = ParseBool(line.value)]
      [] line.key = "user_invocable"  -> [m EXCEPT !.user_invocable = ParseBool(line.value)]
      [] line.key = "model_invocable" -> [m EXCEPT !.model_invocable = ParseBool(line.value)]
      [] line.key \in {"requires.os", "requires.bins", "requires.env"} ->
             [m EXCEPT !.requires = {r \in @ : r[1] # line.key} \cup {<<line.key, line.value>>}]
      [] OTHER -> m
ParseManifest(lines) == FoldLeft(ParseLine, Default, lines)

\* missing_requirements
Missing(m) == {r \in m.requires : r[2] \notin Present}

\* parse_skill of a file that can be parsed; its name may be the directory's.
Record(place, text) ==
    LET m == ParseManifest(text.lines)
    IN  [name |-> IF m.name \in ValidNames THEN m.name ELSE place.dir, place |-> place,
         enabled |-> m.enabled, eligible |-> m.enabled /\ Missing(m) = {} /\ m.description # "",
         user_invocable |-> m.user_invocable, model_invocable |-> m.model_invocable]

Parses(p) == skillFiles[p] # <<>> /\ skillFiles[p][1].closed
Found == {Record(p, skillFiles[p][1]) : p \in {q \in Places : Parses(q)}}

LastRootMutant(name) ==
    {r \in Found : r.name = name /\ \A s \in Found : s.name = name => s.place.root <= r.place.root}

\* The records that may be kept for a name: of the first root; within a root
\* the one the directory is read first.
Kept(name) ==
    {r \in Found : r.name = name /\ \A s \in Found : s.name = name => r.place.root <= s.place.root}

\* SkillRegistry::load
Registries == {f \in [{r.name : r \in Found} -> Found] : \A n \in DOMAIN f : f[n] \in Kept(n)}

\* available_for_prompt: skills by root and name, as many as fit
ForPrompt(reg) ==
    LET fit(root) == Only(NameOrder, {n \in DOMAIN reg : /\ reg[n].place.root = root
                                                         /\ reg[n].eligible /\ reg[n].model_invocable})
        all == fit(0) \o fit(1) \o fit(2)
    IN  SubSeq(all, 1, IF Len(all) < MaxListed THEN Len(all) ELSE MaxListed)

\* load_skill: the body as it is on disk now; <<>> is a failure.
LoadSkill(reg, name) ==
    IF name \notin DOMAIN reg THEN <<>>
    ELSE IF ~(reg[name].eligible /\ reg[name].model_invocable) \/ ~Parses(reg[name].place) THEN <<>>
    ELSE <<name, reg[name].place, skillFiles[reg[name].place][1].body>>

\* explicit_invocation, then load_skill, which asks for more
Invoke(reg, name) ==
    IF name \in DOMAIN reg /\ reg[name].eligible /\ reg[name].user_invocable
    THEN <<"asked", LoadSkill(reg, name)>> ELSE <<"not asked">>

---------------------------------------------------------------------------
Names == Range(NameOrder)

\* Agent reply starts: registry and system prompt.
StartSkillRun ==
    /\ registry = <<>>
    /\ \E reg \in Registries, name \in Names :
         /\ registry' = <<reg>> /\ listed' = ForPrompt(reg) /\ invoked' = Invoke(reg, name)
    /\ atStart' = skillFiles /\ got' = <<>>
    /\ UNCHANGED <<skillFiles, skillEdits, loads>>

\* developer__skill_load
SkillLoadTool ==
    /\ registry # <<>> /\ loads < MaxLoads /\ loads' = loads + 1
    /\ \E name \in Names : got' = LoadSkill(registry[1], name)
    /\ UNCHANGED <<skillFiles, registry, listed, invoked, atStart, skillEdits>>

\* agent.skill.load and agent.skills read a registry of their own.
AgentSkillLoad ==
    /\ loads < MaxLoads /\ loads' = loads + 1
    /\ \E reg \in Registries, name \in Names : got' = LoadSkill(reg, name)
    /\ UNCHANGED <<skillFiles, registry, listed, invoked, atStart, skillEdits>>

\* get_workspace_skill: without a workspace or a core there is no answer.
GetWorkspaceSkill ==
    \/ AgentSkillLoad
    \/ /\ loads < MaxLoads /\ loads' = loads + 1 /\ got' = <<>>
       /\ UNCHANGED <<skillFiles, registry, listed, invoked, atStart, skillEdits>>

EditSkill ==
    /\ skillEdits < MaxSkillEdits /\ skillEdits' = skillEdits + 1
    /\ \E p \in Places, text \in {<<>>} \cup {<<t>> : t \in SkillTexts} :
         skillFiles' = [skillFiles EXCEPT ![p] = text]
    /\ UNCHANGED <<registry, listed, invoked, got, atStart, loads>>

SkillsInit ==
    /\ skillFiles = [p \in Places |-> <<>>] /\ atStart = skillFiles
    /\ registry = <<>> /\ listed = <<>> /\ invoked = <<>> /\ got = <<>> /\ skillEdits = 0 /\ loads = 0

SkillsNext == StartSkillRun \/ SkillLoadTool \/ GetWorkspaceSkill \/ EditSkill

SkillsSpec == SkillsInit /\ [][SkillsNext]_skillVars

---------------------------------------------------------------------------
\* What a prompt offers is what a load gives: a listed skill comes from the
\* first root that had one of that name when the run began, could be used
\* then, and can be loaded, with the body of that file, for as long as its
\* file is there; a later file in a better root does not replace it.
SkillAsListed ==
    registry # <<>> =>
        \A i \in DOMAIN listed :
            LET n == listed[i]
                p == registry[1][n].place
                was(q) == Record(q, atStart[q][1])
            IN  /\ atStart[p] # <<>> /\ was(p).eligible
                /\ \A q \in Places : (q.root < p.root /\ atStart[q] # <<>> /\ atStart[q][1].closed)
                                        => was(q).name # n
                /\ Parses(p) => LoadSkill(registry[1], n) = <<n, p, skillFiles[p][1].body>>
=============================================================================

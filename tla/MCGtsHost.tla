----------------------------- MODULE MCGtsHost ------------------------------
(***************************************************************************)
(* The GTS engine and what it offers to scripts: program texts, programs   *)
(* on the two engines, modules, the web server, plugins and sockets, and   *)
(* of the standard library versions, event emitters and databases.  They   *)
(* share no state, so a behaviour follows one of them.                     *)
(***************************************************************************)
EXTENDS MCGts, MCGtsSource, GtsModules, GtsWeb, Gtp, GtsSemver, GtsEvents, GtsDb

CONSTANT Parts
VARIABLE part

libVars == <<semverVars, emitterVars, dbVars>>
hostVars == <<vars, srcVars, modVars, webVars, gtpVars, libVars, part>>

\* Files: main requires a, b, c; lib has an index and a main.
NoMap == [x \in {} |-> 0]
File(p, e) == [at |-> p, ext |-> e]
Rel(to, ext) == [kind |-> "path", up |-> 0, to |-> to, ext |-> ext]
Bare(name) == [kind |-> "bare", name |-> name, export |-> "."]
MCDisk == {File(<<"main">>, "gs"), File(<<"a">>, "gs"), File(<<"b">>, "gs"), File(<<"c">>, "json"),
           File(<<"lib", "index">>, "gs"), File(<<"lib", "main">>, "gs")}
MCLate == {File(<<"d">>, "gs")}
MCBroken == {File(<<"lib", "index">>, "gs")}
MCManifests == (<<>> :> [main |-> None, exports |-> NoMap, imports |-> ("al" :> <<"b">>),
                         dependencies |-> ("pk" :> <<"lib">>)])
            @@ (<<"lib">> :> [main |-> None, exports |-> ("." :> <<"main">>), imports |-> NoMap,
                              dependencies |-> NoMap])
MCArchives == "z" :> {File(<<"main">>, "gs"), File(<<"x", "main">>, "gs")}
MCSpecs == {Rel(<<"a">>, ""), Rel(<<"b">>, "gs"), Rel(<<"c">>, ""), Rel(<<"d">>, ""),
            Rel(<<"lib">>, ""), Bare("al"), Bare("pk"),
            [kind |-> "native", name |-> "fs"],
            [kind |-> "archive", pkg |-> "z", to |-> <<"x">>]}

MCRoutes == {[method |-> "USE", segs |-> <<"b">>, ws |-> FALSE, handlers |-> 1],
             [method |-> "GET", segs |-> <<":p">>, ws |-> FALSE, handlers |-> 2]}
MCAsked == [method : {"GET"}, segs : {<<"a">>}, ws : BOOLEAN]

\* Versions with numbers at their limit, leading zeros, words, empty and
\* forbidden parts; ranges of every form.
MCVersion(a, b, c, pre) == [vs |-> 0, main |-> <<NumberText(a), NumberText(b), NumberText(c)>>, pre |-> pre, build |-> <<>>]
MCOne == MCVersion(1, 0, 1, <<>>)
MCVersionTexts ==
    {MCOne, [MCOne EXCEPT !.build = <<Seg("word", 1)>>], [MCOne EXCEPT !.pre = <<Seg("empty", 0)>>, !.vs = 1],
     MCVersion(1, 0, 2, <<Seg("word", 1)>>), MCVersion(1, 0, 2, <<Seg("word", 1), Seg("num", 2)>>),
     MCVersion(1, 0, 2, <<Seg("zeros", 1), Seg("word", 2)>>), MCVersion(1, 0, 2, <<Seg("num", 1)>>),
     MCVersion(1, 0, 2, <<Seg("num", 9)>>), [MCOne EXCEPT !.main = <<NumberText(1), NumberText(0)>>]}
MCRange(kind, text, parts) == [kind |-> kind, text |-> text, parts |-> parts]
MCRanges == {MCRange(kind, text, <<>>) : kind \in {"^", "~", "bare"}, text \in {MCOne, MCVersion(1, 0, 2, <<Seg("num", 1)>>)}}
            \cup {MCRange("pairs", MCOne, <<<<">=", MCOne>>, <<op, MCVersion(1, 0, 2, <<Seg("word", 1)>>)>>>>) : op \in {"<", "<=", ">1.0.0"}}

\* Two functions that look alike and one that does not; a value of each kind.
MCListenerFns == {[id |-> 1, shows |-> "fn()"], [id |-> 2, shows |-> "fn()"], [id |-> 3, shows |-> "fn f(x)"]}
MCDbValues == {[kind |-> k, n |-> 1] : k \in {"undefined", "boolean", "array"}}

HostInit ==
    /\ part \in Parts
    /\ IF part = "program" THEN Init
       ELSE prog = <<>> /\ chunks = <<>> /\ frames = <<>> /\ envs = <<>> /\ cells = <<>>
            /\ iters = <<>> /\ out = <<>> /\ raised = <<>> /\ done = <<>>
    /\ SrcInit /\ ModInit /\ WebInit /\ GtpInit /\ EmitterInit /\ DbInit
    /\ IF part = "versions" THEN SemverInit ELSE given = <<>> /\ before = <<>> /\ incs = 0

HostNext ==
    \/ part = "program" /\ Next /\ UNCHANGED <<srcVars, modVars, webVars, gtpVars, libVars, part>>
    \/ part = "texts"   /\ SrcNext /\ UNCHANGED <<vars, modVars, webVars, gtpVars, libVars, part>>
    \/ part = "modules" /\ ModNext /\ UNCHANGED <<vars, srcVars, webVars, gtpVars, libVars, part>>
    \/ part = "web"     /\ WebNext /\ UNCHANGED <<vars, srcVars, modVars, gtpVars, libVars, part>>
    \/ part = "plugins" /\ PluginNext /\ UNCHANGED <<vars, srcVars, modVars, webVars, libVars, part>>
    \/ part = "sockets" /\ SocketNext /\ UNCHANGED <<vars, srcVars, modVars, webVars, libVars, part>>
    \/ part = "versions" /\ SemverNext /\ UNCHANGED <<vars, srcVars, modVars, webVars, gtpVars, emitterVars, dbVars, part>>
    \/ part = "emitter" /\ EmitterNext /\ UNCHANGED <<vars, srcVars, modVars, webVars, gtpVars, semverVars, dbVars, part>>
    \/ part = "database" /\ DbNext /\ UNCHANGED <<vars, srcVars, modVars, webVars, gtpVars, semverVars, emitterVars, part>>
    \* Scripts may stop waiting for anything; the machine itself may not.
    \/ part # "program" /\ UNCHANGED hostVars

HostSpec == HostInit /\ [][HostNext]_hostVars

\* The standard library keeps its word: versions are ordered and ranges are
\* intervals of the order (semver.rs), a once listener fires at most once in
\* whatever nest of emits (events.rs), and a transaction is stored as a whole
\* or not at all (db.rs).
StdlibKeepsWord == SemverOrder /\ OnceFiresOnce /\ TransactionsWhole
=============================================================================

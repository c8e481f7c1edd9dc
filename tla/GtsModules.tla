---------------------------- MODULE GtsModules -----------------------------
(***************************************************************************)
(* Modules of GTS scripts: how a specifier becomes a module                *)
(* (module/mod.rs, packagefile.rs), how a session evaluates and caches     *)
(* modules (runtime/mod.rs), and how the bundler orders them (bundler.rs). *)
(*                                                                         *)
(* A path is a sequence of names and a file [at, ext]; a place modules are *)
(* required from is [pkg, dir], pkg the .gspkg archive the requiring       *)
(* module lives in, or None.  A specifier is                                *)
(*   [kind |-> "native", name]        "@std/..."                           *)
(*   [kind |-> "path", up, to, ext]   "./x", "../x.json", "."              *)
(*   [kind |-> "archive", pkg, to]    "p.gspkg!x"                          *)
(*   [kind |-> "bare", name, export]  an import alias or a package         *)
(***************************************************************************)
EXTENDS Integers, Sequences, FiniteSets, SequencesExt

CONSTANTS Disk, Late,     \* files there from the start, and files that may appear
          Manifests,      \* project.toml, by directory: [main, exports, imports, dependencies]
          Archives,       \* entries, by .gspkg archive
          Specs,          \* specifiers a script requires
          Broken,         \* files that do not parse
          Natives, Sandbox,  \* native modules; the allowed ones, or None
          MaxRequires,    \* require calls of a session
          None

VARIABLES disk,
          resolutions,    \* Resolver.resolutions, by <<specifier, place>>
          modules,        \* the module cache: the exports object, by module id
          loading,         \* modules being evaluated, the innermost last
          objects,        \* exports objects created so far
          requires,       \* every require so far: [spec, file, from, id]
          finals,         \* module.exports of finished modules, by id
          failed,         \* ids whose evaluation ended in an error
          order           \* files in the order their evaluation finished

modVars == <<disk, resolutions, modules, loading, objects, requires, finals, failed, order>>

Unresolved == [id |-> None]
Current == Last(loading)
Entry == [at |-> <<"main">>, ext |-> "gs"]
Place(f) == [pkg |-> f.pkg, dir |-> Front(f.file.at)]

---------------------------------------------------------------------------
(* Resolver. *)
IsDir(p) == \E f \in disk : Len(f.at) > Len(p) /\ SubSeq(f.at, 1, Len(p)) = p
HasManifest(d) == d \in DOMAIN Manifests
FirstOf(files) == IF \E i \in DOMAIN files : files[i] \in disk
                  THEN files[CHOOSE i \in DOMAIN files : files[i] \in disk
                               /\ \A j \in 1 .. i - 1 : files[j] \notin disk]
                  ELSE None

\* resolve_source_path of a file that is there, or that lacks its extension.
PlainFile(p, ext) ==
    FirstOf(<<[at |-> p, ext |-> ext]>> \o
            IF ext = "" THEN <<[at |-> p, ext |-> "gs"], [at |-> p, ext |-> "json"]>> ELSE <<>>)

\* resolve_entry_in_dir: the manifest's main, index.gs, main.gs.
EntryInDir(d) ==
    LET main == IF HasManifest(d) /\ Manifests[d].main # None
                THEN PlainFile(d \o Manifests[d].main, "") ELSE None
    IN  IF main # None THEN main
        ELSE FirstOf(<<[at |-> Append(d, "index"), ext |-> "gs"],
                       [at |-> Append(d, "main"), ext |-> "gs"]>>)

ResolveSourcePath(p, ext) ==
    IF PlainFile(p, ext) # None THEN PlainFile(p, ext)
    ELSE IF ext = "" /\ IsDir(p) THEN EntryInDir(p) ELSE None

\* source_module: the path is the identity of the module, except for the
\* export of a package.
FileModule(f) == IF f = None THEN Unresolved
                 ELSE [id |-> <<"file", f.at, f.ext>>, file |-> f, pkg |-> None]

\* find_project_root: the nearest directory above that has a manifest.
ProjectRoot(dir) ==
    LET roots == {n \in 0 .. Len(dir) : HasManifest(SubSeq(dir, 1, n))}
    IN  IF roots = {} THEN None
        ELSE SubSeq(dir, 1, CHOOSE n \in roots : \A m \in roots : m <= n)

\* try_resolve_import_alias, then resolve_package.
ResolveBare(spec, dir) ==
    LET root == ProjectRoot(dir) IN
    IF root = None THEN Unresolved
    ELSE LET man == Manifests[root] IN
      IF spec.name \in DOMAIN man.imports
      THEN FileModule(ResolveSourcePath(root \o man.imports[spec.name], ""))
      ELSE IF spec.name \notin DOMAIN man.dependencies THEN Unresolved
      ELSE LET dep == man.dependencies[spec.name] IN
        IF ~HasManifest(dep) \/ spec.export \notin DOMAIN Manifests[dep].exports THEN Unresolved
        ELSE LET f == ResolveSourcePath(dep \o Manifests[dep].exports[spec.export], "")
             IN  IF f = None THEN Unresolved
                 ELSE [id |-> <<"pkg", spec.name, spec.export>>, file |-> f, pkg |-> None]

\* resolve_archive_relative: exact, .gs, .json, then main.gs of a directory.
ResolveArchive(pkg, to) ==
    LET forms == <<[at |-> to, ext |-> ""], [at |-> to, ext |-> "gs"],
                   [at |-> to, ext |-> "json"], [at |-> Append(to, "main"), ext |-> "gs"]>>
        hits  == {i \in DOMAIN forms : forms[i] \in Archives[pkg]}
    IN  IF hits = {} THEN Unresolved
        ELSE LET f == forms[CHOOSE i \in hits : \A j \in hits : i <= j]
             IN  [id |-> <<"archive", pkg, f.at, f.ext>>, file |-> f, pkg |-> pkg]

\* Resolver::resolve_uncached.  Inside an archive the place alone is looked
\* up, whatever the specifier says.
ResolveUncached(spec, from) ==
    IF spec.kind = "native" THEN [id |-> <<"native", spec.name>>]
    ELSE IF from.pkg # None THEN ResolveArchive(from.pkg, from.dir)
    ELSE CASE spec.kind = "archive" -> ResolveArchive(spec.pkg, spec.to)
           [] spec.kind = "path" ->
                FileModule(ResolveSourcePath(
                    SubSeq(from.dir, 1, Len(from.dir) - spec.up) \o spec.to, spec.ext))
           [] OTHER -> ResolveBare(spec, from.dir)

\* Resolver::resolve: answers, failures too, are kept for the whole session.
Resolve(spec, from) ==
    IF <<spec, from>> \in DOMAIN resolutions THEN resolutions[<<spec, from>>]
    ELSE ResolveUncached(spec, from)

---------------------------------------------------------------------------
(* The session. *)
ModuleFrame(id, f, pkg, obj) == [id |-> id, file |-> f, pkg |-> pkg, exports |-> obj]

ModInit ==
    /\ disk = Disk
    /\ resolutions = <<>> /\ modules = <<>> /\ objects = 1
    /\ loading = <<ModuleFrame(<<"entry">>, Entry, None, 1)>>
    /\ requires = <<>> /\ finals = <<>> /\ failed = {} /\ order = <<>>

Put(f, k, v) == [x \in DOMAIN f \cup {k} |-> IF x = k THEN v ELSE f[x]]
Get(f, k, default) == IF k \in DOMAIN f THEN f[k] ELSE default

\* Somebody writes a file while the script runs.
FileAppears(f) ==
    /\ f \notin disk /\ loading # <<>>
    /\ disk' = disk \cup {f}
    /\ UNCHANGED <<resolutions, modules, loading, objects, requires, finals, failed, order>>

Allowed(spec) == spec.name \in Natives /\ (Sandbox = None \/ spec.name \in Sandbox)

Recorded(spec, m) ==
    requires' = Append(requires, [spec |-> spec, file |-> Current.file, from |-> Place(Current), id |-> m.id])

\* An error ends the module that has it, and the modules that required it in
\* turn unless one catches it; depth is the frame whose try catches it.
Unwind(depth) ==
    /\ failed' = failed \cup {loading[i].id : i \in depth + 1 .. Len(loading)}
    /\ loading' = SubSeq(loading, 1, depth)

\* require(spec), in the module on top: natives are checked against the
\* sandbox, cached modules returned, JSON read, sources evaluated.  A source
\* is cached before it runs, but only once it has been parsed.
RequireModule(spec) ==
    /\ loading # <<>> /\ Len(requires) < MaxRequires
    /\ LET m      == Resolve(spec, Place(Current))
           native == spec.kind = "native"
           new    == ~native /\ m # Unresolved /\ m.id \notin DOMAIN modules
           error  == \/ m = Unresolved
                     \/ native /\ ~Allowed(spec)
                     \/ new /\ m.file \in Broken
       IN  /\ resolutions' = Put(resolutions, <<spec, Place(Current)>>, m)
           /\ Recorded(spec, m)
           /\ \/ /\ error
                 /\ \E depth \in 0 .. Len(loading) : Unwind(depth)
                 /\ UNCHANGED <<modules, objects>>
              \/ /\ ~error /\ ~new
                 /\ UNCHANGED <<modules, loading, objects, failed>>
              \/ /\ ~error /\ new
                 /\ objects' = objects + 1
                 /\ modules' = Put(modules, m.id, objects')
                 /\ loading' = IF m.file.ext = "json" THEN loading
                              ELSE Append(loading, ModuleFrame(m.id, m.file, m.pkg, objects'))
                 /\ UNCHANGED failed
    /\ UNCHANGED <<disk, finals, order>>

\* module.exports = {...}
Reassign ==
    /\ Len(loading) > 1 /\ Current.exports = Get(modules, Current.id, 0)
    /\ objects' = objects + 1
    /\ loading' = [loading EXCEPT ![Len(loading)].exports = objects']
    /\ UNCHANGED <<disk, resolutions, modules, requires, finals, failed, order>>

EndForgetsMutant ==
    /\ loading # <<>>
    /\ loading' = Front(loading)
    /\ order' = Append(order, Current.file)
    /\ finals' = Put(finals, Current.id, Current.exports)
    /\ UNCHANGED <<disk, resolutions, modules, objects, requires, failed>>

\* A module has run to its end; the final exports replace what was cached.
ModuleEnds ==
    /\ loading # <<>>
    /\ loading' = Front(loading)
    /\ order' = Append(order, Current.file)
    /\ finals' = Put(finals, Current.id, Current.exports)
    /\ modules' = IF Len(loading) > 1 THEN Put(modules, Current.id, Current.exports) ELSE modules
    /\ UNCHANGED <<disk, resolutions, objects, requires, failed>>

\* A module throws: its cache entry stays.
ModuleThrows ==
    /\ loading # <<>>
    /\ \E depth \in 0 .. Len(loading) - 1 : Unwind(depth)
    /\ UNCHANGED <<disk, resolutions, modules, objects, requires, finals, order>>

ModNext ==
    \/ Reassign \/ ModuleEnds \/ ModuleThrows
    \/ \E f \in Late : FileAppears(f)
    \/ \E s \in Specs : RequireModule(s)

---------------------------------------------------------------------------
(* The bundler. *)

\* resolve_module: relative specifiers only, as they are or with .gs; a
\* directory is taken for a file (and cannot be read).
BundleResolve(spec, f) ==
    IF spec.kind # "path" THEN None
    ELSE LET p == SubSeq(f.at, 1, Len(f.at) - 1 - spec.up) \o spec.to
         IN  IF spec.ext = "" /\ IsDir(p) THEN [at |-> p, ext |-> "dir"]
             ELSE FirstOf(<<[at |-> p, ext |-> spec.ext], [at |-> p, ext |-> "gs"]>>)

\* extract_dependencies, from the require lines of the file.
BundleDeps(f) ==
    LET lines == SelectSeq(requires, LAMBDA r : r.file = f)
    IN  SelectSeq([i \in DOMAIN lines |-> BundleResolve(lines[i].spec, f)],
                  LAMBDA d : d # None)

\* visit_node: depth first, a module after what it depends on, an error for a
\* module met again on the way down.  st is [visited, visiting, result, ok].
RECURSIVE VisitNode(_, _), VisitAll(_, _)
VisitPreMutant(f, st) ==
    IF ~st.ok \/ f \in st.visited THEN st
    ELSE IF f \in st.visiting \/ f.ext = "dir" THEN [st EXCEPT !.ok = FALSE]
    ELSE LET s == VisitAll(BundleDeps(f), [st EXCEPT !.visiting = @ \cup {f},
                                                     !.result = Append(@, f)])
         IN  [s EXCEPT !.visiting = @ \ {f}, !.visited = @ \cup {f}]

VisitNode(f, st) ==
    IF ~st.ok \/ f \in st.visited THEN st
    ELSE IF f \in st.visiting \/ f.ext = "dir" THEN [st EXCEPT !.ok = FALSE]
    ELSE LET s == VisitAll(BundleDeps(f), [st EXCEPT !.visiting = @ \cup {f}])
         IN  [s EXCEPT !.visiting = @ \ {f}, !.visited = @ \cup {f}, !.result = Append(@, f)]
VisitAll(fs, st) == IF fs = <<>> THEN st ELSE VisitAll(Tail(fs), VisitNode(Head(fs), st))

Bundle == VisitNode(Entry, [visited |-> {}, visiting |-> {}, result |-> <<>>, ok |-> TRUE])

---------------------------------------------------------------------------
\* One module, one object: a specifier means the same module from the same
\* place for the whole session even if files appear meanwhile, no module is
\* evaluated inside its own evaluation, and once a module has finished every
\* require of it returns the exports it finished with.  Only a require inside
\* a cycle, or of a module that failed, sees the object it started with.
OneModule ==
    /\ \A i, j \in DOMAIN requires :
         requires[i].spec = requires[j].spec /\ requires[i].from = requires[j].from =>
            requires[i].id = requires[j].id
    /\ \A id \in DOMAIN finals : id \in DOMAIN modules => modules[id] = finals[id]
    /\ \A i \in DOMAIN loading : \A j \in DOMAIN loading : loading[i].id = loading[j].id => i = j

\* A bundle runs modules in the order the session would finish them: if every
\* require is relative and none fails, the bundler either refuses the program
\* or emits its sources in that order.
BundleMatchesSession ==
    loading = <<>> /\ failed = {} /\ disk = Disk /\ Bundle.ok
      /\ (\A i \in DOMAIN requires : requires[i].spec.kind \in {"native", "path"}) =>
        SelectSeq(Bundle.result, LAMBDA f : f.ext = "gs") = order
=============================================================================

---------------------------- MODULE LinkServer ----------------------------
(***************************************************************************)
(* casual/middleware/make/api.py: LinkServer declares an XATMI server in  *)
(* the target registry of casual.make (spec 4.1), attaches the link_server *)
(* recipe, and hangs the build-server tool and the executable under the    *)
(* aggregate target "link-server"; the registry is then realized directly  *)
(* (spec 4.3): dependencies first, each target at most once, stale ones    *)
(* only, independent siblings concurrently on a bounded worker pool.       *)
(* The registry, realize and the front end's LinkLibrary are not under     *)
(* src/ and are modelled from the spec.  Directives, search paths and the  *)
(* command line are left out: they change no target, edge or file.         *)
(***************************************************************************)
EXTENDS Naturals, FiniteSets, Sequences

CONSTANTS
    Servers,    \* names LinkServer is called with
    Libraries,  \* libraries the descriptor links with the front end's LinkLibrary
    BuildsTool, \* TRUE in casual's own tree, which links casual-build-server
    Workers,    \* size of realize's worker pool
    MaxDecls,   \* bound on declarations
    MaxRuns,    \* bound on realizations
    MaxTouches  \* bound on source edits

VARIABLES
    registered, \* targets registered with a path or pre-registered; the rest are placeholders
    deps,       \* deps[t]: the names t depends on
    recipes,    \* recipes[t]: t's recipes in attachment order
    servers,    \* history: the LinkServer calls, for the properties
    decls,
    mtime, clock,
    rstate,     \* "idle", "running", "succeeded" or "failed"
    goal,       \* the target being realized
    needed,     \* the targets goal reaches, fixed when the run starts
    realized,   \* targets realized (or found current) in this run
    rebuilt,    \* targets whose recipes ran in this run
    running,    \* targets whose recipes are in flight
    err,        \* "none" or why the run failed
    runs, touches

registryVars == <<registered, deps, recipes, servers, decls>>
realizeVars == <<rstate, goal, needed, realized, rebuilt, running, err>>
vars == <<registryVars, mtime, clock, realizeVars, runs, touches>>

\* The meta targets of casual.make.api and the names of api.py.
LinkT == <<"meta", "link">>                  \* api.link_target
CleanT == <<"meta", "clean">>                \* api.clean_target
LinkServerT == <<"meta", "link-server">>     \* link_server_target
BuildServer == <<"tool", "casual-build-server">> \* BUILD_SERVER(): target and tool
Exe(s) == <<"exe", s>>                \* selector.expanded_executable_name
Lib(l) == <<"lib", l>>
Obj(x) == <<"obj", x>>

Files == {BuildServer, Obj(BuildServer)} \cup {Exe(s) : s \in Servers}
         \cup {Lib(l) : l \in Libraries} \cup {Obj(x) : x \in Servers \cup Libraries}
Targets == {LinkT, CleanT, LinkServerT} \cup Files

\* The recipes: link_server runs the build-server tool and writes the
\* destination; a front-end link writes its target; recipe.clean removes.
LinkServerRecipe == [op |-> "link_server", files |-> {}]
LinkRecipe == [op |-> "link", files |-> {}]
CleanRecipe(f) == [op |-> "clean", files |-> {f}]

----------------------------------------------------------------------------
(* Declaration                                                             *)

Declaring == rstate = "idle" /\ runs = 0 /\ decls < MaxDecls


\* executable_target.add_dependency(objects + normalize_library_target(libraries))
ExecutableDependencies(s, libs) == {Obj(s)} \cup {Lib(l) : l \in libs}

\* Mutant of Edges: line 88 with receiver and argument swapped
\* (executable_target.add_dependency(link_server_target)), closing a cycle.
EdgesSwapped(s, libs) ==
    {<<Exe(s), d>> : d \in ExecutableDependencies(s, libs)}
    \cup {<<Exe(s), LinkServerT>>, <<LinkServerT, Exe(s)>>}

\* Mutant of Edges: line 89 left out; the executable hangs under nothing.
EdgesNoExecutable(s, libs) ==
    {<<Exe(s), d>> : d \in ExecutableDependencies(s, libs)}
    \cup {<<LinkServerT, BuildServer>>}

\* The edges LinkServer adds: executable -> objects and libraries,
\* link-server -> model.get(BUILD_SERVER()), link-server -> executable.
Edges(s, libs) ==
    {<<Exe(s), d>> : d \in ExecutableDependencies(s, libs)}
    \cup {<<LinkServerT, BuildServer>>, <<LinkServerT, Exe(s)>>}

\* Mutant of ServerClean: no clean recipe registered for the server.
ServerCleanNone(s) == <<>>

\* api.clean_target.add_recipe(Recipe(recipe.clean, {'filename': [executable_target]}))
ServerClean(s) == <<CleanRecipe(Exe(s))>>

AddEdges(E) == [t \in Targets |-> deps[t] \cup {e[2] : e \in {x \in E : x[1] = t}}]

\* LinkServer(name, objects, libraries, serverdefinition, ...): the object
\* list is the server's own object.
LinkServer(s, libs) ==
    /\ Declaring
    /\ registered' = registered \cup {Exe(s)}
    /\ recipes' = [recipes EXCEPT ![Exe(s)] = Append(@, LinkServerRecipe),
                                  ![CleanT] = @ \o ServerClean(s)]
    /\ deps' = AddEdges(Edges(s, libs))
    /\ servers' = servers \cup {[name |-> s, libs |-> libs]}
    /\ decls' = decls + 1
    /\ UNCHANGED <<mtime, clock, realizeVars, runs, touches>>

\* The front end's LinkLibrary (casual.make.api): a library from its own
\* object, under the meta target link.
LinkLibrary(l) ==
    /\ Declaring
    /\ Lib(l) \notin registered
    /\ registered' = registered \cup {Lib(l)}
    /\ recipes' = [recipes EXCEPT ![Lib(l)] = <<LinkRecipe>>]
    /\ deps' = AddEdges({<<Lib(l), Obj(l)>>, <<LinkT, Lib(l)>>})
    /\ decls' = decls + 1
    /\ UNCHANGED <<servers, mtime, clock, realizeVars, runs, touches>>

Init ==
    \* import of api.py: link-server registered and put under link; in
    \* casual's own tree the front end has linked casual-build-server
    /\ registered = {LinkT, CleanT, LinkServerT} \cup (IF BuildsTool THEN {BuildServer} ELSE {})
    /\ deps = [t \in Targets |->
                 CASE t = LinkT                     -> {LinkServerT} \cup (IF BuildsTool THEN {BuildServer} ELSE {})
                   [] t = BuildServer /\ BuildsTool -> {Obj(BuildServer)}
                   [] OTHER                         -> {}]
    /\ recipes = [t \in Targets |-> IF t = BuildServer /\ BuildsTool THEN <<LinkRecipe>> ELSE <<>>]
    /\ servers = {} /\ decls = 0
    \* objects compiled; the tool installed unless this tree builds it
    /\ mtime = [f \in Files |-> IF f \in {Obj(x) : x \in Servers \cup Libraries \cup {BuildServer}}
                                   \/ (f = BuildServer /\ ~BuildsTool)
                                THEN 1 ELSE 0]
    /\ clock = 2
    /\ rstate = "idle" /\ goal = LinkT /\ needed = {}
    /\ realized = {} /\ rebuilt = {} /\ running = {} /\ err = "none"
    /\ runs = 0 /\ touches = 0

----------------------------------------------------------------------------
(* Realization (spec 4.3)                                                  *)

RECURSIVE Reach(_)
Reach(S) ==
    LET N == S \cup UNION {deps[t] : t \in S}
    IN  IF N = S THEN S ELSE Reach(N)

Exists(f) == f \in Files /\ mtime[f] > 0

\* A file target is skipped when its artifact is newer than every input
\* and no dependency was rebuilt; a registered target without a file
\* always runs its recipes; a placeholder is already satisfied.
Stale(t) ==
    \/ t \notin Files
    \/ ~Exists(t)
    \/ \E d \in deps[t] : d \in rebuilt \/ (Exists(d) /\ mtime[d] > mtime[t])
MustRun(t) == t \in registered /\ recipes[t] # <<>> /\ Stale(t)

Ready(t) ==
    /\ rstate = "running"
    /\ t \in needed \ (realized \cup running)
    /\ deps[t] \subseteq realized

StartRun ==
    /\ rstate # "running"
    /\ runs < MaxRuns
    /\ \E g \in {LinkT, CleanT} : goal' = g /\ needed' = Reach({g})
    /\ rstate' = "running"
    /\ realized' = {} /\ rebuilt' = {} /\ running' = {} /\ err' = "none"
    /\ runs' = runs + 1
    /\ UNCHANGED <<registryVars, mtime, clock, touches>>

\* A target with nothing to run is realized at once.  Such a decision
\* reads only finished dependencies, which no recipe in flight writes, so
\* it is taken first and in a fixed order.
QuietSet == {t \in Targets : Ready(t) /\ ~MustRun(t)}
Settle ==
    /\ QuietSet # {}
    /\ realized' = realized \cup {CHOOSE t \in QuietSet : TRUE}
    /\ UNCHANGED <<registryVars, mtime, clock, rstate, goal, needed, rebuilt, running, err, runs, touches>>

ReadsMissingTool(t) ==
    \E i \in DOMAIN recipes[t] : recipes[t][i].op = "link_server" /\ ~Exists(BuildServer)

\* A worker takes a stale target; link_server executes casual-build-server,
\* which fails (BuildActionError) when the tool is not there.
Start(t) ==
    /\ QuietSet = {}
    /\ Ready(t) /\ MustRun(t)
    /\ Cardinality(running) < Workers
    /\ IF ReadsMissingTool(t)
       THEN /\ rstate' = "failed" /\ err' = "notool" /\ running' = {}
            /\ UNCHANGED <<realized, rebuilt>>
       ELSE /\ running' = running \cup {t}
            /\ UNCHANGED <<rstate, realized, rebuilt, err>>
    /\ UNCHANGED <<registryVars, mtime, clock, goal, needed, runs, touches>>

\* t's recipes finish in attachment order: links write t, clean removes.
Complete(t) ==
    /\ rstate = "running"
    /\ t \in running
    /\ LET removed == UNION {recipes[t][i].files : i \in DOMAIN recipes[t]}
       IN  mtime' = [f \in Files |-> CASE f \in removed -> 0
                                        [] f = t        -> clock
                                        [] OTHER        -> mtime[f]]
    /\ clock' = clock + 1
    /\ running' = running \ {t}
    /\ realized' = realized \cup {t}
    /\ rebuilt' = rebuilt \cup {t}
    /\ UNCHANGED <<registryVars, rstate, goal, needed, err, runs, touches>>

FinishRun ==
    /\ rstate = "running"
    /\ goal \in realized
    /\ rstate' = "succeeded"
    /\ UNCHANGED <<registryVars, mtime, clock, goal, needed, realized, rebuilt, running, err, runs, touches>>

\* The user edits and recompiles an object while nothing is realized.
Touch ==
    /\ rstate # "running"
    /\ touches < MaxTouches
    /\ \E x \in Servers \cup Libraries : mtime' = [mtime EXCEPT ![Obj(x)] = clock]
    /\ clock' = clock + 1
    /\ touches' = touches + 1
    /\ rstate' = "idle"
    /\ UNCHANGED <<registryVars, goal, needed, realized, rebuilt, running, err, runs>>

Executor == Settle \/ FinishRun \/ \E t \in Targets : Start(t)

Next ==
    \/ \E s \in Servers, libs \in SUBSET Libraries : LinkServer(s, libs)
    \/ \E l \in Libraries : LinkLibrary(l)
    \/ StartRun \/ Executor \/ Touch
    \/ \E t \in Targets : Complete(t)

\* The executor keeps going while it can, and every toolchain command it
\* starts eventually exits (spec 5: no timeout guards a hung tool).
Fairness ==
    /\ WF_vars(Executor)
    /\ \A t \in Targets : WF_vars(Complete(t))

Spec == Init /\ [][Next]_vars /\ Fairness

----------------------------------------------------------------------------
(* Properties *)

\* The refinement mapping onto BuildSpec.  The graph is what was declared:
\* a server is made from its object and the libraries named in the
\* LinkServer call, a library and the tool from their objects; the edges
\* the code adds play no part in it.  An artifact is current when it exists,
\* is newer than its inputs and is made from current ones; a clean run is
\* no build.
DeclaredInputs(a) ==
    CASE a = BuildServer -> {Obj(BuildServer)}
      [] a \in {Lib(l) : l \in Libraries} -> {Obj(a[2])}
      [] OTHER -> UNION {{Obj(sv.name)} \cup {Lib(l) : l \in sv.libs} :
                            sv \in {x \in servers : Exe(x.name) = a}}
Graph == [a \in registered \cap Files |-> DeclaredInputs(a)]

RECURSIVE MadeFromAny(_)
MadeFromAny(S) ==
    LET N == S \cup {a \in DOMAIN Graph : Graph[a] \cap S # {}}
    IN  IF N = S THEN S ELSE MadeFromAny(N)
OutOfDate ==
    MadeFromAny({a \in DOMAIN Graph : ~Exists(a) \/ \E i \in Graph[a] : mtime[i] >= mtime[a]})

Result == CASE goal = CleanT       -> "idle"
            [] rstate = "running" -> "building"
            [] OTHER              -> rstate

Abstract == INSTANCE BuildSpec
              WITH graph <- Graph,
                   current <- DOMAIN Graph \ OutOfDate,
                   result <- Result

\* Direct realization implements BuildSpec (spec 4.3): with the edges
\* LinkServer adds, every recipe a worker runs makes an out-of-date artifact
\* from up-to-date ones, none remakes a current one, and realizing link
\* succeeds only when every declared artifact is current.
RealizeRefinement == Abstract!Spec


\* Clean (the recipe.clean LinkServer attaches to api.clean_target):
\* realizing clean leaves no declared server executable behind.
CleanRemovesServers ==
    rstate = "succeeded" /\ goal = CleanT => \A sv \in servers : ~Exists(Exe(sv.name))

\* The build-server tool (line 88, link-server -> casual-build-server): no
\* server is linked while casual-build-server does not exist yet.
NoLinkBeforeBuildServer == err # "notool"

\* Realization terminates (spec 4.3): with the graph LinkServer builds, a
\* started realization always ends in success or failure, whatever order
\* the workers take.
RealizeTerminates == rstate = "running" ~> rstate \in {"succeeded", "failed"}

=============================================================================

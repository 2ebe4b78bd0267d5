-------------------------- MODULE CasualMakeBuild --------------------------
(***************************************************************************)
(* One descriptor end to end: the front end declares artifacts through     *)
(* internal.py (CasualMakeEmit), internal_post_make_rules closes the       *)
(* makefile, then GNU make runs the goal "all" or "clean" over it,         *)
(* repeatedly, while the user edits sources between runs.  This is where  *)
(* the emitted rules are judged: by what make does with them.             *)
(***************************************************************************)
EXTENDS CasualMakeEmit

CONSTANTS
    Kinds,       \* artifact kinds declared: "library", "executable", "server"
    MaxRuns,     \* bound on make invocations
    MaxTouches,  \* bound on source edits between invocations
    ParallelValues, \* values the front end passes to setParallelMake
    Goals,       \* goals make is run with: "all", "clean"
    StrayFiles,  \* global targets a file of the same name exists for
    Destinations, \* install destinations the front end names
    MaxInstalls, \* bound on install declarations
    RecipesMayFail \* TRUE: a link may fail after writing part of its output

VARIABLES
    mtime, clock, mstate, done, remade, ran, err,  \* GnuMake
    goal,        \* the goal of the current (or last) make run
    runs,        \* make invocations so far
    touches,     \* source edits so far
    builtClean,  \* history: a run succeeded and no source changed since
    cleanStart,  \* history: the current run started with builtClean
    partial      \* history: files last written by a command that failed

makeVars == <<mtime, clock, mstate, done, remade, ran, err, goal>>
vars == <<emitVars, makeVars, runs, touches, builtClean, cleanStart, partial>>

Make == INSTANCE GnuMake

Sources == ObjectFiles(Objects) \cup {ServiceFile}
Artifacts == {ArtifactPath(k, n) : k \in {"library", "executable"}, n \in Names}
Stray == {Global(g) : g \in StrayFiles}
Installed == {InstallPath(x) : x \in Destinations}
Files == Sources \cup Artifacts \cup {BinDir} \cup Stray \cup Installed

\* The link declarations the front end may make for name n: one object
\* and any libraries; a server's definition is a file or a list of
\* services.  Runs narrow these with definitions of the MC module.
ObjectChoices(n) == {{o} : o \in Objects}
LibChoices(n) == SUBSET Names

Init ==
    /\ EmitInit
    \* sources compiled; no artifact yet; bin/ may be left from a clean;
    \* the stray files lie in the descriptor's directory
    /\ \E binTime \in {0, 1} :
          mtime = [f \in Files |-> CASE f \in Sources \cup Stray -> 1
                                     [] f = BinDir   -> binTime
                                     [] OTHER        -> 0]
    /\ clock = 2
    /\ mstate = "idle"
    /\ done = {} /\ remade = {} /\ ran = {}
    /\ err = "none"
    /\ goal = Global("all")
    /\ runs = 0 /\ touches = 0
    /\ builtClean = FALSE /\ cleanStart = FALSE
    /\ partial = {}

Front ==
    /\ \/ \E k \in Kinds \ {"server"}, n \in Names :
            \E objs \in ObjectChoices(n), libs \in LibChoices(n) : BaseLink(k, n, objs, libs)
       \/ \E n \in Names, svc \in BOOLEAN :
            \E objs \in ObjectChoices(n), libs \in LibChoices(n) :
                "server" \in Kinds /\ LinkATMI(n, svc, objs, libs)
       \/ \E d \in declared, x \in Destinations :
            targetSequence <= MaxInstalls /\ Install(d.out, x)
       \/ ValidateListFails
       \/ \E m \in Messages : RegisterMessage(m)
       \/ \E v \in ParallelValues : SetParallelMake(v)
       \/ PostMakeRules
    /\ UNCHANGED <<makeVars, runs, touches, builtClean, cleanStart, partial>>

\* make <g> over the emitted makefile.
StartMake ==
    /\ phase = "emitted"
    /\ runs < MaxRuns
    /\ Make!Start
    /\ \E g \in Goals :
          /\ goal' = Global(g)
          /\ cleanStart' = (builtClean /\ g = "all")
          /\ builtClean' = (builtClean /\ g = "all")
    /\ runs' = runs + 1
    /\ UNCHANGED <<emitVars, touches, partial>>

\* A file a command writes or removes in full is no longer partial.
Rewritten == {f \in DOMAIN mtime : mtime'[f] # mtime[f]}

MakeStep ==
    /\ Make!Step(Make!NeededFor(goal))
    /\ partial' = partial \ Rewritten
    /\ UNCHANGED <<emitVars, goal, runs, touches, builtClean, cleanStart>>

\* The recipe (internal_base_link's link or archive command) fails after
\* writing its target; the makefile has no .DELETE_ON_ERROR.
MakeStepFails ==
    /\ RecipesMayFail
    /\ Make!StepFails(Make!NeededFor(goal))
    /\ partial' = (partial \ Rewritten) \cup {f \in Rewritten : mtime'[f] > 0}
    /\ UNCHANGED <<emitVars, goal, runs, touches, builtClean, cleanStart>>

FinishMake ==
    /\ Make!Finish(Make!NeededFor(goal))
    /\ builtClean' = (goal = Global("all"))
    /\ UNCHANGED <<emitVars, goal, runs, touches, cleanStart, partial>>

\* The user edits (and recompiles) a source while no make runs.
Touch ==
    /\ phase = "emitted"
    /\ mstate # "running"
    /\ touches < MaxTouches
    /\ \E f \in Sources :
          /\ mtime' = [mtime EXCEPT ![f] = clock]
    /\ clock' = clock + 1
    /\ touches' = touches + 1
    /\ builtClean' = FALSE
    /\ mstate' = "idle"
    /\ UNCHANGED <<emitVars, done, remade, ran, err, goal, runs, cleanStart, partial>>

Next == Front \/ StartMake \/ MakeStep \/ MakeStepFails \/ FinishMake \/ Touch

Spec == Init /\ [][Next]_vars

----------------------------------------------------------------------------
(* Properties *)

TypeOK ==
    /\ mtime \in [Files -> Nat]
    /\ mstate \in {"idle", "running", "succeeded", "failed"}
    /\ err \in {"none", "nodir", "noinput", "norule", "recipe"}
    /\ filesToRemove \subseteq Artifacts
    /\ pathsToCreate \subseteq {BinDir}
    /\ phase \in {"declaring", "emitted", "crashed"}
    /\ goal \in {Global(g) : g \in Goals}
    /\ done \subseteq Make!NeededFor(goal)
    /\ ran \subseteq remade
    /\ targetMapping \in [Names -> {NoTarget} \cup {TargetName(n) : n \in Names}
                                  \cup {AtmiTargetName(n) : n \in Names}]

\* The libraries a declaration links that this descriptor itself builds.
LocalLibraries == {d.name : d \in {e \in declared : e.kind = "library"}}
DeclaredInputs(d) ==
    ObjectFiles(d.objs)
    \cup (IF d.svcfile THEN {ServiceFile} ELSE {})
    \cup {ArtifactPath("library", l) : l \in d.libs \cap LocalLibraries}

\* The refinement mapping onto BuildSpec: the graph is what the front end
\* declared (two declarations of one artifact merge their inputs, as make
\* merges their prerequisites), an artifact is up to date when timestamps
\* say so and it is no half-written output of a failed command (nor made
\* from one), and make's state is the build's result; a clean run is no build:
\* to BuildSpec it is idle while it removes artifacts.
Graph ==
    [a \in {d.out : d \in declared} |->
        UNION {DeclaredInputs(d) : d \in {e \in declared : e.out = a}}]
Result == CASE goal # Global("all") -> "idle"
            [] mstate = "running"   -> "building"
            [] OTHER                -> mstate
Abstract == INSTANCE BuildSpec
              WITH graph <- Graph,
                   current <- DOMAIN Graph \ Make!StaleClosure(Graph,
                                Make!StaleArtifacts(Graph) \cup (partial \cap DOMAIN Graph)),
                   result <- Result

\* One descriptor built by make -j implements BuildSpec: every recipe make
\* runs makes an out-of-date artifact from up-to-date inputs (the
\* prerequisites internal_base_link and internal_BASE_LinkATMI print order
\* them), none remakes an up-to-date one (the .INTERMEDIATE dummies of
\* internal_library_targets, the order-only bin/), and make succeeds only
\* when every declared artifact is up to date.
BuildRefinement == Abstract!Spec

\* No spurious relink (the .INTERMEDIATE dummies of internal_library_targets
\* and the order-only directory prerequisite): a make run that starts after
\* a successful run with no source edited since runs no recipe at all.
NoSpuriousRebuild ==
    cleanStart /\ mstate \in {"running", "succeeded"} => ran = {}

\* A failed link is never taken for a built one (internal_base_link's rule,
\* internal_post_make_rules, which emits no .DELETE_ON_ERROR; spec 7: a
\* BuildActionError is never swallowed, and spec 5: never stale-skipped):
\* after a successful make all, no declared artifact is the half-written
\* output of a command that failed.
NoPartialArtifactAfterSuccess ==
    mstate = "succeeded" /\ goal = Global("all") =>
        \A d \in declared : d.out \notin partial

\* Clean (internal_register_file_for_clean, the clean_files rule of
\* internal_post_make_rules, and ".PHONY clean_files:" whose comment says it
\* runs even if a file of that name exists): a successful make clean
\* leaves no declared artifact behind.
CleanRemovesArtifacts ==
    mstate = "succeeded" /\ goal = Global("clean") =>
        \A d \in declared : mtime[d.out] = 0

\* Install (internal_install, internal_unique_target_name): a successful
\* make install leaves at every destination a copy of the artifact as it
\* is up to date, i.e. newer than the artifact and with the artifact
\* current, even when one artifact is installed twice.
InstalledUpToDate ==
    mstate = "succeeded" /\ goal = Global("install") =>
        \A i \in installs :
            /\ mtime[i.dest] > mtime[i.src]
            /\ i.src \notin Make!StaleArtifacts(Graph)

\* Output directories (internal_register_path_for_create and the order-only
\* "| dir" prerequisite): no link recipe ever runs while the directory it
\* writes into is missing.
NoWriteIntoMissingDir == err # "nodir"

\* A link of name n depends on target_l for each library l; target_l leads
\* to whatever base_link declared under l.  The descriptor is acyclic when
\* no name reaches itself that way (servers have their own target names).
RECURSIVE LinkedFrom(_)
LinkedFrom(S) ==
    LET N == S \cup UNION {d.libs : d \in {e \in declared : e.kind # "server" /\ e.name \in S}}
    IN  IF N = S THEN S ELSE LinkedFrom(N)
AcyclicDeclarations ==
    \A d \in declared : d.kind # "server" => d.name \notin LinkedFrom(d.libs)

=============================================================================

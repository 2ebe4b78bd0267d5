--------------------------- MODULE CasualMakeEmit ---------------------------
(***************************************************************************)
(* casual/make/internal.py: the generator that turns one descriptor's      *)
(* declarations into makefile rules.  The module-level globals of          *)
(* internal.py are the VARIABLES; each internal_* function the front end   *)
(* calls is one atomic action (the generator is single-threaded).  The     *)
(* printed text is kept as the set of rules it denotes (see GnuMake):      *)
(* strings are abstracted to ids built from the names, comments, echo      *)
(* lines and variable plumbing are left out.                               *)
(***************************************************************************)
EXTENDS Naturals, FiniteSets

CONSTANTS
    Names,       \* logical artifact names the front end declares
    Objects,     \* object files
    Messages,    \* warning texts the front end registers
    MaxDecls     \* bound on the number of link declarations

VARIABLES
    rules,           \* the rules printed so far
    filesToRemove,   \* internal.filesToRemove
    pathsToCreate,   \* internal.pathsToCreate
    messages,        \* internal.messages
    targetMapping,   \* internal.targetMapping: user name -> target name
    defParallelMake, \* internal.def_PARALLEL_MAKE
    notParallel,     \* the ".NOTPARALLEL" block was printed
    phase,           \* "declaring", "emitted" or "crashed"
    declared,        \* history: the link declarations made, for properties
    requestedParallel, \* history: the last value given to setParallelMake
    targetSequence,  \* internal.targetSequence
    installs         \* history: the installs declared, for properties

emitVars == <<rules, filesToRemove, pathsToCreate, messages, targetMapping,
              defParallelMake, notParallel, phase, declared, requestedParallel,
              targetSequence, installs>>

NoRecipe == [op |-> "none", dir |-> "none", files |-> {}, reads |-> {}, writes |-> {}, id |-> 0]
NoDir == "none"
NoTarget == <<"none">>
Global(x) == <<"global", x>>

\* global_targets and global_build_targets (lines 62-76)
GlobalBuildTargets == {"all", "cross", "clean_files", "clean_objectfiles",
                       "clean_dependencyfiles", "compile", "deploy", "install",
                       "print_include_paths"}
GlobalTargets == {"make", "clean"} \cup GlobalBuildTargets

----------------------------------------------------------------------------
(* Names and paths.  A path is an id: every artifact lies in bin/ of the   *)
(* descriptor's directory.                                                 *)

TargetName(n) == <<"target", n>>                 \* internal_target_name
ArchiveTargetName(n) == <<"target_archive", n>>  \* internal_archive_target_name
AtmiTargetName(n) == <<"target_xatmi", n>>       \* internal_target_name(name + "_xatmi")
DeployName(n) == <<"target_deploy", n>>          \* internal_target_deploy_name
ArtifactPath(kind, n) == <<"bin", kind, n>>      \* internal_*_name_path
ObjectFile(o) == <<"obj", o>>
CrossObject(o) == <<"crossobj", o>>              \* internal_cross_dependecies
ServiceFile == <<"servicedefinition">>
\* internal_unique_target_name: the path's target name and the sequence
\* number of the call.
UniqueTargetName(path, seq) == <<"target_unique", path, seq>>
InstallPath(dest) == <<"installed", dest>>
BinDir == <<"dir", "bin">>
\* Mutant of DestinationPath: os.path.dirname left out.
DestinationPathNoDirname(path) == path

\* internal_clean_directory_name(os.path.dirname(path))
DestinationPath(path) == BinDir

Rule(t, pre, oo, rcp) == [t |-> t, pre |-> pre, oo |-> oo, rcp |-> rcp]
\* A link command: writes into dir, reads the libraries given with -l.
Link(dir, id, reads) == [op |-> "link", dir |-> dir, files |-> {}, reads |-> reads, writes |-> {}, id |-> id]

ObjectFiles(objs) == {ObjectFile(o) : o \in objs}
\* libs_<name> = $(addprefix -l, libs): the library files the linker reads
LibraryFiles(libs) == {ArtifactPath("library", l) : l \in libs}

\* Mutant of LibraryTargets: the dummies without their ".INTERMEDIATE"
\* declarations.
LibraryTargetsNotIntermediate(libs) ==
    {Rule(TargetName(l), {}, {}, NoRecipe) : l \in libs}
    \cup {Rule(ArchiveTargetName(l), {}, {}, NoRecipe) : l \in libs}

\* internal_library_targets: ".INTERMEDIATE" declarations and empty dummy
\* rules for target_<lib> and target_archive_<lib>.
LibraryTargets(libs) ==
    {Rule(Global(".INTERMEDIATE"), {TargetName(l), ArchiveTargetName(l)}, {}, NoRecipe) : l \in libs}
    \cup {Rule(TargetName(l), {}, {}, NoRecipe) : l \in libs}
    \cup {Rule(ArchiveTargetName(l), {}, {}, NoRecipe) : l \in libs}

\* internal_library_dependencies
LibraryDependencies(libs) ==
    {TargetName(l) : l \in libs} \cup {ArchiveTargetName(l) : l \in libs}

\* Mutant of BaseLinkRules: the order-only directory prerequisite on the
\* aggregate target instead of on the file, as internal_BASE_LinkATMI has.
BaseLinkRulesDirOnTarget(name, filename, objs, libs, id) ==
    LibraryTargets(libs) \cup
    { Rule(Global("all"), {TargetName(name)}, {}, NoRecipe),
      Rule(TargetName(name), {filename}, {DestinationPath(filename)}, NoRecipe),
      Rule(filename, ObjectFiles(objs) \cup LibraryDependencies(libs), {},
           Link(DestinationPath(filename), id, LibraryFiles(libs))) }

\* The rules internal_base_link prints for target name, output filename.
\* $(USER_CASUAL_MAKE_FILE) is never defined in the makefile and expands
\* to nothing.
BaseLinkRules(name, filename, objs, libs, id) ==
    LibraryTargets(libs) \cup
    { Rule(Global("all"), {TargetName(name)}, {}, NoRecipe),
      Rule(Global("cross"), {CrossObject(o) : o \in objs}, {}, NoRecipe),
      Rule(Global("deploy"), {DeployName(name)}, {}, NoRecipe),
      Rule(TargetName(name), {filename}, {}, NoRecipe),
      Rule(Global("compile"), ObjectFiles(objs), {}, NoRecipe),
      Rule(filename, ObjectFiles(objs) \cup LibraryDependencies(libs),
           {DestinationPath(filename)}, Link(DestinationPath(filename), id, LibraryFiles(libs))) }

\* internal_print_services_file_dependency: "exe: service_file".
ServicesFileRule(name) == Rule(ArtifactPath("executable", name), {ServiceFile}, {}, NoRecipe)

\* Mutant of AtmiRules: internal_print_services_file_dependency not called.
AtmiRulesNoServiceFile(name, svcfile, objs, libs, id) ==
    LET exe == ArtifactPath("executable", name) IN
    LibraryTargets(libs) \cup
    { Rule(Global("all"), {AtmiTargetName(name)}, {}, NoRecipe),
      Rule(Global("cross"), {CrossObject(o) : o \in objs}, {}, NoRecipe),
      Rule(Global("deploy"), {}, {}, NoRecipe),
      Rule(AtmiTargetName(name), {exe}, {DestinationPath(exe)}, NoRecipe),
      Rule(Global("compile"), ObjectFiles(objs), {}, NoRecipe),
      Rule(exe, ObjectFiles(objs) \cup LibraryDependencies(libs), {},
           Link(DestinationPath(exe), id, LibraryFiles(libs))) }

\* The rules internal_BASE_LinkATMI prints.  The deploy prerequisite
\* "$(internal_target_deploy_name $atmi_target_name)" is a make reference
\* to an undefined variable and expands to nothing, as does the target of
\* the deploy rule after it, which is left out.
AtmiRules(name, svcfile, objs, libs, id) ==
    LET exe == ArtifactPath("executable", name) IN
    LibraryTargets(libs) \cup
    (IF svcfile THEN {ServicesFileRule(name)} ELSE {}) \cup
    { Rule(Global("all"), {AtmiTargetName(name)}, {}, NoRecipe),
      Rule(Global("cross"), {CrossObject(o) : o \in objs}, {}, NoRecipe),
      Rule(Global("deploy"), {}, {}, NoRecipe),
      Rule(AtmiTargetName(name), {exe}, {DestinationPath(exe)}, NoRecipe),
      Rule(Global("compile"), ObjectFiles(objs), {}, NoRecipe),
      Rule(exe, ObjectFiles(objs) \cup LibraryDependencies(libs), {},
           Link(DestinationPath(exe), id, LibraryFiles(libs))) }

\* The rules internal_post_make_rules prints.  ".PHONY all:" is a rule for
\* the two targets ".PHONY" and "all" with no prerequisites: it declares
\* nothing phony.
PostRules ==
    {Rule(Global(".PHONY"), {}, {}, NoRecipe)}
    \cup {Rule(Global(g), {}, {}, NoRecipe) : g \in GlobalTargets \cup {"all", "make"}}
    \cup {Rule(Global("link"), {Global("all")}, {}, NoRecipe)}
    \cup {Rule(p, {}, {}, [op |-> "mkdir", dir |-> NoDir, files |-> {}, reads |-> {}, writes |-> {}, id |-> 0])
            : p \in pathsToCreate}
    \cup {Rule(Global("clean"), {Global("clean_objectfiles"), Global("clean_dependencyfiles"),
                                 Global("clean_files")}, {}, NoRecipe),
          Rule(Global("clean_objectfiles"), {}, {}, NoRecipe),
          Rule(Global("clean_dependencyfiles"), {}, {}, NoRecipe),
          Rule(Global("clean_files"), {}, {},
               [op |-> "rm", dir |-> NoDir, files |-> filesToRemove, reads |-> {}, writes |-> {}, id |-> 0])}

\* Mutant of InstallRules: "target:" printed without the source.
InstallRulesNoSource(target, source, destination) ==
    { Rule(Global("install"), {target}, {}, NoRecipe),
      Rule(target, {}, {},
           [op |-> "install", dir |-> NoDir, files |-> {}, reads |-> {source},
            writes |-> {destination}, id |-> 0]) }

\* internal_install(target, source, destination): "install: target" and
\* "target: source", whose recipe makes the destination's directory and
\* rsyncs the source there (rsync --checksum without -t: a copy gets the
\* current time, an unchanged file is skipped and is already newer).
InstallRules(target, source, destination) ==
    { Rule(Global("install"), {target}, {}, NoRecipe),
      Rule(target, {source}, {},
           [op |-> "install", dir |-> NoDir, files |-> {}, reads |-> {source},
            writes |-> {destination}, id |-> 0]) }

----------------------------------------------------------------------------

EmitInit ==
    /\ rules = {}
    /\ filesToRemove = {}
    /\ pathsToCreate = {}
    /\ messages = {}
    /\ targetMapping = [n \in Names |-> NoTarget]
    /\ defParallelMake = 0
    /\ notParallel = FALSE
    /\ phase = "declaring"
    /\ declared = {}
    /\ requestedParallel = 0
    /\ targetSequence = 1
    /\ installs = {}

Declaring ==
    /\ phase = "declaring"
    /\ Cardinality(declared) < MaxDecls

\* The bookkeeping calls of a link declaration.
MapTarget(user, target) == targetMapping' = [targetMapping EXCEPT ![user] = target]
RegisterFileForClean(f) == filesToRemove' = filesToRemove \cup {f}
RegisterPathForCreate(p) == pathsToCreate' = pathsToCreate \cup {p}

\* Mutant of BaseLink: the artifact is not registered for clean
\* (internal_register_file_for_clean left out).
BaseLinkNoCleanRegistration(kind, name, objs, libs) ==
    LET filename == ArtifactPath(kind, name)
        id == Cardinality(declared) + 1
    IN
    /\ Declaring
    /\ rules' = rules \cup BaseLinkRules(name, filename, objs, libs, id)
    /\ MapTarget(name, TargetName(name))
    /\ RegisterPathForCreate(DestinationPath(filename))
    /\ declared' = declared \cup {[id |-> id, kind |-> kind, name |-> name, out |-> filename,
                                   objs |-> objs, libs |-> libs, svcfile |-> FALSE]}
    /\ UNCHANGED <<filesToRemove, messages, defParallelMake, notParallel, phase,
                   requestedParallel, targetSequence, installs>>

\* internal_base_link(linker, name, filename, objectfiles, libs, ...): the
\* front end's LinkLibrary / LinkExecutable, filename the artifact's path.
BaseLink(kind, name, objs, libs) ==
    LET filename == ArtifactPath(kind, name)
        id == Cardinality(declared) + 1
    IN
    /\ Declaring
    /\ rules' = rules \cup BaseLinkRules(name, filename, objs, libs, id)
    /\ MapTarget(name, TargetName(name))
    /\ RegisterFileForClean(filename)
    /\ RegisterPathForCreate(DestinationPath(filename))
    /\ declared' = declared \cup {[id |-> id, kind |-> kind, name |-> name, out |-> filename,
                                   objs |-> objs, libs |-> libs, svcfile |-> FALSE]}
    /\ UNCHANGED <<messages, defParallelMake, notParallel, phase, requestedParallel,
                   targetSequence, installs>>

\* internal_BASE_LinkATMI(atmibuild, name, serverdefintion, ...): svcfile
\* is TRUE when serverdefintion is a path (a string), FALSE for a list of
\* service names.
LinkATMI(name, svcfile, objs, libs) ==
    LET exe == ArtifactPath("executable", name)
        id == Cardinality(declared) + 1
    IN
    /\ Declaring
    /\ rules' = rules \cup AtmiRules(name, svcfile, objs, libs, id)
    /\ MapTarget(name, AtmiTargetName(name))
    /\ RegisterFileForClean(exe)
    /\ RegisterPathForCreate(DestinationPath(exe))
    /\ declared' = declared \cup {[id |-> id, kind |-> "server", name |-> name, out |-> exe,
                                   objs |-> objs, libs |-> libs, svcfile |-> svcfile]}
    /\ UNCHANGED <<messages, defParallelMake, notParallel, phase, requestedParallel,
                   targetSequence, installs>>

\* internal_validate_list, the first call of internal_base_link and of
\* internal_BASE_LinkATMI: objects or libraries given as one string raise
\* SyntaxError before anything is printed or registered.
ValidateListFails ==
    /\ Declaring
    /\ phase' = "crashed"
    /\ UNCHANGED <<rules, filesToRemove, pathsToCreate, messages, targetMapping,
                   defParallelMake, notParallel, declared, requestedParallel,
                   targetSequence, installs>>

\* The front end's install of file source to dest: internal_install with a
\* target from internal_unique_target_name(source), which advances
\* targetSequence.
Install(source, dest) ==
    LET target == UniqueTargetName(source, targetSequence)
    IN
    /\ phase = "declaring"
    /\ rules' = rules \cup InstallRules(target, source, InstallPath(dest))
    /\ targetSequence' = targetSequence + 1
    /\ installs' = installs \cup {[src |-> source, dest |-> InstallPath(dest)]}
    /\ UNCHANGED <<filesToRemove, pathsToCreate, messages, targetMapping,
                   defParallelMake, notParallel, phase, declared, requestedParallel>>

\* internal_register_message
RegisterMessage(m) ==
    /\ phase = "declaring"
    /\ messages' = messages \cup {m}
    /\ UNCHANGED <<rules, filesToRemove, pathsToCreate, targetMapping,
                   defParallelMake, notParallel, phase, declared, requestedParallel,
                   targetSequence, installs>>

\* setParallelMake(value) assigns a local variable: def_PARALLEL_MAKE is
\* left as it is.
SetParallelMake(v) ==
    /\ phase = "declaring"
    /\ requestedParallel' = v
    /\ UNCHANGED <<rules, filesToRemove, pathsToCreate, messages, targetMapping,
                   defParallelMake, notParallel, phase, declared, targetSequence, installs>>

\* internal_post_make_rules: prints the default, directory and clean rules;
\* then "messages + '\n'" adds a str to a set and raises TypeError when a
\* message was registered.
PostMakeRules ==
    /\ phase = "declaring"
    /\ rules' = rules \cup PostRules
    /\ notParallel' = (defParallelMake < 2)
    /\ phase' = IF messages = {} THEN "emitted" ELSE "crashed"
    /\ UNCHANGED <<filesToRemove, pathsToCreate, messages, targetMapping,
                   defParallelMake, declared, requestedParallel, targetSequence, installs>>

=============================================================================

# TLA+ models of casual make (pycasual)

The repository's build layer turns declarations in `casual_make` descriptor files
into makefile text, which GNU make then executes. Two files are under `src/`:

- `src/casual_make/casual/make/internal.py` is the makefile generator. Its
  module-level globals are the state, and its `internal_*` functions print
  rules.
- `src/middleware/make/casual/middleware/make/api.py` holds `LinkServer`. It is
  the newer front end for XATMI servers and sits on a target registry, recipes
  and an executor that are not under `src/`.

## 1. Inventory

### Components and their state

| Component | Source | State | Operations |
|---|---|---|---|
| Generator (emission backend) | internal.py | `filesToRemove`, `pathsToCreate`, `objectPathsForClean`, `messages`, `targetMapping`, `targetSequence`, `def_PARALLEL_MAKE`, the text printed so far | `internal_base_link` (library/executable/archive), `internal_BASE_LinkATMI` (server), `internal_library_targets`, `internal_library_dependencies`, `internal_install`, `internal_register_*`, `internal_register_message`, `internal_unique_target_name`, `internal_validate_list`, `internal_post_make_rules`, `setParallelMake` |
| Naming and path utilities | internal.py 87-348 | none (pure) | `internal_*_name`, `internal_*_name_path`, `internal_normalize_path`, `internal_clean_directory_name`, `internal_convert_path_to_target_name` |
| Recursive top level | internal.py 384-442, 616-632 | the printed text | `internal_Build`: regenerates `X.mk` from `X.casual_make` and forwards each global target to a sub-make |
| Executor of the text (GNU make, external) | none | file timestamps; targets done or remade in this run | updates a goal; can run recipes in parallel (`-j`) |
| Server front end | api.py | the registry's targets, dependencies and recipes (outside `src/`) | `LinkServer` registers a target with a recipe and dependencies; `link_server` runs `casual-build-server` |
| Platform selector, shell executor | outside `src/` | none | naming and command construction |

### How they interact

The front end (outside `src/`) calls the generator once per declaration. Each
call prints rules and adds to the global registries. `internal_post_make_rules`
runs once at the end and prints the `.PHONY` lines, one directory-creation rule
per entry of `pathsToCreate`, and the clean rules. GNU make later reads the
text. Its result depends on:

- how the rules merge (several rules for one target);
- `.INTERMEDIATE` dummy targets for libraries that are not built here;
- order-only prerequisites (`| dir`);
- timestamps;
- the order in which `-j` runs recipes.

A top-level makefile from `internal_Build` starts one sub-make per descriptor.

### What is hard

Nothing in the generator runs concurrently. The hard behaviour all lives in what
the text makes make do:

- recipe order under `make -j`, for example mkdir racing a link;
- incremental rebuilds across source edits;
- intermediate dummies that must neither force a relink nor hide one;
- sibling descriptors built in parallel;
- a failed generator or link whose output make keeps for the next run;
- two descriptor paths that map to one target name.

The generator also has Python-level traps. It uses globals without `global`, and
it adds a `str` to a `set`. These show up only on paths a unit test rarely takes.

### What makes each component correct

- **Generator:** every artifact has exactly one recipe, and the dependency graph
  has no cycle. Every output directory gets a create rule that its writers
  depend on as order-only. Warnings are not fatal. Settings such as parallel
  make take effect.
- **Rules under make:**
  - After a successful run, every artifact is newer than its inputs, including
    the libraries of this descriptor that it links.
  - A run after a successful run, with nothing edited in between, runs no
    recipe.
  - No recipe writes into a missing directory, in any `-j` order.
  - `clean` removes every artifact. Global targets run even if a file of the
    same name exists.
- **Recursive top level:** a descriptor newer than its `.mk` gets regenerated
  before its sub-make runs. A dependency on another descriptor's library is
  honoured when the sub-makes run in parallel. Every descriptor has its own
  target names. A generator error fails every later make until it is fixed.
- **Server front end:** the build-server tool is built before any server is
  linked. Each server's recipe runs once, after its dependencies.

## 2. Plan

1. **Done.** There are three modules:
   - `CasualMakeEmit` is the generator: one action per `internal_*` call.
   - `GnuMake` gives the rules their meaning.
   - `CasualMakeBuild` composes the two with repeated make runs and source
     edits.

   `MCCasualMakeBuild` instantiates the composition for TLC.
2. **Done.** `CasualMakeRecursive` is the top-level makefile from
   `internal_Build` over two descriptors, each generated by the emitter. It
   covers the two-tier staleness (regenerate `.mk`, then run the sub-make),
   sibling sub-makes under `-j`, and cross-descriptor libraries. `BuildSpec`
   is the abstract specification, "one global DAG built by one make". Both
   `CasualMakeBuild` and `CasualMakeRecursive` are checked against it by
   refinement. One descriptor refines it. The tree of descriptors does not,
   and that is a finding.
3. **Done.** The goals `clean` and `install` are executed by `GnuMake`.
   `internal_install` and `internal_unique_target_name` are an action of
   `CasualMakeEmit`. A stray file named like a global target shows that
   `.PHONY X:` declares nothing phony.
4. **Done.** `LinkServer` (api.py) over the registry (`model.register`,
   `add_dependency`, `add_recipe`) and direct-execution `realize`. The registry
   and `realize` are modelled from spec 4.1 and 4.3 because their code is not
   under `src/`. Checked: servers up to date after `link`, servers removed by
   `clean`, termination under fairness, and the build-server ordering (a
   finding).
5. **Done.** Fault model and refinement:
   - a recipe may fail after writing its target (`GnuMake!FailAfterWrite`).
     casual_make emits no `.DELETE_ON_ERROR`, and a finding shows the
     consequence;
   - `internal_validate_list`'s SyntaxError is an error path of the front end;
   - direct realization in `LinkServer` is shown to implement `BuildSpec`.
6. **Done.** Generator failures and target names at the top level:
   - the regeneration recipe may fail, and `X.mk` is written either in place
     or not (`RegenerateFails`, `MakeGoal`);
   - target names come from `internal_convert_path_to_target_name` over
     character paths.

   Each gives a finding. `cyclic_libraries` and `name_collision` were retired
   to make room within the run budget. A unit test of the emitted text
   reaches both.

## 3. Modules

### CasualMakeEmit (internal.py)

Variables:

| Variable | Models |
|---|---|
| `rules` | the text printed so far, as the set of rules it denotes |
| `filesToRemove`, `pathsToCreate`, `messages`, `targetMapping` | the globals of the same names |
| `defParallelMake` | `def_PARALLEL_MAKE` |
| `notParallel` | whether the `.NOTPARALLEL` block was printed |
| `phase` | `declaring`, then `emitted`, or `crashed` if `internal_post_make_rules` raised |
| `declared` | history of the link declarations, for the properties |
| `requestedParallel` | history: the value last passed to `setParallelMake`, which the code drops (line 635) |

A rule is a record `[t, pre, oo, rcp]`: target, prerequisites, order-only
prerequisites and recipe. Special targets are rules too: `.INTERMEDIATE: x` is
the rule for `Global(".INTERMEDIATE")` with prerequisite `x`. The
`.PHONY all:` lines are modelled as what make reads from them: rules for `.PHONY`
and `all` with no prerequisites. In other words, they declare nothing phony.

Names and paths are ids built from the logical name: `TargetName(n)`,
`AtmiTargetName(n)`, `ArtifactPath(kind, n)`, and `BinDir` for the `bin/` of the
descriptor. Comments, echo lines and make-variable plumbing are left out. So is
the recipe's command text. `$(USER_CASUAL_MAKE_FILE)` is never defined in the
emitted makefile, so it expands to nothing and appears in no rule.

Actions:

- `BaseLink(kind, n, objs, libs)` is `internal_base_link`. The front end's
  filename is `ArtifactPath(kind, n)`.
- `LinkATMI(n, svcfile, objs, libs)` is `internal_BASE_LinkATMI`. The server
  definition is either a path or a list.
- `Install(source, dest)` is the front end's install: `internal_install`
  with a target from `internal_unique_target_name`, which advances
  `targetSequence`. The recipe (`mkdir -p` and `rsync --checksum`) writes the
  destination. Without `-t`, a copy gets the current time. The model lets every
  run of the recipe refresh that time, including an `rsync --checksum` that
  finds the content equal and writes nothing.
- `RegisterMessage(m)` is `internal_register_message`.
- `SetParallelMake(v)` is `setParallelMake`. It changes nothing but the history
  variable, as the code does.
- `PostMakeRules` is `internal_post_make_rules`, including its `TypeError`.
- `ValidateListFails` is `internal_validate_list` raising SyntaxError. It is the
  first call of both link functions, so nothing is printed or registered.
- `MapTarget`, `RegisterFileForClean`, `RegisterPathForCreate` and
  `ServicesFileRule` are the bookkeeping calls the two link functions make.

### GnuMake (external)

GNU make is the executor of the text. It is not code of this repository, so its
definitions are not in the map. Its variables:

| Variable | Meaning |
|---|---|
| `mtime` | modification time per file; 0 means absent |
| `clock` | the time the next write gets |
| `mstate` | `idle`, `running`, `succeeded` or `failed` |
| `done` | targets make has finished considering in this run |
| `remade` | targets make considered changed in this run |
| `ran` | targets whose recipe ran in this run |
| `err` | why the last run failed |

`Forces` follows `check_dep` in GNU make's `remake.c`. A missing intermediate is
looked through, and its prerequisites are compared with the parent instead.
`MustMake` decides whether a target is rebuilt. Targets whose prerequisites are
all done may be considered in any order, which is the freedom `-j` has.

One reduction keeps runs small. Decisions that run no recipe (`Quiet`) only read
times of finished prerequisites. Later recipes never change those times for the
rules casual_make emits: a recipe writes its own target and, on creation, its
directory, and no emitted rule has a directory as a normal prerequisite. Such
decisions are therefore taken first, in a fixed order. Only the order of recipes
stays open.

A recipe that writes into a missing directory fails (`nodir`). A needed target
with no rule and no file fails (`norule`). `FailAfterWrite(t)` is the fault
model. A recipe whose command can start exits non-zero after writing `t`, for
example a link that is killed or runs out of space. Make deletes `t` only if
the rules contain `.DELETE_ON_ERROR` (`DeleteOnError`). Otherwise it leaves
the half-written `t`, newer than its prerequisites.

### CasualMakeBuild (composition)

`Front` makes the front end's calls. `StartMake`, `MakeStep` and `FinishMake`
run make on a goal from `Goals` (`all`, `clean`, `install`). When
`RecipesMayFail` is set, `MakeStepFails` is a step in which a link recipe fails
after writing its target. The history variable `partial` records the files
such a failure left, until a later command rewrites or removes them. The
refinement mapping counts neither a partial artifact nor anything made from one
as current. `Touch` edits a
source while no make runs. `StrayFiles` names global targets for which a file
of the same name lies in the directory. Bounds:

- `MaxDecls` link declarations;
- `MaxRuns` make runs;
- `MaxTouches` edits;
- `MaxInstalls` install declarations.

The initial state has compiled sources and no artifacts. `bin/` may exist (left
by an earlier `clean`) or not.

### CasualMakeRecursive (internal.py 384-442, 616-632)

It uses two kinds of GnuMake instance over one shared `mtime`:
- `Top` is the top-level make over `TopRules`, the union of what
  `internal_Build` prints per descriptor. Its state is `topState`, `topDone`
  and the other `top*` variables.
- `Sub(d)` is the sub-make over `d.mk`. Its rules `SubRules(d)` are what the
  generator prints for the declaration `d.mk` was generated from. The
  generator is `CasualMakeEmit`'s `BaseLinkRules` plus `PostRules`.

`Path(d)` is the path of `d.casual_make`, given as characters. `TargetName`
is `internal_convert_path_to_target_name` (lines 100-101): every `/` becomes
`_`. `SubTarget` and `MakeTarget` are built from it, so two descriptors can
share a top-level target. Of two recipes for one target, make keeps the last
printed (`RecipeOwner`). Without `-j`, make takes the targets of `all` in
printed order (`InTurn`).

`version[d]` is the content of `d.casual_make`. `mkVersion[d]` is the
content `d.mk` was generated from, 0 if `d.mk` does not exist or holds no
rule.

The constant `Raises(d, v)` says what the generator raises on descriptor `d`
at content `v`:
- `"none"`;
- `"syntax"`: `internal_validate_list` raises before anything of the
  declaration is printed;
- `"warning"`: a registered warning makes `internal_post_make_rules` raise
  `TypeError` after every rule is printed.

After a `"syntax"` run written in place, `X.mk` holds only what was printed
before the raise, which is no rule (`Truncates(d)`). The variable `truncated`
is the set of such files, and `SubRules` reads no rule from them. The driver
`casual_make.py`, which writes `X.mk`, is not under `src/`. The variable
`inPlace`, chosen once in `Init`, says how it writes. `TRUE` means in place,
as it prints. `FALSE` means into a file renamed on success.

| Action | Code |
|---|---|
| `Regenerate(d)` | the recipe of `X.mk: X.casual_make` (lines 399-401) |
| `RegenerateFails(d)` | the same recipe exiting non-zero. Make keeps what was written (no `.DELETE_ON_ERROR` at the top level) |
| `StartSubMake(d)`, `SubStep`, `EndSubMake`, `SubFails` | the recipe `$(MAKE) -f X.mk all` of `local_unique_target` (line 632), a run of the sub-make, and its exit status |
| `MakeGoal` | `make make`: every `X.mk` is regenerated unconditionally (lines 436-441). Under `-j`, any set of these recipes may have run when the first one fails (`Written`). The outcome of `make make` is not recorded in `topState` |
| `TopStart`, `TopQuiet`, `TopFinish` | the top-level make itself |
| `EditSource`, `EditDescriptor` | the user, between runs |

Sub-makes run one at a time but start in any order, which is what `-j`
allows. This loses no outcome. Sibling sub-makes write disjoint files. The
only file one reads that another writes is a library, and its order against
the link that reads it stays open through the order of the sub-makes.
`Serial` (no `-j`) makes them start in the order `internal_Build` was
called. GnuMake's `noinput` failure models the linker given `-l` of a library
that does not exist.

### BuildSpec (abstract)

The variables are `graph` (artifact to inputs), `current` (the up-to-date
artifacts) and `result`. The actions are:
- `Make(a)` makes an out-of-date artifact whose artifact inputs are up to
  date;
- `Succeed` is allowed only when every artifact is up to date;
- `Edit` makes what is built from a source out of date;
- `Declare`, `Start` and `Fail`.

Both detailed modules map onto it in the same way. `graph` is the declared
inputs. `current` is the artifacts that are not in `GnuMake!StaleArtifacts`:
an artifact is stale if it is missing, older than an input, or made from a
stale one. `result` is the make state, with `running` read as `building`.
In `CasualMakeBuild`, a partial artifact left by `MakeStepFails`, and anything
made from one, is also not current.

`LinkServer` refines it as well. `graph` is the inputs the `LinkServer` calls
declared (from the `servers` history), not the edges the code adds. `current`
is the declared artifacts not out of date by that graph. So the refinement
would fail if the registry's edges stopped covering what was declared.

### LinkServer (api.py, with the registry and realize from spec 4.1 and 4.3)

casual's `api.py` declares XATMI servers in the target registry of
`casual.make` and realizes the registry directly. Targets are tuples:
the meta targets `link`, `clean` and `link-server`, the tool
`casual-build-server`, executables, libraries and objects. A name that
nobody registered is a placeholder and counts as already satisfied.

| Variable | Models |
|---|---|
| `registered`, `deps`, `recipes` | the registry: registered targets, dependency edges, recipes in attachment order |
| `servers`, `decls` | history of `LinkServer` calls; the declaration bound |
| `mtime`, `clock` | file timestamps (0 = absent) |
| `rstate`, `goal`, `needed` | the realization: its state, its goal and what the goal reaches |
| `realized`, `rebuilt`, `running`, `err` | memo of realized targets, targets whose recipes ran, the jobs on the worker pool, the failure |

| Action | Code |
|---|---|
| `Init` | module import: `link-server` registered and put under `link` (lines 20-22); in casual's own tree the tool is declared too |
| `LinkServer(s, libs)` | `LinkServer` (lines 32-93): register the executable, attach `link_server`, the edges of lines 86-89 (`Edges`), the clean recipe of line 91 |
| `LinkLibrary(l)` | the front end's `LinkLibrary` (spec-modelled) |
| `StartRun` | `realize(goal)` for `link` or `clean` |
| `Settle` | a target with nothing to run (placeholder, meta target, current file) is realized; taken first and in a fixed order |
| `Start(t)` | a worker takes a stale target whose dependencies are realized; `link_server` runs `casual-build-server` (line 108), and fails when it is not there |
| `Complete(t)` | the target's recipes end: links write the target, `clean` removes files |
| `FinishRun`, `Touch` | the goal is realized; the user edits an object between runs |

## 4. Runs

| Run | cfg | Expect | What it shows |
|---|---|---|---|
| incremental | Incremental.cfg | pass | Over 2 declarations (library/executable/server), 3 make runs and 1 edit: a run after a success with no edit runs no recipe (`NoSpuriousRebuild`). One descriptor built by make implements `BuildSpec` (`BuildRefinement`). |
| server_directory | ServerDirectory.cfg | violation | A server's link runs before `bin/` exists. Its order-only prerequisite is on `target_<n>_xatmi` (line 488), not on the executable (line 496). |
| goals | Goals.cfg | pass | Libraries and executables, `bin/` possibly absent: `make clean` removes every declared artifact (`CleanRemovesArtifacts`). `make install` leaves at the destination a copy of the up-to-date artifact (`InstalledUpToDate`), before and after an edit, and with one artifact installed twice. No link writes into a missing `bin/` in any `-j` order (`NoWriteIntoMissingDir`). Links may fail after writing their target. A registered warning or a front-end SyntaxError ends the generator before any make runs, so it adds no make behaviour; `setParallelMake` changes no emitted rule. |
| stray_clean | StrayClean.cfg | violation | A file named `clean_files` lies in the directory. `make clean` then succeeds and leaves the library in place. `.PHONY clean_files:` (line 131) declares nothing phony, although the comment at line 127 says these targets run even if such a file exists. |
| regeneration | Regeneration.cfg | pass | With two descriptors, one descriptor edit, one source edit, `make make` and failing runs, every sub-make reads an `X.mk` generated from the present `X.casual_make` (`SubMakeReadsCurrentDescriptor`). At version 2, A's content makes the front end raise a SyntaxError and B's registers a warning, so generation may fail, with `X.mk` written in place or not. A SyntaxError written in place leaves an `X.mk` with no rule, which the property allows: the sub-make then builds nothing, and `generation_failure` is about whether the error reaches the top level. |
| generation_failure | GenerationFailure.cfg | violation | `casual_make` writes `X.mk` in place, and B's content registers a warning. `make make` (or `make all`) fails, but `B.mk` is left complete and newer than `B.casual_make`. The next `make all` skips the regeneration, runs the sub-make and succeeds. The error is swallowed (`GenerationErrorNotSwallowed`, spec 7). Nothing in `internal_Build` guards against this: it emits no `.DELETE_ON_ERROR` and no temporary file. |
| path_collision | PathCollision.cfg | violation | The descriptors are at `a/b.casual_make` and `a_b.casual_make`, and `internal_convert_path_to_target_name` (line 101) gives both the name `target_a_b`. `internal_Build` prints two recipes for `target_a_b.casual_make_all`, and make keeps the last. A serial `make all` over a fresh tree then runs only B's sub-make and reports success. A's library is never built (`BuildRefinement`). The spec says separators are escaped and a clash is a `NameCollisionError`. |
| cross_descriptor_order | CrossOrder.cfg | violation | Under top-level `-j`, the executable's sub-make links before the sibling has built the library it links (`NoLinkAgainstMissingLibrary`). `internal_make_target_component` puts no edge between descriptors (line 628). |
| cross_descriptor_stale | CrossStale.cfg | violation | Serially and library first: a source edit relinks the library, the other descriptor's executable is not relinked, and the top level reports success. This violates `BuildRefinement`. The cause is the prerequisite-free dummy of line 539. |
| realize | Realize.cfg | pass | Two servers and one library in casual's own tree, realized on two workers, with three runs and one object edit. After `clean`, no server is left (`CleanRemovesServers`). Every realization ends (`RealizeTerminates`). Direct realization implements `BuildSpec` over the graph the `LinkServer` calls declared (`RealizeRefinement`). |
| build_server_order | BuildServerOrder.cfg | violation | A server's `link_server` runs before `casual-build-server` is linked. Line 88 makes the tool a dependency of `link-server`, not of the executable that runs it. |
| partial_output | PartialOutput.cfg | violation | A library's link is killed after writing part of its output (GNU `ld` unlinks its output on an ordinary error and `ar` writes a temporary file, so a killed linker is the realistic case). With no `.DELETE_ON_ERROR` emitted, make keeps the file. The next `make all` finds it newer than its objects, skips it, and reports success (`NoPartialArtifactAfterSuccess`). The same run with `DeleteOnError` forced true passes. |

Each property of a passing run has a mutant in PROJECT.json. Each mutant is a
plausible slip in the code:

- the `.INTERMEDIATE` lines dropped;
- the order-only directory put on the aggregate target, as the server code does;
- `os.path.dirname` forgotten;
- a server without its service-definition prerequisite;
- `internal_register_file_for_clean` left out;
- the install rule printed without its source;
- `X.mk` regenerated without `X.casual_make` as its prerequisite;
- `LinkServer` without the clean recipe;
- line 88 with receiver and argument swapped, so the executable depends on
  `link-server`, which closes a cycle;
- line 89 left out, so no server hangs under `link`.

### Bounds and why they are enough

- **Two names.** One library and one executable or server, with or without a
  link between them, in either declaration order. That covers local versus
  external libraries: `libs` may name something that is never declared, which
  makes an intermediate dummy. Such a library never exists in the model, so a
  link against it always fails; only local libraries are linked successfully.
- **One object per artifact, at most one library.** Shared objects and longer
  lists add no new rule shapes.
- **Three make runs and one edit.** These reach:
  - build, then edit, then rebuild;
  - build, then a clean rebuild;
  - a failure, then a retry.
- **Symmetry over the names** is sound because names are model values used only
  for equality.
- **Two descriptors** for the recursive top level: a library, and an
  executable that links it at version 1 and not at version 2. Two top-level
  runs, one source edit and one descriptor edit are enough to reach:
  - a stale `.mk`;
  - a sub-make before or after its sibling's;
  - a relinked library under an up-to-date executable.
- **Goals run:** a library and an executable, two make runs, one edit, and
  two installs to one destination. That reaches install after an edit and one
  artifact installed twice (two unique target names). Two destinations, or
  `setParallelMake(2)` as well, took over three minutes. They add no new rule
  shape. Recipes may fail after writing (`RecipesMayFail`), and the run takes
  about 2.5 minutes. Failures are off in the incremental run: a half-written
  artifact would break `BuildRefinement`'s equality between make's view and
  the declared graph, which `partial_output` checks on its own.
- **Partial output run:** one library and two make runs: a failure after the
  write, then a rerun.
- **Realize run:** two servers, one library, two workers, three runs and one
  edit. That reaches:
  - two links in flight;
  - a server linked before or after the tool;
  - `link` then `clean` then `link`;
  - a relink after an edit.
- **Acyclic descriptors only.** The passing runs restrict the front end to them
  with the constraint `AcyclicDeclarations`. A library that lists itself is
  emitted as a cycle that make drops with a warning (line 547). One
  declaration shows it, so no run checks it.
### Fairness

Only `LinkServer` states a liveness property (`RealizeTerminates`). Its
`Spec` assumes:
- weak fairness of `Executor` (settle, start a job, finish the run): the
  executor keeps going while it can;
- weak fairness of each `Complete(t)`: every tool it starts exits.

Spec 5 says subprocesses carry no timeout, so a hung tool blocks its target
forever. The second assumption is therefore an assumption about the
toolchain, not something the code enforces. Under it, the edges `LinkServer`
adds leave `realize` nothing it can wait on forever.

Both the generator and make terminate. That is why the cfgs say
`CHECK_DEADLOCK FALSE`: a finished build is a state with no successor.

## 5. Not modelled (yet)

The following are left for later sittings; see the plan:

- the deploy, cross and compile goals;
- a second declaration of the same artifact within one descriptor. It prints
  a second recipe for the same file, where the spec wants `NameCollisionError`
  (internal.py 594). Two calls show it in a unit test of the emitted text. Its
  run gave way to `path_collision`, the same missing check between
  descriptors.

Observed but not checked by a run:
- `setParallelMake` assigns a local (internal.py 635), so `def_PARALLEL_MAKE`
  stays 0. `SetParallelMake` keeps that behaviour and records the value in
  `requestedParallel`.
- Any registered warning makes `internal_post_make_rules` raise `TypeError`
  (line 200), after all rules are printed. `PostMakeRules` keeps this as the
  `crashed` phase. Any unit test that registers a warning shows it, so it has
  no run of its own.
- `internal_set_LD_LIBRARY_PATH` has no caller under `src/`. Its "only once"
  flag is commented out (line 365), but a second call prints the same
  definitions again (`space :=` resets the variable), which changes nothing.

- How `casual_make.py` writes `X.mk` is outside `src/`, so both ways are left
  open (`inPlace`). The `generation_failure` finding holds only if it writes
  in place.

`model.get(BUILD_SERVER())` is taken to return the registered tool or a
placeholder. Spec 4.1 would raise `NotFoundError` when neither exists.

Left out for good:

- the platform selector and shell execution, which are pure I/O;
- `print_include_paths` and the echo and comment text;
- `.NOTPARALLEL`'s effect, which applies only under `FORCE_NOTPARALLEL`.

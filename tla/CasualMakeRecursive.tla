------------------------ MODULE CasualMakeRecursive ------------------------
(***************************************************************************)
(* The top-level makefile internal_Build prints for a tree of descriptors, *)
(* and a top-level make -j "all" over it.  For each descriptor X the top   *)
(* level regenerates X.mk from X.casual_make when the descriptor is newer  *)
(* (the generator of CasualMakeEmit runs inside that recipe), and forwards *)
(* "all" to a sub-make over X.mk (internal_make_target_component).  Each   *)
(* descriptor sees only its own declarations: a library another            *)
(* descriptor builds is an .INTERMEDIATE dummy in its makefile.            *)
(*                                                                         *)
(* Sub-makes run one at a time, in any order (any order of their starts is *)
(* what -j allows).  This loses no outcome: sibling sub-makes write        *)
(* disjoint files, and the only file one reads that another writes is a   *)
(* library, read by a link; its order against the write of that library   *)
(* is kept open by the order of the sub-makes.  bin/ exists: directory     *)
(* creation is the subject of CasualMakeBuild.                             *)
(***************************************************************************)
EXTENDS Naturals, Sequences, FiniteSets

CONSTANTS
    Names,      \* logical artifact names
    Objects,    \* object files
    Order,      \* the descriptors, in the order internal_Build was called
    Path(_),    \* Path(d): the absolute path of d.casual_make, as characters
    Versions,   \* the contents a descriptor file may have
    Decl(_, _), \* Decl(d, v): the link declaration of descriptor d at version v
    Raises(_, _), \* Raises(d, v): what the generator raises on d at version v:
                 \* "none", "syntax" (internal_validate_list, before the
                 \* declaration is printed) or "warning" (the TypeError of
                 \* internal_post_make_rules, after every rule is printed)
    Serial,     \* TRUE: top-level make without -j
    MaxRuns,    \* bound on top-level make invocations
    MaxTouches, \* bound on source edits
    MaxEdits    \* bound on descriptor edits

VARIABLES
    mtime, clock,                   \* the file system, shared by all makes
    mstate, done, remade, ran, err, \* the running sub-make
    topState, topDone, topRemade, topRan, topErr, \* the top-level make
    sub,        \* the descriptor whose sub-make runs, or None
    version,    \* version[d]: the content of d.casual_make
    mkVersion,  \* mkVersion[d]: the content the generator that wrote d.mk ran
                \* on, 0 if there is no d.mk
    truncated,  \* the X.mk that hold only what a raising generator printed
    runs, touches, edits,
    inPlace     \* how casual_make writes X.mk: TRUE in place as it prints,
                \* FALSE into a file renamed on success (outside src/)

subVars == <<mstate, done, remade, ran, err>>
topVars == <<topState, topDone, topRemade, topRan, topErr>>
vars == <<inPlace, truncated, mtime, clock, subVars, topVars, sub, version, mkVersion, runs, touches, edits>>

Descriptors == {Order[i] : i \in 1..Len(Order)}
None == "none"

\* The generator with the bookkeeping sets of one descriptor.
Em(paths, files) == INSTANCE CasualMakeEmit
    WITH Messages <- {}, MaxDecls <- 0, rules <- {}, filesToRemove <- files,
         pathsToCreate <- paths, messages <- {}, targetMapping <- <<>>,
         defParallelMake <- 0, notParallel <- FALSE, phase <- "emitted",
         declared <- {}, requestedParallel <- 0, targetSequence <- 1,
         installs <- {}
\* The generator's names, paths and rule shapes.
E == INSTANCE CasualMakeEmit
    WITH Messages <- {}, MaxDecls <- 0, rules <- {}, filesToRemove <- {},
         pathsToCreate <- {}, messages <- {}, targetMapping <- <<>>,
         defParallelMake <- 0, notParallel <- FALSE, phase <- "emitted",
         declared <- {}, requestedParallel <- 0, targetSequence <- 1,
         installs <- {}

----------------------------------------------------------------------------
(* Names of the top level (internal_Build).  Paths are ids.                *)

Desc(d) == <<"casual_make", d>>               \* casualMakefile
Mk(d) == <<"mk", d>>                          \* USER_MAKE_FILE
\* internal_convert_path_to_target_name: "target_" and the path with every
\* "/" replaced by "_".  The common prefix, and the suffix "_" + target of
\* local_unique_target (every path ends in ".casual_make"), are tuple
\* components.
TargetName(p) == [i \in DOMAIN p |-> IF p[i] = "/" THEN "_" ELSE p[i]]
SubTarget(d, g) == <<"component", TargetName(Path(d)), g>> \* local_unique_target
MakeTarget(d) == <<"component", TargetName(Path(d))>>      \* local_make_target
Out(x) == E!ArtifactPath(x.kind, x.name)

Recipe(op) == [op |-> op, dir |-> E!NoDir, files |-> {}, reads |-> {}, writes |-> {}, id |-> 0]

\* casual_make X.casual_make: the descriptor's declaration through
\* internal_base_link, then internal_post_make_rules with the bookkeeping
\* that declaration registered.
Generate(d, v) ==
    LET x == Decl(d, v)
    IN  E!BaseLinkRules(x.name, Out(x), x.objs, x.libs, 1)
        \cup Em({E!DestinationPath(Out(x))}, {Out(x)})!PostRules

SubRules(d) == IF mkVersion[d] = 0 \/ d \in truncated THEN {} ELSE Generate(d, mkVersion[d])

\* Mutant of RegenerationRule: X.mk made without X.casual_make as its
\* prerequisite.
RegenerationRuleNoSource(d) == E!Rule(Mk(d), {}, {}, Recipe("generate"))

\* "X.mk: X.casual_make" with the generator as its recipe.
RegenerationRule(d) == E!Rule(Mk(d), {Desc(d)}, {}, Recipe("generate"))

\* internal_make_target_component(target, X): "target: local_unique_target"
\* and "local_unique_target: X.mk" whose recipe is $(MAKE) -f X.mk target.
ComponentRules(d, g) ==
    { E!Rule(E!Global(g), {SubTarget(d, g)}, {}, E!NoRecipe),
      E!Rule(SubTarget(d, g), {Mk(d)}, {}, Recipe("submake")) }

\* The text internal_Build prints for descriptor d.
BuildRules(d) ==
    {RegenerationRule(d)}
    \cup UNION {ComponentRules(d, g) : g \in E!GlobalBuildTargets}
    \cup { E!Rule(E!Global("make"), {MakeTarget(d)}, {}, E!NoRecipe),
           E!Rule(MakeTarget(d), {}, {}, Recipe("generate")) }

TopRules == UNION {BuildRules(d) : d \in Descriptors}

Top == INSTANCE GnuMake
    WITH rules <- TopRules, mstate <- topState, done <- topDone,
         remade <- topRemade, ran <- topRan, err <- topErr
Sub(d) == INSTANCE GnuMake WITH rules <- SubRules(d)

Artifacts == {Out(Decl(d, v)) : d \in Descriptors, v \in Versions}
Files == {Desc(d) : d \in Descriptors} \cup {Mk(d) : d \in Descriptors}
         \cup E!ObjectFiles(Objects) \cup Artifacts \cup {E!BinDir}

----------------------------------------------------------------------------

Init ==
    \* sources compiled, bin/ present, no makefile and no artifact yet
    /\ mtime = [f \in Files |-> IF f \in Artifacts \cup {Mk(d) : d \in Descriptors}
                                THEN 0 ELSE 1]
    /\ clock = 2
    /\ mstate = "idle" /\ done = {} /\ remade = {} /\ ran = {} /\ err = "none"
    /\ topState = "idle" /\ topDone = {} /\ topRemade = {} /\ topRan = {}
    /\ topErr = "none"
    /\ sub = None
    /\ version \in [Descriptors -> Versions]
    /\ mkVersion = [d \in Descriptors |-> 0]
    /\ truncated = {}
    /\ runs = 0 /\ touches = 0 /\ edits = 0
    /\ inPlace \in BOOLEAN

\* A top-level make -j all starts.
TopStart ==
    /\ sub = None
    /\ runs < MaxRuns
    /\ Top!Start
    /\ runs' = runs + 1
    /\ UNCHANGED <<inPlace, truncated, subVars, sub, version, mkVersion, touches, edits>>

TopQuietSet == {t \in Top!Needed : Top!Ready(t) /\ Top!Quiet(t)}

\* A top-level decision that runs no recipe (see GnuMake!Step).
TopQuiet ==
    /\ topState = "running"
    /\ sub = None
    /\ TopQuietSet # {}
    /\ Top!Consider(CHOOSE t \in TopQuietSet : TRUE)
    /\ UNCHANGED <<inPlace, truncated, subVars, sub, version, mkVersion, runs, touches, edits>>

\* Without -j make works through the prerequisites of "all" in the order
\* they were printed: descriptor d only after the other targets before it.
InTurn(d) ==
    Serial => \A i, j \in 1..Len(Order) :
                 /\ i < j /\ Order[j] = d
                 /\ SubTarget(Order[i], "all") # SubTarget(d, "all")
                 => SubTarget(Order[i], "all") \in topDone

\* Of two rules that give one target a recipe make keeps the last printed:
\* d's recipe is the one of its local_unique_target.
RecipeOwner(d) ==
    \A i, j \in 1..Len(Order) :
       i < j /\ Order[i] = d => SubTarget(Order[j], "all") # SubTarget(d, "all")

\* The top-level make runs the recipe of t next.
TopRuns(t) ==
    /\ topState = "running"
    /\ sub = None
    /\ TopQuietSet = {}
    /\ t \in Top!Needed
    /\ Top!Ready(t)
    /\ Top!MustMake(t)

\* The generator raising on X.casual_make leaves X.mk without a rule: a
\* SyntaxError comes before anything of the declaration is printed (the
\* TypeError comes after all of it).
Truncates(d) == Raises(d, version[d]) = "syntax"

\* The recipe of X.mk: the generator writes X.mk from X.casual_make.
Regenerate(d) ==
    /\ TopRuns(Mk(d))
    /\ InTurn(d)
    /\ Raises(d, version[d]) = "none"
    /\ Top!Write(Mk(d), Recipe("generate"))
    /\ mkVersion' = [mkVersion EXCEPT ![d] = version[d]]
    /\ truncated' = truncated \ {d}
    /\ UNCHANGED <<inPlace, subVars, sub, version, runs, touches, edits>>

\* The recipe of X.mk exits non-zero: the generator raised on the present
\* X.casual_make.  Written in place, X.mk keeps what was printed, newer than
\* X.casual_make (the top level has no .DELETE_ON_ERROR either); written
\* through a renamed file, X.mk is left as it was.
RegenerateFails(d) ==
    /\ TopRuns(Mk(d))
    /\ InTurn(d)
    /\ Raises(d, version[d]) # "none"
    /\ IF inPlace
       THEN /\ Top!FailAfterWrite(Mk(d))
            /\ mkVersion' = [mkVersion EXCEPT ![d] = version[d]]
            /\ truncated' = IF Truncates(d) THEN truncated \cup {d}
                                            ELSE truncated \ {d}
       ELSE /\ Top!Fail("recipe")
            /\ UNCHANGED <<mkVersion, truncated>>
    /\ UNCHANGED <<inPlace, subVars, sub, version, runs, touches, edits>>

\* The recipe of local_unique_target: $(MAKE) -f X.mk all starts.
StartSubMake(d) ==
    /\ TopRuns(SubTarget(d, "all"))
    /\ InTurn(d)
    /\ RecipeOwner(d)
    /\ sub' = d
    /\ Sub(d)!Start
    /\ UNCHANGED <<inPlace, truncated, mtime, clock, topVars, version, mkVersion, runs, touches, edits>>

SubStep ==
    /\ \E d \in Descriptors : sub = d /\ Sub(d)!Step(Sub(d)!Needed)
    /\ UNCHANGED <<inPlace, truncated, topVars, sub, version, mkVersion, runs, touches, edits>>

\* The sub-make succeeds: its recipe line in the top-level make is done.
EndSubMake ==
    /\ \E d \in Descriptors :
          /\ sub = d
          /\ Sub(d)!Finish(Sub(d)!Needed)
          /\ topDone' = topDone \cup {SubTarget(d, "all")}
          /\ topRemade' = topRemade \cup {SubTarget(d, "all")}
          /\ topRan' = topRan \cup {SubTarget(d, "all")}
    /\ sub' = None
    /\ UNCHANGED <<inPlace, truncated, mtime, clock, topState, topErr, version, mkVersion, runs, touches, edits>>

\* The sub-make fails, and with it the top-level make.
SubFails ==
    /\ sub # None
    /\ mstate = "failed"
    /\ topState' = "failed"
    /\ topErr' = err
    /\ sub' = None
    /\ UNCHANGED <<inPlace, truncated, mtime, clock, subVars, topDone, topRemade, topRan,
                   version, mkVersion, runs, touches, edits>>

TopFinish ==
    /\ sub = None
    /\ Top!Finish(Top!Needed)
    /\ UNCHANGED <<inPlace, truncated, subVars, sub, version, mkVersion, runs, touches, edits>>

\* The descriptors of ran whose X.mk the generator writes.
Written(ran_) == {d \in ran_ : Raises(d, version[d]) = "none" \/ inPlace}

\* make make: local_make_target of every descriptor regenerates X.mk
\* whether or not X.casual_make is newer, then runs the goal "make" of
\* X.mk, which has neither prerequisites nor recipe there.  Make runs one
\* recipe per target name (the last one printed, when two descriptors get
\* one name).  Under -j any set of these recipes has run when the first
\* one fails; make starts no other after it.
MakeGoal ==
    /\ topState # "running"
    /\ runs < MaxRuns
    /\ \E R \in SUBSET Descriptors :
          /\ \A d1, d2 \in R : MakeTarget(d1) = MakeTarget(d2) => d1 = d2
          /\ (\A d \in R : Raises(d, version[d]) = "none") =>
                {MakeTarget(d) : d \in R} = {MakeTarget(d) : d \in Descriptors}
          /\ mtime' = [f \in DOMAIN mtime |->
                         IF f \in {Mk(d) : d \in Written(R)} THEN clock ELSE mtime[f]]
          /\ mkVersion' = [d \in Descriptors |->
                             IF d \in Written(R) THEN version[d] ELSE mkVersion[d]]
          /\ truncated' = (truncated \ Written(R)) \cup {d \in Written(R) : Truncates(d)}
    /\ clock' = clock + 1
    /\ runs' = runs + 1
    /\ UNCHANGED <<inPlace, subVars, topVars, sub, version, touches, edits>>

\* The user edits and recompiles a source while no make runs.
EditSource ==
    /\ topState # "running"
    /\ touches < MaxTouches
    /\ \E o \in Objects : mtime' = [mtime EXCEPT ![E!ObjectFile(o)] = clock]
    /\ clock' = clock + 1
    /\ touches' = touches + 1
    /\ topState' = "idle"
    /\ UNCHANGED <<inPlace, truncated, subVars, topDone, topRemade, topRan, topErr, sub, version,
                   mkVersion, runs, edits>>

\* The user changes the declaration in d.casual_make.
EditDescriptor ==
    /\ topState # "running"
    /\ edits < MaxEdits
    /\ \E d \in Descriptors :
          \E v \in Versions \ {version[d]} :
             /\ version' = [version EXCEPT ![d] = v]
             /\ mtime' = [mtime EXCEPT ![Desc(d)] = clock]
    /\ clock' = clock + 1
    /\ edits' = edits + 1
    /\ topState' = "idle"
    /\ UNCHANGED <<inPlace, truncated, subVars, topDone, topRemade, topRan, topErr, sub, mkVersion,
                   runs, touches>>

Next ==
    \/ TopStart \/ TopQuiet \/ TopFinish \/ MakeGoal
    \/ \E d \in Descriptors : Regenerate(d) \/ RegenerateFails(d) \/ StartSubMake(d)
    \/ SubStep \/ EndSubMake \/ SubFails
    \/ EditSource \/ EditDescriptor

Spec == Init /\ [][Next]_vars

----------------------------------------------------------------------------
(* Properties *)

\* Two-tier staleness, first tier (spec 4.5; "X.mk: X.casual_make" of
\* internal_Build): a sub-make only ever reads an X.mk written by the
\* generator run on the present content of its descriptor, after any number
\* of descriptor edits, "make make" runs and failed builds, including runs
\* in which the generator raised and X.mk holds only what it printed (what
\* such a sub-make then does is GenerationErrorNotSwallowed's subject).
SubMakeReadsCurrentDescriptor ==
    sub # None => mkVersion[sub] = version[sub]

\* Sibling descriptors compose into one DAG (spec 4.5): the top-level
\* "all", which lists one sub-make per descriptor
\* (internal_make_target_component), never has a link run while a library
\* it links, built by another descriptor, is still missing.
NoLinkAgainstMissingLibrary == err # "noinput"

\* Errors are never swallowed (spec 7): a top-level make succeeds only when
\* the generator runs through on the present content of every descriptor,
\* even after an earlier run in which the regeneration recipe of
\* internal_Build ("X.mk: X.casual_make", then casual_make X.casual_make)
\* failed.
GenerationErrorNotSwallowed ==
    topState = "succeeded" => \A d \in Descriptors : Raises(d, version[d]) = "none"

\* The refinement mapping onto BuildSpec: the graph of the present
\* declarations of all descriptors, up-to-date as timestamps say, and the
\* top-level make's state as the result.
Graph ==
    [a \in {Out(Decl(d, version[d])) : d \in Descriptors} |->
        UNION {E!ObjectFiles(x.objs) \cup (E!LibraryFiles(x.libs) \cap Artifacts) :
                 x \in {y \in {Decl(d, version[d]) : d \in Descriptors} : Out(y) = a}}]
Abstract == INSTANCE BuildSpec
              WITH graph <- Graph,
                   current <- DOMAIN Graph \ Top!StaleArtifacts(Graph),
                   result <- IF topState = "running" THEN "building" ELSE topState

\* The tree of descriptors built by the top-level make implements the one
\* global build of BuildSpec (spec 4.5: independently generated subtrees
\* behave as one DAG): in particular a top-level make succeeds only when
\* every artifact of every descriptor is up to date, including one linked
\* against a library another descriptor has since relinked.
BuildRefinement == Abstract!Spec

=============================================================================

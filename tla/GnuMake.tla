------------------------------ MODULE GnuMake ------------------------------
(***************************************************************************)
(* The meaning of the makefile text that casual_make emits: how GNU make   *)
(* (an external collaborator, run with -j) updates a goal ("all" unless    *)
(* the caller names another) from the rules.  A rule is a record                                               *)
(*     [t |-> target, pre |-> prerequisites, oo |-> order-only ones,       *)
(*      rcp |-> recipe or NoRecipe]                                         *)
(* and several rules for one target merge as make merges them.  Special    *)
(* targets are ordinary rules: ".INTERMEDIATE: x" is the rule              *)
(* [t |-> Global(".INTERMEDIATE"), pre |-> {x}].                           *)
(*                                                                         *)
(* A file is any id in DOMAIN mtime; mtime[f] = 0 means f does not exist.  *)
(* Every other target (target_foo, all, ...) never exists as a file.  A    *)
(* ready target (all its prerequisites done) may be processed in any       *)
(* order, which is the freedom make -j has; a serial make is one of those  *)
(* orders.  A recipe runs atomically.                                      *)
(***************************************************************************)
EXTENDS Naturals, FiniteSets

VARIABLES
    rules,   \* the rules of the emitted makefile
    mtime,   \* mtime[f]: modification time of file f, 0 if absent
    clock,   \* the time the next write gets
    mstate,  \* "idle", "running", "succeeded" or "failed"
    done,    \* targets make has finished considering in this run
    remade,  \* targets make considered changed in this run
    ran,     \* targets whose recipe ran in this run
    err      \* why the last run failed: "none", "nodir", "noinput", "norule" or "recipe"

NoRecipe == [op |-> "none", dir |-> "none", files |-> {}, reads |-> {}, writes |-> {}, id |-> 0]
NoDir == "none"
Global(x) == <<"global", x>>
Goal == Global("all")

RulesOf(t) == {r \in rules : r.t = t}
HasRule(t) == RulesOf(t) # {}
Pre(t) == UNION {r.pre : r \in RulesOf(t)}
OO(t) == UNION {r.oo : r \in RulesOf(t)}
Recipes(t) == {r.rcp : r \in RulesOf(t)} \ {NoRecipe}

IsFile(t) == t \in DOMAIN mtime
Exists(t) == IsFile(t) /\ mtime[t] > 0

\* make takes .PHONY and .INTERMEDIATE from the prerequisites of the
\* special targets.
Phony == Pre(Global(".PHONY"))
Intermediate == Pre(Global(".INTERMEDIATE"))

\* Every target the goal reaches through normal and order-only edges.
RECURSIVE Closure(_)
Closure(S) ==
    LET N == S \cup UNION {Pre(t) \cup OO(t) : t \in S}
    IN  IF N = S THEN S ELSE Closure(N)
NeededFor(g) == Closure({g})
Needed == NeededFor(Goal)

\* check_dep in remake.c: does prerequisite q force a target whose time is
\* tm to be remade?  A missing intermediate is looked through: its own
\* prerequisites are compared with tm instead.
RECURSIVE Forces(_, _)
Forces(q, tm) ==
    IF q \in Intermediate /\ ~Exists(q)
    THEN \E d \in Pre(q) : Forces(d, tm)
    ELSE q \in remade \/ (Exists(q) /\ mtime[q] > tm)

\* A missing target, a phony one, or one with a forcing normal prerequisite
\* is remade; a missing intermediate is left alone.
MustMake(t) ==
    \/ t \in Phony
    \/ ~Exists(t) /\ t \notin Intermediate
    \/ Exists(t) /\ \E p \in Pre(t) : Forces(p, mtime[t])

\* t is one of the needed targets; its prerequisites are all done.
Ready(t) ==
    /\ t \notin done
    /\ Pre(t) \cup OO(t) \subseteq done

Fail(why) ==
    /\ mstate' = "failed"
    /\ err' = why
    /\ UNCHANGED <<mtime, clock, done, remade, ran>>

\* A target without a rule: an existing file is up to date, anything else
\* is "No rule to make target".
ConsiderLeaf(t) ==
    /\ ~HasRule(t)
    /\ IF Exists(t)
       THEN /\ done' = done \cup {t}
            /\ UNCHANGED <<mtime, clock, mstate, remade, ran, err>>
       ELSE Fail("norule")

ConsiderUpToDate(t) ==
    /\ HasRule(t) /\ ~MustMake(t)
    /\ done' = done \cup {t}
    /\ UNCHANGED <<mtime, clock, mstate, remade, ran, err>>

\* A target remade without a recipe: marked changed, no file touched.
RemakeWithoutRecipe(t) ==
    /\ HasRule(t) /\ MustMake(t) /\ Recipes(t) = {}
    /\ done' = done \cup {t}
    /\ remade' = remade \cup {t}
    /\ UNCHANGED <<mtime, clock, mstate, ran, err>>

\* Recipe r of t succeeds: t and the other files it writes get the current
\* time, "rm" removes its files, and creating an entry updates the
\* directory's time.
Write(t, r) ==
    /\ mtime' = [f \in DOMAIN mtime |->
                 CASE f \in r.files           -> 0
                   [] f \in r.writes \cup {t} -> clock
                   [] f = r.dir /\ ~Exists(t) -> clock
                   [] OTHER                   -> mtime[f]]
    /\ clock' = clock + 1
    /\ done' = done \cup {t}
    /\ remade' = remade \cup {t}
    /\ ran' = ran \cup {t}
    /\ UNCHANGED <<mstate, err>>

\* Running recipe r of t.  A command that reads a missing file (a linker
\* given -l of an absent library) fails; so does one that writes into an
\* absent directory.  When two rules give t a recipe make keeps one of
\* them (the last), which the model leaves open.
RunRecipe(t) ==
    /\ HasRule(t) /\ MustMake(t)
    /\ \E r \in Recipes(t) :
        CASE \E f \in r.reads : ~Exists(f)    -> Fail("noinput")
          [] r.dir # NoDir /\ ~Exists(r.dir) -> Fail("nodir")
          [] OTHER                          -> Write(t, r)

\* ".DELETE_ON_ERROR:" among the rules: make deletes the target of a recipe
\* that fails.
DeleteOnError == \E r \in rules : r.t = Global(".DELETE_ON_ERROR")

\* Recipe r of t starts and exits non-zero after its command has written t
\* (a link killed, or out of space, half way).  Make keeps the half-written
\* t, newer than its prerequisites, unless the makefile asks for
\* .DELETE_ON_ERROR.
FailAfterWrite(t) ==
    /\ mstate = "running"
    /\ Ready(t) /\ HasRule(t) /\ MustMake(t)
    /\ \E r \in Recipes(t) :
          /\ \A f \in r.reads : Exists(f)
          /\ r.dir # NoDir => Exists(r.dir)
          /\ t \in DOMAIN mtime
    /\ mtime' = [mtime EXCEPT ![t] = IF DeleteOnError THEN 0 ELSE clock]
    /\ clock' = clock + 1
    /\ mstate' = "failed"
    /\ err' = "recipe"
    /\ UNCHANGED <<done, remade, ran>>

Consider(t) ==
    /\ mstate = "running"
    /\ Ready(t)
    /\ \/ ConsiderLeaf(t)
       \/ ConsiderUpToDate(t)
       \/ RemakeWithoutRecipe(t)
       \/ RunRecipe(t)

\* A decision that runs no recipe reads only the times of finished
\* prerequisites, which later recipes leave alone (a recipe writes its
\* target and, on creation, its directory, and no rule casual_make emits
\* has a directory as a normal prerequisite; the rm of clean removes
\* artifacts, which no target of the goal clean has as prerequisite); so such decisions are taken
\* first, in a fixed order, and only the order of recipes is left open.
Quiet(t) == ~HasRule(t) \/ ~MustMake(t) \/ Recipes(t) = {}

Step(needed) ==
    LET quiet == {t \in needed : Ready(t) /\ Quiet(t)}
    IN  IF quiet # {} THEN Consider(CHOOSE t \in quiet : TRUE)
                      ELSE \E t \in needed : Consider(t)

\* A make step in which the recipe of a target fails after writing it; like
\* Step, recipe-free decisions come first.
StepFails(needed) ==
    /\ {t \in needed : Ready(t) /\ Quiet(t)} = {}
    /\ \E t \in needed : FailAfterWrite(t)

Start ==
    /\ mstate # "running"
    /\ mstate' = "running"
    /\ done' = {}
    /\ remade' = {}
    /\ ran' = {}
    /\ err' = "none"
    /\ UNCHANGED <<mtime, clock>>

\* Every target needed for the goal is done: make exits with success.
Finish(needed) ==
    /\ mstate = "running"
    /\ needed \subseteq done
    /\ mstate' = "succeeded"
    /\ UNCHANGED <<mtime, clock, done, remade, ran, err>>

\* The artifacts of a build graph G (artifact -> the files it is made from)
\* that timestamps call out of date: missing, not newer than one of its
\* inputs, or made from an artifact that is itself out of date.
RECURSIVE StaleClosure(_, _)
StaleClosure(G, S) ==
    LET N == S \cup {a \in DOMAIN G : G[a] \cap S # {}}
    IN  IF N = S THEN S ELSE StaleClosure(G, N)
StaleArtifacts(G) ==
    StaleClosure(G, {a \in DOMAIN G : ~Exists(a) \/ \E i \in G[a] : mtime[i] >= mtime[a]})

=============================================================================

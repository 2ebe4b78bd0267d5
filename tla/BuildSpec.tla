----------------------------- MODULE BuildSpec -----------------------------
(***************************************************************************)
(* What a build promises, whatever makes it (spec 4.3 and 4.5): one global *)
(* graph of artifacts, each made from its inputs, and a build that makes   *)
(* an artifact only once the artifacts it is made from are up to date,    *)
(* never remakes one that is up to date, and reports success only when    *)
(* every artifact is up to date.  Nothing here knows of makefiles,         *)
(* descriptors or timestamps; the detailed specifications are mapped onto  *)
(* it.                                                                     *)
(***************************************************************************)
EXTENDS FiniteSets

VARIABLES
    graph,    \* artifact -> the inputs (sources or artifacts) it is made from
    current,  \* the artifacts made from the present content of their inputs
    result    \* "idle", "building", "succeeded" or "failed"

vars == <<graph, current, result>>

Artifacts == DOMAIN graph
Sources == UNION {graph[a] : a \in Artifacts} \ Artifacts

\* The artifacts made from x, directly or through other artifacts.
RECURSIVE MadeFrom(_)
MadeFrom(S) ==
    LET N == S \cup {a \in Artifacts : graph[a] \cap S # {}}
    IN  IF N = S THEN S ELSE MadeFrom(N)

Init ==
    /\ current = {}
    /\ result = "idle"

\* Declarations grow the graph before anything is made.
Declare ==
    /\ result = "idle"
    /\ current = {}
    /\ Artifacts \subseteq DOMAIN graph'
    /\ \A a \in Artifacts : graph[a] \subseteq graph'[a]
    /\ UNCHANGED <<current, result>>

\* A source changes outside any build: what is made from it is out of date.
Edit ==
    /\ result # "building"
    /\ result' = "idle"
    /\ \/ current' = current
       \/ \E s \in Sources : current' = current \ MadeFrom({s})
    /\ UNCHANGED graph

\* Outside any build, artifacts are removed (a clean).
Clean ==
    /\ result # "building"
    /\ result' = "idle"
    /\ current' \subseteq current
    /\ UNCHANGED graph

Start ==
    /\ result # "building"
    /\ result' = "building"
    /\ UNCHANGED <<graph, current>>

\* One artifact is made, from inputs that are all up to date.
Make(a) ==
    /\ result = "building"
    /\ a \in Artifacts \ current
    /\ graph[a] \cap Artifacts \subseteq current
    /\ current' = current \cup {a}
    /\ UNCHANGED <<graph, result>>

Succeed ==
    /\ result = "building"
    /\ current = Artifacts
    /\ result' = "succeeded"
    /\ UNCHANGED <<graph, current>>

Fail ==
    /\ result = "building"
    /\ result' = "failed"
    /\ UNCHANGED <<graph, current>>

Next ==
    \/ Declare \/ Edit \/ Clean \/ Start \/ Succeed \/ Fail
    \/ \E a \in Artifacts : Make(a)

Spec == Init /\ [][Next]_vars

=============================================================================

------------------------- MODULE MCCasualMakeBuild -------------------------
(* Model-checking instance of CasualMakeBuild: names and objects are model *)
(* values and interchangeable, so runs may use their permutations.        *)
EXTENDS CasualMakeBuild, TLC

CONSTANTS a, b, o1, o2, m1

MCNames == {a, b}
MCObjects == {o1, o2}
Symmetry == Permutations(MCNames) \cup Permutations(MCObjects)

\* Each artifact links an object of its own (objects named after the
\* artifacts: Objects is MCNames) and at most one library.
OwnObject(n) == {{n}}
AtMostOneLibrary(n) == {{}} \cup {{l} : l \in MCNames}
OwnSymmetry == Permutations(MCNames)

=============================================================================

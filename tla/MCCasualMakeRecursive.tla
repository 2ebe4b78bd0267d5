----------------------- MODULE MCCasualMakeRecursive -----------------------
(***************************************************************************)
(* Two descriptors: A declares library lib from object oA; B declares     *)
(* executable exe from oB, linking lib at version 1 and nothing at         *)
(* version 2.  A's versions differ only in the file's time.                *)
(***************************************************************************)
EXTENDS CasualMakeRecursive

CONSTANTS A, B, lib, exe, oA, oB

MCNames == {lib, exe}
MCObjects == {oA, oB}
MCVersions == {1, 2}

MCDecl(d, v) ==
    IF d = A
    THEN [kind |-> "library", name |-> lib, objs |-> {oA}, libs |-> {}]
    ELSE [kind |-> "executable", name |-> exe, objs |-> {oB},
          libs |-> IF v = 1 THEN {lib} ELSE {}]

\* A at a/b.casual_make, B at a_c.casual_make (the common directory and
\* suffix left out).
MCPath(d) == IF d = A THEN <<"a", "/", "b">> ELSE <<"a", "_", "c">>

\* B at a_b.casual_make: internal_convert_path_to_target_name gives both
\* descriptors the name target_a_b.
CollidingPath(d) == IF d = A THEN <<"a", "/", "b">> ELSE <<"a", "_", "b">>

\* No descriptor content makes the generator raise.
NeverRaises(d, v) == "none"

\* B at version 2 registers a warning, so internal_post_make_rules raises
\* TypeError after printing every rule; A at version 2 lists its objects
\* as a string, so internal_validate_list raises SyntaxError.
MCRaises(d, v) ==
    CASE v = 1 -> "none"
      [] d = A -> "syntax"
      [] OTHER -> "warning"

\* The library's descriptor first, as a tree listing its dependencies first
\* would call internal_Build.
LibraryFirst == <<A, B>>

=============================================================================

---------------------------- MODULE MCLinkServer ----------------------------
(* Model-checking instance of LinkServer: two servers and one library,    *)
(* named by model values.                                                  *)
EXTENDS LinkServer

CONSTANTS s1, s2, l1

MCServers == {s1, s2}
MCLibraries == {l1}

=============================================================================

\* Two servers and a library of casual's own tree (which links
\* casual-build-server too), realized with two workers around one edit.
CONSTANTS
    s1 = s1
    s2 = s2
    l1 = l1
    Servers <- MCServers
    Libraries <- MCLibraries
    BuildsTool = TRUE
    Workers = 2
    MaxDecls = 3
    MaxRuns = 3
    MaxTouches = 1
SPECIFICATION Spec
INVARIANT CleanRemovesServers
PROPERTY RealizeTerminates
PROPERTY RealizeRefinement
\* Realization stops: after the last run nothing is left to do.
CHECK_DEADLOCK FALSE

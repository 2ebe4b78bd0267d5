\* casual's own tree: casual-build-server is linked in the same
\* realization as the servers that LinkServer links with it.
CONSTANTS
    s1 = s1
    s2 = s2
    l1 = l1
    Servers <- MCServers
    Libraries <- MCLibraries
    BuildsTool = TRUE
    Workers = 2
    MaxDecls = 1
    MaxRuns = 1
    MaxTouches = 0
SPECIFICATION Spec
INVARIANT NoLinkBeforeBuildServer
CHECK_DEADLOCK FALSE

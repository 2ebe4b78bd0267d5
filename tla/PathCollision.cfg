\* Serial make all over a fresh tree whose two descriptors sit at a/b and
\* a_b: is every descriptor built?
CONSTANTS
    A = A
    B = B
    lib = lib
    exe = exe
    oA = oA
    oB = oB
    Names <- MCNames
    Objects <- MCObjects
    Versions <- MCVersions
    Decl <- MCDecl
    Raises <- NeverRaises
    Order <- LibraryFirst
    Path <- CollidingPath
    Serial = TRUE
    MaxRuns = 1
    MaxTouches = 0
    MaxEdits = 0
SPECIFICATION Spec
PROPERTY BuildRefinement
\* A build stops: after the last run no step is left.
CHECK_DEADLOCK FALSE

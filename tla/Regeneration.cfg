\* The top-level makefile over two descriptors under make -j: descriptor
\* edits, source edits, "make make" and failed builds around two runs.
CONSTANTS
    A = A
    B = B
    lib = lib
    exe = exe
    oA = oA
    oB = oB
    Names <- MCNames
    Objects <- MCObjects
    Versions <- MCVersions
    Decl <- MCDecl
    Raises <- MCRaises
    Order <- LibraryFirst
    Path <- MCPath
    Serial = FALSE
    MaxRuns = 2
    MaxTouches = 1
    MaxEdits = 1
SPECIFICATION Spec
INVARIANT SubMakeReadsCurrentDescriptor
\* A build stops: after the last run no step is left.
CHECK_DEADLOCK FALSE

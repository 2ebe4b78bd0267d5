\* Serial make all, library descriptor first, around one source edit: is
\* the tree built as one DAG?
CONSTANTS
    A = A
    B = B
    lib = lib
    exe = exe
    oA = oA
    oB = oB
    Names <- MCNames
    Objects <- MCObjects
    Versions <- MCVersions
    Decl <- MCDecl
    Raises <- NeverRaises
    Order <- LibraryFirst
    Path <- MCPath
    Serial = TRUE
    MaxRuns = 2
    MaxTouches = 1
    MaxEdits = 0
SPECIFICATION Spec
PROPERTY BuildRefinement
\* A build stops: after the last run no step is left.
CHECK_DEADLOCK FALSE

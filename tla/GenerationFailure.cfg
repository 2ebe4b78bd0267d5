\* Two descriptors whose generator may raise (B: a warning, A: a list given
\* as a string): can a later top-level make succeed over the error?
CONSTANTS
    A = A
    B = B
    lib = lib
    exe = exe
    oA = oA
    oB = oB
    Names <- MCNames
    Objects <- MCObjects
    Versions <- MCVersions
    Decl <- MCDecl
    Raises <- MCRaises
    Order <- LibraryFirst
    Path <- MCPath
    Serial = FALSE
    MaxRuns = 2
    MaxTouches = 1
    MaxEdits = 1
SPECIFICATION Spec
INVARIANT GenerationErrorNotSwallowed
\* A build stops: after the last run no step is left.
CHECK_DEADLOCK FALSE

\* make -j all over a fresh tree of two descriptors, B linking the library
\* A builds: can a link run before that library exists?
CONSTANTS
    A = A
    B = B
    lib = lib
    exe = exe
    oA = oA
    oB = oB
    Names <- MCNames
    Objects <- MCObjects
    Versions <- MCVersions
    Decl <- MCDecl
    Raises <- NeverRaises
    Order <- LibraryFirst
    Path <- MCPath
    Serial = FALSE
    MaxRuns = 1
    MaxTouches = 0
    MaxEdits = 0
SPECIFICATION Spec
INVARIANT NoLinkAgainstMissingLibrary
\* A build stops: after the last run no step is left.
CHECK_DEADLOCK FALSE

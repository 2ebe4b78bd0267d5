\* Incremental builds of one descriptor with libraries, executables and
\* servers: three make runs around one source edit.
CONSTANTS
    a = a
    b = b
    o1 = o1
    o2 = o2
    m1 = m1
    Names <- MCNames
    Objects <- MCNames
    Messages = {}
    Kinds = {"library", "executable", "server"}
    MaxDecls = 2
    MaxRuns = 3
    MaxTouches = 1
    ParallelValues = {0}
    Goals = {"all"}
    StrayFiles = {}
    Destinations = {}
    MaxInstalls = 0
    RecipesMayFail = FALSE
    ObjectChoices <- OwnObject
    LibChoices <- AtMostOneLibrary
SPECIFICATION Spec
CONSTRAINT AcyclicDeclarations
INVARIANT TypeOK
INVARIANT NoSpuriousRebuild
PROPERTY BuildRefinement
\* A build stops: the generator and make both terminate.
SYMMETRY OwnSymmetry
CHECK_DEADLOCK FALSE

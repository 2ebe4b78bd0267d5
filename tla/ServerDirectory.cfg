\* A server linked by make -j: casual-build-server writes bin/<name>
\* before anything creates bin/.
CONSTANTS
    a = a
    b = b
    o1 = o1
    o2 = o2
    m1 = m1
    Names <- MCNames
    Objects <- MCNames
    Messages = {}
    Kinds = {"server"}
    MaxDecls = 2
    MaxRuns = 2
    MaxTouches = 1
    ParallelValues = {0}
    Goals = {"all"}
    StrayFiles = {}
    Destinations = {}
    MaxInstalls = 0
    RecipesMayFail = FALSE
    ObjectChoices <- OwnObject
    LibChoices <- AtMostOneLibrary
SPECIFICATION Spec
CONSTRAINT AcyclicDeclarations
INVARIANT NoWriteIntoMissingDir
SYMMETRY OwnSymmetry
\* A build stops: the generator and make both terminate.
CHECK_DEADLOCK FALSE

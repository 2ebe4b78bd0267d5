\* make all, clean and install over libraries and executables of one
\* descriptor (bin/ possibly absent, a warning and setParallelMake on the way),
\* around a source edit, one artifact possibly installed twice.
CONSTANTS
    a = a
    b = b
    o1 = o1
    o2 = o2
    m1 = m1
    Names <- MCNames
    Objects <- MCNames
    Messages = {m1}
    Kinds = {"library", "executable"}
    MaxDecls = 2
    MaxRuns = 2
    MaxTouches = 1
    ParallelValues = {0}
    Goals = {"all", "clean", "install"}
    StrayFiles = {}
    Destinations = {"usr"}
    MaxInstalls = 2
    RecipesMayFail = TRUE
    ObjectChoices <- OwnObject
    LibChoices <- AtMostOneLibrary
SPECIFICATION Spec
CONSTRAINT AcyclicDeclarations
INVARIANT CleanRemovesArtifacts
INVARIANT InstalledUpToDate
INVARIANT NoWriteIntoMissingDir
SYMMETRY OwnSymmetry
\* A build stops: the generator and make both terminate.
CHECK_DEADLOCK FALSE

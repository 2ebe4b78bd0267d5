\* One library; its link may fail after writing the archive; make is run again.
CONSTANTS
    a = a
    b = b
    o1 = o1
    o2 = o2
    m1 = m1
    Names <- MCNames
    Objects <- MCNames
    Messages = {}
    Kinds = {"library"}
    MaxDecls = 1
    MaxRuns = 2
    MaxTouches = 0
    ParallelValues = {0}
    Goals = {"all"}
    StrayFiles = {}
    Destinations = {}
    MaxInstalls = 0
    RecipesMayFail = TRUE
    ObjectChoices <- OwnObject
    LibChoices <- AtMostOneLibrary
SPECIFICATION Spec
INVARIANT NoPartialArtifactAfterSuccess
CHECK_DEADLOCK FALSE

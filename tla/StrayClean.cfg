\* make clean in a directory that holds a file named clean_files (one of
\* the targets ".PHONY clean_files:" is meant to protect).
CONSTANTS
    a = a
    b = b
    o1 = o1
    o2 = o2
    m1 = m1
    Names <- MCNames
    Objects <- MCNames
    Messages = {}
    Kinds = {"library"}
    MaxDecls = 1
    MaxRuns = 2
    MaxTouches = 0
    ParallelValues = {0}
    Goals = {"all", "clean"}
    StrayFiles = {"clean_files"}
    Destinations = {}
    MaxInstalls = 0
    RecipesMayFail = FALSE
    ObjectChoices <- OwnObject
    LibChoices <- AtMostOneLibrary
SPECIFICATION Spec
INVARIANT CleanRemovesArtifacts
\* A build stops: the generator and make both terminate.
CHECK_DEADLOCK FALSE

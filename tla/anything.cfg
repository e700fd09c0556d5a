SPECIFICATION Spec
CONSTANTS
    p1 = p1  p2 = p2
    balanced = balanced  stream = stream
    local = local  fog = fog
    Absent = Absent  Torn = Torn  NoTrace = NoTrace  NoJob = NoJob  Noise = Noise
    Rows = {0, 1, 2}
    Divergent <- FarOff
    Runners = {p1, p2}
    Instances = {balanced, stream}
    Settings = {local, fog}
    Stubborn = {fog}
    RowLists <- OneOutlier
    KeepFlags = {FALSE, TRUE}
    SharedDirs = FALSE
    HandKeygen = TRUE
    FogSettings = {fog}
    MaxRuns = 3
    MaxFaults = 0
SYMMETRY SameRunners
INVARIANTS
    AnswersFromThisRun
PROPERTIES
    DoneMeansVerified
    ImplementsService

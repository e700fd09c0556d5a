SPECIFICATION Spec
CONSTANTS
    p1 = p1  p2 = p2
    balanced = balanced  stream = stream
    local = local  fog = fog
    Absent = Absent  Torn = Torn  NoTrace = NoTrace  NoJob = NoJob  Noise = Noise
    Rows = {0, 1, 2}
    Divergent <- FarOff
    Runners = {p1}
    Instances = {stream}
    Settings = {local, fog}
    Stubborn = {}
    RowLists <- EveryList
    KeepFlags = {FALSE, TRUE}
    SharedDirs = FALSE
    HandKeygen = FALSE
    FogSettings = {fog}
    MaxRuns = 3
    MaxFaults = 2
INVARIANTS
    TypeOK
    NoWrongScore
    TraceFitsKeys
    OneRecordingPerRun
PROPERTY
    DoneMeansVerified

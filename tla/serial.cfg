SPECIFICATION FairSpec
CONSTANTS
    p1 = p1  p2 = p2
    balanced = balanced  stream = stream
    local = local  fog = fog
    Absent = Absent  Torn = Torn  NoTrace = NoTrace  NoJob = NoJob  Noise = Noise
    Rows = {0, 1, 2}
    Divergent <- FarOff
    Runners = {p1}
    Instances = {balanced, stream}
    Settings = {local, fog}
    Stubborn = {}
    RowLists <- EveryList
    KeepFlags = {FALSE}
    SharedDirs = FALSE
    HandKeygen = FALSE
    FogSettings = {}
    MaxRuns = 3
    MaxFaults = 1
INVARIANTS
    NoWrongScore
    ReplaysOwnInput
PROPERTIES
    FreshRunSucceeds
    RunsEnd

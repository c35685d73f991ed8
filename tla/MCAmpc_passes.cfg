SPECIFICATION FairSpec
CONSTANTS
    a = a
    b = b
    c = c
    NoJob = NoJob
    Failed = Failed
    NumWorkers = 3
    Jobs <- ThreeJobs
    Schedulable <- Sharded
    Mappers = 2
    MaxRounds = 2
    MayDie = TRUE
    MayRestart = TRUE
    MaxFaults = 3
INVARIANTS MapsCurrentRound
PROPERTIES PassComplete RunEnds

SPECIFICATION Spec
CONSTANTS
    a = a
    b = b
    c = c
    NoJob = NoJob
    Failed = Failed
    NumWorkers = 2
    Jobs <- TwoJobs
    Schedulable <- AnyTwo
    Mappers = 1
    MaxRounds = 1
    MayDie = TRUE
    MayRestart = FALSE
    MaxFaults = 1
INVARIANTS JobsTracked

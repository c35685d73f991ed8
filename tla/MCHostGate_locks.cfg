\* Three fetches compete for two connections, in two processes one after the other.
SPECIFICATION Spec
CONSTANTS
    t1 = t1
    t2 = t2
    t3 = t3
    Tasks = {t1, t2, t3}
    NoTask = NoTask
    Permits = 2
    Gap = 1
    Delays = {0, 2}
    MaxDelay = 2
    Block = 3
    Backoff <- MCBackoff
    MaxRate = 1
    Answers <- RefusingAnswers
    Forever = 20
    Steps = {}
    MaxTime = 4
    MaxRuns = 2
SYMMETRY MCSymmetry
INVARIANTS TypeOK
PROPERTIES ImplementsLocks ArrivalGap RestartGap RefusalKept

\* One process whose wall clock is set: refusals and rate limits.
SPECIFICATION Spec
CONSTANTS
    t1 = t1
    t2 = t2
    Tasks = {t1, t2}
    NoTask = NoTask
    Permits = 2
    Gap = 1
    Delays = {0}
    MaxDelay = 2
    Block = 3
    Backoff <- MCBackoff
    MaxRate = 1
    Answers <- RateAnswers
    Forever = 20
    Steps = {4}
    MaxTime = 4
    MaxRuns = 1
SYMMETRY MCSymmetry
PROPERTIES BackoffKept

\* Bodies are deleted, one kill between two steps.
SPECIFICATION FairSpec
CONSTANTS
    t1 = t1
    t2 = t2
    Targets = {t1, t2}
    NoTarget = NoTarget
    KeyOf <- SameUrl
    Results = {"saved", "unretained"}
    MayExpire = TRUE
    KilledWriting = FALSE
    MaxMishaps = 1
PROPERTIES IncompleteRecovered

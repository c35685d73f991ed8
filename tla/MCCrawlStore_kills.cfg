\* Two generations of one URL, any three kills or failed writes.
SPECIFICATION FairSpec
CONSTANTS
    t1 = t1
    t2 = t2
    Targets = {t1, t2}
    NoTarget = NoTarget
    KeyOf <- SameUrl
    Results = {"saved", "unretained", "other"}
    MayExpire = TRUE
    KilledWriting = TRUE
    MaxMishaps = 3
INVARIANTS CompleteMeansOneRow SavedBodyOnDisk RawManaged
PROPERTIES OutcomeFinal RecoveredUnlessRefused InterruptedPurged

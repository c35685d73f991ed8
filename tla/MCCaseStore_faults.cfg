\* One report through its whole lifecycle, any two kills, failed calls or clock steps.
SPECIFICATION FairSpec
CONSTANTS
    d1 = d1
    d2 = d2
    Intakes <- OneImage
    Commands = {"decided", "appealed", "reversal_intent", "upheld", "closed"}
    Decisions = {"granted", "not_intimate_image"}
    Lead = 1
    Retention = 1
    MaxEvents = 16
    SpareEvents = 4
    MaxRows = 20
    SpareRows = 4
    MaxTime = 1
    MaxFaults = 2
    FaultKinds = {"kill", "io", "clock"}
INVARIANTS RulesFollowJournal GateIsDurable AcknowledgedIsSuppressed PersonalDataFollowsJournal PurgeHasRoom
PROPERTIES StartupAccepts WorkIsFinished
CHECK_DEADLOCK FALSE

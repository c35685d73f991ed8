\* Families of reports that meet in a document or a duplicate, and two kills anywhere.
SPECIFICATION Spec
CONSTANTS
    d1 = d1
    d2 = d2
    Intakes <- Families
    Commands = {"identity_requested", "identity_confirmed", "clarification_requested", "clarification_received",
                "extension_notified", "decided", "appealed", "reversal_intent", "closed"}
    Decisions = {"granted", "manifestly_unfounded"}
    Lead = 0
    Retention = 1
    MaxEvents = 15
    SpareEvents = 4
    MaxRows = 19
    SpareRows = 4
    MaxTime = 0
    MaxFaults = 2
    FaultKinds = {"kill"}
INVARIANTS RulesFollowJournal ProjectionIsReplay
PROPERTIES ReversedStaysCleared StartupAccepts
CHECK_DEADLOCK FALSE

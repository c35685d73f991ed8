\* Two documents, one of them in two versions, and a register of one place.
SPECIFICATION SystemSpec
CONSTANTS
    d1 = d1
    d2 = d2
    b1 = b1
    b2 = b2
    c1 = c1
    Ids = {d1, d2}
    Submissions <- MCSubmissions
    Clients = {c1}
    TTL = 1
    DayLength = 2
    MaxSegments = 4
    MaxEntries = 1
    MaxVersion = 2
    MaxTime = 2
    MaxRequests = 2
    MaxFaults = 1
CHECK_DEADLOCK FALSE
INVARIANTS TypeOK DecidesFromDurable SnapshotLoads SendIsOwed 
PROPERTIES VersionsKept StoppedIsFinal RequestsEnd ExpiredRemoved 

CONSTANTS
    Callers = {c1, c2}
    Limits = {0, 3}
    Rates = {0, 1, 5}
    StartUsages = {0, 1, 4}
    MaxStream = 1
    MaxDatagram = 3
    MinBurst = 4
    MaxCount = 6
    ElapsedBound = 3
    WindowBound = 2
SPECIFICATION FairSpec
INVARIANTS QuotaHolds ChargedIsForwarded RateHolds
PROPERTY StarvedOnlyByOthers

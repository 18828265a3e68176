SPECIFICATION FairSpec
CONSTANTS
    None = None
    Processes = {p1}
    MaxRevision = 2
    MaxKills = 1
PROPERTIES LegacyBecomesBackup

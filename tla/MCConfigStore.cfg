CONSTANTS
    u1 = u1
    u2 = u2
    alice = alice
    bob = bob
    Users <- MCUsers
    Accounts <- MCAccounts
    MaxTunnels = 2
    DefaultLimit = 1
    Quota = 1
    MaxUsed = 1
    InitialUsers <- MCInitialUsers
    Absent = Absent
    Commands = {a1, a2}
    RevisionBound = 5
SPECIFICATION Spec
INVARIANTS RevisionMeansContent
PROPERTIES Serializable DeletedStaysDeleted

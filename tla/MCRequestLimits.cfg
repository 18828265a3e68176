SPECIFICATION BothSpec
CONSTANTS
    None = None
    a1 = a1  a2 = a2  a3 = a3
    r1 = r1  r2 = r2  r3 = r3  h1 = h1  h2 = h2
    Addresses <- MCAddresses
    Budget = 4
    Refill = 2
    Costs = {1, 3}
    IdleTtl = 3
    CleanupInterval = 2
    MaxClients = 2
    MaxNow = 8
    Requests <- MCRequests
    Handlers <- MCHandlers
    Skew = 1
    Ttl = 1
    Capacity = 2
    Second = 2
    MaxSecond = 3
SYMMETRY Symmetry
INVARIANTS GuardInStep
PROPERTIES  ImplementsBudget NoRoomForTheIdle
CHECK_DEADLOCK FALSE

CONSTANTS
    ann = ann
    bob = bob
    a1 = a1
    a2 = a2
    b1 = b1
    tcp = tcp
    udp = udp
    Keys <- MCKeys
    Users <- MCUsers
    Owner <- MCOwner
    Dashed <- MCDashed
    Endpoints <- MCEndpoints
    Udp <- MCUdp
    None = None
SPECIFICATION FairSpec
INVARIANTS RegisteredListens ServesOnlyConfigured OkMeansServed
PROPERTIES OthersUndisturbed SaveAnswered ShutdownEnds

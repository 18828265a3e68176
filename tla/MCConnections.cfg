SPECIFICATION BothSpec
CONSTANTS
    None = None
    Tunnels = {t1, t2}
    Peers = {p1, p2}
    Sessions = {s1, s2}
    MaxPerTunnel = 1
    MaxTotal = 2
    QueueCapacity = 1
    Connections = {c1, c2}
    TcpPerTunnel = 2
    TcpTotal = 2
INVARIANTS SessionTable PermitsReturn
PROPERTIES QuietEmpties CancelledEnds

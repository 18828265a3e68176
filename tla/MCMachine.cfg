SPECIFICATION AllSpec
CONSTANTS
    None = None
    Processes = {p1, p2}
    MaxRevision = 3
    MaxKills = 1
    Tunnels = {"tunnel 1", "tunnel 2"}
    MaxFaults = 3
INVARIANTS StoredAndReadable InstalledOrRestored ServesEverything
PROPERTIES NothingTakenBack ForeignFrpsStays SettlesAsWanted

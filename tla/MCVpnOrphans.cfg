SPECIFICATION FairSpec
CONSTANTS
    n1 = n1  n2 = n2  n3 = n3  k1 = k1  k2 = k2
    None = None
    Names = {n1, n2}
    Creds = {k1, k2}
    Ports = {}
    PortsOf <- NoPorts
    Faults = {"dockerFails", "startFails", "removeFails", "exits", "vanishes", "dropLeased", "apiDestroy"}
INVARIANTS LeaseIntegrity
PROPERTIES OrphanedLeaseReleased
CHECK_DEADLOCK FALSE

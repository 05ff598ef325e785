SPECIFICATION Spec
CONSTANTS
    s1 = s1  s2 = s2  s3 = s3  n1 = n1  n2 = n2
    None = None
    Servers = {s1, s2, s3}
    SectionOf <- TwoAndOne
    Provider = "mullvad"
    Forwarding = {s3}
    Fits = {s1, s2, s3}
    Offers <- Downloads
    ProtonLists <- Sidecar
    Watched = {s2}
    Named = {s1}
    Nodes = {n1, n2}
    TicksPerDay = 2
    MaxTime = 2
    MaxVersion = 2
SYMMETRY Symmetric
INVARIANTS SyncImportsWritten TableFollowsCatalog DistinctServers
PROPERTIES QuarantineHolds
CONSTRAINT Bounded
CHECK_DEADLOCK FALSE

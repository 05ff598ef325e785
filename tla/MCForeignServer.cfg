SPECIFICATION Spec
CONSTANTS
    s1 = s1  s2 = s2  s3 = s3  n1 = n1  n2 = n2
    None = None
    Servers = {s1, s2, s3}
    SectionOf <- TwoAndOne
    Provider = "mullvad"
    Forwarding = {s3}
    Fits = {s1, s2, s3}
    Offers <- Downloads
    ProtonLists <- Sidecar
    Watched = {s2}
    Named = {}
    Nodes = {n1}
    TicksPerDay = 2
    MaxTime = 0
    MaxVersion = 2
INVARIANT PickMeetsConstraints
CHECK_DEADLOCK FALSE

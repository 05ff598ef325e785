SPECIFICATION FairSpec
CONSTANTS
    s1 = s1  s2 = s2  s3 = s3  n1 = n1  n2 = n2  p1 = p1  p2 = p2  p3 = p3
    None = None
    Specs = {s1, s2}
    Nodes = {n1}
    Ports = {p1, p2}
    MinReplicas = 1
    MaxReplicas = 1
    MinFreeReplicas = 0
    Preferred = 1
    MaxPerVpn = 2
    Threshold = 1
    QueueCap = 1
    Env = {"createFails", "apiDelete", "drainNode", "lostEvents"}
PROPERTIES IntentsResolve RegistryConverges

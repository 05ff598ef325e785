SPECIFICATION Spec
CONSTANTS
    e1 = e1  e2 = e2  c1 = c1  c2 = c2
    r1 = r1  r2 = r2  r3 = r3  m1 = m1  m2 = m2  m3 = m3
    Nil = Nil
    Engines = {e1, e2}
    InitialEngines = {e1}
    VpnOf <- TwoVpns
    Leaders = {e1}
    Contents = {c1}
    Requests = {r1, r2}
    Managers = {m1}
    MaxStreams = 1
    MaxTotalStreams = 0
    Kinds = {"hls", "hlsapi"}
    Env = {"clientGivesUp", "stall", "hotSwap", "engineStop", "apiDelete"}
SYMMETRY Symmetric
INVARIANTS NoReservationLeak
CHECK_DEADLOCK FALSE

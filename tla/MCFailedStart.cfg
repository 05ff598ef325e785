SPECIFICATION Spec
CONSTANTS
    e1 = e1  e2 = e2  c1 = c1  c2 = c2
    r1 = r1  r2 = r2  r3 = r3  m1 = m1  m2 = m2  m3 = m3
    Nil = Nil
    Engines = {e1}
    InitialEngines = {e1}
    VpnOf <- TwoVpns
    Leaders = {}
    Contents = {c1, c2}
    Requests = {r1, r2}
    Managers = {m1, m2}
    MaxStreams = 2
    MaxTotalStreams = 0
    Kinds = {"ts"}
    Env = {"requestFails"}
SYMMETRY Symmetric
INVARIANTS RunningIsCounted
CHECK_DEADLOCK FALSE

SPECIFICATION Spec
CONSTANTS
    h1 = h1  h2 = h2  k1 = k1  k2 = k2  k3 = k3  e1 = e1  e2 = e2
    Absent = Absent  Null = Null
    Handlers = {h1, h2}
    Creds = {k1, k2, k3}
    Nameless = {k3}
    Engines = {e1}
    Requests <- NoName
    MaxEvents = 3
    Faults = {}
INVARIANTS CredentialsPersist
CHECK_DEADLOCK FALSE

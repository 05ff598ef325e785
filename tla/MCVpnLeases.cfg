SPECIFICATION Spec
CONSTANTS
    n1 = n1  n2 = n2  n3 = n3  k1 = k1  k2 = k2
    None = None
    Names = {n1, n2, n3}
    Creds = {k1, k2}
    Ports = {1}
    PortsOf <- SharedPorts
    Faults = {"dockerFails", "startFails", "exits", "vanishes", "reconfigure", "apiDestroy", "restart"}
SYMMETRY Symmetric
INVARIANTS TypeOK LeaseIntegrity CredentialExclusive ReservedWhileNeeded PortExclusive
CHECK_DEADLOCK FALSE

CONSTANTS
    p1 = p1
    p2 = p2
    Profile = {p1, p2}
    Addressing <- MCAddressing
    None = None
    MaxFaults = 1
    MaxOps = 3
SYMMETRY Symmetric
SPECIFICATION Spec
INVARIANTS TunnelAsNamed TunnelRecorded ProfilesKept ConnectKeepsConnection
 
CHECK_DEADLOCK FALSE

CONSTANTS
    Node = {n1}
    None = None
    Missing <- MCMissing
    MaxFaults = 1
    MaxEvents = 3
SPECIFICATION Spec
INVARIANTS OriginalsKept 
 
CHECK_DEADLOCK FALSE

SPECIFICATION Spec
CONSTANTS
    Node = {n1, n2}
    Direct = direct
    None = none
    StrictEgress = TRUE
    ApiFaults = TRUE
    SaveFaults = FALSE
    Deaths = {}
    Expiry = FALSE
    Pauses = FALSE
    UserModes = {"auto"}
SYMMETRY Symmetry
INVARIANTS
    NoOrphanIntent
    

SPECIFICATION Spec
CONSTANTS
    Node = {n1, n2}
    Direct = direct
    None = none
    StrictEgress = TRUE
    ApiFaults = FALSE
    SaveFaults = TRUE
    Deaths = {"client", "daemon", "router"}
    Expiry = FALSE
    Pauses = FALSE
    UserModes = {"manual"}
SYMMETRY Symmetry
INVARIANTS
    NoBlackhole
    FailedSwitchReturns

SPECIFICATION Spec
CONSTANTS
    Node = {n1, n2}
    Direct = direct
    None = none
    StrictEgress = TRUE
    ApiFaults = FALSE
    SaveFaults = FALSE
    Deaths = {}
    Expiry = TRUE
    Pauses = TRUE
    UserModes = {"manual", "auto"}
SYMMETRY Symmetry
INVARIANTS
    RouteAsRecorded
    
    IntentCoversRoute
PROPERTIES
    ReturnConfirmed

SPECIFICATION FairSpec
CONSTANTS
    Node = {n1, n2}
    Direct = direct
    None = none
    StrictEgress = TRUE
    ApiFaults = FALSE
    SaveFaults = FALSE
    Deaths = {}
    Expiry = FALSE
    Pauses = TRUE
    UserModes = {"manual"}
PROPERTIES
    IntentResolved
    

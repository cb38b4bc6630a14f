SPECIFICATION FairSpec
CONSTANTS
    None = None
    Unknown = Unknown
    MaxRoutes = 4
    StatusFaults = TRUE
INVARIANT TypeOK
INVARIANT FailoverNearlyConfirmed
INVARIANT FailoverOfFailedRoute
PROPERTY FailureServed

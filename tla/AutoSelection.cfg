SPECIFICATION Spec
CONSTANTS
    None = None
    Listed <- MCListed
    SubOf <- MCSubOf
    Policy <- MCPolicy
    Outcome <- MCOutcome
    Scopes = {"all", "t"}
    Picked = {"b"}
    MaxEvents = 2
    MaxTime = 3
    MaxAttempts = 2
    ReserveLimit = 1
    ProbeLimit = 2
INVARIANTS SelectedPresent
PROPERTIES  UserChoiceKept CooldownKept
CHECK_DEADLOCK FALSE

SPECIFICATION Spec
CONSTANTS
    Absent = absent
    None = none
    Damaged = damaged
    Foreign = foreign
    s = s
    c = c
    daemon = daemon
    cli = cli
    d1 = d1
    d2 = d2
    c1 = c1
    Selector = {s, c}
    Cidr = {c}
    Key = {k}
    BadKey = {bad}
    Process = {daemon, cli}
    Thread = {d1, d2, c1}
    ProcessOf <- MCProcessOf
    Link = {d2}
    OldSettings <- MCOldSettings
    OldStates <- MCOldStates
    MaxDamages = 1
INVARIANTS
    UpgradeKeepsRouting
PROPERTIES
    Implements

CONSTANTS
    h1 = h1
    h2 = h2
    d1 = d1
    d2 = d2
    i1 = i1
    i2 = i2
    i3 = i3
    lan = lan
    s1 = s1
    s2 = s2
    tube = tube
    XX = XX
    None = None
    Host = {h1, h2}
    Dom = {d1, d2}
    Ip = {i1, i2, i3, lan}
    Svc = {s1, s2}
    LocalIp = {lan}
    DnsIp = {i2}
    Presets <- MCPresets
    Families <- MCFamilies
    AddrOf <- MCAddrOf
    Geo <- MCGeo
    Selections <- MCSelections
    Sources <- MCSources
    Catalog <- MCCatalog
    Definitions <- MCDefinitions
    Ports = {12345, 12346}
    MaxOps = 2
    MaxFaults = 1
SPECIFICATION Spec
INVARIANTS  RouterFollows NoDanglingService
 
CHECK_DEADLOCK FALSE

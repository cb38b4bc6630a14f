SPECIFICATION Spec
CONSTANTS
    a = a
    b = b
    x = x
    y = y
    p = p
    q = q
    Url = {url}
    ServerList = serverlist
    Server = {a, b}
    Name = {x, y}
    Params = {p, q}
    Feed <- MCFeed
    Pasted <- MCPasted
    NoSub = nosub
    NoNode = nonode
    SaveFaults = TRUE
    Deaths = TRUE
    MaxHidden = 1
INVARIANTS
    HiddenStaysHidden
    SelectionFollowsRename
    
PROPERTIES
    StoppedBeforeRemoved

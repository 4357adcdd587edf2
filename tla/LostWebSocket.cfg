SPECIFICATION Spec
CONSTANTS
    c1 = c1
    c2 = c2
    h1 = h1
    root = root
    api = api
    nopath = nopath
    nohost = nohost
    d1 = d1
    d2 = d2
    u1 = u1
    u2 = u2
    w1 = w1
    w2 = w2
    w3 = w3
    r1 = r1
    r2 = r2
    Container <- MCContainer
    Hostname = {h1}
    Path <- MCPath
    Root = root
    NoPath = nopath
    Directive <- MCDirective
    User <- MCUser
    Password <- MCPassword
    TooLong = {w3}
    NoHost = nohost
    Environments <- MCEnvironments
    GlobalParts <- MCGlobal
    GlobalHeader = ""
    Certified = {h1}
    WriteFaults = TRUE
    MaxOps = 1
CHECK_DEADLOCK FALSE
INVARIANT WebSocketsServed

SPECIFICATION Spec
CONSTANTS
    d1 = d1
    wild = wild
    g1 = g1
    g2 = g2
    thread = thread
    nobody = nobody
    Domain = {d1}
    WildcardOf <- NoWildcard
    Caller = {g1}
    Asked = {d1}
    Renewer = thread
    Nobody = nobody
    Lifetime = 4
    MinLeft = 1
    RenewLeft = 2
    Cooldown = 1
    OrderURLs = {TRUE}
    Crashes = FALSE
    MaxTime = 4
PROPERTIES RenewedStayWatched

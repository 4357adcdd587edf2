SPECIFICATION FairSpec
CONSTANTS
    d1 = d1
    wild = wild
    g1 = g1
    g2 = g2
    thread = thread
    nobody = nobody
    Domain = {d1, wild}
    WildcardOf <- Subdomain
    Caller = {g1}
    Asked = {d1}
    Renewer = thread
    Nobody = nobody
    Lifetime = 2
    MinLeft = 0
    RenewLeft = 1
    Cooldown = 1
    OrderURLs = {TRUE, FALSE}
    Crashes = TRUE
    MaxTime = 1
INVARIANTS CertTypeOK ChallengeServed CacheNeverLate
PROPERTIES CallsReturn RenewalsStart

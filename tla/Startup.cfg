SPECIFICATION Spec
CONSTANTS
    c1 = c1
    c2 = c2
    h1 = h1
    h2 = h2
    n1 = n1
    n2 = n2
    net1 = net1
    net2 = net2
    me = me
    root = root
    api = api
    Container <- MCContainer
    Hostname <- MCHostname
    Port <- MCPort
    Path <- MCPath
    Slug <- MCSlug
    Sanitized <- MCSanitized
    Entries <- SecureEntries
    Certified = {h1}
    Malformed = {c2}
    Network <- OneNetwork
    NetworkName <- MCNetworkName
    NameOf <- OneName
    Frontend = n1
    Self = me
    SelfNetworks <- OnFirst
    SelfRecognised = TRUE
    Ops <- Arrivals
    Reports <- AllReports
    Replayed <- StartReplay
    DockerFaults = FALSE
    NginxFaults = FALSE
    StreamFaults = FALSE
    MaxOps = 2
INVARIANTS QuietRegistered SecureServersHaveCertificates TLSWins

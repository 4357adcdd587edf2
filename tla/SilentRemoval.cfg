SPECIFICATION Spec
CONSTANTS
    c1 = c1
    c2 = c2
    h1 = h1
    h2 = h2
    n1 = n1
    n2 = n2
    net1 = net1
    net2 = net2
    me = me
    root = root
    api = api
    Container = {c1}
    Hostname = {h1}
    Port <- MCPort
    Path <- MCPath
    Slug <- MCSlug
    Sanitized <- MCSanitized
    Entries <- OneEntry
    Certified = {}
    Malformed = {}
    Network <- OneNetwork
    NetworkName <- MCNetworkName
    NameOf <- OneName
    Frontend = n1
    Self = me
    SelfNetworks <- OnFirst
    SelfRecognised = TRUE
    Ops <- DieOnly
    Reports <- LifecycleReports
    Replayed = {}
    DockerFaults = FALSE
    NginxFaults = FALSE
    StreamFaults = FALSE
    MaxOps = 1
INVARIANTS QuietServesRunning

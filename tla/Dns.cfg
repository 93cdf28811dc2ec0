SPECIFICATION Spec
CONSTANTS
    Co = {c1, c2}
    s1 = s1
    s2 = s2
    s3 = s3
    ResolvConf <- MCResolvConf
    Preferred <- MCPreferred
    Query <- MCQuery
    LocalHosts <- MCLocalHosts
    Response <- MCResponse
    NoServers = NoServers
    NoHost = NoHost
    MaxTid = 2
    MaxNow = 2
    MaxSets = 1
    MaxResolves = 3
INVARIANTS
    ServersKept
PROPERTIES
    WriteBackIsStable
    ResolveEnds
CHECK_DEADLOCK FALSE

SPECIFICATION Spec
CONSTANTS
    None = None
    p443 = p443
    p8443 = p8443
    a1 = a1
    a2 = a2
    b1 = b1
    i1 = i1
    Domain <- MCDomain
    Port = {p443, p8443}
    IPv4 = {a1, a2}
    IPv6 = {b1}
    IfName = {i1}
    Label <- MCLabel
    Lower <- MCLower
    Star = "*"
    Requested <- MCRequested
    NoName <- EmptyName
    Lists <- TwoOnly
    ListenPort = p443
    Streams <- HttpStreams
    MaxReplies = 1
    PeerFaults = {}
CHECK_DEADLOCK FALSE
INVARIANT RoutedByHost

SPECIFICATION FairSpec
CHECK_DEADLOCK FALSE
CONSTANTS
    None = None
    p443 = p443
    a1 = a1  b1 = b1  i1 = i1
    u1 = u1  x1 = x1  x2 = x2  s1 = s1  s2 = s2
    Domain <- MCDomain
    Port = {p443}
    IPv4 = {a1}
    IPv6 = {b1}
    IfName = {i1}
    Label <- MCLabel
    Lower <- MCLower
    Star = "*"
    Requested <- MCRequested
    NoName <- EmptyName
    Client = {u1}
    Handler = {x1, x2}
    Socket = {s1, s2}
    List <- MCList
    ListenPort = p443
    SendFaults = {"refused"}
    Silent = {s1}

INVARIANTS
    TypeOK
    NoSocketLeaks
    NoDeadSession
PROPERTY
    SocketsReclaimed

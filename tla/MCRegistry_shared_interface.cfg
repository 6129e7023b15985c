SPECIFICATION Spec
CONSTANTS
    d1 = d1  d2 = d2
    p443 = p443  p80 = p80
    a1 = a1  a2 = a2  b1 = b1
    i1 = i1  i2 = i2
    c1 = c1  c2 = c2  daemon = daemon
    None = None
    Domain = {d1, d2}
    Port = {p443, p80}
    IPv4 = {a1, a2}
    IPv6 = {b1}
    IfName = {i1, i2}
    Daemon = daemon
    IfOf <- OneIfName
    Cli = {c1}
    Commands <- Sharing
    Faults = {}
    InitialFiles <- OldHost
INVARIANT ServicesCanBind

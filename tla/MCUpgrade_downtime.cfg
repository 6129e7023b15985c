SPECIFICATION Spec
CONSTANTS
    None = None
    ConnFile = ConnFile
    UdpFile = UdpFile
    OwnFile = OwnFile
    p80 = p80
    p443 = p443
    a1 = a1
    a2 = a2
    g1 = g1
    g2 = g2
    k1 = k1
    Conn = {k1}
    Proc = {g1, g2}
    PortList <- TwoPorts
    Addr = {a1, a2}
    UpFirst = {a1}
    Runtime = 2
    MaxFd = 20
    MaxHups = 1
    MaxTerms = 0
    MaxConns = 0
    Faults = {}
CHECK_DEADLOCK FALSE
PROPERTIES
    ZeroDowntime

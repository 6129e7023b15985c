SPECIFICATION Spec
CONSTANTS
    None = None
    p25 = p25
    p443 = p443
    a1 = a1
    a2 = a2
    b1 = b1
    i1 = i1
    Domain <- MCDomain
    Port = {p25, p443}
    IPv4 = {a1, a2}
    IPv6 = {b1}
    IfName = {i1}
    Label <- MCLabel
    Lower <- MCLower
    Star = "*"
    Requested <- MCRequested
    NoName <- EmptyName
    SmtpPort = p25
    Lists <- AllLists
    Mails <- AllMails
    Manners = {"turn", "ahead"}
    PeerFaults = {"reset", "dial", "refuse"}
CHECK_DEADLOCK FALSE
INVARIANTS
    TypeOK
    CommandsIntact
    RoutedByRecipient
    NoFalseAnswer
PROPERTIES
    ImplementsRelay
    RecipientInTime
    HandlerReturns

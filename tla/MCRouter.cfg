SPECIFICATION Spec
CONSTANTS
    p443 = p443  p8443 = p8443  p25 = p25
    a1 = a1  a2 = a2  a3 = a3  a4 = a4  b1 = b1
    i1 = i1
    None = None
    NoName <- EmptyName
    Domain <- MCDomain
    Port = {p443, p8443, p25}
    IPv4 = {a1, a2, a3, a4}
    IPv6 = {b1}
    IfName = {i1}
    Label <- MCLabel
    Lower <- MCLower
    Star = "*"
    Requested <- MCRequested
    Lists <- MCLists
    SmtpPort = p25
INVARIANTS
    TypeOK
    CertCoversName
    OwnPortFirst
    NeverGuesses
    CaseInsensitive

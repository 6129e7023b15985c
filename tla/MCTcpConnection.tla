-------------------------- MODULE MCTcpConnection ---------------------------
(***************************************************************************)
(* Small instances of TcpConnection: a port with two mappings, with one,   *)
(* and with one whose TLS is terminated, and streams of every protocol cut *)
(* at the offsets the code compares with.                                  *)
(***************************************************************************)
EXTENDS TcpConnection

CONSTANTS p443, p8443, a1, a2, i1, b1

MCLabel == {"*", "ex", "own", "net", "com"}
MCLower == [l \in MCLabel |-> l]

Ex  == <<"ex", "com">>
Own == <<"own", "com">>
Net == <<"ex", "net">>

EmptyName == <<>>

MCDomain == {Ex, Own}
MCRequested == {Ex, Own, Net}

M(d, a, tls) ==
    [domain |-> d, port |-> p443, ip4 |-> a, ip6 |-> None, iface |-> None,
     cert |-> tls, tls |-> tls]

Two        == <<M(Ex, a1, FALSE), M(Own, a2, FALSE)>>
One        == <<M(Ex, a1, FALSE)>>
OneDecrypt == <<M(Ex, a1, TRUE)>>
Mixed      == <<M(Own, a2, FALSE), M(Ex, a1, TRUE)>>

AllLists == {Two, One, OneDecrypt, Mixed}
TwoOnly == {Two}

-----------------------------------------------------------------------------
\* The first two bytes of a TLS record, of "GET " and of "SSH-".
TlsLen == 5635
GetLen == 18245
SshLen == 21331

Tls(host, hostAt, hello, cuts) ==
    [proto |-> "tls", host |-> host, hostAt |-> hostAt, knownAt |-> 0,
     dnsLen |-> TlsLen, hello |-> hello, acmeAt |-> 0, cuts |-> cuts]

Other(proto, host, hostAt, dnsLen, cuts) ==
    [Tls(host, hostAt, 0, cuts) EXCEPT
        !.proto = proto, !.dnsLen = dnsLen,
        !.knownAt = IF proto = "http" THEN 4 ELSE 0]

TlsCut     == Tls(Own, 200, 517, {1, 2, 199, 200, 517, 900})
TlsShort   == Tls(Ex, 200, 517, {200, 517, 900})
TlsUnknown == Tls(Net, 200, 517, {150, 517, 900})
TlsNoSNI   == Tls(EmptyName, 0, 300, {150, 300, 500})
TlsFits    == Tls(Own, MaxLookahead, 4500,
                  {MaxLookahead - 1, MaxLookahead, 4500, 5000})
TlsTooBig  == Tls(Own, MaxLookahead + 1, 4500, {MaxLookahead, 4500, 5000})
Ssh        == Other("ssh", EmptyName, 0, SshLen, {2, 4, 40})
Dns        == Other("dns-tcp", Own, 42, 40, {4, 41, 42, 90})
DnsShort   == [Dns EXCEPT !.cuts = {1, 2, 3, 42}]
Binary     == Other("other", EmptyName, 0, 7, {1, 2, 60})
BinaryLong == Other("other", EmptyName, 0, 50, {4, 60})
Http       == Other("http", Own, 60, GetLen, {3, 60, 100})
Challenge  == [Http EXCEPT !.acmeAt = 50, !.cuts = {19, 50, 100}]
GetWhole   == [Http EXCEPT !.cuts = {100}]

AllStreams == {TlsCut, TlsShort, TlsUnknown, TlsNoSNI, TlsFits, TlsTooBig, Ssh,
               Dns, DnsShort, Binary, BinaryLong, Challenge}
HttpStreams == {GetWhole}
=============================================================================

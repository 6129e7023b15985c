--------------------------- MODULE MCUdpSessions ----------------------------
(***************************************************************************)
(* A small instance of UdpSessions: a name with a mapping and one without. *)
(***************************************************************************)
EXTENDS UdpSessions

CONSTANTS p443, a1, b1, i1, u1, x1, x2, s1, s2

MCLabel == {"*", "ex", "own", "com"}
MCLower == [l \in MCLabel |-> l]

Ex  == <<"ex", "com">>
Own == <<"own", "com">>

EmptyName == <<>>

MCDomain == {Ex}
MCRequested == {Ex, Own}

MCList ==
    <<[domain |-> Ex, port |-> p443, ip4 |-> a1, ip6 |-> None, iface |-> None,
       cert |-> FALSE, tls |-> FALSE]>>
=============================================================================

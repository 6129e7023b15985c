------------------------------ MODULE MCRouter ------------------------------
(***************************************************************************)
(* A small instance of Router: a name in two spellings, a wildcard above a *)
(* host of its own, and an unrelated name, on two ports or on port 25.     *)
(***************************************************************************)
EXTENDS Router

CONSTANTS p443, p8443, p25, a1, a2, a3, a4, b1, i1

MCLabel == {"*", "ex", "Ex", "www", "com", "org", "own"}
MCLower == [l \in MCLabel |-> IF l = "Ex" THEN "ex" ELSE l]

Ex   == <<"ex", "com">>
ExUp == <<"Ex", "com">>
Wild == <<"*", "ex", "com">>
Www  == <<"www", "ex", "com">>
Own  == <<"own", "org">>

EmptyName == <<>>

MCDomain == {Ex, ExUp, Wild, Www, Own}

\* Names asked for, one of which no mapping has.
MCRequested == {Ex, ExUp, <<"www", "Ex", "com">>, <<"own", "com">>}

M(d, p, a, tls) ==
    [domain |-> d, port |-> p, ip4 |-> a, ip6 |-> None, iface |-> None,
     cert |-> tls, tls |-> tls]

Candidates ==
    {M(Ex, p443, a1, TRUE), M(ExUp, p443, a2, TRUE),
     M(Wild, p443, a3, TRUE), M(Www, p8443, a4, TRUE),
     [M(Own, p8443, None, TRUE) EXCEPT !.ip6 = b1],
     M(Ex, p25, a1, FALSE)}

MaxMappings == 2

\* Every list of up to MaxMappings candidates, in every order.
MCLists ==
    {ms \in UNION {[1 .. n -> Candidates] : n \in 1 .. MaxMappings} :
        Unique(ms)}
=============================================================================

------------------------------ MODULE Routing -------------------------------
(***************************************************************************)
(* How the proxy chooses the mapping a connection is forwarded to: the     *)
(* lookups of internal/config and the decisions of TCPProxy and UDPProxy.  *)
(*                                                                         *)
(* A domain name is the sequence of its labels.  Lower folds the case of a *)
(* label; Star is the first label of a wildcard name.  The case-sensitive  *)
(* Lookup and LookupByDomain have no caller and are left out.              *)
(***************************************************************************)
EXTENDS Mappings

CONSTANTS
    Label,     \* labels of names, in every spelling
    Lower,     \* [Label -> Label], strings.ToLower
    Star,      \* the label "*"
    Requested, \* the names clients ask for
    NoName     \* no name could be extracted

ASSUME RoutingAssumption ==
    /\ Lower \in [Label -> Label]
    /\ Star \in Label
    /\ Domain \subseteq Seq(Label) \ {<<>>}
    /\ Requested \subseteq Seq(Label) \ {<<>>}
    /\ NoName = <<>>
    /\ None \notin Mapping

-----------------------------------------------------------------------------
Fold(n) == [i \in DOMAIN n |-> Lower[n[i]]]

\* The labels a name ends with, as many as n has after its first one.
Ending(r, n) == SubSeq(r, Len(r) - Len(n) + 2, Len(r))

\* Mutant of MatchFold: the case of a name matters, except below a wildcard.
MatchExact(configured, requested) ==
    \/ configured = requested
    \/ /\ configured[1] = Star
       /\ Len(requested) >= Len(configured)
       /\ Ending(Fold(requested), configured) = Tail(Fold(configured))

\* matchDomainFold: equal up to case, or a wildcard and a name below it.
MatchFold(configured, requested) ==
    \/ Fold(configured) = Fold(requested)
    \/ /\ configured[1] = Star
       /\ Len(requested) >= Len(configured)
       /\ Ending(Fold(requested), configured) = Tail(Fold(configured))

\* The first mapping at one of the positions of P.
FirstOf(ms, P) ==
    IF P = {} THEN None ELSE ms[CHOOSE i \in P : \A j \in P : i <= j]

OnPort(ms, port) == {i \in DOMAIN ms : ms[i].port = port}
Named(ms, name) == {i \in DOMAIN ms : MatchFold(ms[i].domain, name)}

LookupFold(ms, name, port) ==
    FirstOf(ms, Named(ms, name) \cap OnPort(ms, port))

LookupByDomainFold(ms, name) == FirstOf(ms, Named(ms, name))

GetFirstDomain(ms, port) ==
    IF OnPort(ms, port) = {} THEN NoName
    ELSE FirstOf(ms, OnPort(ms, port)).domain

\* Mutant of OnlyOnPort: the first of several.
FirstOnPort(ms, port) == FirstOf(ms, OnPort(ms, port))

\* GetByPort has exactly one result, and it is this one.
OnlyOnPort(ms, port) ==
    IF Cardinality(OnPort(ms, port)) = 1
    THEN FirstOf(ms, OnPort(ms, port))
    ELSE None

GetUniquePorts(ms) == {ms[i].port : i \in DOMAIN ms}

ShouldTerminateTLS(m) == m.cert /\ m.tls

\* The proxy decrypts: only a connection recognised as TLS.
Terminates(to, proto) == proto = "tls" /\ to # None /\ ShouldTerminateTLS(to)

-----------------------------------------------------------------------------
\* Mutant of ByName: the port the client came in on is not looked at.
ByNameAnyPort(ms, name, port) == LookupByDomainFold(ms, name)

\* A mapping of that name on the port the client came in on, or else on any.
ByName(ms, name, port) ==
    LET own == LookupFold(ms, name, port)
    IN  IF own # None THEN own ELSE LookupByDomainFold(ms, name)

\* Mutant of RouteTCP: the only mapping of a port takes every name.
RouteTCPByPort(ms, name, port) ==
    IF OnlyOnPort(ms, port) # None THEN OnlyOnPort(ms, port)
    ELSE IF name = NoName THEN None ELSE ByName(ms, name, port)

\* routeConnection; handleSMTP after the RCPT TO makes the same choice.
RouteTCP(ms, name, port) ==
    IF name # NoName /\ ByName(ms, name, port) # None
    THEN ByName(ms, name, port)
    ELSE OnlyOnPort(ms, port)

\* handlePacket: a first datagram without a name is dropped.
RouteUDP(ms, name, port) ==
    IF name = NoName THEN None ELSE ByName(ms, name, port)
=============================================================================

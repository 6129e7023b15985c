------------------------------- MODULE Router -------------------------------
(***************************************************************************)
(* The daemon as a router: it serves the list it loaded when it started,   *)
(* decides where each connection goes and remembers certificates.          *)
(*                                                                         *)
(* The certificate of a mapping is the file of its own domain              *)
(* (certbot.GetCertPaths), so a certificate is named by that domain.  The  *)
(* cache is indexed by the name the CLIENT asked for, in its spelling, or  *)
(* by the empty name, and lives as long as the daemon.                     *)
(***************************************************************************)
EXTENDS Routing

CONSTANTS
    Lists,    \* the lists the file may hold when the daemon loads it
    SmtpPort  \* the port handled by handleSMTP, 25

\* What Registry guarantees of a list in the file.
ASSUME RouterAssumption ==
    Lists \subseteq {ms \in Seq(Mapping) : Unique(ms) /\ Addressed(ms)}

VARIABLES
    served,    \* the daemon's list, <<>> while it is down
    certCache, \* a function from names to certificates
    last       \* what became of the last connection

vars == <<served, certCache, last>>

Name == Requested \cup {NoName}
Ports == GetUniquePorts(served)

NoConnection ==
    [via |-> "none", port |-> None, name |-> NoName, to |-> None,
     cert |-> None]

Outcome(via, port, name, to, cert) ==
    last' = [via |-> via, port |-> port, name |-> name, to |-> to,
             cert |-> cert]

-----------------------------------------------------------------------------
\* handleDaemon loads the file once and stops when it lists nothing.
StartDaemon(ms) ==
    /\ served = <<>> /\ ms # <<>>
    /\ served' = ms
    /\ certCache' = [n \in {} |-> None]
    /\ last' = NoConnection

StopDaemon ==
    /\ served # <<>>
    /\ served' = <<>>
    /\ certCache' = [n \in {} |-> None]
    /\ last' = NoConnection

\* routeConnection without TLS termination: the bytes are passed through.
PassThrough(port, name, proto) ==
    LET to == RouteTCP(served, name, port) IN
    /\ ~Terminates(to, proto)
    /\ Outcome("tcp", port, name, to, None)
    /\ UNCHANGED <<served, certCache>>

\* handleTLSTermination with the certificate of an earlier connection.
CachedCert(port, name) ==
    LET to == RouteTCP(served, name, port) IN
    /\ Terminates(to, "tls")
    /\ name \in DOMAIN certCache
    /\ Outcome("tcp", port, name, to, certCache[name])
    /\ UNCHANGED <<served, certCache>>

\* handleTLSTermination loads the certificate of the mapping, and keeps it: in
\* one step, because two connections that both find none keep what each would
\* have kept alone, and either is what the name is routed to on its port.
LoadCert(port, name) ==
    LET to == RouteTCP(served, name, port) IN
    /\ Terminates(to, "tls")
    /\ name \notin DOMAIN certCache
    /\ certCache' = [n \in DOMAIN certCache \cup {name} |->
                       IF n = name THEN to.domain ELSE certCache[n]]
    /\ Outcome("tcp", port, name, to, to.domain)
    /\ UNCHANGED served

\* Mutant of LoadCertFails: the failure is cached.
LoadCertCachesNil(port, name) ==
    /\ Terminates(RouteTCP(served, name, port), "tls")
    /\ name \notin DOMAIN certCache
    /\ certCache' = [n \in DOMAIN certCache \cup {name} |->
                       IF n = name THEN None ELSE certCache[n]]
    /\ Outcome("tcp", port, name, None, None)
    /\ UNCHANGED served

\* The certificate cannot be read: the connection is closed.
LoadCertFails(port, name) ==
    /\ Terminates(RouteTCP(served, name, port), "tls")
    /\ name \notin DOMAIN certCache
    /\ Outcome("tcp", port, name, None, None)
    /\ UNCHANGED <<served, certCache>>

\* HandleTCP is one connection on a port other than 25: the name and protocol
\* are what the extractor found.
HandleTCP(port, name, proto) ==
    /\ port # SmtpPort
    /\ \/ PassThrough(port, name, proto)
       \/ proto = "tls" /\ ( \/ CachedCert(port, name)
                             \/ LoadCert(port, name)
                             \/ LoadCertFails(port, name))

\* One mail transaction: the name is that of the first RCPT TO.
HandleSMTP(port, name) ==
    /\ port = SmtpPort /\ name # NoName
    /\ GetFirstDomain(served, port) # NoName
    /\ Outcome("smtp", port, name, RouteTCP(served, name, port), None)
    /\ UNCHANGED <<served, certCache>>

\* The first datagram of a session.
HandleUDP(port, name) ==
    /\ Outcome("udp", port, name, RouteUDP(served, name, port), None)
    /\ UNCHANGED <<served, certCache>>

Connection ==
    \E port \in Ports, name \in Name :
        \/ \E proto \in {"tls", "other"} : HandleTCP(port, name, proto)
        \/ HandleSMTP(port, name)
        \/ HandleUDP(port, name)

Init == served = <<>> /\ certCache = [n \in {} |-> None] /\ last = NoConnection

Next == (\E ms \in Lists : StartDaemon(ms)) \/ StopDaemon \/ Connection

Spec == Init /\ [][Next]_vars

-----------------------------------------------------------------------------
(***************************************************************************)
(* Properties.                                                             *)
(***************************************************************************)
Connected == [via : {"none", "tcp", "smtp", "udp"},
              port : Port \cup {None}, name : Name,
              to : Mapping \cup {None}, cert : Domain \cup {None}]

\* Type correctness.
TypeOK ==
    /\ served \in Lists \cup {<<>>}
    /\ DOMAIN certCache \subseteq Name
    /\ \A n \in DOMAIN certCache : certCache[n] \in Domain
    /\ last \in Connected

Configured(name) == name # NoName /\ Named(served, name) # {}

\* A client that asks for a configured name and whose TLS is terminated is
\* shown a certificate of a domain that name matches, although the cache is
\* shared by all ports and is filled by connections that fell back to
\* whatever mapping a port had.
CertCoversName ==
    last.cert # None /\ Configured(last.name) =>
        MatchFold(last.cert, last.name)

\* A connection leaves its port only for a name that no mapping of that port
\* matches: a mapping of the port itself always goes first.
OwnPortFirst ==
    last.to # None /\ last.to.port # last.port =>
        /\ MatchFold(last.to.domain, last.name)
        /\ Named(served, last.name) \cap OnPort(served, last.port) = {}

\* A connection whose name matches nothing is never given to one of several
\* backends: it goes to the only mapping of its port or nowhere.
NeverGuesses ==
    last.to # None /\ ~Configured(last.name) =>
        OnPort(served, last.port) = {i \in DOMAIN served : served[i] = last.to}

\* "DNS names are case-insensitive": two spellings of a name get the same
\* mapping, whatever the order in which mappings of both spellings were added.
CaseInsensitive ==
    last.via \in {"tcp", "smtp"} =>
        \A n \in Requested :
            Fold(n) = Fold(last.name) =>
                /\ RouteTCP(served, n, last.port)
                     = RouteTCP(served, last.name, last.port)
                /\ RouteUDP(served, n, last.port)
                     = RouteUDP(served, last.name, last.port)
=============================================================================

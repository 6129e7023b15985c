---------------------------- MODULE RouterProofs ----------------------------
(***************************************************************************)
(* Where connections go, for every list with unique keys, every set of     *)
(* names and every relation between them.                                  *)
(***************************************************************************)
EXTENDS Router, RoutingProofs

-----------------------------------------------------------------------------
\* Every certificate in the cache covers the name it is kept under, if that
\* name is configured: this is why a later connection may be shown it.
CacheCovers ==
    \A n \in DOMAIN certCache :
        Configured(n) => MatchFold(certCache[n], n)

IInv == TypeOK /\ CacheCovers /\ CertCoversName

LEMMA ServedType ==
    ASSUME TypeOK
    PROVE  served \in Seq(Mapping)
BY RouterAssumption, EmptySeq DEF TypeOK

\* A step that leaves the list and the cache alone and shows no certificate.
LEMMA OutcomeKeeps ==
    ASSUME IInv, NEW via \in {"tcp", "smtp", "udp"}, NEW port \in Ports,
           NEW name \in Name, NEW to \in Mapping \cup {None},
           Outcome(via, port, name, to, None),
           UNCHANGED <<served, certCache>>
    PROVE  IInv'
<1>1. port \in Port
  <2>1. PICK i \in DOMAIN served : port = served[i].port
    BY DEF Ports, GetUniquePorts
  <2>2. served[i] \in Mapping
    BY <2>1, ServedType, LenProperties, ElementOfSeq DEF IInv
  <2> QED  BY <2>1, <2>2 DEF Mapping
<1>2. TypeOK'
  BY <1>1 DEF IInv, TypeOK, Outcome, Connected
<1>3. CacheCovers'
  BY DEF IInv, CacheCovers, Configured, Named
<1>4. CertCoversName'
  BY DEF Outcome, CertCoversName
<1> QED
  BY <1>2, <1>3, <1>4 DEF IInv

\* The three ways of showing, or failing to show, a certificate.
LEMMA TerminationKeeps ==
    ASSUME IInv, NEW port \in Ports, NEW name \in Name,
           \/ CachedCert(port, name) \/ LoadCert(port, name)
           \/ LoadCertFails(port, name)
    PROVE  IInv'
<1> DEFINE to == RouteTCP(served, name, port)
<1>1. served \in Seq(Mapping)
  BY ServedType DEF IInv
<1>2. port \in Port
  <2>1. PICK i \in DOMAIN served : port = served[i].port
    BY DEF Ports, GetUniquePorts
  <2>2. served[i] \in Mapping
    BY <1>1, LenProperties, ElementOfSeq
  <2> QED  BY <2>1, <2>2 DEF Mapping
<1>3. to \in Mapping \cup {None}
  BY <1>1, RouteType
<1>4. to # None /\ to.domain \in Domain
  BY <1>3 DEF CachedCert, LoadCert, LoadCertFails, Terminates, Mapping
<1>5. Configured(name) => MatchFold(to.domain, name)
  BY <1>1, ByNameMatches DEF Configured, RouteTCP
<1> HIDE DEF to
<1>6. CASE CachedCert(port, name)
  <2>1. /\ name \in DOMAIN certCache
        /\ Outcome("tcp", port, name, to, certCache[name])
        /\ UNCHANGED <<served, certCache>>
    BY <1>6 DEF CachedCert, to
  <2>2. TypeOK'
    BY <1>2, <1>3, <2>1 DEF IInv, TypeOK, Outcome, Connected
  <2>3. CacheCovers'
    BY <2>1 DEF IInv, CacheCovers, Configured, Named
  <2>4. CertCoversName'
    BY <2>1
    DEF IInv, CacheCovers, CertCoversName, Configured, Named, Outcome
  <2> QED  BY <2>2, <2>3, <2>4 DEF IInv
<1>7. CASE LoadCert(port, name)
  <2>1. /\ certCache' = [n \in DOMAIN certCache \cup {name} |->
                           IF n = name THEN to.domain ELSE certCache[n]]
        /\ Outcome("tcp", port, name, to, to.domain)
        /\ UNCHANGED served
    BY <1>7 DEF LoadCert, to
  <2>2. TypeOK'
    BY <1>2, <1>3, <1>4, <2>1 DEF IInv, TypeOK, Outcome, Connected
  <2>3. CacheCovers'
    BY <1>5, <2>1 DEF IInv, CacheCovers, Configured, Named
  <2>4. CertCoversName'
    BY <1>5, <2>1 DEF CertCoversName, Configured, Named, Outcome
  <2> QED  BY <2>2, <2>3, <2>4 DEF IInv
<1>8. CASE LoadCertFails(port, name)
  BY <1>8, OutcomeKeeps DEF LoadCertFails
<1> QED
  BY <1>6, <1>7, <1>8

\* The inductive invariant.
THEOREM IInvHolds == Spec => []IInv
<1>1. Init => IInv
  BY DEF Init, IInv, TypeOK, CacheCovers, CertCoversName, NoConnection,
         Connected, Name
<1>2. IInv /\ [Next]_vars => IInv'
  <2> SUFFICES ASSUME IInv, [Next]_vars  PROVE IInv'
    OBVIOUS
  <2>1. CASE UNCHANGED vars
    BY <2>1
    DEF vars, IInv, TypeOK, CacheCovers, CertCoversName, Configured, Named
  <2>2. ASSUME NEW ms \in Lists, StartDaemon(ms)  PROVE IInv'
    BY <2>2
    DEF StartDaemon, IInv, TypeOK, CacheCovers, CertCoversName,
        NoConnection, Connected, Name
  <2>3. CASE StopDaemon
    BY <2>3
    DEF StopDaemon, IInv, TypeOK, CacheCovers, CertCoversName,
        NoConnection, Connected, Name
  <2>4. ASSUME NEW port \in Ports, NEW name \in Name, NEW proto,
               HandleTCP(port, name, proto)
        PROVE  IInv'
    <3>1. served \in Seq(Mapping)
      BY ServedType DEF IInv
    <3>2. CASE PassThrough(port, name, proto)
      BY <3>1, <3>2, RouteType, OutcomeKeeps DEF PassThrough
    <3>3. CASE \/ CachedCert(port, name) \/ LoadCert(port, name)
               \/ LoadCertFails(port, name)
      BY <3>3, TerminationKeeps
    <3> QED  BY <2>4, <3>2, <3>3 DEF HandleTCP
  <2>5. ASSUME NEW port \in Ports, NEW name \in Name,
               HandleSMTP(port, name) \/ HandleUDP(port, name)
        PROVE  IInv'
    <3>1. served \in Seq(Mapping)
      BY ServedType DEF IInv
    <3> QED
      BY <2>5, <3>1, RouteType, OutcomeKeeps DEF HandleSMTP, HandleUDP
  <2> QED
    BY <2>1, <2>2, <2>3, <2>4, <2>5 DEF Next, Connection
<1> QED
  BY <1>1, <1>2, PTL DEF Spec

\* The variables keep their types, for every set of lists a daemon may load:
\* the cache gives every name it has met the certificate of some domain.
THEOREM TypeCorrect == Spec => []TypeOK
<1>1. IInv => TypeOK
  BY DEF IInv
<1> QED
  BY <1>1, IInvHolds, PTL

\* A client whose name is configured is only shown a certificate of a domain
\* its name matches, for every list and every order of connections.
THEOREM CertificatesCoverNames == Spec => []CertCoversName
<1>1. IInv => CertCoversName
  BY DEF IInv
<1> QED
  BY <1>1, IInvHolds, PTL

-----------------------------------------------------------------------------
\* The last connection went where the lookups sent it, or nowhere.
LastRouted ==
    /\ served \in Seq(Mapping) /\ last.name \in Name
    /\ last.via \in {"tcp", "smtp"} =>
           last.to \in {None, RouteTCP(served, last.name, last.port)}
    /\ last.via = "udp" => last.to = RouteUDP(served, last.name, last.port)
    /\ last.via = "none" => last.to = None
    /\ last.via \in {"none", "tcp", "smtp", "udp"}

LEMMA LastIsRouted == Spec => []LastRouted
<1>1. Init => LastRouted
  BY EmptySeq DEF Init, LastRouted, NoConnection, Name
<1>2. LastRouted /\ [Next]_vars => LastRouted'
  <2> SUFFICES ASSUME LastRouted, [Next]_vars  PROVE LastRouted'
    OBVIOUS
  <2>1. CASE UNCHANGED vars
    BY <2>1 DEF vars, LastRouted
  <2>2. ASSUME NEW ms \in Lists, StartDaemon(ms)  PROVE LastRouted'
    BY <2>2, RouterAssumption DEF StartDaemon, LastRouted, NoConnection, Name
  <2>3. CASE StopDaemon
    BY <2>3, EmptySeq DEF StopDaemon, LastRouted, NoConnection, Name
  <2>4. ASSUME NEW port \in Ports, NEW name \in Name, NEW proto,
               HandleTCP(port, name, proto)
        PROVE  LastRouted'
    <3>1. \E to \in {None, RouteTCP(served, name, port)} : \E cert :
             Outcome("tcp", port, name, to, cert)
      BY <2>4 DEF HandleTCP, PassThrough, CachedCert, LoadCert, LoadCertFails
    <3>2. served' = served
      BY <2>4 DEF HandleTCP, PassThrough, CachedCert, LoadCert, LoadCertFails
    <3> QED
      BY <3>1, <3>2 DEF LastRouted, Outcome
  <2>5. ASSUME NEW port \in Ports, NEW name \in Name,
               HandleSMTP(port, name) \/ HandleUDP(port, name)
        PROVE  LastRouted'
    BY <2>5 DEF HandleSMTP, HandleUDP, LastRouted, Outcome
  <2> QED
    BY <2>1, <2>2, <2>3, <2>4, <2>5 DEF Next, Connection
<1> QED
  BY <1>1, <1>2, PTL DEF Spec

LEMMA LastIsChosen ==
    ASSUME LastRouted, last.to # None
    PROVE  last.to \in {RouteTCP(served, last.name, last.port),
                        RouteUDP(served, last.name, last.port)}
BY DEF LastRouted

\* A connection leaves its port only for a name that no mapping of the port
\* matches, for every list.
THEOREM OwnPortComesFirst == Spec => []OwnPortFirst
<1>1. LastRouted => OwnPortFirst
  <2> SUFFICES ASSUME LastRouted, last.to # None, last.to.port # last.port
               PROVE  /\ MatchFold(last.to.domain, last.name)
                      /\ Named(served, last.name) \cap OnPort(served, last.port) = {}
    BY DEF OwnPortFirst
  <2>1. served \in Seq(Mapping)
    BY DEF LastRouted
  <2>2. last.to # OnlyOnPort(served, last.port)
    BY <2>1, OnlyOnPortIsAlone
  <2>3. /\ Named(served, last.name) # {}
        /\ last.to = ByName(served, last.name, last.port)
    BY <2>1, <2>2, LastIsChosen, ChoiceIsJustified
  <2> QED
    BY <2>1, <2>3, ByNameMatches
<1> QED
  BY <1>1, LastIsRouted, PTL

\* A connection whose name matches nothing goes to the only mapping of its
\* port or nowhere, for every list.
THEOREM NothingIsGuessed == Spec => []NeverGuesses
<1>1. LastRouted => NeverGuesses
  <2> SUFFICES ASSUME LastRouted, last.to # None, ~Configured(last.name)
               PROVE  OnPort(served, last.port)
                        = {i \in DOMAIN served : served[i] = last.to}
    BY DEF NeverGuesses
  <2>1. served \in Seq(Mapping)
    BY DEF LastRouted
  <2>2. last.to = OnlyOnPort(served, last.port)
    <3>1. ~(last.name # NoName /\ Named(served, last.name) # {})
      BY DEF Configured
    <3>2. last.to \in {RouteTCP(served, last.name, last.port),
                       RouteUDP(served, last.name, last.port)}
      BY LastIsChosen
    <3> DEFINE name == last.name
               port == last.port
               to == last.to
    <3>3. \/ to = OnlyOnPort(served, port)
          \/ name # NoName /\ Named(served, name) # {} /\ to = ByName(served, name, port)
      <4>1. to \in {RouteTCP(served, name, port), RouteUDP(served, name, port)} /\ to # None
        BY <3>2
      <4> HIDE DEF name, port, to
      <4> QED
        BY <2>1, <4>1, ChoiceIsJustified
    <3> QED
      BY <3>1, <3>3
  <2> QED
    BY <2>1, <2>2, OnlyOnPortIsAlone
<1> QED
  BY <1>1, LastIsRouted, PTL

\* Two spellings of a name get the same mapping, whatever the list.
THEOREM SpellingsAgree == Spec => []CaseInsensitive
<1>1. LastRouted => CaseInsensitive
  BY SpellingsRoute DEF LastRouted, CaseInsensitive, Name
<1> QED
  BY <1>1, LastIsRouted, PTL
=============================================================================

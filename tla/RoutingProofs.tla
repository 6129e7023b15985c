--------------------------- MODULE RoutingProofs ----------------------------
(***************************************************************************)
(* What the lookups return, for every list and every relation between      *)
(* names.                                                                  *)
(***************************************************************************)
EXTENDS Routing, MappingsProofs, FiniteSetTheorems

\* FirstOf returns the first mapping at the given positions, or None.
LEMMA FirstOfIsFirst ==
    ASSUME NEW ms \in Seq(Mapping), NEW P, P \subseteq DOMAIN ms
    PROVE  /\ P = {} => FirstOf(ms, P) = None
           /\ P # {} => \E i \in P : /\ FirstOf(ms, P) = ms[i]
                                     /\ \A j \in P : i <= j
           /\ P # {} => FirstOf(ms, P) \in Mapping /\ FirstOf(ms, P) # None
<1>1. P \subseteq 1 .. Len(ms) /\ P \subseteq Nat
  BY LenProperties
<1>2. ASSUME P # {}
      PROVE  \E i \in P : FirstOf(ms, P) = ms[i] /\ \A j \in P : i <= j
  BY <1>1, <1>2, LeastPosition DEF FirstOf
<1>3. P # {} => FirstOf(ms, P) \in Mapping
  BY <1>1, <1>2, ElementOfSeq
<1> QED
  BY <1>2, <1>3, RoutingAssumption DEF FirstOf

\* A name that some mapping matches is routed to a mapping it matches, on the
\* port it came in on if that port has one.
LEMMA ByNameMatches ==
    ASSUME NEW ms \in Seq(Mapping), NEW name, NEW port,
           Named(ms, name) # {}
    PROVE  /\ ByName(ms, name, port) \in Mapping
           /\ ByName(ms, name, port) # None
           /\ MatchFold(ByName(ms, name, port).domain, name)
           /\ Named(ms, name) \cap OnPort(ms, port) # {} =>
                  ByName(ms, name, port).port = port
<1> DEFINE own == LookupFold(ms, name, port)
           any == LookupByDomainFold(ms, name)
           here == Named(ms, name) \cap OnPort(ms, port)
<1>1. Named(ms, name) \subseteq DOMAIN ms /\ here \subseteq DOMAIN ms
  BY DEF Named
<1>2. CASE here # {}
  <2>1. PICK i \in here : own = ms[i]
    BY <1>1, <1>2, FirstOfIsFirst DEF LookupFold
  <2>2. own \in Mapping /\ own # None
    BY <1>1, <1>2, FirstOfIsFirst DEF LookupFold
  <2>3. MatchFold(own.domain, name) /\ own.port = port
    BY <2>1 DEF Named, OnPort
  <2> QED  BY <2>2, <2>3 DEF ByName
<1>3. CASE here = {}
  <2>1. own = None
    BY <1>1, <1>3, FirstOfIsFirst DEF LookupFold
  <2>2. PICK i \in Named(ms, name) : any = ms[i]
    BY <1>1, FirstOfIsFirst DEF LookupByDomainFold
  <2>3. any \in Mapping /\ any # None
    BY <1>1, FirstOfIsFirst DEF LookupByDomainFold
  <2>4. MatchFold(any.domain, name)
    BY <2>2 DEF Named
  <2> QED  BY <1>3, <2>1, <2>3, <2>4 DEF ByName
<1> QED  BY <1>2, <1>3

LEMMA ByNameUnmatched ==
    ASSUME NEW ms \in Seq(Mapping), NEW name, NEW port,
           Named(ms, name) = {}
    PROVE  ByName(ms, name, port) = None
<1>1. LookupFold(ms, name, port) = None
  BY FirstOfIsFirst DEF LookupFold
<1>2. LookupByDomainFold(ms, name) = None
  BY FirstOfIsFirst DEF LookupByDomainFold
<1> QED
  BY <1>1, <1>2 DEF ByName

\* Every connection is routed to a mapping of the list or to none.
LEMMA RouteType ==
    ASSUME NEW ms \in Seq(Mapping), NEW name, NEW port
    PROVE  /\ RouteTCP(ms, name, port) \in Mapping \cup {None}
           /\ RouteUDP(ms, name, port) \in Mapping \cup {None}
<1>1. ByName(ms, name, port) \in Mapping \cup {None}
  BY ByNameMatches, ByNameUnmatched
<1>2. OnlyOnPort(ms, port) \in Mapping \cup {None}
  <2>1. OnPort(ms, port) \subseteq DOMAIN ms
    BY DEF OnPort
  <2> QED  BY <2>1, FirstOfIsFirst DEF OnlyOnPort
<1> QED
  BY <1>1, <1>2 DEF RouteTCP, RouteUDP

\* The fallback to the port finds the mapping of the port, if there is one only.
LEMMA OnlyOnPortIsAlone ==
    ASSUME NEW ms \in Seq(Mapping), NEW port, OnlyOnPort(ms, port) # None
    PROVE  /\ OnlyOnPort(ms, port).port = port
           /\ OnPort(ms, port)
                = {i \in DOMAIN ms : ms[i] = OnlyOnPort(ms, port)}
<1> DEFINE here == OnPort(ms, port)
<1>1. here \subseteq DOMAIN ms /\ IsFiniteSet(here)
  <2>1. DOMAIN ms = 1 .. Len(ms) /\ Len(ms) \in Nat
    BY LenProperties
  <2>2. IsFiniteSet(DOMAIN ms)
    BY <2>1, FS_Interval
  <2> QED  BY <2>2, FS_Subset DEF OnPort
<1>2. Cardinality(here) = 1 /\ OnlyOnPort(ms, port) = FirstOf(ms, here)
  BY DEF OnlyOnPort
<1>3. PICK i : here = {i}
  BY <1>1, <1>2, FS_Singleton
<1>4. OnlyOnPort(ms, port) = ms[i]
  BY <1>1, <1>2, <1>3, FirstOfIsFirst
<1> QED
  BY <1>3, <1>4 DEF OnPort

\* What a mapping that was chosen has to do with the name and the port.
LEMMA ChoiceIsJustified ==
    ASSUME NEW ms \in Seq(Mapping), NEW name, NEW port, NEW to,
           to \in {RouteTCP(ms, name, port), RouteUDP(ms, name, port)},
           to # None
    PROVE  /\ \/ to = OnlyOnPort(ms, port)
              \/ name # NoName /\ Named(ms, name) # {} /\ to = ByName(ms, name, port)
           /\ name # NoName /\ Named(ms, name) # {} => to = ByName(ms, name, port)
<1>1. Named(ms, name) = {} => ByName(ms, name, port) = None
  BY ByNameUnmatched
<1>2. Named(ms, name) # {} => ByName(ms, name, port) # None
  BY ByNameMatches
<1> QED
  BY <1>1, <1>2 DEF RouteTCP, RouteUDP

\* Two spellings of a name match the same mappings.
LEMMA SpellingsMatch ==
    ASSUME NEW n \in Requested, NEW m \in Requested \cup {NoName},
           Fold(n) = Fold(m)
    PROVE  m # NoName /\ \A c : MatchFold(c, n) <=> MatchFold(c, m)
<1>1. n \in Seq(Label) /\ n # <<>> /\ m \in Seq(Label)
  BY RoutingAssumption, EmptySeq
<1>2. DOMAIN n = DOMAIN m
  BY DEF Fold
<1>3. Len(n) = Len(m)
  BY <1>1, <1>2, LenProperties
<1>4. m # <<>>
  BY <1>1, <1>3, LenProperties, EmptySeq
<1> QED
  BY <1>3, <1>4, RoutingAssumption DEF MatchFold

LEMMA SpellingsRoute ==
    ASSUME NEW n \in Requested, NEW m \in Requested \cup {NoName},
           Fold(n) = Fold(m), NEW ms, NEW port
    PROVE  /\ RouteTCP(ms, n, port) = RouteTCP(ms, m, port)
           /\ RouteUDP(ms, n, port) = RouteUDP(ms, m, port)
<1>1. n # NoName /\ m # NoName
  BY SpellingsMatch, RoutingAssumption
<1>2. Named(ms, n) = Named(ms, m)
  BY SpellingsMatch DEF Named
<1>3. ByName(ms, n, port) = ByName(ms, m, port)
  BY <1>2 DEF ByName, LookupFold, LookupByDomainFold
<1> QED
  BY <1>1, <1>3 DEF RouteTCP, RouteUDP
=============================================================================

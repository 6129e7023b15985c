------------------------------ MODULE Mappings ------------------------------
(***************************************************************************)
(* The domain mappings of internal/config and the list operations the      *)
(* commands apply to them.  A mapping is identified by its domain AND its  *)
(* listen port; the list keeps the order in which mappings were added,     *)
(* because every lookup of the proxy takes the first match.                *)
(*                                                                         *)
(* Names, addresses and ports are model values.  A certificate is present  *)
(* or absent: its two paths are always set together and are a function of  *)
(* the domain (certbot.GetCertPaths).                                      *)
(***************************************************************************)
EXTENDS Integers, SequencesExt

CONSTANTS
    Domain,     \* domain names, compared as they are written
    Port,       \* listen (and backend) ports
    IPv4, IPv6, \* backend addresses of each family
    IfName,     \* names of dummy interfaces
    None        \* the empty string of the code

ASSUME NoneAssumption == None \notin IPv4 \cup IPv6 \cup IfName

-----------------------------------------------------------------------------
Mapping ==
    [domain : Domain, port : Port,
     ip4 : IPv4 \cup {None}, ip6 : IPv6 \cup {None},
     iface : IfName \cup {None}, cert : BOOLEAN, tls : BOOLEAN]

Key(m) == <<m.domain, m.port>>

Keys(ms) == {Key(ms[i]) : i \in DOMAIN ms}

\* The positions of the mappings of key k, and the first of them.
Positions(ms, k) == {i \in DOMAIN ms : Key(ms[i]) = k}
First(ms, k) == CHOOSE i \in Positions(ms, k) :
                    \A j \in Positions(ms, k) : i <= j

Get(ms, k) == ms[First(ms, k)]

-----------------------------------------------------------------------------
Add(ms, dm) == Append(ms, dm)

\* Mutant of Merge: the certificate is copied even when dm has none.
MergeCopiesCert(m, dm) ==
    [m EXCEPT !.ip4 = dm.ip4, !.ip6 = dm.ip6,
              !.iface = IF dm.iface # None THEN dm.iface ELSE m.iface,
              !.cert = dm.cert, !.tls = dm.tls]

\* What Update copies from dm: the interface and the certificate only when dm
\* has one, the TLS mode always.
Merge(m, dm) ==
    [m EXCEPT !.ip4   = dm.ip4,
              !.ip6   = dm.ip6,
              !.iface = IF dm.iface # None THEN dm.iface ELSE m.iface,
              !.cert  = m.cert \/ dm.cert,
              !.tls   = dm.tls]

\* Mutant of Update: the changed mapping moves to the end of the list.
UpdateToEnd(ms, dm) ==
    LET i == First(ms, Key(dm))
    IN  Append(RemoveAt(ms, i), Merge(ms[i], dm))

Update(ms, dm) ==
    LET i == First(ms, Key(dm)) IN [ms EXCEPT ![i] = Merge(ms[i], dm)]

Delete(ms, k) == RemoveAt(ms, First(ms, k))

-----------------------------------------------------------------------------
\* No two mappings of a list have the same domain and port.
Unique(ms) ==
    \A i, j \in DOMAIN ms : Key(ms[i]) = Key(ms[j]) => i = j

\* Every mapping of a list has an address to forward to.
Addressed(ms) ==
    \A i \in DOMAIN ms : ms[i].ip4 # None \/ ms[i].ip6 # None

\* The mappings that are in both lists are in the same order.
SameOrder(old, new) ==
    \A i, j \in DOMAIN old, m, n \in DOMAIN new :
        (i < j /\ Key(old[i]) = Key(new[m]) /\ Key(old[j]) = Key(new[n]))
            => m < n

\* The mappings of a list with unique keys as a table indexed by their keys.
Table(ms) == [k \in Keys(ms) |-> Get(ms, k)]
=============================================================================

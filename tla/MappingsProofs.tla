--------------------------- MODULE MappingsProofs ---------------------------
(***************************************************************************)
(* What the list operations of Mappings keep.                              *)
(***************************************************************************)
EXTENDS Mappings, SequenceTheorems, WellFoundedInduction, TLAPS

\* A loop over a list that stops at the first position of P stops at one.
LEMMA LeastPosition ==
    ASSUME NEW P, P \subseteq Nat, P # {}
    PROVE  LET i == CHOOSE i \in P : \A j \in P : i <= j
           IN  i \in P /\ \A j \in P : i <= j
<1>1. PICK i \in P : \A j \in P : <<j, i>> \notin OpToRel(<, Nat)
  BY NatLessThanWellFounded, WFMin, Zenon
<1>2. \A j \in P : i <= j
  <2> SUFFICES ASSUME NEW j \in P, ~(i <= j)
               PROVE  <<j, i>> \in OpToRel(<, Nat)
    BY <1>1
  <2>1. <<j, i>> \in Nat \X Nat /\ j < i
    OBVIOUS
  <2>2. <<j, i>>[1] < <<j, i>>[2]
    BY <2>1
  <2> QED  BY <2>1, <2>2, Zenon DEF OpToRel
<1> QED
  BY <1>2

LEMMA MinOfTwo ==
    ASSUME NEW a \in Nat, NEW b \in Nat
    PROVE  Min({a, b}) \in {a, b} /\ Min({a, b}) <= a /\ Min({a, b}) <= b
<1>1. \E x \in {a, b} : \A y \in {a, b} : x =< y
  OBVIOUS
<1>2. Min({a, b}) \in {a, b} /\ \A y \in {a, b} : Min({a, b}) =< y
  BY <1>1 DEF Min
<1> QED
  BY <1>2

LEMMA MaxOfTwo ==
    ASSUME NEW a \in Nat, NEW b \in Nat
    PROVE  Max({a, b}) \in {a, b} /\ Max({a, b}) >= a /\ Max({a, b}) >= b
<1>1. \E x \in {a, b} : \A y \in {a, b} : x >= y
  OBVIOUS
<1>2. Max({a, b}) \in {a, b} /\ \A y \in {a, b} : Max({a, b}) >= y
  BY <1>1 DEF Max
<1> QED
  BY <1>2

\* The first position of a key that occurs is a position of that key: the loop
\* of Get, Update and Delete stops at a mapping with the key it looks for.
LEMMA FirstIsPosition ==
    ASSUME NEW ms \in Seq(Mapping), NEW k \in Keys(ms)
    PROVE  First(ms, k) \in DOMAIN ms /\ Key(ms[First(ms, k)]) = k
<1>1. DOMAIN ms \subseteq Nat
  BY LenProperties
<1>2. Positions(ms, k) \subseteq Nat /\ Positions(ms, k) # {}
  BY <1>1 DEF Positions, Keys
<1>3. First(ms, k) \in Positions(ms, k)
  BY <1>2, LeastPosition DEF First
<1> QED
  BY <1>3 DEF Positions

\* Every mapping of the old list is where it was, with the key it had.
InPlace(old, new) ==
    \A i \in DOMAIN old : i \in DOMAIN new /\ Key(new[i]) = Key(old[i])

\* Every mapping of the new list but those of key k is one of the old.
OthersFrom(old, new, k) ==
    \A j \in DOMAIN new :
        Key(new[j]) # k => \E i \in DOMAIN old : new[j] = old[i]

\* Appending a mapping of a new key.
LEMMA AddKeeps ==
    ASSUME NEW ms \in Seq(Mapping), NEW dm \in Mapping
    PROVE  /\ Add(ms, dm) \in Seq(Mapping)
           /\ Keys(Add(ms, dm)) = Keys(ms) \cup {Key(dm)}
           /\ InPlace(ms, Add(ms, dm)) /\ OthersFrom(ms, Add(ms, dm), Key(dm))
           /\ Unique(ms) /\ Key(dm) \notin Keys(ms) => Unique(Add(ms, dm))
           /\ Addressed(ms) /\ (dm.ip4 # None \/ dm.ip6 # None)
                => Addressed(Add(ms, dm))
<1> DEFINE new == Add(ms, dm)
<1>1. /\ new \in Seq(Mapping)
      /\ Len(new) = Len(ms) + 1
      /\ \A i \in 1 .. Len(ms) : new[i] = ms[i]
      /\ new[Len(ms) + 1] = dm
  BY AppendProperties DEF Add
<1>2. DOMAIN new = 1 .. Len(ms) + 1 /\ DOMAIN ms = 1 .. Len(ms)
      /\ Len(ms) \in Nat
  BY <1>1, LenProperties
<1> HIDE DEF new
<1>3. /\ Keys(new) = Keys(ms) \cup {Key(dm)}
      /\ InPlace(ms, new) /\ OthersFrom(ms, new, Key(dm))
  BY <1>1, <1>2 DEF Keys, InPlace, OthersFrom
<1>4. ASSUME Unique(ms), Key(dm) \notin Keys(ms)  PROVE Unique(new)
  <2> SUFFICES ASSUME NEW i \in DOMAIN new, NEW j \in DOMAIN new,
                      Key(new[i]) = Key(new[j])
               PROVE  i = j
    BY DEF Unique
  <2>1. CASE i \in DOMAIN ms /\ j \in DOMAIN ms
    BY <2>1, <1>1, <1>2, <1>4 DEF Unique
  <2>2. CASE i \in DOMAIN ms /\ j = Len(ms) + 1
    BY <2>2, <1>1, <1>2, <1>4 DEF Keys
  <2>3. CASE j \in DOMAIN ms /\ i = Len(ms) + 1
    BY <2>3, <1>1, <1>2, <1>4 DEF Keys
  <2> QED  BY <2>1, <2>2, <2>3, <1>2
<1>5. ASSUME Addressed(ms), dm.ip4 # None \/ dm.ip6 # None
      PROVE  Addressed(new)
  <2> SUFFICES ASSUME NEW i \in DOMAIN new
               PROVE  new[i].ip4 # None \/ new[i].ip6 # None
    BY DEF Addressed
  <2>1. CASE i \in DOMAIN ms
    BY <2>1, <1>1, <1>2, <1>5 DEF Addressed
  <2>2. CASE i = Len(ms) + 1
    BY <2>2, <1>1, <1>5
  <2> QED  BY <2>1, <2>2, <1>2
<1> QED
  BY <1>1, <1>3, <1>4, <1>5 DEF new

\* Merging keeps the key and the type, and takes both addresses from dm.
LEMMA MergeKeeps ==
    ASSUME NEW m \in Mapping, NEW dm \in Mapping
    PROVE  /\ Merge(m, dm) \in Mapping
           /\ Key(Merge(m, dm)) = Key(m)
           /\ Merge(m, dm).ip4 = dm.ip4
           /\ Merge(m, dm).ip6 = dm.ip6
           /\ m.cert => Merge(m, dm).cert
<1>1. Merge(m, dm) \in Mapping
  <2> DEFINE iface == IF dm.iface # None THEN dm.iface ELSE m.iface
             cert  == m.cert \/ dm.cert
  <2>1. iface \in IfName \cup {None}
    BY DEF Mapping
  <2>2. cert \in BOOLEAN
    OBVIOUS
  <2>3. Merge(m, dm) = [m EXCEPT !.ip4 = dm.ip4, !.ip6 = dm.ip6, !.iface = iface,
                                 !.cert = cert, !.tls = dm.tls]
    BY DEF Merge
  <2> HIDE DEF iface, cert
  <2> QED
    BY <2>1, <2>2, <2>3 DEF Mapping
<1>2. /\ Merge(m, dm).domain = m.domain /\ Merge(m, dm).port = m.port
      /\ Merge(m, dm).ip4 = dm.ip4 /\ Merge(m, dm).ip6 = dm.ip6
      /\ Merge(m, dm).cert = (m.cert \/ dm.cert)
  BY DEF Merge, Mapping
<1> QED
  BY <1>1, <1>2 DEF Key

\* Updating the mapping of a key that occurs.
LEMMA UpdateKeeps ==
    ASSUME NEW ms \in Seq(Mapping), NEW dm \in Mapping,
           Key(dm) \in Keys(ms)
    PROVE  /\ Update(ms, dm) \in Seq(Mapping)
           /\ Keys(Update(ms, dm)) = Keys(ms)
           /\ InPlace(ms, Update(ms, dm))
           /\ OthersFrom(ms, Update(ms, dm), Key(dm))
           /\ \A i \in DOMAIN ms : ms[i].cert => Update(ms, dm)[i].cert
           /\ Unique(ms) => Unique(Update(ms, dm))
           /\ Addressed(ms) /\ (dm.ip4 # None \/ dm.ip6 # None)
                => Addressed(Update(ms, dm))
<1> DEFINE n == First(ms, Key(dm))
           new == Update(ms, dm)
<1>1. n \in DOMAIN ms /\ Key(ms[n]) = Key(dm)
  BY FirstIsPosition
<1>2. ms[n] \in Mapping
  BY <1>1, LenProperties, ElementOfSeq
<1>3. /\ Merge(ms[n], dm) \in Mapping
      /\ Key(Merge(ms[n], dm)) = Key(ms[n])
      /\ Merge(ms[n], dm).ip4 = dm.ip4
      /\ Merge(ms[n], dm).ip6 = dm.ip6
      /\ ms[n].cert => Merge(ms[n], dm).cert
  BY <1>2, MergeKeeps
<1>4. new = [ms EXCEPT ![n] = Merge(ms[n], dm)]
  BY DEF Update
<1>5. DOMAIN ms = 1 .. Len(ms) /\ n \in 1 .. Len(ms)
  BY <1>1, LenProperties
<1> HIDE DEF n, new
<1>6. /\ new \in Seq(Mapping)
      /\ DOMAIN new = DOMAIN ms
      /\ new[n] = Merge(ms[n], dm)
      /\ \A i \in DOMAIN ms : i # n => new[i] = ms[i]
  BY <1>1, <1>3, <1>4, <1>5, ExceptSeq, LenProperties
<1>7. \A i \in DOMAIN ms : Key(new[i]) = Key(ms[i])
  BY <1>3, <1>6
<1>8. Keys(new) = Keys(ms) /\ InPlace(ms, new)
  BY <1>6, <1>7 DEF Keys, InPlace
<1>9. Unique(ms) => Unique(new)
  BY <1>6, <1>7 DEF Unique
<1>10. Addressed(ms) /\ (dm.ip4 # None \/ dm.ip6 # None) => Addressed(new)
  BY <1>3, <1>6 DEF Addressed
<1>11. /\ OthersFrom(ms, new, Key(dm))
       /\ \A i \in DOMAIN ms : ms[i].cert => new[i].cert
  BY <1>1, <1>3, <1>6 DEF OthersFrom
<1> QED
  BY <1>6, <1>8, <1>9, <1>10, <1>11 DEF new

\* Deleting the mapping of a key that occurs.
LEMMA DeleteKeeps ==
    ASSUME NEW ms \in Seq(Mapping), NEW k \in Keys(ms)
    PROVE  /\ Delete(ms, k) \in Seq(Mapping)
           /\ Unique(ms) => Unique(Delete(ms, k))
           /\ Unique(ms) => Keys(Delete(ms, k)) = Keys(ms) \ {k}
           /\ OthersFrom(ms, Delete(ms, k), k)
           /\ Unique(ms) => SameOrder(ms, Delete(ms, k))
           /\ Addressed(ms) => Addressed(Delete(ms, k))
<1> DEFINE n == First(ms, k)
           l == Len(ms)
           front == SubSeq(ms, 1, n - 1)
           back == SubSeq(ms, n + 1, l)
           new == Delete(ms, k)
<1>1. n \in DOMAIN ms /\ Key(ms[n]) = k
  BY FirstIsPosition
<1>2. l \in Nat /\ DOMAIN ms = 1 .. l /\ n \in 1 .. l
  BY <1>1, LenProperties
<1>3. new = front \o back
  BY DEF Delete, RemoveAt
<1> HIDE DEF n, l, new
<1>4. /\ front \in Seq(Mapping)
      /\ Len(front) = n - 1
      /\ \A i \in 1 .. n - 1 : front[i] = ms[i]
  BY <1>2, SubSeqProperties DEF l
<1>5. /\ back \in Seq(Mapping)
      /\ Len(back) = l - n
      /\ \A i \in 1 .. l - n : back[i] = ms[n + i]
  <2>1. \A i \in n + 1 .. l : ms[i] \in Mapping
    BY <1>2
  <2>2. /\ back \in Seq(Mapping)
        /\ Len(back) = IF n + 1 <= l THEN l - (n + 1) + 1 ELSE 0
        /\ \A i \in 1 .. l - (n + 1) + 1 : back[i] = ms[(n + 1) + i - 1]
    BY <1>2, <2>1, SubSeqProperties
  <2> HIDE DEF back
  <2>3. \A i \in 1 .. l - n : i \in 1 .. l - (n + 1) + 1
                            /\ (n + 1) + i - 1 = n + i
    BY <1>2
  <2> QED  BY <1>2, <2>2, <2>3
<1> HIDE DEF front, back
<1>6. /\ new \in Seq(Mapping)
      /\ Len(new) = l - 1
      /\ \A i \in 1 .. l - 1 : new[i] = IF i < n THEN ms[i] ELSE ms[i + 1]
  BY <1>2, <1>3, <1>4, <1>5, ConcatProperties
<1>7. DOMAIN new = 1 .. l - 1
  BY <1>6, LenProperties
\* Where a mapping of the shorter list stood in the longer one.
<1> DEFINE from(i) == IF i < n THEN i ELSE i + 1
<1>8. \A i \in DOMAIN new : /\ from(i) \in DOMAIN ms /\ from(i) # n
                            /\ new[i] = ms[from(i)]
  BY <1>2, <1>6, <1>7
<1>9. \A i, j \in DOMAIN new : from(i) = from(j) => i = j
  BY <1>2, <1>7
<1>10. \A j \in DOMAIN ms : j # n => \E i \in DOMAIN new : from(i) = j
  <2> SUFFICES ASSUME NEW j \in DOMAIN ms, j # n
               PROVE  \E i \in DOMAIN new : from(i) = j
    OBVIOUS
  <2>1. CASE j < n
    <3>1. j \in DOMAIN new /\ from(j) = j
      BY <2>1, <1>2, <1>7
    <3> QED  BY <3>1
  <2>2. CASE j > n
    <3>1. j - 1 \in DOMAIN new /\ from(j - 1) = j
      BY <2>2, <1>2, <1>7
    <3> QED  BY <3>1
  <2> QED  BY <2>1, <2>2, <1>2
<1> HIDE DEF from
<1>11. Unique(ms) => Unique(new)
  BY <1>8, <1>9 DEF Unique
<1>12. Addressed(ms) => Addressed(new)
  BY <1>8 DEF Addressed
<1>13. ASSUME Unique(ms)  PROVE Keys(new) = Keys(ms) \ {k}
  <2>1. \A i \in DOMAIN new : Key(new[i]) \in Keys(ms) \ {k}
    BY <1>1, <1>8, <1>13 DEF Unique, Keys
  <2>2. \A j \in DOMAIN ms : Key(ms[j]) # k =>
            \E i \in DOMAIN new : Key(new[i]) = Key(ms[j])
    BY <1>1, <1>8, <1>10
  <2> QED  BY <2>1, <2>2 DEF Keys
<1>14. OthersFrom(ms, new, k)
  BY <1>8 DEF OthersFrom
<1>15. ASSUME Unique(ms)  PROVE SameOrder(ms, new)
  <2> SUFFICES ASSUME NEW i \in DOMAIN ms, NEW j \in DOMAIN ms,
                      NEW a \in DOMAIN new, NEW b \in DOMAIN new,
                      i < j, Key(ms[i]) = Key(new[a]), Key(ms[j]) = Key(new[b])
               PROVE  a < b
    BY DEF SameOrder
  <2>1. from(a) = i /\ from(b) = j
    BY <1>8, <1>15 DEF Unique
  <2> QED
    BY <2>1, <1>2, <1>7 DEF from
<1> QED
  BY <1>6, <1>11, <1>12, <1>13, <1>14, <1>15 DEF new

-----------------------------------------------------------------------------
\* Mappings that stay where they are keep their order.
LEMMA InPlaceOrdered ==
    ASSUME NEW old \in Seq(Mapping), NEW new \in Seq(Mapping),
           Unique(new), InPlace(old, new)
    PROVE  SameOrder(old, new)
BY LenProperties DEF SameOrder, InPlace, Unique

\* A list with unique keys, as a table, maps the key of each mapping to it.
LEMMA TableOfList ==
    ASSUME NEW ms \in Seq(Mapping), Unique(ms)
    PROVE  /\ Keys(ms) \subseteq Domain \X Port
           /\ Table(ms) \in [Keys(ms) -> Mapping]
           /\ \A i \in DOMAIN ms : Table(ms)[Key(ms[i])] = ms[i]
<1>1. \A i \in DOMAIN ms : ms[i] \in Mapping
  BY LenProperties, ElementOfSeq
<1>2. \A k \in Keys(ms) : First(ms, k) \in DOMAIN ms /\ Key(ms[First(ms, k)]) = k
  BY FirstIsPosition
<1>3. Keys(ms) \subseteq Domain \X Port
  BY <1>1 DEF Keys, Key, Mapping
<1>4. \A i \in DOMAIN ms : Key(ms[i]) \in Keys(ms) /\ Get(ms, Key(ms[i])) = ms[i]
  BY <1>2 DEF Keys, Get, Unique
<1>5. \A k \in Keys(ms) : Get(ms, k) \in Mapping
  BY <1>1, <1>2 DEF Get
<1> QED
  BY <1>3, <1>4, <1>5 DEF Table

\* The tables of two lists agree on every key both have, but k.
LEMMA TablesAgree ==
    ASSUME NEW old \in Seq(Mapping), NEW new \in Seq(Mapping),
           Unique(old), Unique(new), NEW k, OthersFrom(old, new, k)
    PROVE  \A q \in (Keys(new) \cap Keys(old)) \ {k} :
               Table(new)[q] = Table(old)[q]
<1> SUFFICES ASSUME NEW j \in DOMAIN new, Key(new[j]) # k
             PROVE  Table(new)[Key(new[j])] = Table(old)[Key(new[j])]
  BY DEF Keys
<1>1. PICK i \in DOMAIN old : new[j] = old[i]
  BY DEF OthersFrom
<1> QED
  BY <1>1, TableOfList
=============================================================================

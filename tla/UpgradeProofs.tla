--------------------------- MODULE UpgradeProofs ----------------------------
(***************************************************************************)
(* Safety of the hand-over for every list of ports, every set of           *)
(* addresses, any number of processes, signals and descriptors.            *)
(***************************************************************************)
EXTENDS Upgrade, FiniteSetTheorems, SequenceTheorems, WellFoundedInduction, TLAPS

Descriptors == [Fd -> File \cup {None}]

LEMMA Numbers ==
    /\ Fd \subseteq Nat /\ IsFiniteSet(Fd) /\ MaxFd \in Nat
    /\ IsFiniteSet(Port) /\ Cardinality(Port) \in Nat
    /\ None \notin Proc /\ None \notin File /\ None \notin Listener
<1>1. IsFiniteSet(Fd)
  BY FS_Interval, UpgradeAssumption DEF Fd
<1>2. IsFiniteSet(Port)
  <2>1. DOMAIN PortList = 1 .. Len(PortList) /\ Len(PortList) \in Nat
    BY UpgradeAssumption, LenProperties
  <2>2. PortList \in Surjection(1 .. Len(PortList), Port)
    BY <2>1, UpgradeAssumption DEF Surjection, Port, ToSet
  <2>3. IsFiniteSet(1 .. Len(PortList))
    BY <2>1, FS_Interval
  <2> QED
    BY <2>2, <2>3, FS_Surjection
<1>3. Cardinality(Port) \in Nat
  BY <1>2, FS_CardinalityType
<1> QED
  BY <1>1, <1>2, <1>3, UpgradeAssumption DEF Fd, File

-----------------------------------------------------------------------------
(***************************************************************************)
(* Tables of descriptors.                                                  *)
(***************************************************************************)
UpTo(t, n) == {m \in Free(t) : m <= n}

LEMMA RankType ==
    ASSUME NEW t, NEW n \in Nat
    PROVE  /\ IsFiniteSet(Free(t)) /\ IsFiniteSet(UpTo(t, n))
           /\ Rank(t, n) = Cardinality(UpTo(t, n)) /\ Rank(t, n) \in Nat
           /\ n \in Free(t) => Rank(t, n) >= 1
<1>1. Free(t) \subseteq Fd /\ UpTo(t, n) \subseteq Free(t)
  BY DEF Free, UpTo
<1>2. IsFiniteSet(Free(t))
  BY <1>1, Numbers, FS_Subset
<1>3. IsFiniteSet(UpTo(t, n))
  BY <1>1, <1>2, FS_Subset
<1>4. Rank(t, n) = Cardinality(UpTo(t, n))
  BY DEF Rank, UpTo
<1>5. Rank(t, n) \in Nat
  BY <1>3, <1>4, FS_CardinalityType
<1>6. ASSUME n \in Free(t)  PROVE Rank(t, n) # 0
  <2>1. n \in UpTo(t, n)
    BY <1>6 DEF UpTo
  <2> QED
    BY <1>3, <1>4, <2>1, FS_EmptySet
<1> QED
  BY <1>2, <1>3, <1>4, <1>5, <1>6

\* As many free descriptors as there are can be given out.
LEMMA NthFreeIsFree ==
    ASSUME NEW t, NEW i \in 1 .. Cardinality(Free(t))
    PROVE  NthFree(t, i) \in Free(t) /\ Rank(t, NthFree(t, i)) = i
<1> DEFINE D == {n \in Nat : Rank(t, n) >= i}
<1>0. /\ IsFiniteSet(Free(t)) /\ Free(t) \subseteq Fd /\ MaxFd \in Nat
      /\ Cardinality(Free(t)) \in Nat /\ i \in Nat /\ i >= 1
      /\ i <= Cardinality(Free(t)) /\ Fd \subseteq Nat
  <2>1. IsFiniteSet(Free(t)) /\ Free(t) \subseteq Fd
    BY RankType DEF Free
  <2>2. Cardinality(Free(t)) \in Nat
    BY <2>1, FS_CardinalityType
  <2> QED
    BY <2>1, <2>2, Numbers
<1>1. MaxFd \in D
  <2>1. UpTo(t, MaxFd) = Free(t)
    BY <1>0 DEF Free, Fd, UpTo
  <2>2. Rank(t, MaxFd) = Cardinality(Free(t))
    BY <1>0, <2>1, RankType
  <2> QED
    BY <1>0, <2>2
<1>2. PICK n \in D : \A j \in D : <<j, n>> \notin OpToRel(<, Nat)
  <2>1. D \subseteq Nat /\ D # {}
    BY <1>1
  <2> HIDE DEF D
  <2> QED
    BY <2>1, NatLessThanWellFounded, WFMin, Zenon
<1>3. \A j \in Nat : j < n => j \notin D
  <2> SUFFICES ASSUME NEW j \in D, j < n
               PROVE  <<j, n>> \in OpToRel(<, Nat)
    BY <1>2
  <2>1. <<j, n>> \in Nat \X Nat /\ <<j, n>>[1] < <<j, n>>[2]
    OBVIOUS
  <2> QED  BY <2>1, Zenon DEF OpToRel
<1>4. n \in Nat /\ Rank(t, n) >= i
  OBVIOUS
<1>5. PICK below \in SUBSET Free(t) :
          /\ IsFiniteSet(below) /\ Cardinality(below) < i
          /\ UpTo(t, n) = IF n \in Free(t) THEN below \cup {n} ELSE below
  <2>1. CASE n = 0
    <3>1. UpTo(t, n) = {} /\ n \notin Free(t)
      BY <2>1, <1>0 DEF Fd, UpTo
    <3> QED
      BY <1>0, <3>1, FS_EmptySet
  <2>2. CASE n > 0
    <3>1. n - 1 \in Nat /\ n - 1 \notin D
      BY <1>3, <1>4, <2>2
    <3>2. /\ Rank(t, n - 1) \in Nat /\ Rank(t, n - 1) = Cardinality(UpTo(t, n - 1))
          /\ IsFiniteSet(UpTo(t, n - 1))
      BY <3>1, RankType
    <3>3. Cardinality(UpTo(t, n - 1)) < i
      BY <1>0, <3>1, <3>2
    <3>4. UpTo(t, n) = IF n \in Free(t) THEN UpTo(t, n - 1) \cup {n}
                                        ELSE UpTo(t, n - 1)
      <4>1. ASSUME NEW x \in Free(t)
            PROVE  (x <= n) <=> (x <= n - 1 \/ x = n)
        <5>1. x \in Nat
          BY <1>0
        <5> QED
          BY <1>4, <5>1
      <4> QED
        BY <1>0, <1>4, <4>1 DEF UpTo
    <3>5. UpTo(t, n - 1) \subseteq Free(t)
      BY DEF UpTo
    <3> QED
      BY <3>2, <3>3, <3>4, <3>5
  <2> QED
    BY <1>4, <2>1, <2>2
<1>6. /\ Cardinality(below) \in Nat /\ Rank(t, n) \in Nat
      /\ Rank(t, n) = Cardinality(UpTo(t, n))
  BY <1>4, <1>5, FS_CardinalityType, RankType
<1>7. n \in Free(t)
  BY <1>0, <1>4, <1>5, <1>6
<1>8. Rank(t, n) <= Cardinality(below) + 1
  <2>1. UpTo(t, n) = below \cup {n} /\ IsFiniteSet(below)
    BY <1>5, <1>7
  <2>2. \/ Cardinality(below \cup {n}) = Cardinality(below)
        \/ Cardinality(below \cup {n}) = Cardinality(below) + 1
    <3> HIDE DEF D
    <3> QED
      BY <2>1, FS_AddElement, Zenon
  <2>3. \/ Rank(t, n) = Cardinality(below)
        \/ Rank(t, n) = Cardinality(below) + 1
    BY <1>6, <2>1, <2>2
  <2> HIDE DEF D
  <2> QED
    BY <1>6, <2>3
<1>9. Rank(t, n) = i
  BY <1>0, <1>4, <1>5, <1>6, <1>8
<1> QED
  BY <1>7, <1>9 DEF NthFree

LEMMA FirstFreeIsFree ==
    ASSUME NEW t, Free(t) # {}
    PROVE  NthFree(t, 1) \in Free(t)
<1>1. IsFiniteSet(Free(t)) /\ Cardinality(Free(t)) \in Nat
  BY RankType, FS_CardinalityType, Numbers
<1>2. 1 \in 1 .. Cardinality(Free(t))
  BY <1>1, FS_EmptySet
<1> QED
  BY <1>2, NthFreeIsFree

\* Opening files changes free numbers only.
LEMMA OpenAllFills ==
    ASSUME NEW t \in Descriptors, NEW files \in Seq(File)
    PROVE  /\ OpenAll(t, files) \in Descriptors
           /\ \A n \in Fd : t[n] # None => OpenAll(t, files)[n] = t[n]
<1>1. Len(files) \in Nat /\ \A i \in 1 .. Len(files) : files[i] \in File
  BY LenProperties, ElementOfSeq
<1>2. \A n \in Fd : t[n] = None => Rank(t, n) \in Nat /\ Rank(t, n) >= 1
  BY RankType, Numbers DEF Free
<1> QED
  BY <1>1, <1>2 DEF OpenAll, Descriptors

-----------------------------------------------------------------------------
(***************************************************************************)
(* The inductive invariant.  A number is closed by the process that opened *)
(* it, or by InheritListener because it was told it.  So what a process    *)
(* has at a number it was not told is still what it opened there, until    *)
(* Stop closes it.                                                         *)
(***************************************************************************)
\* The ports a process has started.
Begun(r) == CASE r.pc \in {"gone", "setup"} -> {}
              [] r.pc \in {"port", "listen"} -> Port \ ToSet(r.todo)
              [] r.pc = "udp" -> Port \ ToSet(Tail(r.todo))
              [] OTHER -> Port

\* A listener that is saved, unless its number is one the process was told.
SavedOK(r) ==
    \A p \in Port : r.saved[p] \notin Told(r) \cup {0} =>
        /\ r.saved[p] \in r.listeners[p]
        /\ r.fd[r.saved[p]] \in Addr \X {p}

\* And so for connections, which do not share it.
ConnsOK(r) ==
    \A c \in Conn : r.conns[c] \notin Told(r) \cup {0} =>
        /\ r.fd[r.conns[c]] = ConnFile
        /\ \A d \in Conn : r.conns[d] = r.conns[c] => d = c

\* A port that is started and not saved has been inherited.
BegunOK(r) ==
    \A p \in Begun(r) : r.saved[p] = 0 =>
        r.announced[p] # 0 /\ r.listeners[p] # {}

ProcOK(r) ==
    /\ r.pc \in {"port", "listen", "udp"} => r.todo # <<>>
    /\ r.pc = "gone" => r.hup = "off"
    /\ r.pc = "close" \/ r.hup = "close" => r.quit
    /\ ~r.quit => SavedOK(r) /\ ConnsOK(r) /\ BegunOK(r)

IInv == TypeOK /\ \A g \in Proc : ProcOK(proc[g])

EnvOK == /\ links \in BOOLEAN /\ public \in SUBSET Addr
         /\ hups \in 0 .. MaxHups /\ terms \in 0 .. MaxTerms
         /\ opened \in 0 .. MaxConns

\* r holds what o does: only its goroutines and signals may differ.
SameHeld(r, o) ==
    /\ r.announced = o.announced /\ r.todo = o.todo /\ r.fd = o.fd
    /\ r.saved = o.saved /\ r.listeners = o.listeners /\ r.conns = o.conns

LEMMA SameIsOK ==
    ASSUME NEW r, NEW o, SameHeld(r, o), ProcOK(o), Begun(r) = Begun(o),
           r.quit = o.quit, r.pc \in {"port", "listen", "udp"} => r.pc = o.pc,
           r.pc = "gone" => o.pc = "gone" /\ r.hup = o.hup,
           r.pc = "close" => o.pc = "close", r.hup = "close" => o.hup = "close"
    PROVE  ProcOK(r)
<1>1. /\ SavedOK(o) => SavedOK(r)
      /\ ConnsOK(o) => ConnsOK(r)
      /\ BegunOK(o) => BegunOK(r)
  BY DEF SameHeld, SavedOK, ConnsOK, BegunOK, Told
<1> QED
  BY <1>1 DEF ProcOK, SameHeld

LEMMA GoneIsOK == Gone \in Process /\ ProcOK(Gone) /\ Gone.pc = "gone"
<1>1. /\ Nowhere \in [Port -> Fd \cup {0}] /\ <<>> \in Seq(Port)
      /\ Gone.fd \in [Fd -> File \cup {None}]
      /\ Gone.listeners \in [Port -> SUBSET Fd]
      /\ Gone.conns \in [Conn -> Fd \cup {0}]
  BY EmptySeq DEF Nowhere, Gone
<1>2. Gone \in Process
  BY <1>1 DEF Gone, Process
<1>3. SavedOK(Gone) /\ ConnsOK(Gone) /\ BegunOK(Gone)
  BY DEF SavedOK, ConnsOK, BegunOK, Begun, Gone, Nowhere
<1> QED
  BY <1>2, <1>3 DEF ProcOK, Gone

\* What orphans lose is their parent.
LEMMA OrphansAreOK ==
    ASSUME NEW ps \in [Proc -> Process], \A g \in Proc : ProcOK(ps[g])
    PROVE  /\ Orphaned(ps) \in [Proc -> Process]
           /\ \A g \in Proc : /\ ProcOK(Orphaned(ps)[g])
                              /\ Orphaned(ps)[g].pc = ps[g].pc
                              /\ \/ Orphaned(ps)[g].parent = None
                                 \/ /\ Orphaned(ps)[g].parent \in Proc
                                    /\ ps[Orphaned(ps)[g].parent].pc # "gone"
<1> DEFINE qs == Orphaned(ps)
<1>1. ASSUME NEW g \in Proc
      PROVE  /\ qs[g] \in Process /\ SameHeld(qs[g], ps[g])
             /\ qs[g].pc = ps[g].pc /\ qs[g].hup = ps[g].hup
             /\ qs[g].quit = ps[g].quit
             /\ \/ qs[g].parent = None
                \/ qs[g].parent \in Proc /\ ps[qs[g].parent].pc # "gone"
  <2>1. ps[g] \in Process
    OBVIOUS
  <2>2. CASE ps[g].parent # None /\ ps[ps[g].parent].pc = "gone"
    <3>1. qs[g] = [ps[g] EXCEPT !.parent = None]
      BY <2>2 DEF Orphaned
    <3> QED
      BY <2>1, <3>1 DEF Process, SameHeld
  <2>3. CASE ~(ps[g].parent # None /\ ps[ps[g].parent].pc = "gone")
    <3>1. qs[g] = ps[g]
      BY <2>3 DEF Orphaned
    <3>2. ps[g].parent \in Proc \cup {None}
      BY <2>1 DEF Process
    <3> QED
      BY <2>1, <2>3, <3>1, <3>2 DEF SameHeld
  <2> QED
    BY <2>2, <2>3
<1>2. qs \in [Proc -> Process]
  <2>1. qs = [g \in Proc |-> qs[g]]
    BY DEF qs, Orphaned
  <2> HIDE DEF qs
  <2> QED
    BY <1>1, <2>1
<1> HIDE DEF qs
<1>3. ASSUME NEW g \in Proc  PROVE ProcOK(qs[g])
  <2>1. Begun(qs[g]) = Begun(ps[g])
    BY <1>1 DEF Begun, SameHeld
  <2> QED
    BY <1>1, <2>1, SameIsOK
<1> QED
  BY <1>1, <1>2, <1>3 DEF qs

\* Any processes that are well formed may be the next.
LEMMA BecomeKeeps ==
    ASSUME IInv, NEW ps \in [Proc -> Process], \A g \in Proc : ProcOK(ps[g]),
           Become(ps), EnvOK'
    PROVE  IInv'
<1>1. proc' = Orphaned(ps)
  BY DEF Become
<1>2. proc' \in [Proc -> Process] /\ \A g \in Proc : ProcOK(proc'[g])
  BY <1>1, OrphansAreOK
<1>3. \A g \in Alive' : proc'[g].parent \in Alive' \cup {None}
  BY <1>1, OrphansAreOK DEF Alive
<1>4. unit' \in Alive' \cup {"dead", "killed", "none"}
  BY <1>1, OrphansAreOK DEF Become, IInv, TypeOK, Alive
<1> QED
  BY <1>2, <1>3, <1>4 DEF IInv, TypeOK, EnvOK

LEMMA NowKeeps ==
    ASSUME IInv, NEW g \in Proc, NEW r \in Process, ProcOK(r), Now(g, r), EnvOK'
    PROVE  IInv'
<1> DEFINE ps == [proc EXCEPT ![g] = r]
<1>1. proc \in [Proc -> Process] /\ \A h \in Proc : ProcOK(proc[h])
  BY DEF IInv, TypeOK
<1>2. ps \in [Proc -> Process] /\ \A h \in Proc : ProcOK(ps[h])
  BY <1>1
<1> HIDE DEF ps
<1> QED
  BY <1>2, BecomeKeeps DEF Now, ps

LEMMA GoneKeeps ==
    ASSUME IInv, NEW g \in Proc, Now(g, Gone), EnvOK'  PROVE IInv'
BY GoneIsOK, NowKeeps

LEMMA ProcIsOK ==
    ASSUME IInv, NEW g \in Proc
    PROVE  proc[g] \in Process /\ ProcOK(proc[g])
BY DEF IInv, TypeOK

\* A number a process has, and was not told, is not closed by what closes only
\* numbers it was told, nor by what opens a free one.
LEMMA TableKeeps ==
    ASSUME NEW o \in Process, NEW r \in Process, SavedOK(o), ConnsOK(o),
           r.announced = o.announced, r.saved = o.saved, r.conns = o.conns,
           \A p \in Port : o.listeners[p] \subseteq r.listeners[p],
           \A n \in Fd : n \in Told(o) \/ o.fd[n] = None \/ r.fd[n] = o.fd[n]
    PROVE  SavedOK(r) /\ ConnsOK(r)
<1>1. Told(r) = Told(o)
  BY DEF Told
<1>2. /\ None # ConnFile
      /\ \A p \in Port : None \notin Addr \X {p}
  <2>1. \A p \in Port : Addr \X {p} \subseteq File
    BY DEF File, Listener
  <2> QED
    BY <2>1, Numbers DEF File
<1>3. ASSUME NEW p \in Port, r.saved[p] \notin Told(r) \cup {0}
      PROVE  /\ r.saved[p] \in r.listeners[p]
             /\ r.fd[r.saved[p]] \in Addr \X {p}
  <2>1. r.saved[p] \in Fd
    BY <1>3 DEF Process
  <2>2. r.saved[p] \in o.listeners[p] /\ o.fd[r.saved[p]] \in Addr \X {p}
    BY <1>1, <1>3 DEF SavedOK
  <2>3. r.fd[r.saved[p]] = o.fd[r.saved[p]]
    BY <1>1, <1>2, <1>3, <2>1, <2>2
  <2> QED
    BY <2>2, <2>3
<1>4. ASSUME NEW c \in Conn, r.conns[c] \notin Told(r) \cup {0}
      PROVE  /\ r.fd[r.conns[c]] = ConnFile
             /\ \A d \in Conn : r.conns[d] = r.conns[c] => d = c
  <2>1. r.conns[c] \in Fd
    BY <1>4 DEF Process
  <2>2. /\ o.fd[r.conns[c]] = ConnFile
        /\ \A d \in Conn : r.conns[d] = r.conns[c] => d = c
    BY <1>1, <1>4 DEF ConnsOK
  <2> QED
    BY <1>1, <1>2, <1>4, <2>1, <2>2
<1> QED
  BY <1>3, <1>4 DEF SavedOK, ConnsOK

-----------------------------------------------------------------------------
(***************************************************************************)
(* Start-up.                                                               *)
(***************************************************************************)
LEMMA TodoType ==
    ASSUME NEW todo \in Seq(Port), todo # <<>>
    PROVE  /\ Head(todo) \in Port /\ Tail(todo) \in Seq(Port)
           /\ \A p \in ToSet(todo) : p = Head(todo) \/ p \in ToSet(Tail(todo))
<1>1. Head(todo) \in Port /\ Tail(todo) \in Seq(Port) /\ Len(todo) \in Nat
      /\ Len(Tail(todo)) = Len(todo) - 1
  BY HeadTailProperties, LenProperties
<1>2. ASSUME NEW i \in DOMAIN todo
      PROVE  todo[i] = Head(todo) \/ todo[i] \in ToSet(Tail(todo))
  <2>1. CASE i = 1
    BY <2>1
  <2>2. CASE i # 1
    <3>1. i - 1 \in DOMAIN Tail(todo) /\ Tail(todo)[i - 1] = todo[i]
      BY <2>2, <1>1
    <3> QED
      BY <3>1 DEF ToSet
  <2> QED
    BY <2>1, <2>2
<1> QED
  BY <1>1, <1>2 DEF ToSet

LEMMA SetupKeeps == ASSUME IInv, NEW g \in Proc, Setup(g)  PROVE IInv'
<1> DEFINE o == proc[g]
           r == [o EXCEPT !.pc = "port", !.todo = PortList]
<1>1. o \in Process /\ ProcOK(o) /\ o.pc = "setup" /\ Now(g, r) /\ EnvOK'
  BY ProcIsOK DEF Setup, EnvOK, IInv, TypeOK
<1> HIDE DEF o
<1>2. /\ r \in Process /\ r.pc = "port" /\ r.todo = PortList
      /\ r.announced = o.announced /\ r.fd = o.fd /\ r.saved = o.saved
      /\ r.listeners = o.listeners /\ r.conns = o.conns
      /\ r.quit = o.quit /\ r.hup = o.hup
  BY <1>1, UpgradeAssumption DEF Process
<1> HIDE DEF r
<1>3. ~o.quit => SavedOK(r) /\ ConnsOK(r)
  BY <1>1, <1>2, TableKeeps DEF ProcOK
<1>4. BegunOK(r)
  BY <1>2 DEF Begun, BegunOK, Port
<1>5. ProcOK(r)
  BY <1>1, <1>2, <1>3, <1>4, UpgradeAssumption DEF ProcOK
<1> QED
  BY <1>1, <1>2, <1>5, NowKeeps

\* InheritListener closes a number it was told, and opens a free one.
LEMMA BeginPortKeeps == ASSUME IInv, NEW g \in Proc, BeginPort(g)  PROVE IInv'
<1> DEFINE o == proc[g]
           p == Head(o.todo)
           n == o.announced[p]
           new == NthFree(o.fd, 1)
<1>1. /\ o \in Process /\ ProcOK(o) /\ o.pc = "port" /\ EnvOK' /\ public \in SUBSET Addr
      /\ Now(g, IF Inherits(o, p) THEN [Inherit(o, p) EXCEPT !.pc = "udp"]
                ELSE [Close(o, n) EXCEPT !.pc = "listen", !.left = public])
  BY ProcIsOK DEF BeginPort, EnvOK, IInv, TypeOK, env
<1>2. /\ o.todo \in Seq(Port) /\ o.todo # <<>> /\ p \in Port
      /\ \A q \in ToSet(o.todo) : q = p \/ q \in ToSet(Tail(o.todo))
      /\ o.fd \in Descriptors /\ n \in Fd \cup {0}
      /\ o.listeners \in [Port -> SUBSET Fd]
      /\ n # 0 => n \in Told(o)
  BY <1>1, TodoType DEF Process, ProcOK, Descriptors, Told
<1> HIDE DEF o, p, n, new
<1>3. CASE Inherits(o, p)
  <2> DEFINE fd == [o.fd EXCEPT ![new] = o.fd[n], ![n] = None]
             ls == [o.listeners EXCEPT ![p] = @ \cup {new}]
             r == [o EXCEPT !.fd = fd, !.listeners = ls, !.pc = "udp"]
  <2>1. n # 0 /\ n \in Fd /\ Free(o.fd) # {}
    BY <1>2, <1>3 DEF Inherits, n
  <2>2. new \in Fd /\ o.fd[new] = None
    BY <2>1, FirstFreeIsFree DEF Free, new
  <2>3. /\ fd \in Descriptors
        /\ \A m \in Fd : m = n \/ o.fd[m] = None \/ fd[m] = o.fd[m]
    BY <1>2, <2>1, <2>2 DEF Descriptors
  <2>4. /\ ls \in [Port -> SUBSET Fd] /\ ls[p] # {}
        /\ \A q \in Port : o.listeners[q] \subseteq ls[q]
    BY <1>2, <2>2
  <2>5. Now(g, r)
    <3>1. r = [Inherit(o, p) EXCEPT !.pc = "udp"]
      BY <1>1 DEF Process, Inherit, n, new
    <3> QED
      BY <1>1, <1>3, <3>1
  <2> HIDE DEF fd, ls
  <2>6. /\ r \in Process /\ r.fd = fd /\ r.announced = o.announced
        /\ r.saved = o.saved /\ r.listeners = ls /\ r.conns = o.conns
        /\ r.pc = "udp" /\ r.todo = o.todo /\ r.quit = o.quit /\ r.hup = o.hup
    BY <1>1, <2>3, <2>4 DEF Process, Descriptors
  <2> HIDE DEF r
  <2>7. ~o.quit => SavedOK(r) /\ ConnsOK(r)
    <3>1. \A m \in Fd : m \in Told(o) \/ o.fd[m] = None \/ r.fd[m] = o.fd[m]
      BY <1>2, <2>1, <2>3, <2>6
    <3> QED
      BY <1>1, <2>4, <2>6, <3>1, TableKeeps DEF ProcOK
  <2>8. ASSUME ~o.quit  PROVE BegunOK(r)
    <3> SUFFICES ASSUME NEW q \in Begun(r), r.saved[q] = 0
                 PROVE  r.announced[q] # 0 /\ r.listeners[q] # {}
      BY DEF BegunOK
    <3>1. CASE q = p
      BY <2>1, <2>4, <2>6, <3>1 DEF n
    <3>2. CASE q # p
      <4>1. q \in Begun(o) /\ q \in Port
        BY <1>1, <1>2, <2>6, <3>2 DEF Begun
      <4>2. o.announced[q] # 0 /\ o.listeners[q] # {}
        BY <1>1, <2>6, <2>8, <4>1 DEF ProcOK, BegunOK
      <4> QED
        BY <2>4, <2>6, <4>1, <4>2
    <3> QED
      BY <3>1, <3>2
  <2>9. ProcOK(r)
    BY <1>1, <1>2, <2>6, <2>7, <2>8 DEF ProcOK
  <2> QED
    BY <1>1, <2>5, <2>6, <2>9, NowKeeps
<1>4. CASE ~Inherits(o, p)
  <2> DEFINE fd == IF n = 0 THEN o.fd ELSE [o.fd EXCEPT ![n] = None]
             r == [o EXCEPT !.fd = fd, !.pc = "listen", !.left = public]
  <2>1. /\ fd \in Descriptors
        /\ \A m \in Fd : m \in Told(o) \/ o.fd[m] = None \/ fd[m] = o.fd[m]
    BY <1>2 DEF Descriptors
  <2>2. Now(g, r)
    <3>1. r = [Close(o, n) EXCEPT !.pc = "listen", !.left = public]
      BY <1>1 DEF Close, Process
    <3> QED
      BY <1>1, <1>4, <3>1
  <2> HIDE DEF fd
  <2>3. /\ r \in Process /\ r.fd = fd /\ r.announced = o.announced
        /\ r.saved = o.saved /\ r.listeners = o.listeners /\ r.conns = o.conns
        /\ r.pc = "listen" /\ r.todo = o.todo /\ r.quit = o.quit /\ r.hup = o.hup
    BY <1>1, <2>1 DEF Process, Descriptors
  <2> HIDE DEF r
  <2>4. ~o.quit => SavedOK(r) /\ ConnsOK(r)
    BY <1>1, <2>1, <2>3, TableKeeps DEF ProcOK
  <2>5. Begun(r) = Begun(o)
    BY <1>1, <2>3 DEF Begun
  <2>6. BegunOK(o) => BegunOK(r)
    BY <2>3, <2>5 DEF BegunOK
  <2>7. ProcOK(r)
    BY <1>1, <1>2, <2>3, <2>4, <2>6 DEF ProcOK
  <2> QED
    BY <1>1, <2>2, <2>3, <2>7, NowKeeps
<1> QED
  BY <1>3, <1>4

\* A listener that is opened takes a free number.
LEMMA ListenKeeps == ASSUME IInv, NEW g \in Proc, Listen(g)  PROVE IInv'
<1> DEFINE o == proc[g]
           p == Head(o.todo)
           n == NthFree(o.fd, 1)
<1>1. o \in Process /\ ProcOK(o) /\ o.pc = "listen" /\ EnvOK'
  BY ProcIsOK DEF Listen, EnvOK, IInv, TypeOK, env
<1>2. /\ o.todo \in Seq(Port) /\ o.todo # <<>> /\ p \in Port
      /\ o.fd \in Descriptors /\ o.left \subseteq Addr
      /\ o.listeners \in [Port -> SUBSET Fd]
      /\ o.saved \in [Port -> Fd \cup {0}]
  BY <1>1, TodoType DEF Process, ProcOK, Descriptors
<1> DEFINE less(a) == [o EXCEPT !.left = @ \ {a}]
           opening(r, a, q, m) == [r EXCEPT !.fd[m] = <<a, q>>,
                                            !.listeners[q] = @ \cup {m},
                                            !.saved[q] = IF @ = 0 THEN m ELSE @]
<1>a. PICK a \in o.left :
         Now(g, IF Bound(<<a, Head(less(a).todo)>>) \/ Free(less(a).fd) = {}
                THEN less(a)
                ELSE opening(less(a), a, Head(less(a).todo), NthFree(less(a).fd, 1)))
  BY Zenon DEF Listen
<1>b. less(a).todo = o.todo /\ less(a).fd = o.fd
  BY <1>1 DEF Process
<1>3. Now(g, IF Bound(<<a, p>>) \/ Free(o.fd) = {} THEN less(a)
             ELSE opening(less(a), a, p, n))
  <2>1. Head(less(a).todo) = p /\ NthFree(less(a).fd, 1) = n
    BY <1>b
  <2> HIDE DEF less, opening, o, p, n
  <2> QED
    BY <1>a, <1>b, <2>1
<1> HIDE DEF o, p, n
<1>4. CASE Bound(<<a, p>>) \/ Free(o.fd) = {}
  <2> DEFINE r == [o EXCEPT !.left = @ \ {a}]
  <2>1. /\ r \in Process /\ SameHeld(r, o) /\ r.pc = o.pc
        /\ r.quit = o.quit /\ r.hup = o.hup
    BY <1>1 DEF Process, SameHeld
  <2>2. Now(g, r)
    BY <1>3, <1>4
  <2> HIDE DEF r
  <2>3. Begun(r) = Begun(o)
    BY <2>1 DEF Begun, SameHeld
  <2>4. ProcOK(r)
    BY <1>1, <2>1, <2>3, SameIsOK
  <2> QED
    BY <1>1, <2>1, <2>2, <2>4, NowKeeps
<1>5. CASE ~Bound(<<a, p>>) /\ Free(o.fd) # {}
  <2> DEFINE l == <<a, p>>
             fd == [o.fd EXCEPT ![n] = l]
             ls == [o.listeners EXCEPT ![p] = @ \cup {n}]
             saved == [o.saved EXCEPT ![p] = IF @ = 0 THEN n ELSE @]
             q == [o EXCEPT !.fd = fd, !.listeners = ls]
             r == [o EXCEPT !.left = @ \ {a}, !.fd = fd, !.listeners = ls,
                            !.saved = saved]
  <2>1. n \in Fd /\ o.fd[n] = None /\ n # 0
    BY <1>5, FirstFreeIsFree DEF Free, n, Fd
  <2>2. l \in Addr \X {p} /\ l \in File
    BY <1>2 DEF Listener, File
  <2>3. Now(g, r)
    BY <1>1, <1>3, <1>5 DEF Process
  <2>4. /\ fd \in Descriptors /\ fd[n] = l
        /\ \A m \in Fd : o.fd[m] = None \/ fd[m] = o.fd[m]
    BY <1>2, <2>1, <2>2 DEF Descriptors
  <2>5. /\ ls \in [Port -> SUBSET Fd] /\ n \in ls[p]
        /\ \A x \in Port : o.listeners[x] \subseteq ls[x]
    BY <1>2, <2>1
  <2>6. /\ saved \in [Port -> Fd \cup {0}]
        /\ \A x \in Port : \/ saved[x] = o.saved[x]
                           \/ x = p /\ o.saved[x] = 0 /\ saved[x] = n
    BY <1>2, <2>1
  <2> HIDE DEF l, fd, ls, saved
  <2>7. /\ q \in Process /\ q.fd = fd /\ q.announced = o.announced
        /\ q.saved = o.saved /\ q.listeners = ls /\ q.conns = o.conns
    BY <1>1, <2>4, <2>5 DEF Process, Descriptors
  <2>8. /\ r \in Process /\ r.fd = fd /\ r.announced = o.announced
        /\ r.saved = saved /\ r.listeners = ls /\ r.conns = o.conns
        /\ r.pc = o.pc /\ r.todo = o.todo /\ r.quit = o.quit /\ r.hup = o.hup
    BY <1>1, <2>4, <2>5, <2>6 DEF Process, Descriptors
  <2> HIDE DEF q, r
  <2>9. ASSUME ~o.quit  PROVE SavedOK(q) /\ ConnsOK(q)
    BY <1>1, <2>4, <2>5, <2>7, <2>9, TableKeeps DEF ProcOK
  <2>10. ASSUME ~o.quit  PROVE SavedOK(r)
    <3> SUFFICES ASSUME NEW x \in Port, r.saved[x] \notin Told(r) \cup {0}
                 PROVE  r.saved[x] \in r.listeners[x] /\ r.fd[r.saved[x]] \in Addr \X {x}
      BY DEF SavedOK
    <3>1. CASE saved[x] = o.saved[x]
      <4>1. q.saved[x] \notin Told(q) \cup {0}
        BY <2>7, <2>8, <3>1 DEF Told
      <4> QED
        BY <2>7, <2>8, <2>9, <2>10, <3>1, <4>1 DEF SavedOK
    <3>2. CASE x = p /\ saved[x] = n
      BY <2>2, <2>4, <2>5, <2>8, <3>2
    <3> QED
      BY <2>6, <3>1, <3>2
  <2>11. ASSUME ~o.quit  PROVE ConnsOK(r)
    BY <2>7, <2>8, <2>9, <2>11 DEF ConnsOK, Told
  <2>12. Begun(r) = Begun(o) /\ Begun(o) \subseteq Port
    BY <1>1, <2>8 DEF Begun
  <2>13. BegunOK(o) => BegunOK(r)
    BY <2>1, <2>5, <2>6, <2>8, <2>12 DEF BegunOK
  <2>14. ProcOK(r)
    BY <1>1, <2>8, <2>10, <2>11, <2>13 DEF ProcOK
  <2> QED
    BY <1>1, <2>3, <2>8, <2>14, NowKeeps
<1> QED
  BY <1>4, <1>5

LEMMA EndPortKeeps == ASSUME IInv, NEW g \in Proc, EndPort(g)  PROVE IInv'
<1> DEFINE o == proc[g]
           r == [o EXCEPT !.pc = "udp"]
<1>1. /\ o \in Process /\ ProcOK(o) /\ o.pc = "listen" /\ EnvOK'
      /\ Now(g, IF o.saved[Head(o.todo)] = 0 THEN Gone ELSE r)
  BY ProcIsOK DEF EndPort, EnvOK, IInv, TypeOK, env
<1>2. CASE o.saved[Head(o.todo)] = 0
  BY <1>1, <1>2, GoneKeeps
<1>3. CASE o.saved[Head(o.todo)] # 0
  <2> HIDE DEF o
  <2>1. /\ r \in Process /\ SameHeld(r, o) /\ r.pc = "udp"
        /\ r.quit = o.quit /\ r.hup = o.hup
    BY <1>1 DEF Process, SameHeld
  <2>2. o.todo \in Seq(Port) /\ o.todo # <<>>
    BY <1>1 DEF Process, ProcOK
  <2> HIDE DEF r
  <2>3. Begun(r) \subseteq Begun(o) \cup {Head(o.todo)}
    BY <1>1, <2>1, <2>2, TodoType DEF Begun, SameHeld
  <2>4. BegunOK(o) => BegunOK(r)
    BY <1>3, <2>1, <2>3 DEF BegunOK, SameHeld
  <2>5. /\ SavedOK(o) => SavedOK(r)
        /\ ConnsOK(o) => ConnsOK(r)
    BY <2>1 DEF SavedOK, ConnsOK, SameHeld, Told
  <2>6. ProcOK(r)
    BY <1>1, <2>1, <2>2, <2>4, <2>5 DEF ProcOK, SameHeld
  <2> QED
    BY <1>1, <1>3, <2>1, <2>6, NowKeeps
<1> QED
  BY <1>2, <1>3

LEMMA CopiesType ==
    ASSUME NEW f \in File, NEW n \in Nat
    PROVE  Copies(f, n) \in Seq(File)
BY IsASeq DEF Copies

LEMMA ListenUDPKeeps == ASSUME IInv, NEW g \in Proc, ListenUDP(g)  PROVE IInv'
<1> DEFINE o == proc[g]
           rest == Tail(o.todo)
           socks == Copies(UdpFile, Cardinality(public))
           fd == OpenAll(o.fd, socks)
           r == [o EXCEPT !.fd = fd, !.todo = rest,
                          !.pc = IF rest = <<>> THEN "ready" ELSE "port"]
<1>1. /\ o \in Process /\ ProcOK(o) /\ o.pc = "udp" /\ EnvOK' /\ public \in SUBSET Addr
      /\ Now(g, r)
  BY ProcIsOK DEF ListenUDP, EnvOK, IInv, TypeOK, env, Process
<1>2. /\ o.todo \in Seq(Port) /\ o.todo # <<>> /\ rest \in Seq(Port)
      /\ o.fd \in Descriptors
  BY <1>1, TodoType DEF Process, ProcOK, Descriptors
<1>3. socks \in Seq(File)
  <2>1. Cardinality(public) \in Nat
    BY <1>1, UpgradeAssumption, FS_Subset, FS_CardinalityType
  <2> QED
    BY <2>1, CopiesType DEF File
<1> HIDE DEF socks
<1>4. fd \in Descriptors /\ \A n \in Fd : o.fd[n] = None \/ fd[n] = o.fd[n]
  BY <1>2, <1>3, OpenAllFills
<1> HIDE DEF fd, rest, o
<1>5. /\ r \in Process /\ r.fd = fd /\ r.announced = o.announced
      /\ r.listeners = o.listeners /\ r.saved = o.saved /\ r.conns = o.conns
      /\ r.pc = IF rest = <<>> THEN "ready" ELSE "port"
      /\ r.todo = rest /\ r.quit = o.quit /\ r.hup = o.hup
  BY <1>1, <1>2, <1>4 DEF Process, Descriptors
<1> HIDE DEF r
<1>6. ~o.quit => SavedOK(r) /\ ConnsOK(r)
  BY <1>1, <1>4, <1>5, TableKeeps DEF ProcOK
<1>7. Begun(r) = Begun(o)
  <2>1. ToSet(<<>>) = {}
    BY DEF ToSet
  <2> QED
    BY <1>1, <1>5, <2>1 DEF Begun, rest
<1>8. BegunOK(o) => BegunOK(r)
  BY <1>5, <1>7 DEF BegunOK
<1>9. ProcOK(r)
  BY <1>1, <1>5, <1>6, <1>8 DEF ProcOK
<1> QED
  BY <1>1, <1>5, <1>9, NowKeeps

-----------------------------------------------------------------------------
(***************************************************************************)
(* Signals, the end of a process, and the waiting of HandleSIGHUP.         *)
(***************************************************************************)
\* A signal ends a process or is noted.
LEMMA TerminatedAreOK ==
    ASSUME NEW ps \in [Proc -> Process], \A g \in Proc : ProcOK(ps[g]), NEW S
    PROVE  /\ Terminated(ps, S) \in [Proc -> Process]
           /\ \A g \in Proc : ProcOK(Terminated(ps, S)[g])
<1> DEFINE qs == Terminated(ps, S)
<1>1. ASSUME NEW g \in Proc
      PROVE  qs[g] \in Process /\ ProcOK(qs[g])
  <2>1. ps[g] \in Process /\ ProcOK(ps[g])
    OBVIOUS
  <2>2. CASE qs[g] = ps[g] \/ qs[g] = Gone
    BY <2>1, <2>2, GoneIsOK
  <2>3. ASSUME NEW main \in BOOLEAN, NEW hup \in BOOLEAN,
               qs[g] = [ps[g] EXCEPT !.mainSig = @ \/ main, !.termSig = @ \/ hup]
        PROVE  qs[g] \in Process /\ ProcOK(qs[g])
    <3>1. /\ qs[g] \in Process /\ qs[g].pc = ps[g].pc /\ qs[g].hup = ps[g].hup
          /\ SameHeld(qs[g], ps[g]) /\ qs[g].quit = ps[g].quit
      BY <2>1, <2>3 DEF Process, SameHeld
    <3> HIDE DEF qs
    <3>2. Begun(qs[g]) = Begun(ps[g])
      BY <3>1 DEF Begun, SameHeld
    <3> QED
      BY <2>1, <3>1, <3>2, SameIsOK
  <2> QED
    BY <2>2, <2>3 DEF Terminated
<1>2. qs \in [Proc -> Process]
  <2>1. qs = [g \in Proc |-> qs[g]]
    BY DEF Terminated
  <2> HIDE DEF qs
  <2> QED
    BY <1>1, <2>1
<1> QED
  BY <1>1, <1>2

\* Steps of goroutines that open and close nothing.
LEMMA MovesKeep ==
    ASSUME IInv, NEW g \in Proc, NEW r \in Process, SameHeld(r, proc[g]),
           \/ r.pc = proc[g].pc
           \/ Begun(proc[g]) = Port /\ r.pc \in {"notify", "serving"},
           r.quit = proc[g].quit, r.hup # "close", r.pc # "gone",
           Now(g, r), EnvOK'
    PROVE  IInv'
<1>1. proc[g] \in Process /\ ProcOK(proc[g])
  BY ProcIsOK
<1>2. Begun(r) = Begun(proc[g])
  BY DEF Begun, SameHeld
<1>3. ProcOK(r)
  BY <1>1, <1>2, SameIsOK
<1> QED
  BY <1>3, NowKeeps

LEMMA ReadyKeeps == ASSUME IInv, NEW g \in Proc, Ready(g)  PROVE IInv'
<1> DEFINE r == [proc[g] EXCEPT !.pc = "notify", !.hup = "start"]
           ps == [proc EXCEPT ![g] = r]
<1>1. /\ proc \in [Proc -> Process] /\ proc[g].pc = "ready" /\ EnvOK'
      /\ proc[g] \in Process /\ \A h \in Proc : ProcOK(proc[h])
  BY ProcIsOK DEF Ready, EnvOK, IInv, TypeOK, env
<1>2. PICK S : Become(Terminated(ps, S))
  <2>1. ps = [proc EXCEPT ![g].pc = "notify", ![g].hup = "start"]
    BY <1>1 DEF Process
  <2> QED
    BY <2>1 DEF Ready
<1>3. /\ r \in Process /\ SameHeld(r, proc[g]) /\ r.pc = "notify"
      /\ r.quit = proc[g].quit /\ r.hup = "start"
  BY <1>1 DEF Process, SameHeld
<1> HIDE DEF r
<1>4. Begun(r) = Begun(proc[g])
  BY <1>1, <1>3 DEF Begun
<1>5. ProcOK(r)
  BY <1>1, <1>3, <1>4, SameIsOK
<1>6. ps \in [Proc -> Process] /\ \A h \in Proc : ProcOK(ps[h])
  BY <1>1, <1>3, <1>5
<1> HIDE DEF ps
<1>7. /\ Terminated(ps, S) \in [Proc -> Process]
      /\ \A h \in Proc : ProcOK(Terminated(ps, S)[h])
  BY <1>6, TerminatedAreOK
<1> QED
  BY <1>1, <1>2, <1>7, BecomeKeeps

LEMMA ClosedType ==
    ASSUME NEW o \in Process
    PROVE  /\ Closed(o) \in Process
           /\ Closed(o).quit = o.quit /\ Closed(o).todo = o.todo
           /\ Closed(o).pc = o.pc /\ Closed(o).hup = o.hup
<1>1. [n \in Fd |-> IF n \in Loops(o) \/ o.fd[n] = UdpFile THEN None ELSE o.fd[n]]
        \in [Fd -> File \cup {None}]
  BY DEF Process
<1>2. [p \in Port |-> {}] \in [Port -> SUBSET Fd]
  OBVIOUS
<1> QED
  BY <1>1, <1>2 DEF Closed, Process

\* Of a process that is stopping little is said.
LEMMA StopsKeep ==
    ASSUME IInv, NEW g \in Proc, NEW r \in Process, r.quit,
           r.pc \notin {"port", "listen", "udp"} \/ r.todo # <<>>,
           r.pc # "gone",
           Now(g, r), EnvOK'
    PROVE  IInv'
BY NowKeeps DEF ProcOK

LEMMA EndsKeep ==
    ASSUME IInv, NEW g \in Proc,
           \/ StopMain(g) \/ CloseMain(g) \/ CleanupMain(g)
           \/ StopHup(g) \/ CloseHup(g) \/ CleanupHup(g)
    PROVE  IInv'
<1> DEFINE o == proc[g]
<1>0. o \in Process /\ ProcOK(o) /\ EnvOK'
  BY ProcIsOK DEF StopMain, CloseMain, CleanupMain, StopHup, CloseHup, CleanupHup,
                  EnvOK, IInv, TypeOK, env
<1>1. /\ o.pc \notin {"port", "listen", "udp"} \/ o.todo # <<>>
      /\ o.hup # "off" => o.pc # "gone"
  BY <1>0 DEF ProcOK
<1>2. CASE CleanupMain(g) \/ CleanupHup(g)
  BY <1>0, <1>2, GoneKeeps DEF CleanupMain, CleanupHup
<1>3. CASE StopMain(g)
  <2> DEFINE r == [o EXCEPT !.quit = TRUE, !.pc = "close"]
  <2>1. r \in Process /\ r.quit /\ r.pc = "close"
    BY <1>0 DEF Process
  <2>2. Now(g, Gone) \/ Now(g, r)
    BY <1>3 DEF StopMain
  <2> HIDE DEF r
  <2> QED
    BY <1>0, <2>1, <2>2, GoneKeeps, StopsKeep
<1>4. CASE StopHup(g)
  <2> DEFINE r == [o EXCEPT !.quit = TRUE, !.hup = "close"]
  <2>1. r \in Process /\ r.quit /\ r.pc = o.pc /\ r.todo = o.todo
    BY <1>0 DEF Process
  <2>2. (Now(g, Gone) \/ Now(g, r)) /\ o.hup # "off"
    BY <1>4 DEF StopHup
  <2> HIDE DEF r
  <2> QED
    BY <1>0, <1>1, <2>1, <2>2, GoneKeeps, StopsKeep
<1>5. CASE CloseMain(g)
  <2> DEFINE s == Closed(o)
             r == [s EXCEPT !.pc = "clean"]
  <2>1. s \in Process /\ s.quit
    BY <1>0, <1>5, ClosedType DEF CloseMain, ProcOK
  <2>2. Now(g, r)
    BY <1>5 DEF CloseMain
  <2> HIDE DEF s
  <2>3. r \in Process /\ r.quit /\ r.pc = "clean"
    BY <2>1 DEF Process
  <2> HIDE DEF r
  <2> QED
    BY <1>0, <2>2, <2>3, StopsKeep
<1>6. CASE CloseHup(g)
  <2> DEFINE s == Closed(o)
             r == [s EXCEPT !.hup = "clean"]
  <2>1. s \in Process /\ s.quit /\ s.pc = o.pc /\ s.todo = o.todo
    BY <1>0, <1>6, ClosedType DEF CloseHup, ProcOK
  <2>2. Now(g, r) /\ o.hup # "off"
    BY <1>6 DEF CloseHup
  <2> HIDE DEF s
  <2>3. r \in Process /\ r.quit /\ r.pc = o.pc /\ r.todo = o.todo
    BY <2>1 DEF Process
  <2> HIDE DEF r
  <2> QED
    BY <1>0, <1>1, <2>2, <2>3, StopsKeep
<1> QED
  BY <1>2, <1>3, <1>4, <1>5, <1>6

LEMMA WaitsKeep ==
    ASSUME IInv, NEW g \in Proc,
           \/ NotifyMain(g) \/ NotifyHup(g) \/ UpgradeFails(g)
           \/ NotifyTerm(g) \/ EndWait(g)
    PROVE  IInv'
<1> DEFINE o == proc[g]
<1>0. o \in Process /\ ProcOK(o) /\ EnvOK'
  BY ProcIsOK
  DEF NotifyMain, NotifyHup, UpgradeFails, NotifyTerm, EndWait, EnvOK, IInv,
      TypeOK, env
<1>1. CASE NotifyMain(g)
  <2> DEFINE r == [o EXCEPT !.pc = "serving"]
  <2>1. o.pc = "notify" /\ Now(g, r)
    BY <1>1 DEF NotifyMain
  <2>2. Begun(o) = Port
    BY <2>1 DEF Begun
  <2>3. r \in Process /\ SameHeld(r, o) /\ r.quit = o.quit /\ r.hup = o.hup
        /\ r.pc = "serving"
    BY <1>0 DEF Process, SameHeld
  <2> HIDE DEF r
  <2>4. CASE o.hup = "close"
    <3>1. r.quit
      BY <1>0, <2>3, <2>4 DEF ProcOK
    <3> QED
      BY <1>0, <2>1, <2>3, <3>1, StopsKeep
  <2>5. CASE o.hup # "close"
    BY <1>0, <2>1, <2>2, <2>3, <2>5, MovesKeep
  <2> QED
    BY <2>4, <2>5
<1>2. ASSUME NEW h \in {"idle", "wait", "stop"}, Now(g, [o EXCEPT !.hup = h]),
             o.pc # "gone"
      PROVE  IInv'
  <2> DEFINE r == [o EXCEPT !.hup = h]
  <2>1. /\ r \in Process /\ SameHeld(r, o) /\ r.pc = o.pc /\ r.quit = o.quit
        /\ r.hup # "close"
    BY <1>0 DEF Process, SameHeld
  <2> HIDE DEF r
  <2> QED
    BY <1>0, <1>2, <2>1, MovesKeep DEF r
<1>5. o.hup # "off" => o.pc # "gone"
  BY <1>0 DEF ProcOK
<1>3. CASE NotifyHup(g) \/ NotifyTerm(g) \/ EndWait(g)
  BY <1>2, <1>3, <1>5 DEF NotifyHup, NotifyTerm, EndWait
<1>4. CASE UpgradeFails(g)
  <2> DEFINE r == [o EXCEPT !.hupSig = FALSE]
  <2>1. /\ r \in Process /\ SameHeld(r, o) /\ r.pc = o.pc /\ r.quit = o.quit
        /\ r.hup = o.hup
    BY <1>0 DEF Process, SameHeld
  <2>2. o.hup = "idle" /\ Now(g, r)
    BY <1>4 DEF UpgradeFails
  <2> HIDE DEF r
  <2> QED
    BY <1>0, <1>5, <2>1, <2>2, MovesKeep
<1> QED
  BY <1>1, <1>3, <1>4

-----------------------------------------------------------------------------
(***************************************************************************)
(* The hand-over.                                                          *)
(***************************************************************************)
LEMMA StartedIsOK ==
    ASSUME NEW parent \in Proc \cup {None}, NEW a \in [Port -> Fd \cup {0}],
           NEW passed \in Seq(File)
    PROVE  /\ Started(parent, a, passed) \in Process
           /\ ProcOK(Started(parent, a, passed))
           /\ Started(parent, a, passed).pc = "setup"
           /\ Started(parent, a, passed).parent = parent
<1> DEFINE files == passed \o Copies(OwnFile, Runtime)
           fd == OpenAll(Gone.fd, files)
           r == [Gone EXCEPT !.pc = "setup", !.parent = parent,
                             !.announced = a, !.fd = fd]
<1>1. files \in Seq(File)
  BY CopiesType, ConcatProperties, UpgradeAssumption DEF File
<1>2. Started(parent, a, passed) = r
  BY DEF Started
<1> HIDE DEF files
<1>3. Gone.fd \in Descriptors
  BY DEF Gone, Descriptors
<1>4. fd \in Descriptors
  BY <1>1, <1>3, OpenAllFills
<1> HIDE DEF fd
<1>5. /\ r \in Process /\ r.pc = "setup" /\ r.parent = parent
      /\ r.saved = Gone.saved /\ r.conns = Gone.conns
      /\ r.hup = Gone.hup /\ r.quit = Gone.quit
  BY <1>4, GoneIsOK DEF Process, Descriptors
<1> HIDE DEF r
<1>6. SavedOK(r) /\ ConnsOK(r) /\ BegunOK(r)
  BY <1>5 DEF SavedOK, ConnsOK, BegunOK, Begun, Gone, Nowhere
<1>7. ProcOK(r)
  BY <1>5, <1>6 DEF ProcOK, Gone
<1> QED
  BY <1>2, <1>5, <1>7

\* What the child is told: for every listener saved a number that is free in
\* the parent.
LEMMA UpgradeFacts ==
    ASSUME IInv, NEW g \in Proc, Upgrade(g)
    PROVE  \E c \in Proc \ Alive, a \in [Port -> Fd \cup {0}], passed \in Seq(File) :
              /\ c # g
              /\ Become([[proc EXCEPT
                            ![g] = [proc[g] EXCEPT !.hupSig = FALSE, !.hup = "spawned"]]
                               EXCEPT ![c] = Started(g, a, passed)])
<1> DEFINE o == proc[g]
           c == Unused(Proc \ Alive)
           S == Saved(g)
<1>1. /\ o \in Process /\ proc \in [Proc -> Process] /\ g \in Alive
      /\ \A p \in S : o.fd[o.saved[p]] # None
      /\ Cardinality(S) <= Cardinality(Free(o.fd))
  <2>1. /\ o \in Process /\ ProcOK(o) /\ HasFiles(g)
        /\ proc \in [Proc -> Process]
    BY ProcIsOK DEF Upgrade, IInv, TypeOK
  <2>2. g \in Alive
    BY <2>1 DEF Upgrade, ProcOK, Alive
  <2> QED
    BY <2>1, <2>2 DEF HasFiles
<1>2. c \in Proc \ Alive /\ c # g
  <2>1. Proc \ Alive # {}
    BY DEF Upgrade, Alive
  <2> QED
    BY <1>1, <2>1 DEF Unused
<1>3. PICK order \in SetToSeqs(S) :
         LET passed == [i \in DOMAIN order |-> o.fd[o.saved[order[i]]]]
         IN  Become([proc EXCEPT ![g].hupSig = FALSE, ![g].hup = "spawned",
                                 ![c] = Started(g, Announced(g, order), passed)])
  BY DEF Upgrade
<1> DEFINE k == Cardinality(S)
           passed == [i \in DOMAIN order |-> o.fd[o.saved[order[i]]]]
           a == Announced(g, order)
<1>4. S \subseteq Port /\ IsFiniteSet(S) /\ k \in Nat
  BY Numbers, FS_Subset, FS_CardinalityType DEF Saved
<1>5. /\ order \in [1 .. k -> S] /\ DOMAIN order = 1 .. k
      /\ \A i, j \in 1 .. k : i # j => order[i] # order[j]
  BY DEF SetToSeqs
<1>6. \A p \in S : \E i \in 1 .. k : order[i] = p
  <2>1. order \in Injection(1 .. k, S)
    BY <1>5 DEF Injection, IsInjective
  <2>2. IsFiniteSet(1 .. k) /\ Cardinality(1 .. k) = k
    BY <1>4, FS_Interval
  <2>3. order \in Surjection(1 .. k, S)
    BY <1>4, <2>1, <2>2, FS_Injection
  <2> QED
    BY <2>3 DEF Surjection
<1> HIDE DEF S, k
<1>7. \A p \in S : Place(order, p) \in 1 .. k
  BY <1>5, <1>6 DEF Place
<1>8. ASSUME NEW p \in Port
      PROVE  IF p \in S THEN a[p] \in Free(o.fd) /\ a[p] \in Fd ELSE a[p] = 0
  <2>1. CASE p \in S
    <3>1. a[p] = NthFree(o.fd, Place(order, p))
      BY <2>1 DEF Announced, S
    <3>2. IsFiniteSet(Free(o.fd)) /\ Cardinality(Free(o.fd)) \in Nat
      BY RankType, FS_CardinalityType, Numbers
    <3>3. Place(order, p) \in 1 .. Cardinality(Free(o.fd))
      BY <1>1, <1>4, <1>7, <2>1, <3>2 DEF k
    <3>4. a[p] \in Free(o.fd)
      BY <3>1, <3>3, NthFreeIsFree
    <3> QED
      BY <2>1, <3>4 DEF Free
  <2>2. CASE p \notin S
    BY <2>2 DEF Announced, S
  <2> QED
    BY <2>1, <2>2
<1>9. a \in [Port -> Fd \cup {0}]
  <2>1. a = [p \in Port |-> a[p]]
    BY DEF Announced
  <2>2. 0 \notin Fd
    BY DEF Fd
  <2> HIDE DEF a
  <2> QED
    BY <1>4, <1>8, <2>1, <2>2
<1>10. passed \in Seq(File) /\ Len(passed) = k
       /\ \A i \in 1 .. k : passed[i] = o.fd[o.saved[order[i]]]
  <2>1. \A i \in 1 .. k : o.fd[o.saved[order[i]]] \in File
    <3> SUFFICES ASSUME NEW i \in 1 .. k  PROVE o.fd[o.saved[order[i]]] \in File
      OBVIOUS
    <3>1. order[i] \in S /\ order[i] \in Port
      BY <1>4, <1>5
    <3>2. o.saved[order[i]] # 0
      BY <3>1 DEF S, Saved
    <3>3. o.saved[order[i]] \in Fd
      BY <1>1, <3>1, <3>2 DEF Process
    <3> QED
      BY <1>1, <3>1, <3>3 DEF Process
  <2> QED
    BY <1>4, <1>5, <2>1, IsASeq
<1>11. Become([[proc EXCEPT ![g] = [o EXCEPT !.hupSig = FALSE, !.hup = "spawned"]]
                  EXCEPT ![c] = Started(g, a, passed)])
  <2> DEFINE child == Started(g, a, passed)
  <2>1. Become([proc EXCEPT ![g].hupSig = FALSE, ![g].hup = "spawned", ![c] = child])
    BY <1>3
  <2> HIDE DEF child
  <2>2. [[proc EXCEPT ![g] = [o EXCEPT !.hupSig = FALSE, !.hup = "spawned"]]
            EXCEPT ![c] = child]
          = [proc EXCEPT ![g].hupSig = FALSE, ![g].hup = "spawned", ![c] = child]
    BY <1>1, <1>2 DEF Process
  <2> QED
    BY <2>1, <2>2 DEF child
<1> HIDE DEF passed, a, c
<1> DEFINE HandsOver(x, y, z) ==
              /\ x # g
              /\ Become([[proc EXCEPT ![g] = [o EXCEPT !.hupSig = FALSE, !.hup = "spawned"]]
                              EXCEPT ![x] = Started(g, y, z)])
<1>12. HandsOver(c, a, passed)
  BY <1>2, <1>11, Zenon
<1>13. c \in Proc \ Alive /\ a \in [Port -> Fd \cup {0}] /\ passed \in Seq(File)
  BY <1>2, <1>9, <1>10
<1> HIDE DEF HandsOver
<1>14. \E x \in Proc \ Alive, y \in [Port -> Fd \cup {0}], z \in Seq(File) :
          HandsOver(x, y, z)
  BY <1>12, <1>13, Zenon
<1> QED
  BY <1>14, Zenon DEF HandsOver

LEMMA UpgradeKeeps == ASSUME IInv, NEW g \in Proc, Upgrade(g)  PROVE IInv'
<1> DEFINE o == proc[g]
           r == [o EXCEPT !.hupSig = FALSE, !.hup = "spawned"]
<1>1. o \in Process /\ ProcOK(o) /\ o.hup = "idle" /\ EnvOK'
  BY ProcIsOK DEF Upgrade, EnvOK, IInv, TypeOK, env
<1>2. PICK c \in Proc \ Alive, a \in [Port -> Fd \cup {0}], passed \in Seq(File) :
         /\ c # g
         /\ Become([[proc EXCEPT ![g] = r] EXCEPT ![c] = Started(g, a, passed)])
  BY UpgradeFacts
<1> DEFINE child == Started(g, a, passed)
           ps == [[proc EXCEPT ![g] = r] EXCEPT ![c] = child]
<1>3. child \in Process /\ ProcOK(child)
  BY StartedIsOK
<1>4. Become(ps)
  BY <1>2
<1> HIDE DEF child
<1>5. /\ r \in Process /\ SameHeld(r, o) /\ r.pc = o.pc /\ r.quit = o.quit
      /\ r.hup = "spawned" /\ o.pc # "gone"
  BY <1>1 DEF Process, SameHeld, ProcOK
<1> HIDE DEF r
<1>6. Begun(r) = Begun(o)
  BY <1>5 DEF Begun, SameHeld
<1>7. ProcOK(r)
  BY <1>1, <1>5, <1>6, SameIsOK
<1>8. proc \in [Proc -> Process] /\ \A h \in Proc : ProcOK(proc[h])
  BY DEF IInv, TypeOK
<1>9. ps \in [Proc -> Process] /\ \A h \in Proc : ProcOK(ps[h])
  BY <1>3, <1>5, <1>7, <1>8
<1> HIDE DEF ps
<1> QED
  BY <1>1, <1>4, <1>9, BecomeKeeps

-----------------------------------------------------------------------------
(***************************************************************************)
(* Clients, the administrator, the host and the service manager.           *)
(***************************************************************************)
\* The end of a connection closes its number.  If the process was not told that
\* number, it is the connection that is closed.
LEMMA ClientsKeep == ASSUME IInv, Clients  PROVE IInv'
<1>1. PICK g \in Proc : /\ proc[g].pc # "gone"
                        /\ Connect(g) \/ Disconnect(g)
  BY DEF Clients, Alive
<1> DEFINE o == proc[g]
<1>2. o \in Process /\ ProcOK(o) /\ o.pc # "gone" /\ o.fd \in Descriptors
  BY <1>1, ProcIsOK DEF Process, Descriptors
<1>3. CASE Connect(g)
  <2> DEFINE free == {c \in Conn : o.conns[c] = 0}
             new == NthFree(o.fd, 1)
             k == Unused(free)
             fd == [o.fd EXCEPT ![new] = ConnFile]
             conns == [o.conns EXCEPT ![k] = new]
             r == [o EXCEPT !.fd = fd, !.conns = conns]
             q == [o EXCEPT !.fd = fd]
  <2>1. free # {} /\ Free(o.fd) # {} /\ opened < MaxConns /\ opened' = opened + 1
        /\ UNCHANGED <<links, public, hups, terms>>
    BY <1>3 DEF Connect
  <2>2. k \in Conn /\ o.conns[k] = 0
    BY <2>1 DEF Unused
  <2>3. new \in Fd /\ o.fd[new] = None /\ new # 0
    BY <2>1, FirstFreeIsFree DEF Free, Fd
  <2>4. EnvOK'
    BY <2>1, UpgradeAssumption DEF EnvOK, IInv, TypeOK
  <2>5. Now(g, r)
    BY <1>2, <1>3 DEF Connect, Process
  <2> HIDE DEF o, new, k
  <2>6. /\ fd \in Descriptors /\ fd[new] = ConnFile
        /\ \A n \in Fd : o.fd[n] = None \/ fd[n] = o.fd[n]
    BY <1>2, <2>3 DEF Descriptors, File
  <2>7. /\ conns \in [Conn -> Fd \cup {0}]
        /\ conns[k] = new /\ \A c \in Conn : c # k => conns[c] = o.conns[c]
    BY <1>2, <2>2, <2>3 DEF Process
  <2> HIDE DEF fd, conns, free
  <2>8. /\ q \in Process /\ q.fd = fd /\ q.announced = o.announced
        /\ q.saved = o.saved /\ q.listeners = o.listeners /\ q.conns = o.conns
    BY <1>2, <2>6 DEF Process, Descriptors
  <2>9. /\ r \in Process /\ r.fd = fd /\ r.announced = o.announced
        /\ r.saved = o.saved /\ r.listeners = o.listeners /\ r.conns = conns
        /\ r.pc = o.pc /\ r.todo = o.todo /\ r.quit = o.quit /\ r.hup = o.hup
    BY <1>2, <2>6, <2>7 DEF Process, Descriptors
  <2> HIDE DEF q, r
  <2>10. ~o.quit => SavedOK(q) /\ ConnsOK(q)
    BY <1>2, <2>6, <2>8, TableKeeps DEF ProcOK
  <2>11. ~o.quit => SavedOK(r) /\ ConnsOK(r)
    <3>1. SavedOK(q) => SavedOK(r)
      BY <2>8, <2>9 DEF SavedOK, Told
    <3>2. ASSUME ~o.quit, NEW c \in Conn, r.conns[c] \notin Told(r) \cup {0}
          PROVE  /\ r.fd[r.conns[c]] = ConnFile
                 /\ \A d \in Conn : r.conns[d] = r.conns[c] => d = c
      <4>1. Told(r) = Told(o) /\ ConnsOK(o)
        BY <1>2, <2>9, <3>2 DEF Told, ProcOK
      <4>2. new \notin Told(o) => \A d \in Conn : o.conns[d] # new
        <5>1. None # ConnFile
          BY Numbers DEF File
        <5> QED
          BY <2>3, <4>1, <5>1 DEF ConnsOK
      <4>3. CASE c = k
        BY <2>6, <2>7, <2>9, <3>2, <4>1, <4>2, <4>3
      <4>4. CASE c # k
        <5>1. /\ o.conns[c] = r.conns[c] /\ r.conns[c] # 0
              /\ o.fd[o.conns[c]] = ConnFile
              /\ \A d \in Conn : o.conns[d] = o.conns[c] => d = c
          BY <2>7, <2>9, <3>2, <4>1, <4>4 DEF ConnsOK
        <5>2. r.conns[c] # new /\ r.conns[c] \in Fd
          BY <1>2, <3>2, <4>1, <4>2, <5>1 DEF Process
        <5>3. r.fd[r.conns[c]] = ConnFile
          <6>1. None # ConnFile
            BY Numbers DEF File
          <6> QED
            BY <2>6, <2>9, <5>1, <5>2, <6>1
        <5>4. \A d \in Conn : r.conns[d] = r.conns[c] => d = c
          BY <2>7, <2>9, <5>1, <5>2
        <5> QED
          BY <5>3, <5>4
      <4> QED
        BY <4>3, <4>4
    <3> QED
      BY <2>10, <3>1, <3>2 DEF ConnsOK
  <2>12. Begun(r) = Begun(o)
    BY <2>9 DEF Begun
  <2>13. BegunOK(o) => BegunOK(r)
    BY <2>9, <2>12 DEF BegunOK
  <2>14. ProcOK(r)
    BY <1>2, <2>9, <2>11, <2>13 DEF ProcOK
  <2> QED
    BY <2>4, <2>5, <2>9, <2>14, NowKeeps
<1>4. CASE Disconnect(g)
  <2>1. PICK k \in Conn : /\ o.conns[k] # 0
                          /\ Now(g, [Close(o, o.conns[k]) EXCEPT !.conns[k] = 0])
    BY <1>4 DEF Disconnect
  <2>2. EnvOK'
    BY <1>4 DEF Disconnect, EnvOK, IInv, TypeOK, env
  <2> DEFINE n == o.conns[k]
             fd == [o.fd EXCEPT ![n] = None]
             conns == [o.conns EXCEPT ![k] = 0]
             r == [o EXCEPT !.fd = fd, !.conns = conns]
  <2>3. Now(g, r)
    <3>1. r = [Close(o, n) EXCEPT !.conns[k] = 0]
      BY <1>2, <2>1 DEF Close, Process
    <3> QED
      BY <2>1, <3>1
  <2> HIDE DEF o
  <2>4. n \in Fd
    BY <1>2, <2>1 DEF Process
  <2>5. fd \in Descriptors /\ \A m \in Fd : m # n => fd[m] = o.fd[m]
    BY <1>2, <2>4 DEF Descriptors
  <2>6. /\ conns \in [Conn -> Fd \cup {0}]
        /\ \A c \in Conn : \/ conns[c] = 0
                           \/ c # k /\ conns[c] = o.conns[c]
    BY <1>2, <2>1 DEF Process
  <2> HIDE DEF fd, conns
  <2>7. /\ r \in Process /\ r.fd = fd /\ r.announced = o.announced
        /\ r.saved = o.saved /\ r.listeners = o.listeners /\ r.conns = conns
        /\ r.pc = o.pc /\ r.todo = o.todo /\ r.quit = o.quit /\ r.hup = o.hup
    BY <1>2, <2>5, <2>6 DEF Process, Descriptors
  <2> HIDE DEF r, n
  <2>8. Told(r) = Told(o)
    BY <2>7 DEF Told
  <2>9. \A p \in Port : ConnFile \notin Addr \X {p}
    <3>1. \A p \in Port : Addr \X {p} \subseteq Listener
      BY DEF Listener
    <3> QED
      BY <3>1, UpgradeAssumption
  <2>10. ASSUME ~o.quit  PROVE SavedOK(r)
    <3> SUFFICES ASSUME NEW p \in Port, r.saved[p] \notin Told(r) \cup {0}
                 PROVE  r.saved[p] \in r.listeners[p] /\ r.fd[r.saved[p]] \in Addr \X {p}
      BY DEF SavedOK
    <3>1. o.saved[p] \in o.listeners[p] /\ o.fd[o.saved[p]] \in Addr \X {p}
      BY <1>2, <2>7, <2>8, <2>10 DEF ProcOK, SavedOK
    <3>2. o.saved[p] \in Fd
      BY <1>2, <2>7 DEF Process
    <3>3. n \notin Told(o) => o.fd[n] = ConnFile
      BY <1>2, <2>1, <2>10 DEF ProcOK, ConnsOK, n
    <3>4. o.saved[p] # n
      BY <2>7, <2>8, <2>9, <3>1, <3>3
    <3> QED
      BY <2>5, <2>7, <3>1, <3>2, <3>4
  <2>11. ASSUME ~o.quit  PROVE ConnsOK(r)
    <3> SUFFICES ASSUME NEW c \in Conn, r.conns[c] \notin Told(r) \cup {0}
                 PROVE  /\ r.fd[r.conns[c]] = ConnFile
                        /\ \A d \in Conn : r.conns[d] = r.conns[c] => d = c
      BY DEF ConnsOK
    <3>1. r.conns[c] # 0 /\ r.conns[c] \notin Told(o)
      BY <2>8
    <3>2. c # k /\ r.conns[c] = o.conns[c]
      BY <2>6, <2>7, <3>1
    <3>3. /\ o.fd[o.conns[c]] = ConnFile
          /\ \A d \in Conn : o.conns[d] = o.conns[c] => d = c
      BY <1>2, <2>11, <3>1, <3>2 DEF ProcOK, ConnsOK
    <3>4. r.conns[c] # n /\ r.conns[c] \in Fd
      BY <1>2, <3>1, <3>2, <3>3 DEF n, Process
    <3>5. \A d \in Conn : r.conns[d] = r.conns[c] => d = c
      BY <2>6, <2>7, <3>1, <3>2, <3>3
    <3> QED
      BY <2>5, <2>7, <3>2, <3>3, <3>4, <3>5
  <2>12. Begun(r) = Begun(o)
    BY <2>7 DEF Begun
  <2>13. BegunOK(o) => BegunOK(r)
    BY <2>7, <2>12 DEF BegunOK
  <2>14. ProcOK(r)
    BY <1>2, <2>7, <2>10, <2>11, <2>13 DEF ProcOK
  <2> QED
    BY <2>2, <2>3, <2>7, <2>14, NowKeeps
<1> QED
  BY <1>1, <1>3, <1>4

-----------------------------------------------------------------------------
(***************************************************************************)
(* The administrator, the host and the service manager.                    *)
(***************************************************************************)
LEMMA SignalsKeep == ASSUME IInv, Hangup \/ Kill \/ AddressUp  PROVE IInv'
<1>0. /\ proc \in [Proc -> Process] /\ \A h \in Proc : ProcOK(proc[h])
      /\ EnvOK /\ Alive \subseteq Proc
  BY DEF IInv, TypeOK, EnvOK, Alive
<1>1. CASE Hangup
  <2>1. EnvOK'
    BY <1>0, <1>1, UpgradeAssumption DEF Hangup, EnvOK
  <2>2. PICK g \in Alive :
            Now(g, IF proc[g].hup \in {"off", "start"} THEN Gone
                   ELSE [proc[g] EXCEPT !.hupSig = TRUE])
    BY <1>1 DEF Hangup
  <2> DEFINE r == [proc[g] EXCEPT !.hupSig = TRUE]
  <2>0. g \in Proc /\ proc[g] \in Process /\ ProcOK(proc[g])
    BY <1>0
  <2>3. /\ r \in Process /\ SameHeld(r, proc[g]) /\ r.pc = proc[g].pc
        /\ r.hup = proc[g].hup /\ r.quit = proc[g].quit
    BY <2>0 DEF Process, SameHeld
  <2>4. Now(g, Gone) \/ Now(g, r)
    BY <2>2
  <2> HIDE DEF r
  <2>5. Begun(r) = Begun(proc[g])
    BY <2>3 DEF Begun, SameHeld
  <2>6. ProcOK(r)
    BY <2>0, <2>3, <2>5, SameIsOK
  <2> QED
    BY <2>0, <2>1, <2>3, <2>4, <2>6, NowKeeps, GoneKeeps
<1>2. CASE Kill
  <2>1. EnvOK'
    BY <1>0, <1>2, UpgradeAssumption DEF Kill, EnvOK
  <2> QED
    BY <1>0, <1>2, <2>1, TerminatedAreOK, BecomeKeeps DEF Kill
<1>3. CASE AddressUp
  <2>1. UNCHANGED <<proc, unit>> /\ EnvOK'
    BY <1>0, <1>3 DEF AddressUp, EnvOK
  <2> QED
    BY <2>1 DEF IInv, TypeOK, Alive, EnvOK
<1> QED
  BY <1>1, <1>2, <1>3

LEMMA DaemonIsOK ==
    /\ Started(None, Nowhere, <<>>) \in Process
    /\ ProcOK(Started(None, Nowhere, <<>>))
    /\ Started(None, Nowhere, <<>>).pc = "setup"
    /\ Started(None, Nowhere, <<>>).parent = None
<1>1. <<>> \in Seq(File) /\ Nowhere \in [Port -> Fd \cup {0}]
  BY EmptySeq DEF Nowhere
<1> QED
  BY <1>1, StartedIsOK

LEMMA ManagerKeeps == ASSUME IInv, Manager  PROVE IInv'
<1>0. /\ proc \in [Proc -> Process] /\ \A h \in Proc : ProcOK(proc[h])
      /\ EnvOK' /\ Alive \subseteq Proc
  BY DEF Manager, Reap, ReapKill, Restart, IInv, TypeOK, EnvOK, Alive, env
<1>1. CASE Reap
  <2> DEFINE ps == Terminated(proc, Alive)
  <2>1. ps \in [Proc -> Process] /\ \A h \in Proc : ProcOK(ps[h])
    BY <1>0, TerminatedAreOK
  <2>2. proc' = Orphaned(ps) /\ unit' = "killed"
    BY <1>1 DEF Reap
  <2> HIDE DEF ps
  <2>3. proc' \in [Proc -> Process] /\ \A g \in Proc : ProcOK(proc'[g])
    BY <2>1, <2>2, OrphansAreOK
  <2>4. \A g \in Alive' : proc'[g].parent \in Alive' \cup {None}
    BY <2>1, <2>2, OrphansAreOK DEF Alive
  <2> QED
    BY <1>0, <2>2, <2>3, <2>4 DEF IInv, TypeOK, EnvOK
<1>2. CASE ReapKill
  BY <1>0, <1>2, GoneKeeps DEF ReapKill
<1>3. CASE Restart
  <2> DEFINE d == Started(None, Nowhere, <<>>)
  <2>1. Alive = {} /\ unit' = Unused(Proc) /\ proc' = [proc EXCEPT ![unit'] = d]
    BY <1>3 DEF Restart
  <2>2. unit' \in Proc
    BY <2>1, UpgradeAssumption DEF Unused
  <2>3. d \in Process /\ ProcOK(d) /\ d.pc = "setup" /\ d.parent = None
    BY DaemonIsOK
  <2> HIDE DEF d
  <2>4. /\ proc' \in [Proc -> Process] /\ \A h \in Proc : ProcOK(proc'[h])
        /\ Alive' = {unit'} /\ proc'[unit'] = d
    BY <1>0, <2>1, <2>2, <2>3 DEF Alive
  <2> QED
    BY <1>0, <2>3, <2>4 DEF IInv, TypeOK, EnvOK
<1> QED
  BY <1>1, <1>2, <1>3 DEF Manager

LEMMA InitKeeps == Init => IInv
<1> SUFFICES ASSUME Init  PROVE IInv
  OBVIOUS
<1> DEFINE d == Started(None, Nowhere, <<>>)
           u == Unused(Proc)
<1>1. u \in Proc
  BY UpgradeAssumption DEF Unused
<1>2. d \in Process /\ ProcOK(d) /\ d.pc = "setup" /\ d.parent = None
  BY DaemonIsOK
<1>3. proc = [g \in Proc |-> IF g = u THEN d ELSE Gone] /\ unit \in {u, "none"}
  BY DEF Init
<1> HIDE DEF d, u
<1>4. proc \in [Proc -> Process] /\ \A h \in Proc : ProcOK(proc[h])
  BY <1>1, <1>2, <1>3, GoneIsOK
<1>5. Alive = {u} /\ proc[u].parent = None
  BY <1>1, <1>2, <1>3, GoneIsOK DEF Alive
<1>6. EnvOK /\ unit \in Alive \cup {"dead", "killed", "none"}
  <2>1. 0 \in 0 .. MaxHups /\ 0 \in 0 .. MaxTerms /\ 0 \in 0 .. MaxConns
    BY UpgradeAssumption
  <2> QED
    BY <1>3, <1>5, <2>1, UpgradeAssumption DEF Init, EnvOK
<1>7. TypeOK
  BY <1>4, <1>5, <1>6 DEF TypeOK, EnvOK
<1> QED
  BY <1>4, <1>7 DEF IInv

LEMMA NextKeeps == IInv /\ [Next]_vars => IInv'
<1> SUFFICES ASSUME IInv, [Next]_vars  PROVE IInv'
  OBVIOUS
<1>1. CASE UNCHANGED vars
  BY <1>1 DEF vars, env, IInv, TypeOK, Alive
<1>2. ASSUME NEW g \in Proc, Main(g)  PROVE IInv'
  BY <1>2, SetupKeeps, BeginPortKeeps, ListenKeeps, EndPortKeeps, ListenUDPKeeps,
     ReadyKeeps, StopsKeep, EndsKeep, WaitsKeep
  DEF Main
<1>3. ASSUME NEW g \in Proc, Handler(g)  PROVE IInv'
  BY <1>3, WaitsKeep, UpgradeKeeps, StopsKeep, EndsKeep DEF Handler
<1>4. CASE Clients
  BY <1>4, ClientsKeep DEF Clients
<1> QED
  BY <1>1, <1>2, <1>3, <1>4, ManagerKeeps, SignalsKeep DEF Next, System

\* The inductive invariant.
THEOREM IInvHolds == Spec => []IInv
<1> QED
  BY InitKeeps, NextKeeps, PTL DEF Spec

-----------------------------------------------------------------------------
\* The variables keep their types, for any number of processes, ports,
\* addresses, connections and descriptors; the parent of a living process is
\* alive.
THEOREM TypeCorrect == Spec => []TypeOK
<1>1. IInv => TypeOK
  BY DEF IInv
<1> QED
  BY <1>1, IInvHolds, PTL

\* A process that says it is ready has a listener for every port, and serves
\* those it has bound itself unless it was told their numbers: however its
\* clients, its other goroutine and other processes open and close descriptors.
THEOREM OwnPortsAreServed == Spec => []OwnPortsServed
<1>1. IInv => OwnPortsServed
  <2> SUFFICES ASSUME IInv, NEW g \in Proc, Serving(g), NEW p \in Port
               PROVE  IF proc[g].saved[p] = 0
                      THEN proc[g].announced[p] # 0 /\ proc[g].listeners[p] # {}
                      ELSE proc[g].saved[p] \in Told(proc[g]) \/ Serves(g, p)
    BY DEF OwnPortsServed
  <2> DEFINE r == proc[g]
             n == r.saved[p]
  <2>1. r \in Process /\ SavedOK(r) /\ BegunOK(r) /\ p \in Begun(r)
    BY ProcIsOK DEF ProcOK, Serving, Begun
  <2>2. CASE n = 0
    BY <2>1, <2>2 DEF BegunOK
  <2>3. ASSUME n # 0, n \notin Told(r)  PROVE Serves(g, p)
    <3>1. n \in r.listeners[p] /\ r.fd[n] \in Addr \X {p}
      BY <2>1, <2>3 DEF SavedOK
    <3>2. n \in Loops(r)
      BY <3>1 DEF Loops
    <3>3. r.fd[n] \in Accepts(g)
      BY <3>1, <3>2 DEF Accepts, Listener
    <3>4. PICK a \in Addr : r.fd[n] = <<a, p>>
      BY <3>1
    <3> QED
      BY <3>3, <3>4 DEF Serves
  <2> QED
    BY <2>2, <2>3
<1> QED
  BY <1>1, IInvHolds, PTL
=============================================================================

--------------------------- MODULE RegistryProofs ---------------------------
(***************************************************************************)
(* Safety of the registry for every set of terminals, domains, ports,      *)
(* addresses and commands, and every fault: the lists the commands read,   *)
(* keep and write are well formed whatever the interleaving.               *)
(***************************************************************************)
EXTENDS Registry, MappingsProofs

SetupAddr == IPv4 \cup IPv6 \cup {None}
InSetup == {"setup", "create", "up", "look", "assign"}

\* What the code that follows label l relies on: its command c was parsed, it
\* has an address left to set up, the list ms it loaded still has the mapping
\* it looked up, and the mapping it is about to store has an address.
LocalOK(l, c, ms, ts) ==
    /\ l # "idle" => c \in Command
    /\ l \in InSetup \ {"setup"} => ts # <<>> /\ Head(ts)[2] # None
    /\ l \in InSetup /\ c.op = "add" => HasAddress(c, ms)
    /\ l \in InSetup /\ c.op = "update" => Known(c, ms) /\ HasAddress(c, ms)
    /\ l \in {"added", "save_added"} =>
          c.op = "add" /\ Known(c, ms) /\ HasAddress(c, ms)

LocalInv == \A p \in Proc : LocalOK(pc[p], cmd[p], mem[p], todo[p])

IInv == TypeOK /\ KeysUnique /\ AddressPresent /\ LocalInv

GoodList(ms) == ms \in Seq(Mapping) /\ Unique(ms) /\ Addressed(ms)

-----------------------------------------------------------------------------
LEMMA EmptyListIsGood == GoodList(<<>>)
BY EmptySeq DEF GoodList, Unique, Addressed

LEMMA FileTypes ==
    /\ Empty \in File /\ Empty.maps = <<>>
    /\ Torn \in File /\ Torn.maps = <<>>
    /\ NoFile \in File /\ NoFile.maps = <<>>
    /\ \A ms \in Seq(Mapping) : Json(ms) \in File /\ Json(ms).maps = ms
<1>1. <<>> \in Seq(Mapping)
  BY EmptySeq
<1> QED
  BY <1>1 DEF File, Empty, Torn, NoFile, Json

LEMMA ListsAreGood ==
    ASSUME IInv, NEW p \in Proc
    PROVE  GoodList(file.maps) /\ GoodList(mem[p])
BY DEF IInv, TypeOK, KeysUnique, AddressPresent, GoodList, File

\* The mapping a command looked up has the type of a mapping.
LEMMA OldType ==
    ASSUME NEW c, NEW ms \in Seq(Mapping), Known(c, ms)
    PROVE  Old(c, ms) \in Mapping
<1>1. First(ms, CmdKey(c)) \in DOMAIN ms
  BY FirstIsPosition DEF Known
<1> QED
  BY <1>1, LenProperties, ElementOfSeq DEF Old, Get

\* The mapping a command asks for is well typed and has the command's key.
LEMMA AskedType ==
    ASSUME NEW c \in Command, NEW ms \in Seq(Mapping),
           NEW iface \in IfName \cup {None}, NEW cert \in BOOLEAN,
           c.op = "add" \/ Known(c, ms)
    PROVE  /\ Asked(c, ms, iface, cert) \in Mapping
           /\ Key(Asked(c, ms, iface, cert)) = CmdKey(c)
           /\ Asked(c, ms, iface, cert).ip4 = Final4(c, ms)
           /\ Asked(c, ms, iface, cert).ip6 = Final6(c, ms)
<1>1. CASE c.op = "add"
  BY <1>1 DEF Asked, Final4, Final6, Mapping, Command, Key, CmdKey
<1>2. CASE c.op # "add"
  <2>1. Old(c, ms) \in Mapping
    BY <1>2, OldType
  <2>2. Final4(c, ms) \in IPv4 \cup {None} /\ Final6(c, ms) \in IPv6 \cup {None}
    BY <1>2, <2>1 DEF Final4, Final6, Mapping, Command
  <2> QED  BY <2>2 DEF Asked, Mapping, Command, Key, CmdKey
<1> QED  BY <1>1, <1>2

\* The Setup calls for a list of mappings.
LEMMA SetupsType ==
    ASSUME NEW ms \in Seq(Mapping)
    PROVE  Setups(ms) \in Seq(IfName \X SetupAddr)
<1> DEFINE call(n) ==
        LET m == ms[(n + 1) \div 2]
        IN  <<IfOf[m.domain], IF n % 2 = 1 THEN m.ip4 ELSE m.ip6>>
<1>1. Len(ms) \in Nat /\ 2 * Len(ms) \in Nat
  BY LenProperties
<1>2. ASSUME NEW n \in 1 .. 2 * Len(ms)
      PROVE  call(n) \in IfName \X SetupAddr
  <2>1. (n + 1) \div 2 \in 1 .. Len(ms)
    BY <1>1
  <2>2. ms[(n + 1) \div 2] \in Mapping
    BY <2>1, ElementOfSeq
  <2> QED  BY <2>2, RegistryAssumption DEF Mapping, SetupAddr
<1> HIDE DEF call
<1>3. [n \in 1 .. 2 * Len(ms) |-> call(n)] \in Seq(IfName \X SetupAddr)
  BY <1>1, <1>2, IsASeq
<1> QED
  BY <1>3, Zenon DEF Setups, call

-----------------------------------------------------------------------------
\* The process p may exit at any point.
LEMMA ExitKeeps ==
    ASSUME IInv, NEW p \in Proc, Exit(p), UNCHANGED host,
           file' = file \/ file' = Torn, added' \subseteq Domain \X Port
    PROVE  IInv'
<1>1. TypeOK'
  <2>1. <<>> \in Seq(Mapping)
        /\ <<>> \in Seq(IfName \X (IPv4 \cup IPv6 \cup {None}))
    BY EmptySeq
  <2>2. file' \in File
    BY FileTypes DEF IInv, TypeOK
  <2> QED
    BY <2>1, <2>2 DEF IInv, TypeOK, Exit, Goto, host, Labels
<1>2. KeysUnique'
  BY EmptyListIsGood DEF IInv, TypeOK, KeysUnique, GoodList, Exit, Torn
<1>3. AddressPresent'
  BY EmptyListIsGood DEF IInv, TypeOK, AddressPresent, GoodList, Exit, Torn
<1>4. LocalInv'
  BY DEF IInv, TypeOK, LocalInv, LocalOK, Exit, Goto, InSetup
<1> QED
  BY <1>1, <1>2, <1>3, <1>4 DEF IInv

\* The process p may start to save a well-formed list.
LEMMA TruncateKeeps ==
    ASSUME IInv, NEW p \in Proc, NEW ms, NEW l \in Saving,
           GoodList(ms), Truncate(p, ms, l),
           LocalOK(l, cmd[p], ms, todo[p]),
           added' \subseteq Domain \X Port
    PROVE  IInv'
<1>1. TypeOK'
  <2>1. file' \in File
    BY FileTypes DEF Truncate
  <2> QED
    BY <2>1 DEF IInv, TypeOK, Truncate, Goto, host, Labels, GoodList
<1>2. KeysUnique'
  BY EmptyListIsGood
  DEF IInv, TypeOK, KeysUnique, GoodList, Truncate, Empty
<1>3. AddressPresent'
  BY EmptyListIsGood
  DEF IInv, TypeOK, AddressPresent, GoodList, Truncate, Empty
<1>4. LocalInv'
  BY DEF IInv, TypeOK, LocalInv, Truncate, Goto
<1> QED
  BY <1>1, <1>2, <1>3, <1>4 DEF IInv

\* The process p may go on to label l with the calls ts left to make when
\* that keeps the file well formed and the code after l can rely on LocalOK.
LEMMA MoveKeeps ==
    ASSUME IInv, NEW p \in Proc, NEW l \in Labels,
           NEW ts \in Seq(IfName \X SetupAddr),
           Goto(p, l),
           \/ todo' = [todo EXCEPT ![p] = ts]
           \/ todo' = todo /\ ts = todo[p],
           LocalOK(l, cmd[p], mem[p], ts),
           UNCHANGED <<cmd, mem>>,
           dummyIF' \in [Proc -> IfName \cup {None}],
           doomed' \in [Proc -> SUBSET IfName],
           links' \subseteq IfName,
           plugged' \subseteq IfName \X (IPv4 \cup IPv6),
           added' \subseteq Domain \X Port,
           file' \in {file, Torn, Json(mem[p])}
    PROVE  IInv'
<1>1. /\ GoodList(file'.maps)
      /\ file' \in File
  <2>1. GoodList(mem[p]) /\ GoodList(file.maps) /\ GoodList(<<>>)
    BY EmptyListIsGood, ListsAreGood
  <2>2. file' \in File /\ file'.maps \in {file.maps, mem[p], <<>>}
    BY <2>1, FileTypes DEF IInv, TypeOK, GoodList
  <2> QED  BY <2>1, <2>2
<1>2. TypeOK'
  BY <1>1 DEF IInv, TypeOK, Goto, SetupAddr
<1>3. KeysUnique'
  BY <1>1 DEF IInv, KeysUnique, GoodList
<1>4. AddressPresent'
  BY <1>1 DEF IInv, AddressPresent, GoodList
<1>5. LocalInv'
  BY DEF IInv, TypeOK, LocalInv, Goto
<1> QED
  BY <1>2, <1>3, <1>4, <1>5 DEF IInv

-----------------------------------------------------------------------------
LEMMA InitKeeps == Init => IInv
<1> SUFFICES ASSUME Init PROVE IInv
  OBVIOUS
<1>1. file \in File /\ file.maps = <<>>
  BY RegistryAssumption, EmptySeq, FileTypes DEF Init
<1>2. TypeOK
  <2>1. <<>> \in Seq(Mapping)
        /\ <<>> \in Seq(IfName \X (IPv4 \cup IPv6 \cup {None}))
    BY EmptySeq
  <2> QED  BY <1>1, <2>1 DEF Init, TypeOK, Labels
<1>3. KeysUnique /\ AddressPresent
  BY <1>1, EmptyListIsGood DEF Init, KeysUnique, AddressPresent, GoodList
<1>4. LocalInv
  BY DEF Init, LocalInv, LocalOK, InSetup
<1> QED
  BY <1>2, <1>3, <1>4 DEF IInv

\* The steps that load the file and save it.
LEMMA FileStepsKeep ==
    ASSUME IInv, NEW p \in Proc,
           \/ \E c \in Commands : Load(p, c)
           \/ InitFile(p) \/ Write(p) \/ WriteFails(p) \/ OpenFails(p)
    PROVE  IInv'
<1> USE DEF InSetup
<1>1. ASSUME NEW c \in Commands, Load(p, c)  PROVE IInv'
  <2>1. c \in Command
    BY RegistryAssumption
  <2>2. GoodList(file.maps)
    BY ListsAreGood
  <2>3. TypeOK'
    BY <1>1, <2>1, <2>2 DEF Load, IInv, TypeOK, Goto, host, Labels, GoodList
  <2>4. KeysUnique' /\ AddressPresent'
    BY <1>1, <2>2
    DEF Load, IInv, TypeOK, KeysUnique, AddressPresent, GoodList
  <2>5. LocalInv'
    BY <1>1, <2>1 DEF Load, IInv, TypeOK, LocalInv, LocalOK, Goto
  <2> QED  BY <2>3, <2>4, <2>5 DEF IInv
<1>2. CASE InitFile(p)
  <2>1. LocalOK("save_init", cmd[p], <<>>, todo[p])
    BY <1>2 DEF InitFile, IInv, LocalInv, LocalOK
  <2> QED
    BY <1>2, <2>1, EmptyListIsGood, TruncateKeeps
    DEF InitFile, Saving, IInv, TypeOK
<1>3. CASE Write(p)
  <2> DEFINE l == AfterSave[pc[p]]
  <2>1. l \in Labels
    BY <1>3 DEF Write, Saving, AfterSave, Labels
  <2>2. LocalOK(l, cmd[p], mem[p], todo[p])
    BY <1>3 DEF Write, Saving, AfterSave, IInv, LocalInv, LocalOK
  <2>3. file' \in {file, Torn, Json(mem[p])}
    BY <1>3 DEF Write, Overwritten
  <2> HIDE DEF l
  <2> QED
    BY <1>3, <2>1, <2>2, <2>3, MoveKeeps
    DEF Write, l, IInv, TypeOK, SetupAddr, host, local
<1>4. CASE WriteFails(p)
  <2>1. CASE pc[p] = "save_last" /\ cmd[p].op = "add"
    <3>1. LocalOK("finish", cmd[p], mem[p], todo[p])
      BY <2>1 DEF IInv, LocalInv, LocalOK
    <3> QED
      BY <1>4, <2>1, <3>1, MoveKeeps
      DEF WriteFails, Labels, IInv, TypeOK, SetupAddr, host, local
  <2>2. CASE ~(pc[p] = "save_last" /\ cmd[p].op = "add")
    BY <1>4, <2>2, ExitKeeps DEF WriteFails, IInv, TypeOK
  <2> QED  BY <2>1, <2>2
<1>5. CASE OpenFails(p)
  BY <1>5, ExitKeeps DEF OpenFails, Quit, IInv, TypeOK
<1> QED
  BY <1>1, <1>2, <1>3, <1>4, <1>5

\* dummy.Setup: the calls that are left stay well typed, and nothing the
\* command relies on changes meanwhile.
LEMMA SetupStepsKeep ==
    ASSUME IInv, NEW p \in Proc,
           \/ SkipAddress(p) \/ CheckLink(p) \/ CreateLink(p) \/ BringUp(p)
           \/ CheckAddress(p) \/ Plug(p) \/ SetupFails(p)
    PROVE  IInv'
<1> USE DEF InSetup
<1>1. /\ pc[p] \in InSetup /\ todo[p] # <<>>
      /\ todo[p] \in Seq(IfName \X SetupAddr)
      /\ LocalOK(pc[p], cmd[p], mem[p], todo[p])
  BY DEF IInv, TypeOK, LocalInv, LocalOK, SetupAddr, SkipAddress, CheckLink,
         CreateLink, BringUp, CheckAddress, Plug, SetupFails, SetupCanFail
<1>2. /\ Tail(todo[p]) \in Seq(IfName \X SetupAddr)
      /\ Head(todo[p]) \in IfName \X SetupAddr
  BY <1>1, HeadTailProperties
<1>3. /\ LocalOK("setup", cmd[p], mem[p], Tail(todo[p]))
      /\ Head(todo[p])[2] # None =>
            \A l \in InSetup : LocalOK(l, cmd[p], mem[p], todo[p])
      /\ pc[p] # "setup" => Head(todo[p])[2] # None
  BY <1>1 DEF LocalOK
<1>4. InSetup \subseteq Labels
  BY DEF Labels
<1>5. CASE SkipAddress(p)
  <2>1. Goto(p, "setup")
    BY <1>5 DEF SkipAddress, Goto, IInv, TypeOK
  <2> QED
    BY <1>2, <1>3, <1>4, <1>5, <2>1, MoveKeeps
    DEF SkipAddress, host, IInv, TypeOK
<1>6. CASE CheckLink(p)
  BY <1>1, <1>3, <1>4, <1>6, MoveKeeps
  DEF CheckLink, host, local, IInv, TypeOK
<1>7. CASE CreateLink(p)
  <2>1. links' \subseteq IfName
    BY <1>2, <1>7 DEF CreateLink, Iface, IInv, TypeOK
  <2> QED
    BY <1>1, <1>3, <1>4, <1>7, <2>1, MoveKeeps
    DEF CreateLink, local, IInv, TypeOK
<1>8. CASE BringUp(p)
  BY <1>1, <1>3, <1>4, <1>8, MoveKeeps
  DEF BringUp, host, local, IInv, TypeOK
<1>9. ASSUME SetupReturns(p), plugged' \subseteq IfName \X (IPv4 \cup IPv6)
      PROVE  IInv'
  <2>1. dummyIF' \in [Proc -> IfName \cup {None}]
    BY <1>2, <1>9 DEF SetupReturns, Iface, IInv, TypeOK
  <2> QED
    BY <1>2, <1>3, <1>4, <1>9, <2>1, MoveKeeps DEF SetupReturns, IInv, TypeOK
<1>10. CASE CheckAddress(p)
  <2>1. CASE Goto(p, "assign") /\ UNCHANGED <<file, host, local, added>>
    BY <1>1, <1>3, <1>4, <1>10, <2>1, MoveKeeps
    DEF CheckAddress, host, local, IInv, TypeOK
  <2>2. CASE SetupReturns(p) /\ UNCHANGED plugged
    BY <1>9, <2>2 DEF IInv, TypeOK
  <2> QED
    BY <1>10, <2>1, <2>2 DEF CheckAddress
<1>11. CASE Plug(p)
  <2>1. Head(todo[p]) \in IfName \X (IPv4 \cup IPv6)
    BY <1>1, <1>2, <1>11 DEF Plug, LocalOK, SetupAddr
  <2>2. plugged' \subseteq IfName \X (IPv4 \cup IPv6)
    BY <1>11, <2>1 DEF Plug, IInv, TypeOK
  <2> QED
    BY <1>9, <1>11, <2>2 DEF Plug
<1>12. CASE SetupFails(p)
  BY <1>2, <1>3, <1>4, <1>12, MoveKeeps DEF SetupFails, host, IInv, TypeOK
<1> QED
  BY <1>5, <1>6, <1>7, <1>8, <1>10, <1>11, <1>12

\* add: the mapping it appends has a new key and an address, and the one it
\* updates with a certificate is still there.
LEMMA AddStepsKeep ==
    ASSUME IInv, NEW p \in Proc,
           \/ BeginAdd(p) \/ AddEntry(p) \/ SaveCert(p) \/ NoCert(p)
           \/ Finish(p)
    PROVE  IInv'
<1> USE DEF InSetup
<1> DEFINE c == cmd[p]
           ms == mem[p]
           asked(cert) == Asked(c, ms, dummyIF[p], cert)
<1>1. /\ GoodList(ms)
      /\ ms \in Seq(Mapping)
      /\ LocalOK(pc[p], c, ms, todo[p])
      /\ pc[p] # "idle" /\ c \in Command
  BY ListsAreGood
  DEF IInv, LocalInv, LocalOK, GoodList, BeginAdd, Begin, AddEntry, SetupDone,
      SaveCert, NoCert, Finish
<1>2. ASSUME NEW cert \in BOOLEAN, c.op = "add"
      PROVE  /\ asked(cert) \in Mapping
             /\ Key(asked(cert)) = CmdKey(c)
             /\ HasAddress(c, ms) =>
                   asked(cert).ip4 # None \/ asked(cert).ip6 # None
  <2>1. dummyIF[p] \in IfName \cup {None}
    BY DEF IInv, TypeOK
  <2> QED
    BY <1>1, <1>2, <2>1, AskedType DEF HasAddress
<1>3. CASE BeginAdd(p)
  <2>1. CASE ~HasAddress(c, ms)
    BY <1>3, <2>1, ExitKeeps DEF BeginAdd, Quit, IInv, TypeOK
  <2>2. CASE HasAddress(c, ms)
    <3> DEFINE a == Asked(c, ms, None, FALSE)
    <3>1. c.op = "add"
      BY <1>3 DEF BeginAdd, Begin
    <3>2. a \in Mapping
      BY <1>1, <3>1, AskedType
    <3> HIDE DEF a
    <3>3. <<a>> \in Seq(Mapping)
      BY <3>2
    <3>4. Setups(<<a>>) \in Seq(IfName \X SetupAddr)
      BY <3>3, SetupsType
    <3>5. LocalOK("setup", c, ms, Setups(<<a>>))
      BY <1>1, <2>2, <3>1 DEF LocalOK
    <3>6. StartSetup(p, Setups(<<a>>)) /\ UNCHANGED host
      BY <1>3, <2>2 DEF BeginAdd, Quit, a
    <3> QED
      BY <3>4, <3>5, <3>6, MoveKeeps
      DEF StartSetup, host, Labels, IInv, TypeOK
  <2> QED  BY <2>1, <2>2
<1>4. CASE AddEntry(p)
  <2>1. CASE Known(c, ms)
    BY <1>4, <2>1, ExitKeeps DEF AddEntry, Quit, IInv, TypeOK
  <2>2. CASE ~Known(c, ms)
    <3> DEFINE dm == asked(FALSE)
               new == Add(ms, dm)
    <3>1. c.op = "add" /\ HasAddress(c, ms)
      BY <1>1, <1>4 DEF AddEntry, SetupDone, LocalOK
    <3>2. dm \in Mapping /\ Key(dm) = CmdKey(c)
          /\ (dm.ip4 # None \/ dm.ip6 # None)
      BY <1>2, <3>1
    <3> HIDE DEF dm
    <3>3. GoodList(new) /\ CmdKey(c) \in Keys(new)
      BY <1>1, <2>2, <3>2, AddKeeps DEF GoodList, Known
    <3>4. LocalOK("save_added", c, new, todo[p])
      BY <1>1, <3>1, <3>3 DEF LocalOK, Known, HasAddress, Final4, Final6
    <3>5. Truncate(p, new, "save_added") /\ UNCHANGED added
      BY <1>4, <2>2 DEF AddEntry, dm
    <3> HIDE DEF new
    <3> QED
      BY <3>3, <3>4, <3>5, TruncateKeeps DEF Saving, IInv, TypeOK
  <2> QED  BY <2>1, <2>2
<1>5. CASE SaveCert(p)
  <2> DEFINE dm == asked(TRUE)
             new == Update(ms, dm)
  <2>1. c.op = "add" /\ HasAddress(c, ms) /\ Known(c, ms)
    BY <1>1, <1>5 DEF SaveCert, LocalOK
  <2>2. dm \in Mapping /\ Key(dm) = CmdKey(c)
        /\ (dm.ip4 # None \/ dm.ip6 # None)
    BY <1>2, <2>1
  <2> HIDE DEF dm
  <2>3. GoodList(new)
    BY <1>1, <2>1, <2>2, UpdateKeeps DEF GoodList, Known
  <2>4. LocalOK("save_last", c, new, todo[p])
    BY <1>1 DEF LocalOK
  <2>5. Truncate(p, new, "save_last") /\ UNCHANGED added
    BY <1>5 DEF SaveCert, dm
  <2> HIDE DEF new
  <2> QED
    BY <2>3, <2>4, <2>5, TruncateKeeps DEF Saving, IInv, TypeOK
<1>6. CASE NoCert(p)
  <2>1. LocalOK("finish", c, ms, todo[p])
    BY <1>1 DEF LocalOK
  <2> QED
    BY <1>6, <2>1, MoveKeeps
    DEF NoCert, host, local, Labels, IInv, TypeOK, SetupAddr
<1>7. CASE Finish(p)
  <2>1. CmdKey(c) \in Domain \X Port
    BY <1>1 DEF Command, CmdKey
  <2> QED
    BY <1>7, <2>1, ExitKeeps DEF Finish, host, IInv, TypeOK
<1> QED
  BY <1>3, <1>4, <1>5, <1>6, <1>7

\* update: the mapping it found is still in its list when it stores the merged
\* one, whose addresses it has checked.
LEMMA UpdateStepsKeep ==
    ASSUME IInv, NEW p \in Proc, BeginUpdate(p) \/ UpdateEntry(p)
    PROVE  IInv'
<1> USE DEF InSetup
<1> DEFINE c == cmd[p]
           ms == mem[p]
<1>1. /\ GoodList(ms)
      /\ ms \in Seq(Mapping)
      /\ LocalOK(pc[p], c, ms, todo[p])
      /\ c \in Command /\ c.op = "update"
  BY ListsAreGood
  DEF IInv, LocalInv, LocalOK, GoodList, BeginUpdate, Begin, UpdateEntry,
      SetupDone
<1>2. CASE BeginUpdate(p)
  <2>1. CASE UpdateRefused(c, ms)
    BY <1>2, <2>1, ExitKeeps DEF BeginUpdate, Quit, IInv, TypeOK
  <2>2. ASSUME ~UpdateRefused(c, ms)
        PROVE  /\ Known(c, ms) /\ HasAddress(c, ms)
               /\ \A ts : LocalOK("setup", c, ms, ts)
    BY <1>1, <2>2 DEF UpdateRefused, LocalOK
  <2>3. CASE ~UpdateRefused(c, ms) /\ NeedRebuild(c, ms)
    <3> DEFINE a == Asked(c, ms, None, FALSE)
    <3>1. a \in Mapping
      BY <1>1, <2>2, <2>3, AskedType
    <3> HIDE DEF a
    <3>2. <<a>> \in Seq(Mapping)
      BY <3>1
    <3>3. Setups(<<a>>) \in Seq(IfName \X SetupAddr)
      BY <3>2, SetupsType
    <3>4. StartSetup(p, Setups(<<a>>)) /\ Unlink(IfOf[c.domain])
      BY <1>2, <2>3 DEF BeginUpdate, Quit, a
    <3>5. links' \subseteq IfName /\ plugged' \subseteq IfName \X (IPv4 \cup IPv6)
      BY <3>4 DEF Unlink, host, IInv, TypeOK
    <3> QED
      BY <2>2, <2>3, <3>3, <3>4, <3>5, MoveKeeps
      DEF StartSetup, Labels, IInv, TypeOK
  <2>4. CASE ~UpdateRefused(c, ms) /\ ~NeedRebuild(c, ms)
    <3>1. Old(c, ms) \in Mapping
      BY <1>1, <2>2, <2>4, OldType
    <3>2. /\ dummyIF' = [dummyIF EXCEPT ![p] = Old(c, ms).iface]
          /\ Goto(p, "setup")
          /\ UNCHANGED <<file, host, cmd, mem, todo, doomed, added>>
      BY <1>2, <2>4 DEF BeginUpdate, Quit
    <3>3. dummyIF' \in [Proc -> IfName \cup {None}]
      BY <3>1, <3>2 DEF IInv, TypeOK, Mapping
    <3> QED
      BY <2>2, <2>4, <3>2, <3>3, MoveKeeps
      DEF host, Labels, IInv, TypeOK, SetupAddr
  <2> QED  BY <2>1, <2>3, <2>4
<1>3. CASE UpdateEntry(p)
  <2> DEFINE asked == Asked(c, ms, dummyIF[p], FALSE)
             dm == Revised(c, ms, dummyIF[p])
             new == Update(ms, dm)
  <2>1. Known(c, ms) /\ HasAddress(c, ms)
    BY <1>1, <1>3 DEF UpdateEntry, SetupDone, LocalOK
  <2>2. asked \in Mapping /\ Key(asked) = CmdKey(c)
        /\ (asked.ip4 # None \/ asked.ip6 # None)
    <3>1. dummyIF[p] \in IfName \cup {None}
      BY DEF IInv, TypeOK
    <3>2. /\ asked \in Mapping /\ Key(asked) = CmdKey(c)
          /\ asked.ip4 = Final4(c, ms) /\ asked.ip6 = Final6(c, ms)
      BY <1>1, <2>1, <3>1, AskedType
    <3> QED
      BY <2>1, <3>2 DEF HasAddress
  <2>3. dm = [asked EXCEPT !.tls = FALSE]
    BY DEF Revised
  <2> HIDE DEF asked, dm
  <2>4. dm \in Mapping /\ Key(dm) = CmdKey(c)
        /\ (dm.ip4 # None \/ dm.ip6 # None)
    BY <2>2, <2>3 DEF Mapping, Key
  <2>5. GoodList(new)
    BY <1>1, <2>1, <2>4, UpdateKeeps DEF GoodList, Known
  <2>6. LocalOK("save_last", c, new, todo[p])
    BY <1>1 DEF LocalOK
  <2>7. Truncate(p, new, "save_last") /\ UNCHANGED added
    BY <1>3 DEF UpdateEntry, dm
  <2> HIDE DEF new
  <2> QED
    BY <2>5, <2>6, <2>7, TruncateKeeps DEF Saving, IInv, TypeOK
<1> QED
  BY <1>2, <1>3

\* delete, reset and list.
LEMMA RemovalStepsKeep ==
    ASSUME IInv, NEW p \in Proc,
           \/ Ask(p) \/ Decline(p) \/ ConfirmDelete(p) \/ DropEntry(p)
           \/ ConfirmReset(p) \/ CleanupOne(p) \/ ResetFile(p) \/ List(p)
    PROVE  IInv'
<1> USE DEF InSetup
<1> DEFINE c == cmd[p]
           ms == mem[p]
<1>1. /\ GoodList(ms)
      /\ ms \in Seq(Mapping)
      /\ LocalOK(pc[p], c, ms, todo[p])
      /\ c \in Command
  BY ListsAreGood
  DEF IInv, LocalInv, LocalOK, GoodList, Begin, Ask, Decline, ConfirmDelete,
      DropEntry, ConfirmReset, CleanupOne, ResetFile, List
<1>2. \A l \in {"prompt", "drop", "cleanup", "save_last"} :
          l \in Labels /\ \A list : LocalOK(l, c, list, todo[p])
  BY <1>1 DEF LocalOK, Labels, Saving
<1>3. ASSUME NEW i, Unlink(i)
      PROVE  /\ links' \subseteq IfName
             /\ plugged' \subseteq IfName \X (IPv4 \cup IPv6)
  BY <1>3 DEF Unlink, host, IInv, TypeOK
<1>4. CASE Ask(p)
  BY <1>2, <1>4, MoveKeeps DEF Ask, host, local, IInv, TypeOK, SetupAddr
<1>5. CASE Decline(p) \/ List(p)
  BY <1>5, ExitKeeps DEF Decline, List, Quit, IInv, TypeOK
<1>6. CASE ConfirmDelete(p)
  BY <1>2, <1>3, <1>6, MoveKeeps
  DEF ConfirmDelete, local, IInv, TypeOK, SetupAddr
<1>7. CASE DropEntry(p)
  <2>1. CASE ~Known(c, ms)
    BY <1>7, <2>1, ExitKeeps DEF DropEntry, Quit, IInv, TypeOK
  <2>2. CASE Known(c, ms)
    <3>1. GoodList(Delete(ms, CmdKey(c)))
      BY <1>1, <2>2, DeleteKeeps DEF GoodList, Known
    <3> QED
      BY <1>2, <1>7, <2>2, <3>1, TruncateKeeps
      DEF DropEntry, Saving, IInv, TypeOK
  <2> QED  BY <2>1, <2>2
<1>8. CASE ConfirmReset(p)
  BY <1>2, <1>8, MoveKeeps
  DEF ConfirmReset, StartCleanup, host, IInv, TypeOK, SetupAddr
<1>9. CASE CleanupOne(p)
  <2>1. PICK i \in doomed[p] : /\ Unlink(i)
                               /\ doomed' = [doomed EXCEPT ![p] = @ \ {i}]
    BY <1>9 DEF CleanupOne
  <2>2. Goto(p, "cleanup") /\ doomed' \in [Proc -> SUBSET IfName]
    BY <1>9, <2>1 DEF CleanupOne, Goto, IInv, TypeOK
  <2> QED
    BY <1>2, <1>3, <1>9, <2>1, <2>2, MoveKeeps
    DEF CleanupOne, IInv, TypeOK, SetupAddr
<1>10. CASE ResetFile(p)
  BY <1>2, <1>10, EmptyListIsGood, TruncateKeeps
  DEF ResetFile, Saving, IInv, TypeOK
<1> QED
  BY <1>4, <1>5, <1>6, <1>7, <1>8, <1>9, <1>10

\* The daemon, and a crash of any process.
LEMMA DaemonStepsKeep ==
    ASSUME IInv, NEW p \in Proc,
           \/ BeginDaemon(p) \/ Serve(p) \/ StopDaemon(p)
           \/ DaemonStopped(p) \/ Crash(p)
    PROVE  IInv'
<1> USE DEF InSetup
<1>1. /\ mem[p] \in Seq(Mapping)
      /\ LocalOK(pc[p], cmd[p], mem[p], todo[p])
  BY DEF IInv, TypeOK, LocalInv
<1>2. CASE BeginDaemon(p)
  <2>1. Setups(mem[p]) \in Seq(IfName \X SetupAddr)
    BY <1>1, SetupsType
  <2>2. LocalOK("setup", cmd[p], mem[p], Setups(mem[p]))
    BY <1>1, <1>2 DEF BeginDaemon, Begin, LocalOK
  <2> QED
    BY <1>2, <2>1, <2>2, MoveKeeps
    DEF BeginDaemon, StartSetup, host, Labels, IInv, TypeOK
<1>3. CASE Serve(p)
  <2>1. LocalOK("serve", cmd[p], mem[p], todo[p])
    BY <1>1, <1>3 DEF Serve, SetupDone, LocalOK
  <2>2. CASE Quit(p)
    BY <2>2, ExitKeeps DEF Quit, IInv, TypeOK
  <2>3. CASE Goto(p, "serve") /\ UNCHANGED <<file, host, local, added>>
    BY <2>1, <2>3, MoveKeeps
    DEF host, local, Labels, IInv, TypeOK, SetupAddr
  <2> QED  BY <1>3, <2>2, <2>3 DEF Serve
<1>4. CASE StopDaemon(p)
  <2>1. LocalOK("cleanup", cmd[p], mem[p], todo[p])
    BY <1>1, <1>4 DEF StopDaemon, LocalOK
  <2> QED
    BY <1>4, <2>1, MoveKeeps
    DEF StopDaemon, StartCleanup, host, Labels, IInv, TypeOK, SetupAddr
<1>5. CASE DaemonStopped(p) \/ Crash(p)
  BY <1>5, ExitKeeps DEF DaemonStopped, Crash, Quit, IInv, TypeOK
<1> QED
  BY <1>2, <1>3, <1>4, <1>5

-----------------------------------------------------------------------------
LEMMA NextKeeps == IInv /\ [Next]_vars => IInv'
<1> SUFFICES ASSUME IInv, [Next]_vars  PROVE IInv'
  OBVIOUS
<1>1. ASSUME UNCHANGED vars  PROVE IInv'
  BY <1>1
  DEF vars, IInv, TypeOK, KeysUnique, AddressPresent, LocalInv
<1>2. ASSUME NEW p \in Proc, Step(p)  PROVE IInv'
  BY <1>2, FileStepsKeep, SetupStepsKeep, AddStepsKeep, UpdateStepsKeep,
     RemovalStepsKeep, DaemonStepsKeep
  DEF Step
<1>3. ASSUME NEW p \in Proc, Given(p)  PROVE IInv'
  BY <1>1, <1>3, FileStepsKeep, RemovalStepsKeep, DaemonStepsKeep
  DEF Given, Refused
<1> QED
  BY <1>1, <1>2, <1>3 DEF Next

\* The inductive invariant.
THEOREM IInvHolds == Spec => []IInv
<1>1. Init => IInv
  BY InitKeeps
<1>2. IInv /\ [Next]_vars => IInv'
  BY NextKeeps
<1> QED
  BY <1>1, <1>2, PTL DEF Spec

\* The variables keep their types in every interleaving of the commands.
THEOREM TypeCorrect == Spec => []TypeOK
<1>1. IInv => TypeOK
  BY DEF IInv
<1> QED
  BY <1>1, IInvHolds, PTL

\* No list ever holds two mappings of one domain and port, however many
\* commands overlap: Config.Add refuses a known key, and Update and Delete
\* change or remove the one mapping they find.
THEOREM KeysAreUnique == Spec => []KeysUnique
<1>1. IInv => KeysUnique
  BY DEF IInv
<1> QED
  BY <1>1, IInvHolds, PTL

\* No list ever holds a mapping without an address: the checks of handleAdd
\* and handleUpdate still hold when the list is saved.
THEOREM AddressesArePresent == Spec => []AddressPresent
<1>1. IInv => AddressPresent
  BY DEF IInv
<1> QED
  BY <1>1, IInvHolds, PTL

-----------------------------------------------------------------------------
(***************************************************************************)
(* What a step is, seen from the file and from the memory of the process   *)
(* that takes it.                                                          *)
(***************************************************************************)
\* Where a process may stand with each command.
OpAt(l, op) ==
    /\ l \in {"added", "save_added"} => op = "add"
    /\ l = "prompt" => op \in {"delete", "reset"}
    /\ l = "drop" => op = "delete"
    /\ l = "cleanup" => op \in {"reset", "daemon"}
    /\ l = "serve" => op = "daemon"
    /\ l \in {"save_last", "finish"} => op # "daemon"

Placed ==
    \A p \in Proc : pc[p] # "idle" =>
        /\ (cmd[p].op = "daemon") <=> (p = Daemon)
        /\ OpAt(pc[p], cmd[p].op)

\* A process begins a save.
Saves(p) ==
    /\ \/ InitFile(p) \/ AddEntry(p) \/ SaveCert(p) \/ UpdateEntry(p)
       \/ DropEntry(p) \/ ResetFile(p)
    /\ ~Quit(p)

\* A process goes on without having touched the file.
Moves(p, l) == Goto(p, l) /\ UNCHANGED <<file, cmd, mem, added>>

Working == {"begin", "added", "prompt", "drop", "cleanup"} \cup InSetup

LEMMA StepKinds ==
    ASSUME IInv, NEW p \in Proc, Step(p) \/ Given(p)
    PROVE  \/ UNCHANGED vars \/ Quit(p) \/ Saves(p)
           \/ \E c \in Commands : Load(p, c)
           \/ Write(p) \/ WriteFails(p) \/ Finish(p)
           \/ \E l \in (Working \cup {"finish", "serve"}) \ {"begin", "added"} :
                 /\ Moves(p, l)
                 /\ pc[p] \in Working \cup {"serve"}
                 /\ OpAt(pc[p], cmd[p].op) => OpAt(l, cmd[p].op)
                 /\ l = "serve" => cmd[p].op = "daemon"
                 /\ l = "finish" => pc[p] = "added"
<1>0. pc \in [Proc -> Labels] /\ LocalOK(pc[p], cmd[p], mem[p], todo[p])
  BY DEF IInv, TypeOK, LocalInv
<1> USE DEF Moves, Goto, OpAt, Working, InSetup
<1>1. CASE \/ InitFile(p) \/ AddEntry(p) \/ SaveCert(p) \/ UpdateEntry(p)
           \/ DropEntry(p) \/ ResetFile(p)
  BY <1>1 DEF Saves
<1>2. CASE \/ SkipAddress(p) \/ CheckLink(p) \/ CreateLink(p) \/ BringUp(p)
           \/ CheckAddress(p) \/ Plug(p) \/ SetupFails(p)
  <2>1. \E l \in InSetup : Moves(p, l)
    BY <1>0, <1>2
    DEF SkipAddress, CheckLink, CreateLink, BringUp, CheckAddress, Plug,
        SetupReturns, SetupFails, local
  <2>2. pc[p] \in InSetup
    BY <1>2
    DEF SkipAddress, CheckLink, CreateLink, BringUp, CheckAddress, Plug,
        SetupFails, SetupCanFail
  <2> QED
    BY <2>1, <2>2
<1>3. CASE BeginAdd(p) \/ BeginUpdate(p) \/ BeginDaemon(p)
  <2>1. Quit(p) \/ (Moves(p, "setup") /\ pc[p] = "begin")
    BY <1>3 DEF BeginAdd, BeginUpdate, BeginDaemon, Begin, StartSetup
  <2> QED
    BY <2>1
<1>4. CASE Ask(p) \/ ConfirmDelete(p) \/ ConfirmReset(p) \/ StopDaemon(p)
  BY <1>4 DEF Ask, Begin, ConfirmDelete, ConfirmReset, StopDaemon, StartCleanup,
              local
<1>5. CASE CleanupOne(p)
  <2>1. Moves(p, "cleanup") /\ pc[p] = "cleanup"
    BY <1>0, <1>5 DEF CleanupOne
  <2> QED
    BY <2>1
<1>6. CASE NoCert(p)
  BY <1>6 DEF NoCert, local
<1>7. CASE Serve(p)
  <2>1. Quit(p) \/ (Moves(p, "serve") /\ pc[p] = "setup" /\ cmd[p].op = "daemon")
    BY <1>7 DEF Serve, SetupDone, local
  <2> QED
    BY <2>1
<1>8. CASE List(p) \/ DaemonStopped(p) \/ Decline(p) \/ Crash(p) \/ OpenFails(p)
  BY <1>8 DEF List, DaemonStopped, Decline, Crash, OpenFails
<1>9. CASE Refused(p)
  BY <1>9 DEF Refused
<1> HIDE DEF Moves, Goto, OpAt, Working, InSetup
<1> QED
  BY <1>1, <1>2, <1>3, <1>4, <1>5, <1>6, <1>7, <1>8, <1>9 DEF Step, Given

\* Only the process that takes a step changes its memory and its place.
LEMMA OthersStay ==
    ASSUME IInv, NEW p \in Proc, Step(p) \/ Given(p), NEW q \in Proc, q # p
    PROVE  pc'[q] = pc[q] /\ cmd'[q] = cmd[q] /\ mem'[q] = mem[q]
<1>0. /\ pc \in [Proc -> Labels] /\ mem \in [Proc -> Seq(Mapping)]
      /\ DOMAIN cmd = Proc
  BY DEF IInv, TypeOK
<1>1. CASE UNCHANGED vars
  BY <1>1 DEF vars
<1>2. CASE Quit(p)
  BY <1>0, <1>2 DEF Quit, Exit, Goto
<1>3. CASE Saves(p)
  BY <1>0, <1>3 DEF Saves, InitFile, AddEntry, SaveCert, UpdateEntry, DropEntry,
                    ResetFile, Truncate, Goto
<1>4. CASE \E c \in Commands : Load(p, c)
  BY <1>0, <1>4 DEF Load, Goto
<1>5. CASE Write(p) \/ WriteFails(p) \/ Finish(p)
  BY <1>0, <1>5 DEF Write, WriteFails, Finish, Exit, Goto, local
<1>6. CASE \E l : Moves(p, l)
  BY <1>0, <1>6 DEF Moves, Goto
<1> QED
  BY <1>1, <1>2, <1>3, <1>4, <1>5, <1>6, StepKinds

\* The list a process begins to save, compared with the one it loaded: one
\* mapping more, one changed that keeps its certificate, one less, or none.
SavedList(p, ms) ==
    LET k == CmdKey(cmd[p])
        old == Keys(mem[p])
    IN  \/ /\ pc[p] = "init" /\ ms = <<>> /\ added' = added
        \/ /\ Keys(ms) = old \cup {k} /\ k \notin old /\ added' = added
           /\ OthersFrom(mem[p], ms, k)
        \/ /\ Keys(ms) = old /\ k \in old /\ added' = added
           /\ InPlace(mem[p], ms) /\ OthersFrom(mem[p], ms, k)
           /\ \A i \in DOMAIN mem[p] : mem[p][i].cert => ms[i].cert
        \/ /\ Keys(ms) = old \ {k} /\ k \in old /\ added' = added \ {k}
           /\ cmd[p].op = "delete" /\ OthersFrom(mem[p], ms, k)
        \/ /\ ms = <<>> /\ added' = {} /\ cmd[p].op = "reset"

LEMMA SaveKinds ==
    ASSUME IInv, Placed, NEW p \in Proc, Saves(p)
    PROVE  \E ms \in Seq(Mapping), l \in Saving :
              /\ Truncate(p, ms, l) /\ SavedList(p, ms)
              /\ Unique(ms) /\ SameOrder(mem[p], ms)
              /\ pc[p] \in {"init"} \cup Working
              /\ OpAt(pc[p], cmd[p].op) => OpAt(l, cmd[p].op)
              /\ cmd[p].op = "add" => l = "save_init" \/ CmdKey(cmd[p]) \in Keys(ms)
<1> DEFINE c == cmd[p]
           ms == mem[p]
           k == CmdKey(c)
<1>0. /\ GoodList(ms) /\ ms \in Seq(Mapping) /\ Unique(ms)
      /\ LocalOK(pc[p], c, ms, todo[p]) /\ dummyIF[p] \in IfName \cup {None}
  BY ListsAreGood DEF IInv, LocalInv, TypeOK, GoodList
<1> USE DEF Saving, Working, InSetup, SavedList
<1>1. OpAt("save_init", c.op)
  BY DEF OpAt
<1>2. SameOrder(ms, <<>>) /\ <<>> \in Seq(Mapping) /\ Unique(<<>>)
  BY EmptySeq DEF SameOrder, Unique
<1>3. CASE InitFile(p)
  BY <1>1, <1>2, <1>3 DEF InitFile
<1>4. CASE AddEntry(p)
  <2> DEFINE dm == Asked(c, ms, dummyIF[p], FALSE)
             new == Add(ms, dm)
  <2>1. /\ ~Known(c, ms) /\ Truncate(p, new, "save_added") /\ added' = added
        /\ pc[p] = "setup" /\ c.op = "add"
    BY <1>4 DEF AddEntry, Saves, SetupDone
  <2>2. c \in Command
    BY <1>0, <2>1 DEF LocalOK
  <2>3. dm \in Mapping /\ Key(dm) = k
    BY <1>0, <2>1, <2>2, AskedType
  <2> HIDE DEF dm
  <2>4. /\ new \in Seq(Mapping) /\ Unique(new) /\ Keys(new) = Keys(ms) \cup {k}
        /\ InPlace(ms, new) /\ OthersFrom(ms, new, k)
    BY <1>0, <2>1, <2>3, AddKeeps DEF Known
  <2> HIDE DEF new
  <2>5. SameOrder(ms, new)
    BY <1>0, <2>4, InPlaceOrdered
  <2>6. SavedList(p, new)
    BY <2>1, <2>4 DEF Known
  <2>7. OpAt("save_added", c.op) /\ k \in Keys(new)
    BY <2>1, <2>4 DEF OpAt
  <2> QED
    BY <2>1, <2>4, <2>5, <2>6, <2>7
<1>5. ASSUME NEW dm \in Mapping, Key(dm) = k, Known(c, ms),
             Truncate(p, Update(ms, dm), "save_last"), added' = added,
             pc[p] \in Working, c.op # "daemon"
      PROVE  \E new \in Seq(Mapping), l \in Saving :
              /\ Truncate(p, new, l) /\ SavedList(p, new)
              /\ Unique(new) /\ SameOrder(ms, new)
              /\ pc[p] \in {"init"} \cup Working
              /\ OpAt(pc[p], c.op) => OpAt(l, c.op)
              /\ c.op = "add" => l = "save_init" \/ k \in Keys(new)
  <2> DEFINE new == Update(ms, dm)
  <2>1. /\ new \in Seq(Mapping) /\ Unique(new) /\ Keys(new) = Keys(ms)
        /\ InPlace(ms, new) /\ OthersFrom(ms, new, k)
        /\ \A i \in DOMAIN ms : ms[i].cert => new[i].cert
    BY <1>0, <1>5, UpdateKeeps DEF Known
  <2> HIDE DEF new
  <2>2. SameOrder(ms, new)
    BY <1>0, <2>1, InPlaceOrdered
  <2>3. SavedList(p, new) /\ k \in Keys(new)
    BY <1>5, <2>1 DEF Known
  <2>4. OpAt("save_last", c.op)
    BY <1>5 DEF OpAt
  <2>5. Truncate(p, new, "save_last")
    BY <1>5 DEF new
  <2> QED
    BY <1>5, <2>1, <2>2, <2>3, <2>4, <2>5
<1>6. CASE SaveCert(p)
  <2> DEFINE dm == Asked(c, ms, dummyIF[p], TRUE)
  <2>1. /\ pc[p] = "added" /\ Truncate(p, Update(ms, dm), "save_last")
        /\ added' = added
    BY <1>6 DEF SaveCert
  <2>2. c.op = "add" /\ Known(c, ms) /\ c \in Command
    BY <1>0, <2>1 DEF LocalOK
  <2>3. dm \in Mapping /\ Key(dm) = k
    BY <1>0, <2>2, AskedType
  <2> HIDE DEF dm
  <2> QED
    BY <1>5, <2>1, <2>2, <2>3
<1>7. CASE UpdateEntry(p)
  <2> DEFINE asked == Asked(c, ms, dummyIF[p], FALSE)
             dm == Revised(c, ms, dummyIF[p])
  <2>1. /\ pc[p] = "setup" /\ c.op = "update" /\ added' = added
        /\ Truncate(p, Update(ms, dm), "save_last")
    BY <1>7 DEF UpdateEntry, SetupDone
  <2>2. Known(c, ms) /\ c \in Command
    BY <1>0, <2>1 DEF LocalOK, InSetup
  <2>3. asked \in Mapping /\ Key(asked) = k
    BY <1>0, <2>2, AskedType
  <2>4. dm = [asked EXCEPT !.tls = FALSE]
    BY DEF Revised
  <2> HIDE DEF asked, dm
  <2>5. dm \in Mapping /\ Key(dm) = k
    BY <2>3, <2>4 DEF Mapping, Key
  <2> QED
    BY <1>5, <2>1, <2>2, <2>5
<1>8. CASE DropEntry(p)
  <2> DEFINE new == Delete(ms, k)
  <2>1. /\ pc[p] = "drop" /\ Known(c, ms) /\ Truncate(p, new, "save_last")
        /\ added' = added \ {k}
    BY <1>8 DEF DropEntry, Saves
  <2>2. c.op = "delete"
    BY <2>1 DEF Placed, OpAt
  <2>3. /\ new \in Seq(Mapping) /\ Unique(new) /\ Keys(new) = Keys(ms) \ {k}
        /\ SameOrder(ms, new) /\ OthersFrom(ms, new, k)
    BY <1>0, <2>1, DeleteKeeps DEF Known
  <2> HIDE DEF new
  <2>4. SavedList(p, new) /\ OpAt("save_last", c.op)
    BY <2>1, <2>2, <2>3 DEF Known, OpAt
  <2> QED
    BY <2>1, <2>2, <2>3, <2>4
<1>9. CASE ResetFile(p)
  <2>1. /\ pc[p] = "cleanup" /\ c.op = "reset" /\ added' = {}
        /\ Truncate(p, <<>>, "save_last")
    BY <1>9 DEF ResetFile
  <2>2. SavedList(p, <<>>) /\ OpAt("save_last", c.op)
    BY <2>1 DEF OpAt
  <2> QED
    BY <1>2, <2>1, <2>2
<1> QED
  BY <1>3, <1>4, <1>6, <1>7, <1>8, <1>9 DEF Saves

-----------------------------------------------------------------------------
LEMMA PlacedStep ==
    ASSUME IInv, Placed, NEW p \in Proc, Step(p) \/ Given(p)
    PROVE  Placed'
<1>0. /\ pc \in [Proc -> Labels] /\ DOMAIN cmd = Proc
      /\ pc[p] # "idle" => OpAt(pc[p], cmd[p].op)
                           /\ ((cmd[p].op = "daemon") <=> (p = Daemon))
  BY DEF IInv, TypeOK, Placed
<1>1. ASSUME UNCHANGED vars  PROVE Placed'
  BY <1>1 DEF vars, Placed
<1>2. SUFFICES ASSUME ~UNCHANGED vars, pc'[p] # "idle"
               PROVE  /\ (cmd'[p].op = "daemon") <=> (p = Daemon)
                      /\ OpAt(pc'[p], cmd'[p].op)
  <2>1. ASSUME pc'[p] # "idle" => /\ (cmd'[p].op = "daemon") <=> (p = Daemon)
                                  /\ OpAt(pc'[p], cmd'[p].op),
               NEW q \in Proc, pc'[q] # "idle"
        PROVE  /\ (cmd'[q].op = "daemon") <=> (q = Daemon)
               /\ OpAt(pc'[q], cmd'[q].op)
    BY <2>1, OthersStay DEF Placed
  <2> QED
    BY <1>1, <2>1 DEF Placed
<1>3. ASSUME Quit(p) \/ Finish(p)  PROVE FALSE
  BY <1>0, <1>2, <1>3 DEF Quit, Finish, Exit, Goto
<1>4. CASE Saves(p)
  <2>1. PICK ms \in Seq(Mapping), l \in Saving :
            /\ Truncate(p, ms, l) /\ pc[p] \in {"init"} \cup Working
            /\ OpAt(pc[p], cmd[p].op) => OpAt(l, cmd[p].op)
    BY <1>4, SaveKinds
  <2>2. pc'[p] = l /\ cmd'[p] = cmd[p] /\ pc[p] # "idle"
    BY <1>0, <2>1 DEF Truncate, Goto, Working, InSetup
  <2> QED
    BY <1>0, <2>1, <2>2
<1>5. CASE \E c \in Commands : Load(p, c)
  BY <1>0, <1>5 DEF Load, Goto, OpAt
<1>6. CASE Write(p) \/ WriteFails(p)
  <2>1. pc[p] \in Saving
    BY <1>6 DEF Write, WriteFails
  <2>2. CASE Write(p)
    <3>1. pc'[p] = AfterSave[pc[p]] /\ cmd'[p] = cmd[p]
      BY <1>0, <2>2 DEF Write, Goto, local
    <3> QED
      BY <1>0, <2>1, <3>1 DEF Saving, AfterSave, OpAt
  <2>3. CASE WriteFails(p)
    <3>1. pc'[p] = "finish" /\ cmd'[p] = cmd[p] /\ pc[p] = "save_last"
      BY <1>0, <1>2, <2>3 DEF WriteFails, Goto, Exit, local
    <3> QED
      BY <1>0, <3>1 DEF OpAt
  <2> QED
    BY <1>6, <2>2, <2>3
<1>7. ASSUME NEW l, Moves(p, l), pc[p] \in Working \cup {"serve"},
             OpAt(pc[p], cmd[p].op) => OpAt(l, cmd[p].op)
      PROVE  /\ (cmd'[p].op = "daemon") <=> (p = Daemon)
             /\ OpAt(pc'[p], cmd'[p].op)
  <2>1. pc'[p] = l /\ cmd'[p] = cmd[p] /\ pc[p] # "idle"
    BY <1>0, <1>7 DEF Moves, Goto, Working, InSetup
  <2> QED
    BY <1>0, <1>7, <2>1
<1> QED
  BY <1>2, <1>3, <1>4, <1>5, <1>6, <1>7, StepKinds

LEMMA PlacedHolds == Spec => []Placed
<1>1. Init => Placed
  BY DEF Init, Placed
<1>2. IInv /\ Placed /\ [Next]_vars => Placed'
  <2>1. Placed /\ UNCHANGED vars => Placed'
    BY DEF vars, Placed
  <2> QED
    BY <2>1, PlacedStep DEF Next
<1> QED
  BY <1>1, <1>2, IInvHolds, PTL DEF Spec

\* The mappings that survive a save keep their order, whichever commands
\* overlap: what a process saves is the list it loaded, with one mapping more,
\* one changed in its place, or one less.
THEOREM SavesKeepOrder == Spec => OrderKept
<1>1. ASSUME IInv, Placed, [Next]_vars
      PROVE  [\A p \in Proc : pc'[p] \in Saving => SameOrder(mem[p], mem'[p])]_vars
  <2> SUFFICES ASSUME NEW q \in Proc, Step(q) \/ Given(q),
                      NEW p \in Proc, pc'[p] \in Saving
               PROVE  SameOrder(mem[p], mem'[p])
    BY <1>1 DEF Next
  <2>1. mem[p] \in Seq(Mapping) /\ mem \in [Proc -> Seq(Mapping)]
        /\ pc \in [Proc -> Labels] /\ Unique(mem[p])
    BY <1>1 DEF IInv, TypeOK, KeysUnique
  <2>2. SameOrder(mem[p], mem[p])
    BY <2>1, InPlaceOrdered DEF InPlace
  <2>3. CASE mem'[p] = mem[p]
    BY <2>2, <2>3
  <2>4. CASE mem'[p] # mem[p]
    <3>1. q = p
      BY <1>1, <2>4, OthersStay
    <3>2. CASE Saves(p)
      <4>1. PICK ms \in Seq(Mapping), l \in Saving :
                Truncate(p, ms, l) /\ SameOrder(mem[p], ms)
        BY <1>1, <3>2, SaveKinds
      <4> QED
        BY <2>1, <4>1 DEF Truncate
    <3>3. CASE Quit(p) \/ Finish(p) \/ WriteFails(p)
      <4>1. pc'[p] = "idle" \/ UNCHANGED mem
        BY <2>1, <3>3 DEF Quit, Finish, WriteFails, Exit, Goto, local
      <4> QED
        BY <2>4, <4>1 DEF Saving
    <3>4. CASE \E c \in Commands : Load(p, c)
      BY <2>1, <3>4 DEF Load, Goto, Saving
    <3>5. CASE UNCHANGED vars \/ Write(p) \/ \E l : Moves(p, l)
      BY <2>4, <3>5 DEF vars, Write, Moves, local
    <3> QED
      BY <1>1, <3>1, <3>2, <3>3, <3>4, <3>5, StepKinds
  <2> QED
    BY <2>3, <2>4
<1> QED
  BY <1>1, IInvHolds, PlacedHolds, PTL DEF Spec, OrderKept
-----------------------------------------------------------------------------
(***************************************************************************)
(* One command at a time.  Terminal c is the only one, and the daemon,     *)
(* which loads the same file, finds one: a daemon started without a file   *)
(* makes an empty one, and may truncate it under a command that runs.      *)
(***************************************************************************)
OneWriter(c) ==
    /\ Cli = {c}
    /\ NoFile \notin InitialFiles \/ \A x \in Commands : x.op # "daemon"

\* What the file and the memory of the only writer have to do with each other.
InStep(c) ==
    /\ pc[Daemon] \notin Saving \cup {"init"}
    /\ file.kind = "json" => file = Json(file.maps) /\ added \subseteq Keys(file.maps)
    /\ file.kind = "absent" =>
          file = NoFile /\ added = {} /\ NoFile \in InitialFiles
    /\ pc[c] = "init" => file = NoFile /\ mem[c] = <<>>
    /\ pc[c] \in Working => file = Json(mem[c])
    /\ pc[c] \in Saving => file = Empty /\ added \subseteq Keys(mem[c])
    /\ pc[c] = "finish" => file \in {Json(mem[c]), Empty, Torn}
    /\ pc[c] \in {"added", "save_added", "save_last", "finish"}
       /\ cmd[c].op = "add" => Known(cmd[c], mem[c])

\* The daemon reads the file and never writes it.
LEMMA DaemonOnlyReads ==
    ASSUME IInv, Placed, NEW c, OneWriter(c), InStep(c),
           Step(Daemon) \/ Given(Daemon)
    PROVE  UNCHANGED <<file, added>> /\ pc'[Daemon] \notin Saving \cup {"init"}
<1>0. /\ Daemon \in Proc /\ pc \in [Proc -> Labels]
      /\ pc[Daemon] \notin Saving \cup {"init"}
      /\ pc[Daemon] # "idle" =>
            cmd[Daemon].op = "daemon" /\ OpAt(pc[Daemon], cmd[Daemon].op)
  BY DEF Proc, IInv, TypeOK, InStep, Placed
<1>1. CASE UNCHANGED vars
  BY <1>0, <1>1 DEF vars
<1>2. CASE Quit(Daemon)
  BY <1>0, <1>2 DEF Quit, Exit, Goto, Saving
<1>3. ASSUME Saves(Daemon)  PROVE FALSE
  BY <1>0, <1>3
  DEF Saves, InitFile, AddEntry, SaveCert, UpdateEntry, DropEntry, ResetFile,
      SetupDone, OpAt
<1>4. ASSUME NEW x \in Commands, Load(Daemon, x)
      PROVE  UNCHANGED <<file, added>> /\ pc'[Daemon] \notin Saving \cup {"init"}
  <2>1. /\ x.op = "daemon" /\ UNCHANGED <<file, added>>
        /\ pc'[Daemon] = IF file.kind = "json" THEN "begin" ELSE "init"
        /\ file.kind \in {"json", "absent"}
    BY <1>0, <1>4 DEF Load, Goto
  <2>2. file.kind # "absent"
    BY <2>1 DEF OneWriter, InStep
  <2> QED
    BY <2>1, <2>2 DEF Saving
<1>5. ASSUME Write(Daemon) \/ WriteFails(Daemon) \/ Finish(Daemon)  PROVE FALSE
  BY <1>0, <1>5 DEF Write, WriteFails, Finish, OpAt
<1>6. ASSUME NEW l \in Working \cup {"finish", "serve"}, Moves(Daemon, l)
      PROVE  UNCHANGED <<file, added>> /\ pc'[Daemon] \notin Saving \cup {"init"}
  BY <1>0, <1>6 DEF Moves, Goto, Working, InSetup, Saving
<1> QED
  BY <1>0, <1>1, <1>2, <1>3, <1>4, <1>5, <1>6, StepKinds

LEMMA InStepInit == ASSUME NEW c, OneWriter(c)  PROVE Init => InStep(c)
<1>1. ASSUME Init  PROVE file.maps = <<>> /\ file \in {NoFile, Json(<<>>)}
                         /\ file \in InitialFiles /\ added = {}
  BY <1>1, RegistryAssumption DEF Init, NoFile, Json
<1>2. Daemon \in Proc /\ c \in Proc
  BY DEF Proc, OneWriter
<1> QED
  BY <1>1, <1>2 DEF Init, InStep, Saving, Working, InSetup, NoFile, Json

LEMMA InStepStep ==
    ASSUME IInv, Placed, NEW c, OneWriter(c), InStep(c), [Next]_vars
    PROVE  InStep(c)'
<1>0. /\ Proc = {c, Daemon} /\ c # Daemon /\ c \in Proc /\ Daemon \in Proc
      /\ pc \in [Proc -> Labels] /\ mem \in [Proc -> Seq(Mapping)]
      /\ DOMAIN cmd = Proc
      /\ pc[c] # "idle" => cmd[c].op # "daemon" /\ OpAt(pc[c], cmd[c].op)
  BY RegistryAssumption DEF Proc, OneWriter, IInv, TypeOK, Placed
<1>1. CASE UNCHANGED vars
  BY <1>1 DEF vars, InStep
<1>2. CASE Step(Daemon) \/ Given(Daemon)
  <2>1. pc'[c] = pc[c] /\ cmd'[c] = cmd[c] /\ mem'[c] = mem[c]
    BY <1>0, <1>2, OthersStay
  <2> QED
    BY <1>2, <2>1, DaemonOnlyReads DEF InStep, Known
<1>3. ASSUME Step(c) \/ Given(c), ~UNCHANGED vars  PROVE InStep(c)'
  <2>0. pc'[Daemon] = pc[Daemon]
    BY <1>0, <1>3, OthersStay
  <2>1. CASE Quit(c)
    <3>1. pc'[c] = "idle" /\ UNCHANGED <<file, added>>
      BY <1>0, <2>1 DEF Quit, Exit, Goto
    <3> QED
      BY <2>0, <3>1 DEF InStep, Working, InSetup, Saving
  <2>2. CASE Saves(c)
    <3>1. PICK ms \in Seq(Mapping), l \in Saving :
              /\ Truncate(c, ms, l) /\ SavedList(c, ms)
              /\ pc[c] \in {"init"} \cup Working
              /\ cmd[c].op = "add" => l = "save_init" \/ CmdKey(cmd[c]) \in Keys(ms)
      BY <1>0, <2>2, SaveKinds
    <3>2. /\ pc'[c] = l /\ mem'[c] = ms /\ cmd'[c] = cmd[c] /\ file' = Empty
          /\ Empty.kind = "empty"
      BY <1>0, <3>1 DEF Truncate, Goto, Empty
    <3>3. added \subseteq Keys(mem[c])
      <4>1. CASE pc[c] = "init"
        BY <4>1 DEF InStep, NoFile
      <4>2. CASE pc[c] \in Working
        BY <4>2 DEF InStep, Json
      <4> QED
        BY <3>1, <4>1, <4>2
    <3>4. added' \subseteq Keys(ms)
      <4>1. CASE pc[c] = "init"
        <5>1. added = {}
          BY <4>1 DEF InStep, NoFile
        <5>2. added' = {}
          BY <5>1, <3>1 DEF SavedList
        <5> QED
          BY <5>2
      <4>2. CASE pc[c] # "init"
        BY <3>1, <3>3, <4>2 DEF SavedList
      <4> QED
        BY <4>1, <4>2
    <3> QED
      BY <2>0, <3>1, <3>2, <3>4 DEF InStep, Working, InSetup, Saving, Known
  <2>3. CASE \E x \in Commands : Load(c, x)
    <3>1. PICK x \in Commands : Load(c, x)
      BY <2>3
    <3>2. /\ UNCHANGED <<file, added>> /\ mem'[c] = file.maps
          /\ pc'[c] = IF file.kind = "json" THEN "begin" ELSE "init"
          /\ file.kind \in {"json", "absent"}
      BY <1>0, <3>1 DEF Load, Goto
    <3>3. NoFile.maps = <<>>
      BY DEF NoFile
    <3> QED
      BY <2>0, <3>2, <3>3 DEF InStep, Working, InSetup, Saving
  <2>4. CASE Write(c)
    <3>1. /\ pc[c] \in Saving /\ file' = Json(mem[c]) /\ pc'[c] = AfterSave[pc[c]]
          /\ mem'[c] = mem[c] /\ cmd'[c] = cmd[c] /\ added' = added
      BY <1>0, <2>4 DEF Write, Goto, local, Overwritten, InStep
    <3>2. pc'[c] \in {"begin", "added", "finish"}
      BY <3>1 DEF Saving, AfterSave
    <3>3. cmd[c].op = "add" /\ pc'[c] # "begin" => Known(cmd[c], mem[c])
      BY <3>1 DEF Saving, AfterSave, InStep
    <3>4. file'.kind = "json" /\ file'.maps = mem[c] /\ added \subseteq Keys(mem[c])
      BY <3>1 DEF Json, InStep
    <3> QED
      BY <2>0, <3>1, <3>2, <3>3, <3>4 DEF InStep, Working, InSetup, Saving, Known
  <2>5. CASE WriteFails(c)
    <3>1. /\ pc[c] \in Saving /\ file' \in {Empty, Torn} /\ added' = added
          /\ \/ pc'[c] = "idle"
             \/ /\ pc'[c] = "finish" /\ pc[c] = "save_last"
                /\ mem'[c] = mem[c] /\ cmd'[c] = cmd[c]
      BY <1>0, <2>5 DEF WriteFails, Goto, Exit, local, InStep
    <3>2. file'.kind \notin {"json", "absent"}
      BY <3>1 DEF Empty, Torn
    <3> QED
      BY <2>0, <3>1, <3>2 DEF InStep, Working, InSetup, Saving, Known
  <2>6. CASE Finish(c)
    <3>1. /\ pc[c] = "finish" /\ pc'[c] = "idle" /\ file' = file
          /\ added' = IF cmd[c].op = "add" THEN added \cup {CmdKey(cmd[c])}
                                           ELSE added
      BY <1>0, <2>6 DEF Finish, Goto, Exit
    <3>2. file.kind = "json" => CmdKey(cmd[c]) \in Keys(file.maps) \/ cmd[c].op # "add"
      BY <3>1 DEF InStep, Known, Json, Empty, Torn
    <3>3. file.kind # "absent"
      BY <3>1 DEF InStep, Json, Empty, Torn
    <3> QED
      BY <2>0, <3>1, <3>2, <3>3 DEF InStep, Working, InSetup, Saving
  <2>7. ASSUME NEW l \in (Working \cup {"finish", "serve"}) \ {"begin", "added"},
               Moves(c, l), pc[c] \in Working \cup {"serve"},
               l = "finish" => pc[c] = "added", l = "serve" => cmd[c].op = "daemon"
        PROVE  InStep(c)'
    <3>1. /\ pc'[c] = l /\ file' = file /\ mem'[c] = mem[c] /\ cmd'[c] = cmd[c]
          /\ added' = added
      BY <1>0, <2>7 DEF Moves, Goto
    <3>2. pc[c] \in Working /\ l # "serve"
      BY <1>0, <2>7 DEF OpAt, Working, InSetup
    <3> QED
      BY <2>0, <2>7, <3>1, <3>2 DEF InStep, Working, InSetup, Saving, Known
  <2> QED
    BY <1>0, <1>3, <2>1, <2>2, <2>3, <2>4, <2>5, <2>6, <2>7, StepKinds
<1> QED
  BY <1>0, <1>1, <1>2, <1>3 DEF Next

LEMMA InStepHolds ==
    ASSUME NEW c, OneWriter(c)  PROVE Spec => []InStep(c)
<1>1. Init => InStep(c)
  BY InStepInit
<1>2. IInv /\ Placed /\ InStep(c) /\ [Next]_vars => InStep(c)'
  BY InStepStep
<1> QED
  BY <1>1, <1>2, IInvHolds, PlacedHolds, PTL DEF Spec

\* When one command runs at a time, a mapping that add reported stays in the
\* file until it is deleted or reset, through every command, fault and crash
\* and beside a daemon: only a save that was cut short makes the file, and then
\* the whole of it, unreadable.
THEOREM AddedStayListed ==
    ASSUME NEW c, OneWriter(c)  PROVE Spec => []AddedAreListed
<1>1. InStep(c) => AddedAreListed
  BY DEF InStep, AddedAreListed
<1> QED
  BY <1>1, InStepHolds, PTL

-----------------------------------------------------------------------------
(***************************************************************************)
(* The refinement of MappingStore.                                         *)
(***************************************************************************)
LEMMA EmptyTable == Keys(<<>>) = {} /\ Table(<<>>) = [k \in {} |-> None]
BY DEF Keys, Table

\* A table is never mistaken for its loss.
LEMMA TableIsNotLost ==
    ASSUME NEW ms \in Seq(Mapping), Unique(ms)  PROVE Table(ms) # None
BY TableOfList, RegistryAssumption

LEMMA OnlySaver ==
    ASSUME NEW P, NEW c \in P, NEW q, q[c] \in Saving,
           \A p \in P : q[p] \in Saving => p = c
    PROVE  (CHOOSE p \in P : q[p] \in Saving) = c
OBVIOUS

\* The stored table, where c is the only writer.
TableOf(c) ==
    IF file.kind \in {"json", "absent"} THEN Table(file.maps)
    ELSE IF pc[c] \in Saving THEN Table(mem[c]) ELSE None

LEMMA StoredTableIs ==
    ASSUME NEW c, OneWriter(c)
    PROVE  /\ InStep(c) => StoredTable = TableOf(c)
           /\ InStep(c)' => StoredTable' = TableOf(c)'
<1>0. Proc = {c, Daemon}
  BY DEF Proc, OneWriter
<1>1. ASSUME InStep(c)  PROVE StoredTable = TableOf(c)
  <2>1. CASE pc[c] \in Saving
    <3>1. (CHOOSE p \in Proc : pc[p] \in Saving) = c
      BY <1>0, <1>1, <2>1, OnlySaver DEF InStep
    <3>2. file = Empty
      BY <1>1, <2>1 DEF InStep
    <3> QED
      BY <1>0, <2>1, <3>1, <3>2 DEF StoredTable, TableOf
  <2>2. CASE pc[c] \notin Saving
    BY <1>0, <1>1, <2>2 DEF StoredTable, TableOf, InStep
  <2> QED
    BY <2>1, <2>2
<1>2. ASSUME InStep(c)'  PROVE StoredTable' = TableOf(c)'
  <2>1. CASE pc'[c] \in Saving
    <3>1. (CHOOSE p \in Proc : pc'[p] \in Saving) = c
      BY <1>0, <1>2, <2>1, OnlySaver DEF InStep
    <3>2. file' = Empty
      BY <1>2, <2>1 DEF InStep
    <3> QED
      BY <1>0, <2>1, <3>1, <3>2 DEF StoredTable, TableOf
  <2>2. CASE pc'[c] \notin Saving
    BY <1>0, <1>2, <2>2 DEF StoredTable, TableOf, InStep
  <2> QED
    BY <2>1, <2>2
<1> QED
  BY <1>1, <1>2

\* Between the halves of a save a process can finish it, fail or be killed.
LEMMA SavingSteps ==
    ASSUME NEW p \in Proc, pc[p] \in Saving, Step(p) \/ Given(p)
    PROVE  Write(p) \/ WriteFails(p) \/ Crash(p)
<1>1. ASSUME Step(p)  PROVE Write(p) \/ WriteFails(p)
  BY <1>1
  DEF Step, Saving, InitFile, OpenFails, SkipAddress, CheckLink, CreateLink,
      BringUp, CheckAddress, Plug, SetupFails, SetupCanFail, BeginAdd, AddEntry, SaveCert, NoCert, Finish, BeginUpdate,
      UpdateEntry, Ask, DropEntry, CleanupOne, ResetFile, List, BeginDaemon,
      Serve, DaemonStopped, Begin, SetupDone
<1>2. ASSUME Given(p)  PROVE Crash(p)
  BY <1>2
  DEF Given, Saving, Load, Refused, Decline, ConfirmDelete, ConfirmReset,
      StopDaemon
<1> QED
  BY <1>1, <1>2

\* The list a save writes, as a step of the store.
LEMMA SaveIsAStep ==
    ASSUME IInv, NEW c \in Proc, NEW ms \in Seq(Mapping), Unique(ms),
           SavedList(c, ms), pc[c] = "init" => mem[c] = <<>>,
           StoredTable = Table(mem[c]), StoredTable' = Table(ms)
    PROVE  [Store!StoreNext]_StoredTable
<1> DEFINE old == mem[c]
           k == CmdKey(cmd[c])
<1>0. old \in Seq(Mapping) /\ Unique(old)
  BY ListsAreGood DEF GoodList
<1>1. /\ Keys(old) \subseteq Domain \X Port /\ Keys(ms) \subseteq Domain \X Port
      /\ StoredTable \in [Keys(old) -> Mapping] /\ StoredTable' \in [Keys(ms) -> Mapping]
      /\ \A i \in DOMAIN old : StoredTable[Key(old[i])] = old[i]
      /\ \A i \in DOMAIN ms : StoredTable'[Key(ms[i])] = ms[i]
  BY <1>0, TableOfList
<1>2. StoredTable # None
  BY <1>0, TableIsNotLost
<1>3. OthersFrom(old, ms, k) =>
          \A j \in (Keys(ms) \cap Keys(old)) \ {k} : StoredTable'[j] = StoredTable[j]
  BY <1>0, TablesAgree
<1>4. DOMAIN StoredTable = Keys(old)
  BY <1>1
<1> HIDE DEF k, old
<1>5. CASE pc[c] = "init" /\ ms = <<>>
  BY <1>5 DEF old
<1>6. CASE Keys(ms) = Keys(old) \cup {k} /\ k \notin Keys(old) /\ OthersFrom(old, ms, k)
  <2>1. Store!Over(Keys(old) \cup {k}, k)
    BY <1>1, <1>3, <1>4, <1>6 DEF Store!Over
  <2>2. k \in (Domain \X Port) \ DOMAIN StoredTable
    BY <1>1, <1>4, <1>6
  <2>3. Store!Insert
    BY <1>4, <2>1, <2>2 DEF Store!Insert
  <2> QED
    BY <1>2, <2>3 DEF Store!StoreNext
<1>7. CASE /\ Keys(ms) = Keys(old) /\ k \in Keys(old)
           /\ InPlace(old, ms) /\ OthersFrom(old, ms, k)
           /\ \A i \in DOMAIN old : old[i].cert => ms[i].cert
  <2>1. Store!Over(Keys(old), k)
    BY <1>1, <1>3, <1>4, <1>7 DEF Store!Over
  <2>2. PICK i \in DOMAIN old : Key(old[i]) = k
    BY <1>7 DEF Keys
  <2>3. i \in DOMAIN ms /\ Key(ms[i]) = k
    BY <1>7, <2>2 DEF InPlace
  <2>4. HasCertificate(StoredTable[k]) => HasCertificate(StoredTable'[k])
    BY <1>1, <1>7, <2>2, <2>3 DEF HasCertificate
  <2>5. Store!Change
    BY <1>4, <1>7, <2>1, <2>4 DEF Store!Change
  <2> QED
    BY <1>2, <2>5 DEF Store!StoreNext
<1>8. CASE Keys(ms) = Keys(old) \ {k} /\ k \in Keys(old) /\ OthersFrom(old, ms, k)
  <2>1. Store!Over(Keys(old) \ {k}, k)
    BY <1>1, <1>3, <1>4, <1>8 DEF Store!Over
  <2>2. Store!Remove
    BY <1>4, <1>8, <2>1 DEF Store!Remove
  <2> QED
    BY <1>2, <2>2 DEF Store!StoreNext
<1>9. CASE ms = <<>>
  <2>1. Store!Clear
    BY <1>9, EmptyTable DEF Store!Clear
  <2> QED
    BY <1>2, <2>1 DEF Store!StoreNext
<1> QED
  BY <1>5, <1>6, <1>7, <1>8, <1>9 DEF SavedList, old, k

LEMMA StepIsAStep ==
    ASSUME IInv, Placed, NEW c, OneWriter(c), InStep(c), InStep(c)', [Next]_vars
    PROVE  [Store!StoreNext]_StoredTable
<1>0. /\ Proc = {c, Daemon} /\ c # Daemon /\ c \in Proc /\ Daemon \in Proc
      /\ pc \in [Proc -> Labels] /\ mem \in [Proc -> Seq(Mapping)]
      /\ StoredTable = TableOf(c) /\ StoredTable' = TableOf(c)'
      /\ Unique(mem[c])
  BY StoredTableIs, RegistryAssumption DEF Proc, OneWriter, IInv, TypeOK, KeysUnique
<1>1. /\ file' = file /\ (pc'[c] \in Saving <=> pc[c] \in Saving)
      /\ (pc[c] \in Saving => mem'[c] = mem[c])
      => StoredTable' = StoredTable
  BY <1>0 DEF TableOf
<1>2. CASE UNCHANGED vars
  BY <1>1, <1>2 DEF vars
<1>3. CASE Step(Daemon) \/ Given(Daemon)
  BY <1>0, <1>1, <1>3, OthersStay, DaemonOnlyReads
<1>4. CASE (Step(c) \/ Given(c)) /\ pc[c] \in Saving
  <2>1. file = Empty /\ StoredTable = Table(mem[c])
    BY <1>0, <1>4 DEF InStep, TableOf, Empty
  <2>2. CASE Write(c)
    <3>1. file' = Json(mem[c])
      BY <2>1, <2>2 DEF Write, Overwritten
    <3> QED
      BY <1>0, <2>1, <3>1 DEF TableOf, Json
  <2>3. CASE WriteFails(c) \/ Crash(c)
    <3>1. file' \in {Empty, Torn} /\ pc'[c] \in {"idle", "finish"}
          /\ Faults \cap {"write", "crash"} # {}
      BY <1>0, <2>1, <2>3 DEF WriteFails, Crash, Quit, Exit, Goto
    <3>2. StoredTable' = None
      BY <1>0, <3>1 DEF TableOf, Empty, Torn, Saving
    <3>3. Store!Lose
      BY <3>1, <3>2 DEF Store!Lose
    <3> QED
      BY <1>0, <2>1, <3>3, TableIsNotLost DEF Store!StoreNext
  <2> QED
    BY <1>0, <1>4, <2>2, <2>3, SavingSteps
<1>5. CASE Saves(c) /\ pc[c] \notin Saving
  <2>1. PICK ms \in Seq(Mapping), l \in Saving :
            /\ Truncate(c, ms, l) /\ SavedList(c, ms) /\ Unique(ms)
            /\ pc[c] \in {"init"} \cup Working
    BY <1>0, <1>5, SaveKinds
  <2>2. /\ pc'[c] \in Saving /\ mem'[c] = ms /\ file' = Empty
        /\ Empty.kind = "empty"
    BY <1>0, <2>1 DEF Truncate, Goto, Empty
  <2>3. StoredTable' = Table(ms)
    BY <1>0, <2>2 DEF TableOf
  <2>4. StoredTable = Table(mem[c])
    BY <1>0, <2>1 DEF TableOf, InStep, NoFile, Json
  <2>5. pc[c] = "init" => mem[c] = <<>>
    BY DEF InStep
  <2> QED
    BY <1>0, <2>1, <2>3, <2>4, <2>5, SaveIsAStep
<1>6. CASE (Step(c) \/ Given(c)) /\ ~Saves(c) /\ pc[c] \notin Saving
  <2>1. CASE Quit(c) \/ Finish(c)
    BY <1>0, <1>1, <1>6, <2>1 DEF Quit, Finish, Exit, Goto, Saving
  <2>2. CASE \E x \in Commands : Load(c, x)
    BY <1>0, <1>1, <1>6, <2>2 DEF Load, Goto, Saving
  <2>3. CASE \E l \in (Working \cup {"finish", "serve"}) \ {"begin", "added"} : Moves(c, l)
    BY <1>0, <1>1, <1>6, <2>3 DEF Moves, Goto, Working, InSetup, Saving
  <2>4. ~Write(c) /\ ~WriteFails(c)
    BY <1>6 DEF Write, WriteFails
  <2> QED
    BY <1>0, <1>2, <1>6, <2>1, <2>2, <2>3, <2>4, StepKinds
<1> QED
  BY <1>0, <1>2, <1>3, <1>4, <1>5, <1>6 DEF Next

\* With one command at a time the file implements a table that a command
\* changes at one key at most and that keeps every certificate: a save that is
\* interrupted loses the table as a whole, never a part of it.
THEOREM StoreIsImplemented ==
    ASSUME NEW c, OneWriter(c)  PROVE Spec => ImplementsStore
<1>1. Init => Store!StoreInit
  <2> SUFFICES ASSUME Init  PROVE StoredTable = [k \in {} |-> None]
    BY DEF Store!StoreInit
  <2>1. file.maps = <<>> /\ file.kind \in {"json", "absent"}
    BY RegistryAssumption DEF Init, NoFile, Json
  <2> QED
    BY <2>1, EmptyTable DEF StoredTable
<1>2. IInv /\ Placed /\ InStep(c) /\ InStep(c)' /\ [Next]_vars
      => [Store!StoreNext]_StoredTable
  BY StepIsAStep
<1> QED
  BY <1>1, <1>2, IInvHolds, PlacedHolds, InStepHolds, PTL
  DEF Spec, ImplementsStore, Store!StoreSpec

-----------------------------------------------------------------------------
(***************************************************************************)
(* The interfaces.  One terminal, no daemon, nothing that fails on the     *)
(* way: each of these is needed, for a daemon that ends removes all        *)
(* interfaces, and a command that fails leaves what it has done.  Any      *)
(* mappings may share an interface.                                        *)
(***************************************************************************)
Alone(c) ==
    /\ Cli = {c} /\ Faults \subseteq {"listen"}
    /\ \A x \in Commands : x.op # "daemon"

Ifs(ms) == {IfOf[ms[j].domain] : j \in DOMAIN ms}

\* The addresses of the mappings of a list that have their interface for
\* themselves, those of keys S left out, are there.
Plugged(ms, S) ==
    \A j \in DOMAIN ms :
        Key(ms[j]) \notin S /\ Apart(Key(ms[j])) => Assigned(ms[j]) \subseteq plugged

Provided(ms) == links \subseteq Ifs(ms) /\ Plugged(ms, {})

\* The addresses a command asks for.
Wanted(x, ms) ==
    {<<IfOf[x.domain], a>> : a \in {Final4(x, ms), Final6(x, ms)} \ {None}}

\* What the interfaces are at label l, where a command x with the list ms has
\* the calls ts left to make.
HostAt(l, x, ms, ts) ==
    LET i == IfOf[x.domain]
        Ready(S) == Apart(CmdKey(x)) => Wanted(x, ms) \subseteq S
    IN
    /\ l \in {"init", "save_init", "begin", "prompt", "save_added", "added",
              "save_last", "finish"} => Provided(ms)
    /\ l \in {"save_added", "added"} => Ready(plugged)
    /\ l \in InSetup =>
          /\ x.op \in {"add", "update"}
          /\ links \subseteq Ifs(ms) \cup {i}
          /\ Plugged(ms, IF x.op = "add" THEN {} ELSE {CmdKey(x)})
          /\ Ready(plugged \cup ToSet(ts))
          /\ \A y \in ToSet(ts) : y[1] = i
    /\ l = "create" => i \notin links
    /\ l \in {"up", "look", "assign"} => i \in links
    /\ l = "assign" => Head(ts) \notin plugged
    /\ l = "drop" => links \subseteq Ifs(ms) \ {i} /\ Plugged(ms, {CmdKey(x)})

HostInv(c) ==
    /\ pc[Daemon] = "idle"
    /\ \A y \in plugged : y[1] \in links
    /\ pc[c] # "idle" => cmd[c] \in Commands
    /\ pc[c] \in {"idle", "init", "save_init", "begin"} => todo[c] = <<>>
    /\ pc[c] = "idle" => file.kind \in {"json", "absent"} /\ Provided(file.maps)
    /\ pc[c] = "finish" => file = Json(mem[c])
    /\ pc[c] = "cleanup" => links \subseteq doomed[c]
    /\ HostAt(pc[c], cmd[c], mem[c], todo[c])

\* All that is known of a state in which c takes a step.
Before(c) == IInv /\ Placed /\ Alone(c) /\ OneWriter(c) /\ InStep(c) /\ HostInv(c)

LEMMA AddedEntry ==
    ASSUME NEW ms \in Seq(Mapping), NEW dm \in Mapping, Key(dm) \notin Keys(ms)
    PROVE  \A j \in DOMAIN Add(ms, dm) :
              Key(Add(ms, dm)[j]) = Key(dm) => Add(ms, dm)[j] = dm
<1>1. /\ Len(Add(ms, dm)) = Len(ms) + 1 /\ Add(ms, dm) \in Seq(Mapping)
      /\ \A i \in 1 .. Len(ms) : Add(ms, dm)[i] = ms[i]
      /\ Add(ms, dm)[Len(ms) + 1] = dm
  BY AppendProperties DEF Add
<1>2. DOMAIN Add(ms, dm) = 1 .. Len(ms) + 1 /\ DOMAIN ms = 1 .. Len(ms)
      /\ Len(ms) \in Nat
  BY <1>1, LenProperties
<1> QED
  BY <1>1, <1>2 DEF Keys

LEMMA UpdatedEntry ==
    ASSUME NEW ms \in Seq(Mapping), NEW dm \in Mapping, Key(dm) \in Keys(ms),
           Unique(ms)
    PROVE  \A j \in DOMAIN Update(ms, dm) :
              Key(Update(ms, dm)[j]) = Key(dm) =>
                 Update(ms, dm)[j].ip4 = dm.ip4 /\ Update(ms, dm)[j].ip6 = dm.ip6
<1> DEFINE n == First(ms, Key(dm))
           new == Update(ms, dm)
<1>1. n \in DOMAIN ms /\ ms[n] \in Mapping /\ Key(ms[n]) = Key(dm)
  BY FirstIsPosition, LenProperties, ElementOfSeq
<1>2. new = [ms EXCEPT ![n] = Merge(ms[n], dm)]
  BY DEF Update
<1>3. Merge(ms[n], dm).ip4 = dm.ip4 /\ Merge(ms[n], dm).ip6 = dm.ip6
  BY <1>1, MergeKeeps
<1>4. \A j \in DOMAIN new : j \in DOMAIN ms /\ Key(new[j]) = Key(ms[j])
  <2>1. Key(Merge(ms[n], dm)) = Key(ms[n])
    BY <1>1, MergeKeeps
  <2> HIDE DEF n
  <2> QED
    BY <1>1, <1>2, <2>1
<1> HIDE DEF n
<1> QED
  BY <1>1, <1>2, <1>3, <1>4 DEF Unique

LEMMA SetupsOfOne ==
    ASSUME NEW m \in Mapping
    PROVE  ToSet(Setups(<<m>>)) = {<<IfOf[m.domain], m.ip4>>, <<IfOf[m.domain], m.ip6>>}
<1>1. Len(<<m>>) = 1 /\ <<m>>[1] = m
  OBVIOUS
<1> DEFINE s == Setups(<<m>>)
<1>2. DOMAIN s = 1 .. 2
  BY <1>1 DEF Setups
<1>3. s[1] = <<IfOf[m.domain], m.ip4>> /\ s[2] = <<IfOf[m.domain], m.ip6>>
  BY <1>1 DEF Setups
<1> HIDE DEF s
<1>4. ToSet(s) = {s[1], s[2]}
  <2>1. \A j : j \in 1 .. 2 <=> j = 1 \/ j = 2
    OBVIOUS
  <2> QED
    BY <1>2, <2>1 DEF ToSet
<1> QED
  BY <1>3, <1>4 DEF s

LEMMA IfsAreOfKeys ==
    ASSUME NEW ms \in Seq(Mapping)
    PROVE  Ifs(ms) = {IfOf[k[1]] : k \in Keys(ms)}
<1>1. \A j \in DOMAIN ms : Key(ms[j]) \in Keys(ms) /\ Key(ms[j])[1] = ms[j].domain
  BY DEF Keys, Key
<1>2. \A k \in Keys(ms) : \E j \in DOMAIN ms : k = Key(ms[j])
  BY DEF Keys
<1>3. Ifs(ms) \subseteq {IfOf[k[1]] : k \in Keys(ms)}
  BY <1>1 DEF Ifs
<1>4. {IfOf[k[1]] : k \in Keys(ms)} \subseteq Ifs(ms)
  BY <1>1, <1>2 DEF Ifs
<1> QED
  BY <1>3, <1>4

\* A mapping that has its interface for itself and that the command is not
\* about is on another interface than the command's.
LEMMA OthersApart ==
    ASSUME NEW x \in Commands, x.op \in {"add", "update", "delete"},
           NEW ms \in Seq(Mapping)
    PROVE  \A j \in DOMAIN ms :
              Key(ms[j]) # CmdKey(x) /\ Apart(Key(ms[j]))
                  => IfOf[ms[j].domain] # IfOf[x.domain]
<1>1. \A j \in DOMAIN ms : Key(ms[j])[1] = ms[j].domain
  BY DEF Key
<1> QED
  BY <1>1 DEF Apart, Changes

LEMMA PluggedAfter ==
    ASSUME NEW old \in Seq(Mapping), NEW new \in Seq(Mapping), NEW k,
           OthersFrom(old, new, k), Plugged(old, {k}),
           \A j \in DOMAIN new :
              Key(new[j]) = k /\ Apart(k) => Assigned(new[j]) \subseteq plugged
    PROVE  Plugged(new, {})
BY DEF Plugged, OthersFrom

LEMMA DaemonRests ==
    ASSUME NEW c, Alone(c), pc[Daemon] = "idle", Step(Daemon) \/ Given(Daemon)
    PROVE  UNCHANGED vars
<1>1. ~Step(Daemon)
  BY DEF Step, Saving, InitFile, Write, WriteFails, OpenFails, SkipAddress, CheckLink,
      CreateLink, BringUp, CheckAddress, Plug, SetupFails, SetupCanFail, BeginAdd, AddEntry, SaveCert, NoCert, Finish,
      BeginUpdate, UpdateEntry, Ask, DropEntry, CleanupOne, ResetFile, List,
      BeginDaemon, Serve, DaemonStopped, Begin, SetupDone
<1>2. \A x \in Commands : ~Load(Daemon, x)
  BY DEF Load, Alone
<1> QED
  BY <1>1, <1>2
  DEF Given, Refused, Decline, ConfirmDelete, ConfirmReset, StopDaemon, Crash

\* The types, and what the invariants say of the terminal.
LEMMA BeforeFacts ==
    ASSUME NEW c, Before(c)
    PROVE  /\ Proc = {c, Daemon} /\ c # Daemon /\ c \in Proc
           /\ pc \in [Proc -> Labels] /\ mem \in [Proc -> Seq(Mapping)]
           /\ DOMAIN cmd = Proc /\ DOMAIN todo = Proc /\ DOMAIN doomed = Proc
           /\ mem[c] \in Seq(Mapping) /\ Unique(mem[c]) /\ Addressed(mem[c])
           /\ todo[c] \in Seq(IfName \X SetupAddr)
           /\ dummyIF[c] \in IfName \cup {None}
           /\ LocalOK(pc[c], cmd[c], mem[c], todo[c])
           /\ pc[c] # "idle" => /\ cmd[c] \in Command /\ cmd[c] \in Commands
                                /\ cmd[c].op # "daemon"
                                /\ OpAt(pc[c], cmd[c].op)
           /\ pc[c] \in Working => file = Json(mem[c])
           /\ Faults \subseteq {"listen"}
<1>1. /\ Proc = {c, Daemon} /\ c # Daemon /\ c \in Proc
  BY RegistryAssumption DEF Before, Alone, Proc
<1>2. cmd[c] \in Commands => cmd[c] \in Command
  BY RegistryAssumption
<1> QED
  BY <1>1, <1>2
  DEF Before, IInv, TypeOK, LocalInv, KeysUnique, AddressPresent, Placed, HostInv,
      InStep, Alone, SetupAddr

\* The command ends with the interfaces as the file has them.
LEMMA HostExit ==
    ASSUME NEW c, Before(c), Exit(c), UNCHANGED <<file, host>>,
           file.kind \in {"json", "absent"}, Provided(file.maps)
    PROVE  HostInv(c)'
<1>0. /\ c # Daemon /\ c \in Proc /\ pc \in [Proc -> Labels]
      /\ mem \in [Proc -> Seq(Mapping)] /\ DOMAIN cmd = Proc /\ DOMAIN todo = Proc
  BY BeforeFacts
<1>1. /\ pc'[c] = "idle" /\ pc'[Daemon] = pc[Daemon] /\ mem'[c] = <<>>
      /\ todo'[c] = <<>>
  BY <1>0 DEF Exit, Goto
<1>3. HostAt(pc[c], cmd[c], mem[c], todo[c])'
  BY <1>1 DEF HostAt, InSetup
<1>4. Provided(file.maps)'
  BY DEF Provided, Plugged, host
<1> QED
  BY <1>1, <1>3, <1>4 DEF Before, HostInv, host

\* The command goes on to label l.
LEMMA HostMove ==
    ASSUME NEW c, Before(c), NEW l \in Labels \ {"idle"}, Goto(c, l),
           pc[c] # "idle", cmd' = cmd,
           \A y \in plugged' : y[1] \in links',
           l \in {"init", "save_init", "begin"} => todo'[c] = <<>>,
           l = "finish" => file' = Json(mem'[c]),
           l = "cleanup" => links' \subseteq doomed'[c],
           HostAt(l, cmd[c], mem[c], todo[c])'
    PROVE  HostInv(c)'
<1>0. /\ c # Daemon /\ c \in Proc /\ pc \in [Proc -> Labels]
  BY BeforeFacts
<1>1. pc'[c] = l /\ pc'[Daemon] = pc[Daemon]
  BY <1>0 DEF Goto
<1>2. HostAt(l, cmd[c], mem[c], todo[c])' <=> HostAt(pc[c], cmd[c], mem[c], todo[c])'
  BY <1>1 DEF HostAt
<1> QED
  BY <1>1, <1>2 DEF Before, HostInv

\* The first half of a save of a list that the interfaces fit.
LEMMA HostSave ==
    ASSUME NEW c, Before(c), NEW l \in Saving, NEW ms, Truncate(c, ms, l),
           pc[c] # "idle", Provided(ms), l = "save_init" => todo[c] = <<>>,
           l = "save_added" /\ Apart(CmdKey(cmd[c])) =>
               Wanted(cmd[c], ms) \subseteq plugged
    PROVE  HostInv(c)'
<1>1. /\ mem'[c] = ms /\ file' = Empty /\ UNCHANGED <<links, plugged, cmd, todo>>
  BY BeforeFacts DEF Truncate, host
<1>3. /\ Provided(mem[c])'
      /\ l = "save_added" /\ Apart(CmdKey(cmd[c])) =>
             (Wanted(cmd[c], mem[c]) \subseteq plugged)'
  BY <1>1 DEF Provided, Plugged, Wanted, Final4, Final6, Old
<1>4. HostAt(l, cmd[c], mem[c], todo[c])'
  BY <1>1, <1>3 DEF HostAt, InSetup, Saving
<1>5. \A y \in plugged' : y[1] \in links'
  BY <1>1 DEF Before, HostInv
<1>6. l \in Labels \ {"idle"} /\ l \notin {"init", "begin", "finish", "cleanup"}
  BY DEF Saving, Labels
<1> QED
  BY <1>1, <1>4, <1>5, <1>6, HostMove DEF Truncate

LEMMA HostFileSteps ==
    ASSUME NEW c, Before(c),
           \/ \E x \in Commands : Load(c, x)
           \/ InitFile(c) \/ Write(c) \/ WriteFails(c) \/ OpenFails(c) \/ Crash(c)
           \/ Finish(c)
    PROVE  HostInv(c)'
<1>0. /\ c # Daemon /\ c \in Proc /\ pc \in [Proc -> Labels]
      /\ mem \in [Proc -> Seq(Mapping)] /\ DOMAIN cmd = Proc /\ DOMAIN todo = Proc
      /\ Faults \subseteq {"listen"}
  BY BeforeFacts
<1>1. ASSUME NEW x \in Commands, Load(c, x)  PROVE HostInv(c)'
  <2>1. /\ pc[c] = "idle" /\ cmd'[c] = x /\ mem'[c] = file.maps
        /\ pc'[c] \in {"begin", "init"} /\ pc'[Daemon] = pc[Daemon]
        /\ UNCHANGED <<file, links, plugged, todo, doomed>>
    BY <1>0, <1>1 DEF Load, Goto, host
  <2>2. Provided(file.maps) /\ todo[c] = <<>>
    BY <2>1 DEF Before, HostInv
  <2>3. Provided(mem[c])'
    BY <2>1, <2>2 DEF Provided, Plugged
  <2>4. HostAt(pc[c], cmd[c], mem[c], todo[c])'
    BY <2>1, <2>3 DEF HostAt, InSetup
  <2> QED
    BY <2>1, <2>2, <2>4 DEF Before, HostInv
<1>2. CASE InitFile(c)
  <2>1. Truncate(c, <<>>, "save_init") /\ pc[c] = "init" /\ mem[c] = <<>>
    BY <1>2 DEF InitFile, Before, InStep
  <2>2. Provided(<<>>) /\ todo[c] = <<>>
    BY <2>1 DEF Before, HostInv, HostAt
  <2> QED
    BY <2>1, <2>2, HostSave DEF Saving
<1>3. CASE Write(c)
  <2>1. /\ pc[c] \in Saving /\ file = Empty
        /\ UNCHANGED <<links, plugged, cmd, mem, todo, doomed>>
    BY <1>3 DEF Write, host, local, Before, InStep
  <2>2. file' = Json(mem[c]) /\ Json(mem[c]).maps = mem[c]
    BY <1>3, <2>1 DEF Write, Overwritten, Json
  <2>3. /\ Provided(mem[c])
        /\ pc[c] = "save_added" /\ Apart(CmdKey(cmd[c])) =>
               Wanted(cmd[c], mem[c]) \subseteq plugged
        /\ pc[c] = "save_init" => todo[c] = <<>>
    BY <2>1 DEF Before, HostInv, HostAt, Saving
  <2>4. /\ Provided(mem[c])'
        /\ pc[c] = "save_added" /\ Apart(CmdKey(cmd[c])) =>
               (Wanted(cmd[c], mem[c]) \subseteq plugged)'
    BY <2>1, <2>3 DEF Provided, Plugged, Wanted, Final4, Final6, Old
  <2>5. \A y \in plugged' : y[1] \in links'
    BY <2>1 DEF Before, HostInv
  <2>6. ASSUME NEW l \in {"begin", "added", "finish"}, l = AfterSave[pc[c]]
        PROVE  HostInv(c)'
    <3>0. /\ l = "added" => pc[c] = "save_added"
          /\ l = "begin" => pc[c] = "save_init"
      BY <2>1, <2>6 DEF AfterSave, Saving
    <3>1. HostAt(l, cmd[c], mem[c], todo[c])'
      BY <2>1, <2>4, <2>6, <3>0 DEF HostAt, InSetup
    <3>2. l \in Labels \ {"idle"} /\ Goto(c, l) /\ pc[c] # "idle"
      BY <1>3, <2>1, <2>6 DEF Labels, Write, Saving
    <3> QED
      BY <2>1, <2>2, <2>3, <2>5, <2>6, <3>0, <3>1, <3>2, HostMove
  <2>7. AfterSave[pc[c]] \in {"begin", "added", "finish"}
    BY <2>1 DEF AfterSave, Saving
  <2> QED
    BY <2>6, <2>7
<1>4. ~WriteFails(c) /\ ~OpenFails(c) /\ ~Crash(c)
  BY <1>0 DEF WriteFails, OpenFails, Crash
<1>5. CASE Finish(c)
  <2>1. pc[c] = "finish" /\ Exit(c) /\ UNCHANGED <<file, host>>
    BY <1>5 DEF Finish
  <2>2. file = Json(mem[c]) /\ Provided(mem[c])
    BY <2>1 DEF Before, HostInv, HostAt
  <2> QED
    BY <2>1, <2>2, HostExit DEF Json
<1> QED
  BY <1>1, <1>2, <1>3, <1>4, <1>5

LEMMA HostSetupSteps ==
    ASSUME NEW c, Before(c),
           \/ SkipAddress(c) \/ CheckLink(c) \/ CreateLink(c) \/ BringUp(c)
           \/ CheckAddress(c) \/ Plug(c) \/ SetupFails(c)
    PROVE  HostInv(c)'
<1> DEFINE x == cmd[c]
           ms == mem[c]
           i == IfOf[x.domain]
           h == Head(todo[c])
<1>0. /\ DOMAIN todo = Proc /\ c \in Proc /\ Faults \subseteq {"listen"}
      /\ pc \in [Proc -> Labels]
  BY BeforeFacts
<1>1. pc[c] \in InSetup /\ todo[c] # <<>> /\ todo[c] \in Seq(IfName \X SetupAddr)
  BY BeforeFacts
  DEF SkipAddress, CheckLink, CreateLink, BringUp, CheckAddress, Plug,
      SetupFails, SetupCanFail, InSetup, LocalOK
<1>2. /\ x.op \in {"add", "update"}
      /\ links \subseteq Ifs(ms) \cup {i}
      /\ Plugged(ms, IF x.op = "add" THEN {} ELSE {CmdKey(x)})
      /\ Apart(CmdKey(x)) => Wanted(x, ms) \subseteq plugged \cup ToSet(todo[c])
      /\ \A y \in ToSet(todo[c]) : y[1] = i
      /\ pc[c] = "create" => i \notin links
      /\ pc[c] \in {"up", "look", "assign"} => i \in links
      /\ pc[c] = "assign" => h \notin plugged
      /\ \A y \in plugged : y[1] \in links
  BY <1>1 DEF Before, HostInv, HostAt
<1>3. ToSet(todo[c]) = {h} \cup ToSet(Tail(todo[c]))
  <2>1. /\ Len(todo[c]) \in Nat /\ Len(todo[c]) >= 1 /\ DOMAIN todo[c] = 1 .. Len(todo[c])
        /\ h = todo[c][1]
        /\ Len(Tail(todo[c])) = Len(todo[c]) - 1
        /\ Tail(todo[c]) \in Seq(IfName \X SetupAddr)
        /\ \A j \in 1 .. Len(todo[c]) - 1 : Tail(todo[c])[j] = todo[c][j + 1]
    BY <1>1, LenProperties, HeadTailProperties, EmptySeq
  <2>2. DOMAIN Tail(todo[c]) = 1 .. Len(todo[c]) - 1
    BY <2>1, LenProperties
  <2> HIDE DEF h
  <2>3. \A j \in 2 .. Len(todo[c]) : j - 1 \in 1 .. Len(todo[c]) - 1
                                     /\ Tail(todo[c])[j - 1] = todo[c][j]
    BY <2>1
  <2>4. ASSUME NEW y \in ToSet(todo[c])  PROVE y = h \/ y \in ToSet(Tail(todo[c]))
    <3>1. PICK j \in 1 .. Len(todo[c]) : y = todo[c][j]
      BY <2>1 DEF ToSet
    <3>2. CASE j = 1
      BY <2>1, <3>1, <3>2
    <3>3. CASE j # 1
      <4>1. j \in 2 .. Len(todo[c])
        BY <2>1, <3>3
      <4> QED
        BY <2>2, <2>3, <3>1, <4>1 DEF ToSet
    <3> QED
      BY <3>2, <3>3
  <2>5. \A y \in ToSet(Tail(todo[c])) : y \in ToSet(todo[c])
    BY <2>1, <2>2 DEF ToSet
  <2>6. h \in ToSet(todo[c])
    BY <2>1 DEF ToSet
  <2> QED
    BY <2>4, <2>5, <2>6
<1>4. h \in IfName \X SetupAddr /\ h[1] = i /\ h = <<h[1], h[2]>> /\ Iface(c) = i
  BY <1>1, <1>2, <1>3, HeadTailProperties DEF Iface
<1>5. ASSUME NEW l \in InSetup, Goto(c, l), UNCHANGED <<file, cmd, mem, doomed>>,
             links \subseteq links', links' \subseteq links \cup {i},
             plugged \subseteq plugged', \A y \in plugged' : y[1] \in links',
             Apart(CmdKey(x)) => Wanted(x, ms) \subseteq plugged' \cup ToSet(todo'[c]),
             ToSet(todo'[c]) \subseteq ToSet(todo[c]),
             l = "create" => i \notin links',
             l \in {"up", "look", "assign"} => i \in links',
             l = "assign" => Head(todo'[c]) \notin plugged'
      PROVE  HostInv(c)'
  <2>1. links' \subseteq Ifs(ms) \cup {i}
    BY <1>2, <1>5
  <2>2. Plugged(ms, IF x.op = "add" THEN {} ELSE {CmdKey(x)})'
    BY <1>2, <1>5 DEF Plugged
  <2>3. Wanted(x, ms)' = Wanted(x, ms)
    BY <1>5 DEF Wanted, Final4, Final6, Old
  <2>4. HostAt(l, cmd[c], mem[c], todo[c])'
    BY <1>2, <1>5, <2>1, <2>2, <2>3 DEF HostAt, InSetup
  <2>5. l \in Labels \ {"idle"} /\ pc[c] # "idle"
        /\ l \notin {"init", "save_init", "begin", "finish", "cleanup"}
    BY <1>1 DEF InSetup, Labels
  <2> QED
    BY <1>2, <1>5, <2>4, <2>5, HostMove
<1> HIDE DEF x, ms, i, h
<1> USE DEF InSetup
<1>6. CASE SkipAddress(c)
  <2>1. /\ pc[c] = "setup" /\ h[2] = None /\ todo'[c] = Tail(todo[c])
        /\ UNCHANGED <<file, links, plugged, pc, cmd, mem, doomed>>
    BY <1>0, <1>6 DEF SkipAddress, host, h
  <2>2. h \notin Wanted(x, ms)
    BY <2>1 DEF Wanted
  <2>3. Goto(c, "setup")
    BY <1>0, <2>1 DEF Goto
  <2> QED
    BY <1>2, <1>3, <1>5, <2>1, <2>2, <2>3
<1>7. CASE CheckLink(c)
  BY <1>2, <1>4, <1>5, <1>7 DEF CheckLink, host, local
<1>8. CASE CreateLink(c)
  BY <1>2, <1>4, <1>5, <1>8 DEF CreateLink, local
<1>9. CASE BringUp(c)
  BY <1>2, <1>4, <1>5, <1>9 DEF BringUp, host, local
<1>10. ASSUME SetupReturns(c), plugged' = plugged \cup {h}, i \in links
       PROVE  HostInv(c)'
  <2>1. /\ todo'[c] = Tail(todo[c]) /\ Goto(c, "setup")
        /\ UNCHANGED <<file, links, cmd, mem, doomed>>
    BY <1>0, <1>10 DEF SetupReturns
  <2> QED
    BY <1>2, <1>3, <1>4, <1>5, <1>10, <2>1
<1>11. CASE CheckAddress(c)
  <2>1. CASE Goto(c, "assign") /\ UNCHANGED <<file, host, local, added>> /\ h \notin plugged
    <3>1. /\ UNCHANGED <<file, links, plugged, cmd, mem, todo, doomed>>
          /\ i \in links /\ h \notin plugged /\ Head(todo'[c]) = h
      BY <1>2, <1>11, <2>1 DEF CheckAddress, host, local, h
    <3> QED
      BY <1>2, <1>4, <1>5, <2>1, <3>1
  <2>2. CASE SetupReturns(c) /\ UNCHANGED plugged /\ h \in plugged
    BY <1>2, <1>10, <1>11, <2>2 DEF CheckAddress
  <2> QED
    BY <1>11, <2>1, <2>2 DEF CheckAddress, h
<1>12. CASE Plug(c)
  BY <1>4, <1>10, <1>12 DEF Plug, h
<1>13. ~SetupFails(c)
  BY <1>0, <1>2, <1>4 DEF SetupFails, SetupCanFail, h
<1> QED
  BY <1>6, <1>7, <1>8, <1>9, <1>11, <1>12, <1>13

\* Once nothing is left to set up, the addresses asked for are there.
LEMMA SetupsDone ==
    ASSUME NEW c, Before(c), pc[c] = "setup", todo[c] = <<>>
    PROVE  /\ Apart(CmdKey(cmd[c])) => Wanted(cmd[c], mem[c]) \subseteq plugged
           /\ links \subseteq Ifs(mem[c]) \cup {IfOf[cmd[c].domain]}
           /\ Plugged(mem[c], {CmdKey(cmd[c])})
<1>1. ToSet(<<>>) = {}
  BY DEF ToSet
<1> QED
  BY <1>1 DEF Before, HostInv, HostAt, InSetup, Plugged

\* The list saved for a command whose addresses are there.
LEMMA HostStore ==
    ASSUME NEW c, Before(c), pc[c] # "idle", NEW new \in Seq(Mapping), NEW dm \in Mapping,
           Key(dm) = CmdKey(cmd[c]),
           dm.ip4 = Final4(cmd[c], mem[c]), dm.ip6 = Final6(cmd[c], mem[c]),
           Keys(new) = Keys(mem[c]) \cup {CmdKey(cmd[c])},
           OthersFrom(mem[c], new, CmdKey(cmd[c])),
           \A j \in DOMAIN new : Key(new[j]) = CmdKey(cmd[c]) =>
               new[j].ip4 = dm.ip4 /\ new[j].ip6 = dm.ip6,
           Apart(CmdKey(cmd[c])) => Wanted(cmd[c], mem[c]) \subseteq plugged,
           links \subseteq Ifs(mem[c]) \cup {IfOf[cmd[c].domain]},
           Plugged(mem[c], {CmdKey(cmd[c])})
    PROVE  Provided(new)
<1> DEFINE k == CmdKey(cmd[c])
<1>0. mem[c] \in Seq(Mapping) /\ k[1] = cmd[c].domain
  BY BeforeFacts DEF CmdKey
<1>1. \A j \in DOMAIN new :
          Key(new[j]) = k /\ Apart(k) => Assigned(new[j]) \subseteq plugged
  <2> SUFFICES ASSUME NEW j \in DOMAIN new, Key(new[j]) = k
               PROVE  Assigned(new[j]) = Wanted(cmd[c], mem[c])
    OBVIOUS
  <2>1. new[j].domain = cmd[c].domain
    BY DEF Key, CmdKey
  <2> QED
    BY <2>1 DEF Assigned, Wanted
<1>2. Plugged(new, {})
  BY <1>0, <1>1, PluggedAfter
<1>3. Ifs(new) = Ifs(mem[c]) \cup {IfOf[k[1]]}
  <2>1. Ifs(new) = {IfOf[q[1]] : q \in Keys(mem[c]) \cup {k}}
        /\ Ifs(mem[c]) = {IfOf[q[1]] : q \in Keys(mem[c])}
    BY <1>0, IfsAreOfKeys
  <2> QED
    BY <2>1
<1> QED
  BY <1>0, <1>2, <1>3 DEF Provided

LEMMA HostAddSteps ==
    ASSUME NEW c, Before(c),
           BeginAdd(c) \/ AddEntry(c) \/ SaveCert(c) \/ NoCert(c)
    PROVE  HostInv(c)'
<1> DEFINE x == cmd[c]
           ms == mem[c]
           k == CmdKey(x)
<1>0. /\ DOMAIN todo = Proc /\ c \in Proc /\ ms \in Seq(Mapping) /\ Unique(ms)
      /\ x \in Command /\ x \in Commands /\ pc[c] # "idle"
      /\ dummyIF[c] \in IfName \cup {None}
      /\ pc[c] \in Working /\ file = Json(ms) /\ Json(ms).maps = ms /\ Json(ms).kind = "json"
      /\ LocalOK(pc[c], x, ms, todo[c])
  BY BeforeFacts
  DEF BeginAdd, AddEntry, SaveCert, NoCert, Begin, SetupDone, Working, InSetup, Json
<1>1. \A y \in plugged : y[1] \in links
  BY DEF Before, HostInv
<1>2. CASE BeginAdd(c)
  <2>1. x.op = "add" /\ pc[c] = "begin" /\ Provided(ms)
    BY <1>2 DEF BeginAdd, Begin, Before, HostInv, HostAt
  <2>2. CASE Quit(c)
    BY <1>0, <2>1, <2>2, HostExit DEF Quit
  <2>3. CASE ~Quit(c)
    <3> DEFINE a == Asked(x, ms, None, FALSE)
    <3>1. StartSetup(c, Setups(<<a>>)) /\ UNCHANGED host
      BY <1>2, <2>3 DEF BeginAdd
    <3>2. /\ a \in Mapping /\ a.ip4 = Final4(x, ms) /\ a.ip6 = Final6(x, ms)
          /\ a.domain = x.domain
      BY <1>0, <2>1, AskedType DEF Asked
    <3>3. ToSet(Setups(<<a>>)) = {<<IfOf[x.domain], Final4(x, ms)>>,
                                  <<IfOf[x.domain], Final6(x, ms)>>}
      BY <3>2, SetupsOfOne
    <3> HIDE DEF a
    <3>4. /\ todo'[c] = Setups(<<a>>) /\ Goto(c, "setup")
          /\ UNCHANGED <<file, links, plugged, cmd, mem, doomed>>
      BY <1>0, <3>1 DEF StartSetup, host
    <3>5. Wanted(x, ms) \subseteq ToSet(todo'[c])
      BY <3>3, <3>4 DEF Wanted
    <3>6. /\ Wanted(x, ms)' = Wanted(x, ms) /\ Plugged(ms, {})' = Plugged(ms, {})
      BY <3>4 DEF Wanted, Final4, Final6, Old, Plugged
    <3>7. \A y \in ToSet(todo'[c]) : y[1] = IfOf[x.domain]
      BY <3>3, <3>4
    <3>8. HostAt("setup", cmd[c], mem[c], todo[c])'
      BY <2>1, <3>4, <3>5, <3>6, <3>7 DEF HostAt, InSetup, Provided
    <3> QED
      BY <1>0, <1>1, <3>4, <3>8, HostMove DEF Labels
  <2> QED
    BY <2>2, <2>3
<1>3. CASE AddEntry(c)
  <2>1. x.op = "add" /\ pc[c] = "setup" /\ todo[c] = <<>>
    BY <1>3 DEF AddEntry, SetupDone
  <2>2. /\ Apart(k) => Wanted(x, ms) \subseteq plugged
        /\ links \subseteq Ifs(ms) \cup {IfOf[x.domain]} /\ Plugged(ms, {k})
    BY <2>1, SetupsDone
  <2>3. Plugged(ms, {})
    BY <2>1 DEF Before, HostInv, HostAt, InSetup
  <2>4. CASE Known(x, ms)
    <3>1. Quit(c)
      BY <1>3, <2>4 DEF AddEntry
    <3>2. IfOf[x.domain] \in Ifs(ms)
      BY <1>0, <2>4, IfsAreOfKeys DEF Known, CmdKey
    <3>3. Provided(ms)
      BY <2>2, <2>3, <3>2 DEF Provided
    <3> QED
      BY <1>0, <3>1, <3>3, HostExit DEF Quit
  <2>5. CASE ~Known(x, ms)
    <3> DEFINE dm == Asked(x, ms, dummyIF[c], FALSE)
               new == Add(ms, dm)
    <3>1. Truncate(c, new, "save_added")
      BY <1>3, <2>5 DEF AddEntry
    <3>2. /\ dm \in Mapping /\ Key(dm) = k
          /\ dm.ip4 = Final4(x, ms) /\ dm.ip6 = Final6(x, ms)
      BY <1>0, <2>1, AskedType
    <3> HIDE DEF dm
    <3>3. /\ new \in Seq(Mapping) /\ Keys(new) = Keys(ms) \cup {k}
          /\ OthersFrom(ms, new, k)
          /\ \A j \in DOMAIN new : Key(new[j]) = k => new[j] = dm
      BY <1>0, <2>5, <3>2, AddKeeps, AddedEntry DEF Known
    <3> HIDE DEF new
    <3>4. Provided(new)
      BY <1>0, <2>2, <3>2, <3>3, HostStore
    <3>5. Wanted(x, new) = Wanted(x, ms)
      BY <2>1 DEF Wanted, Final4, Final6
    <3> QED
      BY <1>0, <2>2, <3>1, <3>4, <3>5, HostSave DEF Saving
  <2> QED
    BY <2>4, <2>5
<1>4. CASE SaveCert(c)
  <2> DEFINE dm == Asked(x, ms, dummyIF[c], TRUE)
             new == Update(ms, dm)
  <2>1. pc[c] = "added" /\ Truncate(c, new, "save_last")
    BY <1>4 DEF SaveCert
  <2>2. x.op = "add" /\ Known(x, ms)
    BY <1>0, <2>1 DEF LocalOK
  <2>4. /\ dm \in Mapping /\ Key(dm) = k
        /\ dm.ip4 = Final4(x, ms) /\ dm.ip6 = Final6(x, ms)
    BY <1>0, <2>2, AskedType
  <2> HIDE DEF dm
  <2>5. /\ new \in Seq(Mapping) /\ Keys(new) = Keys(ms) /\ OthersFrom(ms, new, k)
        /\ \A j \in DOMAIN new : Key(new[j]) = k =>
               new[j].ip4 = dm.ip4 /\ new[j].ip6 = dm.ip6
    BY <1>0, <2>2, <2>4, UpdateKeeps, UpdatedEntry DEF Known
  <2> HIDE DEF new
  <2>6. (Apart(k) => Wanted(x, ms) \subseteq plugged) /\ Provided(ms)
    BY <2>1 DEF Before, HostInv, HostAt
  <2>8. links \subseteq Ifs(ms) \cup {IfOf[x.domain]} /\ Plugged(ms, {k})
    BY <2>6 DEF Provided, Plugged
  <2>9. Keys(new) = Keys(ms) \cup {k}
    BY <2>2, <2>5 DEF Known
  <2>10. Provided(new)
    BY <1>0, <2>4, <2>5, <2>6, <2>8, <2>9, HostStore
  <2> QED
    BY <1>0, <2>1, <2>10, HostSave DEF Saving
<1>5. CASE NoCert(c)
  <2>1. pc[c] = "added" /\ Goto(c, "finish") /\ UNCHANGED <<file, links, plugged, cmd, mem, todo>>
    BY <1>5 DEF NoCert, host, local
  <2>2. Provided(ms)'
    BY <2>1 DEF Before, HostInv, HostAt, Provided, Plugged
  <2>3. HostAt("finish", cmd[c], mem[c], todo[c])'
    BY <2>1, <2>2 DEF HostAt, InSetup
  <2> QED
    BY <1>0, <1>1, <2>1, <2>3, HostMove DEF Labels
<1> QED
  BY <1>2, <1>3, <1>4, <1>5

LEMMA HostUpdateSteps ==
    ASSUME NEW c, Before(c), BeginUpdate(c) \/ UpdateEntry(c)
    PROVE  HostInv(c)'
<1> DEFINE x == cmd[c]
           ms == mem[c]
           k == CmdKey(x)
           i == IfOf[x.domain]
<1>0. /\ DOMAIN todo = Proc /\ c \in Proc /\ ms \in Seq(Mapping) /\ Unique(ms)
      /\ x \in Command /\ x \in Commands /\ pc[c] # "idle" /\ x.op = "update"
      /\ dummyIF[c] \in IfName \cup {None}
      /\ pc[c] \in Working /\ file = Json(ms) /\ Json(ms).maps = ms /\ Json(ms).kind = "json"
      /\ LocalOK(pc[c], x, ms, todo[c]) /\ Faults \subseteq {"listen"}
  BY BeforeFacts DEF BeginUpdate, UpdateEntry, Begin, SetupDone, Working, InSetup, Json
<1>1. (\A y \in plugged : y[1] \in links) /\ k[1] = x.domain
  BY <1>0 DEF Before, HostInv, CmdKey
<1>2. CASE BeginUpdate(c)
  <2>1. pc[c] = "begin" /\ Provided(ms) /\ todo[c] = <<>>
    BY <1>2 DEF BeginUpdate, Begin, Before, HostInv, HostAt
  <2>2. CASE Quit(c)
    BY <1>0, <2>1, <2>2, HostExit DEF Quit
  <2>3. ASSUME Known(x, ms), Goto(c, "setup"), UNCHANGED <<file, cmd, mem, doomed>>,
               links' \subseteq links, \A y \in plugged' : y[1] \in links',
               Plugged(ms, {k})',
               Apart(k) => Wanted(x, ms) \subseteq plugged' \cup ToSet(todo'[c]),
               \A y \in ToSet(todo'[c]) : y[1] = i
        PROVE  HostInv(c)'
    <3>2. links' \subseteq Ifs(ms) \cup {i}
      BY <2>1, <2>3 DEF Provided
    <3>3. Wanted(x, ms)' = Wanted(x, ms)
      BY <2>3 DEF Wanted, Final4, Final6, Old
    <3>4. HostAt("setup", cmd[c], mem[c], todo[c])'
      BY <1>0, <2>3, <3>2, <3>3 DEF HostAt, InSetup
    <3> QED
      BY <1>0, <1>1, <2>3, <3>4, HostMove DEF Labels
  <2>4. CASE /\ ~UpdateRefused(x, ms) /\ NeedRebuild(x, ms)
             /\ Unlink(i) /\ StartSetup(c, Setups(<<Asked(x, ms, None, FALSE)>>))
    <3> DEFINE a == Asked(x, ms, None, FALSE)
    <3>1. Known(x, ms)
      BY <2>4 DEF UpdateRefused
    <3>2. /\ a \in Mapping /\ a.ip4 = Final4(x, ms) /\ a.ip6 = Final6(x, ms)
          /\ a.domain = x.domain
      BY <1>0, <3>1, AskedType DEF Asked
    <3>3. ToSet(Setups(<<a>>)) = {<<i, Final4(x, ms)>>, <<i, Final6(x, ms)>>}
      BY <3>2, SetupsOfOne
    <3>4. StartSetup(c, Setups(<<a>>))
      BY <2>4
    <3> HIDE DEF a
    <3>5. /\ todo'[c] = Setups(<<a>>) /\ Goto(c, "setup")
          /\ UNCHANGED <<file, cmd, mem, doomed>>
          /\ links' = links \ {i} /\ plugged' = {y \in plugged : y[1] # i}
      BY <1>0, <2>4, <3>4 DEF StartSetup, Unlink
    <3>6. Wanted(x, ms) \subseteq ToSet(todo'[c])
      BY <3>3, <3>5 DEF Wanted
    <3>7. \A y \in ToSet(todo'[c]) : y[1] = i
      BY <3>3, <3>5
    <3>9. Plugged(ms, {k})'
      <4>1. \A j \in DOMAIN ms :
                Key(ms[j]) # k /\ Apart(Key(ms[j])) => IfOf[ms[j].domain] # i
        BY <1>0, OthersApart
      <4>2. \A j \in DOMAIN ms : \A y \in Assigned(ms[j]) : y[1] = IfOf[ms[j].domain]
        BY DEF Assigned
      <4>3. Plugged(ms, {})
        BY <2>1 DEF Provided
      <4> QED
        BY <3>5, <4>1, <4>2, <4>3 DEF Plugged
    <3> QED
      BY <1>1, <2>3, <3>1, <3>5, <3>6, <3>7, <3>9
  <2>5. CASE /\ ~UpdateRefused(x, ms) /\ ~NeedRebuild(x, ms)
             /\ Goto(c, "setup") /\ UNCHANGED <<file, host, cmd, mem, todo, doomed, added>>
    <3>1. Known(x, ms) /\ Old(x, ms).ip4 = Final4(x, ms) /\ Old(x, ms).ip6 = Final6(x, ms)
      BY <2>5 DEF UpdateRefused, NeedRebuild
    <3>2. First(ms, k) \in DOMAIN ms /\ Old(x, ms) = ms[First(ms, k)]
          /\ Key(Old(x, ms)) = k
      BY <1>0, <3>1, FirstIsPosition DEF Known, Old, Get
    <3>3. Old(x, ms).domain = x.domain
      BY <1>1, <3>2 DEF Key
    <3>4. Assigned(Old(x, ms)) = Wanted(x, ms)
      BY <3>1, <3>3 DEF Assigned, Wanted
    <3>5. (Apart(k) => Wanted(x, ms) \subseteq plugged) /\ Plugged(ms, {k})
      BY <2>1, <3>2, <3>4 DEF Provided, Plugged
    <3>6. ToSet(<<>>) = {}
      BY DEF ToSet
    <3>8. UNCHANGED <<links, plugged>>
      BY <2>5 DEF host
    <3>9. Plugged(ms, {k})'
      BY <2>5, <3>5, <3>8 DEF Plugged
    <3> QED
      BY <1>1, <2>1, <2>3, <2>5, <3>1, <3>5, <3>6, <3>8, <3>9
  <2> QED
    BY <1>2, <2>2, <2>4, <2>5 DEF BeginUpdate
<1>3. CASE UpdateEntry(c)
  <2> DEFINE asked == Asked(x, ms, dummyIF[c], FALSE)
             dm == Revised(x, ms, dummyIF[c])
             new == Update(ms, dm)
  <2>1. pc[c] = "setup" /\ todo[c] = <<>> /\ Truncate(c, new, "save_last")
    BY <1>3 DEF UpdateEntry, SetupDone
  <2>2. Known(x, ms)
    BY <1>0, <2>1 DEF LocalOK, InSetup
  <2>3. /\ asked \in Mapping /\ Key(asked) = k
        /\ asked.ip4 = Final4(x, ms) /\ asked.ip6 = Final6(x, ms)
    BY <1>0, <2>2, AskedType
  <2>4. dm = [asked EXCEPT !.tls = FALSE]
    BY DEF Revised
  <2> HIDE DEF asked, dm
  <2>5. /\ dm \in Mapping /\ Key(dm) = k
        /\ dm.ip4 = Final4(x, ms) /\ dm.ip6 = Final6(x, ms)
    BY <2>3, <2>4 DEF Mapping, Key
  <2>6. /\ new \in Seq(Mapping) /\ Keys(new) = Keys(ms) /\ OthersFrom(ms, new, k)
        /\ \A j \in DOMAIN new : Key(new[j]) = k =>
               new[j].ip4 = dm.ip4 /\ new[j].ip6 = dm.ip6
    BY <1>0, <2>2, <2>5, UpdateKeeps, UpdatedEntry DEF Known
  <2> HIDE DEF new
  <2>7. /\ Apart(k) => Wanted(x, ms) \subseteq plugged
        /\ links \subseteq Ifs(ms) \cup {i} /\ Plugged(ms, {k})
    BY <2>1, SetupsDone
  <2>8. Keys(new) = Keys(ms) \cup {k}
    BY <2>2, <2>6 DEF Known
  <2>9. Provided(new)
    <3>1. pc[c] # "idle"
      BY <2>1
    <3>2. \A j \in DOMAIN new : Key(new[j]) = k =>
              new[j].ip4 = dm.ip4 /\ new[j].ip6 = dm.ip6
      BY <2>6
    <3> QED
      BY <2>5, <2>6, <2>7, <2>8, <3>1, <3>2, HostStore, Zenon
  <2> QED
    BY <1>0, <2>1, <2>9, HostSave DEF Saving
<1> QED
  BY <1>2, <1>3

LEMMA HostDeleteSteps ==
    ASSUME NEW c, Before(c),
           \/ Ask(c) \/ Decline(c) \/ ConfirmDelete(c) \/ DropEntry(c)
           \/ ConfirmReset(c) \/ CleanupOne(c) \/ ResetFile(c) \/ List(c)
    PROVE  HostInv(c)'
<1> DEFINE x == cmd[c]
           ms == mem[c]
           k == CmdKey(x)
           i == IfOf[x.domain]
<1>0. /\ DOMAIN todo = Proc /\ DOMAIN doomed = Proc /\ c \in Proc
      /\ ms \in Seq(Mapping) /\ Unique(ms) /\ pc \in [Proc -> Labels]
      /\ x \in Commands /\ pc[c] # "idle" /\ OpAt(pc[c], x.op)
      /\ file = Json(ms) /\ Json(ms).maps = ms /\ Json(ms).kind = "json"
      /\ Faults \subseteq {"listen"}
  BY BeforeFacts
  DEF Ask, Decline, ConfirmDelete, DropEntry, ConfirmReset, CleanupOne, ResetFile,
      List, Begin, Working, InSetup, Json
<1>1. (\A y \in plugged : y[1] \in links) /\ k[1] = x.domain
  BY <1>0 DEF Before, HostInv, CmdKey
<1>2. CASE Ask(c)
  <2>1. Provided(ms) /\ Goto(c, "prompt") /\ UNCHANGED <<file, links, plugged, cmd, mem, todo>>
    BY <1>2 DEF Ask, Begin, host, local, Before, HostInv, HostAt
  <2>2. Provided(ms)'
    BY <2>1 DEF Provided, Plugged
  <2>3. HostAt("prompt", cmd[c], mem[c], todo[c])'
    BY <2>1, <2>2 DEF HostAt, InSetup
  <2> QED
    BY <1>0, <1>1, <2>1, <2>3, HostMove DEF Labels
<1>3. CASE Decline(c) \/ List(c)
  <2>1. Quit(c) /\ pc[c] \in {"prompt", "begin"}
    BY <1>3 DEF Decline, List, Begin
  <2>2. Provided(ms)
    BY <2>1 DEF Before, HostInv, HostAt
  <2> QED
    BY <1>0, <2>1, <2>2, HostExit DEF Quit
<1>4. CASE ConfirmDelete(c)
  <2>1. /\ pc[c] = "prompt" /\ x.op = "delete" /\ Goto(c, "drop") /\ Provided(ms)
        /\ links' = links \ {i} /\ plugged' = {y \in plugged : y[1] # i}
        /\ UNCHANGED <<file, cmd, mem, todo>>
    BY <1>0, <1>4 DEF ConfirmDelete, Unlink, local, Before, HostInv, HostAt
  <2>2. \A j \in DOMAIN ms :
            Key(ms[j]) # k /\ Apart(Key(ms[j])) => IfOf[ms[j].domain] # i
    BY <1>0, <2>1, OthersApart
  <2>3. \A j \in DOMAIN ms : \A y \in Assigned(ms[j]) : y[1] = IfOf[ms[j].domain]
    BY DEF Assigned
  <2>4. Plugged(ms, {k})' /\ links' \subseteq Ifs(ms) \ {i}
    BY <2>1, <2>2, <2>3 DEF Provided, Plugged
  <2>5. HostAt("drop", cmd[c], mem[c], todo[c])'
    BY <2>1, <2>4 DEF HostAt, InSetup
  <2>6. \A y \in plugged' : y[1] \in links'
    BY <1>1, <2>1
  <2> QED
    BY <1>0, <1>1, <2>1, <2>5, <2>6, HostMove DEF Labels
<1>5. CASE DropEntry(c)
  <2>1. /\ pc[c] = "drop" /\ x.op = "delete" /\ links \subseteq Ifs(ms) \ {i}
        /\ Plugged(ms, {k})
    BY <1>0, <1>5 DEF DropEntry, OpAt, Before, HostInv, HostAt
  <2>2. CASE ~Known(x, ms)
    <3>1. k \notin Keys(ms)
      BY <2>2 DEF Known
    <3>2. Provided(ms)
      BY <2>1, <3>1 DEF Provided, Plugged, Keys
    <3> QED
      BY <1>0, <1>5, <2>2, <3>2, HostExit DEF DropEntry, Quit
  <2>3. CASE Known(x, ms)
    <3> DEFINE new == Delete(ms, k)
    <3>1. Truncate(c, new, "save_last")
      BY <1>5, <2>3 DEF DropEntry
    <3>2. /\ new \in Seq(Mapping) /\ Keys(new) = Keys(ms) \ {k}
          /\ OthersFrom(ms, new, k)
      BY <1>0, <2>3, DeleteKeeps DEF Known
    <3> HIDE DEF new
    <3>3. \A j \in DOMAIN new : Key(new[j]) # k
      BY <3>2 DEF Keys
    <3>4. Plugged(new, {})
      BY <1>0, <2>1, <3>2, <3>3, PluggedAfter
    <3>5. Ifs(ms) \ {i} \subseteq Ifs(new)
      <4>1. /\ Ifs(new) = {IfOf[q[1]] : q \in Keys(ms) \ {k}}
            /\ Ifs(ms) = {IfOf[q[1]] : q \in Keys(ms)}
        BY <1>0, <3>2, IfsAreOfKeys
      <4> QED
        BY <1>1, <4>1
    <3>6. Provided(new)
      BY <2>1, <3>4, <3>5 DEF Provided
    <3> QED
      BY <1>0, <3>1, <3>6, HostSave DEF Saving
  <2> QED
    BY <2>2, <2>3
<1>6. CASE ConfirmReset(c)
  <2>1. /\ Goto(c, "cleanup") /\ UNCHANGED <<file, links, plugged, cmd, mem, todo>>
        /\ doomed'[c] = links
    BY <1>0, <1>6 DEF ConfirmReset, StartCleanup, host
  <2>2. HostAt("cleanup", cmd[c], mem[c], todo[c])'
    BY DEF HostAt, InSetup
  <2> QED
    BY <1>0, <1>1, <2>1, <2>2, HostMove DEF Labels
<1>7. CASE CleanupOne(c)
  <2>1. PICK d : /\ links' = links \ {d} /\ plugged' = {y \in plugged : y[1] # d}
                 /\ doomed' = [doomed EXCEPT ![c] = @ \ {d}]
    BY <1>0, <1>7 DEF CleanupOne, Unlink
  <2>2. /\ Goto(c, "cleanup") /\ UNCHANGED <<file, cmd, mem, todo>>
        /\ pc[c] = "cleanup" /\ doomed'[c] = doomed[c] \ {d}
    BY <1>0, <1>7, <2>1 DEF CleanupOne, Goto
  <2>3. links \subseteq doomed[c]
    BY <2>2 DEF Before, HostInv
  <2>4. HostAt("cleanup", cmd[c], mem[c], todo[c])'
    BY DEF HostAt, InSetup
  <2> QED
    BY <1>0, <1>1, <2>1, <2>2, <2>3, <2>4, HostMove DEF Labels
<1>8. CASE ResetFile(c)
  <2>1. pc[c] = "cleanup" /\ doomed[c] = {} /\ Truncate(c, <<>>, "save_last")
    BY <1>8 DEF ResetFile
  <2>2. links = {}
    BY <2>1 DEF Before, HostInv
  <2>3. Provided(<<>>)
    BY <2>2 DEF Provided, Ifs, Plugged
  <2> QED
    BY <1>0, <2>1, <2>3, HostSave DEF Saving
<1> QED
  BY <1>2, <1>3, <1>4, <1>5, <1>6, <1>7, <1>8

LEMMA HostStep ==
    ASSUME NEW c, Before(c), [Next]_vars
    PROVE  HostInv(c)'
<1>0. Proc = {c, Daemon} /\ pc[Daemon] = "idle" /\ Alone(c)
  BY BeforeFacts DEF Before, HostInv
<1>1. CASE UNCHANGED vars
  BY <1>1 DEF Before, vars, HostInv, HostAt, Provided, Plugged, Wanted, Final4, Final6,
              Old
<1>2. CASE Step(Daemon) \/ Given(Daemon)
  BY <1>0, <1>1, <1>2, DaemonRests
<1>3. ~BeginDaemon(c) /\ ~Serve(c) /\ ~DaemonStopped(c) /\ ~StopDaemon(c)
  BY BeforeFacts DEF BeginDaemon, Serve, DaemonStopped, StopDaemon, Begin, SetupDone,
                     OpAt
<1>4. CASE Step(c)
  BY <1>3, <1>4, HostFileSteps, HostSetupSteps, HostAddSteps, HostUpdateSteps,
     HostDeleteSteps
  DEF Step
<1>5. CASE Given(c)
  BY <1>1, <1>3, <1>5, HostFileSteps, HostDeleteSteps DEF Given, Refused
<1> QED
  BY <1>0, <1>1, <1>2, <1>4, <1>5 DEF Next

LEMMA HostInvHolds ==
    ASSUME NEW c, Alone(c)  PROVE Spec => []HostInv(c)
<1>0. OneWriter(c)
  BY DEF Alone, OneWriter
<1>1. Init => HostInv(c)
  <2> SUFFICES ASSUME Init  PROVE HostInv(c)
    OBVIOUS
  <2>1. file.maps = <<>> /\ file.kind \in {"json", "absent"}
    BY RegistryAssumption DEF Init, NoFile, Json
  <2>2. c \in Proc /\ Daemon \in Proc
    BY DEF Proc, Alone
  <2>3. /\ pc[c] = "idle" /\ pc[Daemon] = "idle" /\ mem[c] = <<>> /\ todo[c] = <<>>
        /\ links = {} /\ plugged = {}
    BY <2>2 DEF Init
  <2>4. Provided(<<>>)
    BY <2>3 DEF Provided, Ifs, Plugged
  <2>5. HostAt(pc[c], cmd[c], mem[c], todo[c])
    BY <2>3 DEF HostAt, InSetup
  <2> QED
    BY <2>1, <2>3, <2>4, <2>5 DEF HostInv
<1>2. IInv /\ Placed /\ InStep(c) /\ HostInv(c) /\ [Next]_vars => HostInv(c)'
  BY <1>0, HostStep DEF Before
<1> QED
  BY <1>0, <1>1, <1>2, IInvHolds, PlacedHolds, InStepHolds, PTL DEF Spec

\* When no command is under way, every address of a mapping that has its
\* interface for itself is plugged into it, whatever was added, refused,
\* rebuilt by an update, deleted and reset before, of this mapping and of those
\* that share an interface: its service can bind to the address it was given.
THEOREM ServicesFindTheirAddress ==
    ASSUME NEW c, Alone(c)  PROVE Spec => []OwnInterfaceServes
<1>1. HostInv(c) => OwnInterfaceServes
  <2> SUFFICES ASSUME HostInv(c), Quiet, NEW j \in DOMAIN file.maps,
                      Apart(Key(file.maps[j]))
               PROVE  Assigned(file.maps[j]) \subseteq plugged
    BY DEF OwnInterfaceServes
  <2>1. pc[c] = "idle"
    BY DEF Quiet, Proc, Alone
  <2> QED
    BY <2>1 DEF HostInv, Provided, Plugged
<1> QED
  BY <1>1, HostInvHolds, PTL

\* And no other interface is left: those that are there are of mappings of the
\* list, whether mappings share interfaces or not.
THEOREM NothingIsLeftBehind ==
    ASSUME NEW c, Alone(c)  PROVE Spec => []NoStrayLinks
<1>1. HostInv(c) => NoStrayLinks
  BY DEF NoStrayLinks, HostInv, Quiet, Proc, Alone, Provided, Ifs
<1> QED
  BY <1>1, HostInvHolds, PTL
=============================================================================

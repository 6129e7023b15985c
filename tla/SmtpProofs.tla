----------------------------- MODULE SmtpProofs -----------------------------
(***************************************************************************)
(* A mail is relayed as any other connection is, and no reply overtakes    *)
(* its command: for every mail, wherever it is cut, and every list.        *)
(***************************************************************************)
EXTENDS Smtp, RoutingProofs

\* handleSMTP before anything has been copied.
Before == phase \in {"stuff", "read", "dial", "eat", "first"}

\* What the handler relies on at each place: nothing is read that was not
\* sent, the backend's first replies are thrown away one by one, and until the
\* copies start neither side has got anything of the other or been told the
\* end.
Staged ==
    /\ preview <= sent
    /\ Before => got = <<>> /\ passed = 0 /\ relayed = 0 /\ ~bEof /\ ~cEof
    /\ phase \in {"stuff", "read"} => to = None
    /\ phase \in {"dial", "eat", "first", "relay"} => to # None
    /\ phase \in {"eat", "first", "relay"} => backend # "none"
    /\ phase \in {"stuff", "read", "dial"} => eaten = 0
    /\ phase = "eat" => eaten < Ahead
    /\ phase \in {"first", "relay"} \/ relayed # 0 => eaten = Ahead

\* A copy that runs has not told its side the end, and it starts with the
\* preview at the backend.
Copying ==
    phase = "relay" =>
        /\ up = "copy" => ~bEof
        /\ down = "copy" => ~cEof
        /\ got # <<>>

\* The mapping was chosen by what the buffer holds.
Routed ==
    to # None =>
        to = RouteTCP(served, ExtractRcptDomain(stream, preview), SmtpPort)

\* A backend has said no more than it may.
InTurn == replied <= MaySay

IInv == TypeOK /\ Staged /\ Copying /\ CommandsIntact /\ Routed /\ InTurn

-----------------------------------------------------------------------------
\* What follows a range extends it.
LEMMA DeliverNext ==
    ASSUME NEW a \in Nat, NEW b \in Nat, NEW c \in Nat
    PROVE  /\ Conn!Deliver(<<>>, a, c) = <<<<a, c>>>>
           /\ Conn!Deliver(<<<<a, b>>>>, b + 1, c) = <<<<a, c>>>>
<1>1. /\ Conn!Last(<<<<a, b>>>>) = <<a, b>>
      /\ Conn!Front(<<<<a, b>>>>) = <<>>
  BY DEF Conn!Last, Conn!Front
<1> QED
  BY <1>1 DEF Conn!Deliver

LEMMA MailType ==
    ASSUME TypeOK
    PROVE  /\ served \in Seq(Mapping) /\ stream \in Mail
           /\ stream.ends \in Seq(Nat) /\ sent \in Nat /\ passed \in Nat
           /\ preview \in Nat /\ eaten \in 0 .. Ahead /\ eaten <= replied
<1>1. served \in Seq(Mapping) /\ stream \in Mail
  BY SmtpAssumption DEF TypeOK
<1>2. stream.ends \in Seq(Nat) /\ stream.cuts \subseteq Nat
  BY <1>1 DEF Mail
<1>3. sent \in Nat /\ passed \in Nat /\ preview \in Nat
  <2>1. sent \in stream.cuts \cup {0} /\ passed \in 0 .. sent
    BY DEF TypeOK
  <2>2. preview \in Nat
    BY DEF TypeOK, Conn!MaxLookahead
  <2> QED
    BY <1>2, <2>1, <2>2
<1>4. eaten \in 0 .. Ahead /\ eaten <= replied
  <2>1. eaten \in 0 .. Min({Ahead, replied}) /\ replied \in Nat /\ Ahead \in Nat
    BY DEF TypeOK, Ahead
  <2>2. /\ Min({Ahead, replied}) \in Nat
        /\ Min({Ahead, replied}) <= Ahead /\ Min({Ahead, replied}) <= replied
    BY <2>1, MinOfTwo
  <2> QED
    BY <2>1, <2>2
<1> QED
  BY <1>1, <1>2, <1>3, <1>4

\* Commands are complete once, and stay so.
LEMMA CommandsGrow ==
    ASSUME stream \in Mail, NEW a \in Nat, NEW b \in Nat, a <= b
    PROVE  Commands(a) \in Nat /\ Commands(b) \in Nat /\ Commands(a) <= Commands(b)
<1> DEFINE Done(n) == {i \in DOMAIN stream.ends : stream.ends[i] <= n}
<1>1. stream.ends \in Seq(Nat)
  BY DEF Mail
<1>2. IsFiniteSet(DOMAIN stream.ends)
  BY <1>1, LenProperties, FS_Interval
<1>3. Done(a) \subseteq Done(b) /\ Done(b) \subseteq DOMAIN stream.ends
  <2>1. \A i \in DOMAIN stream.ends : stream.ends[i] \in Nat
    BY <1>1, ElementOfSeq, LenProperties
  <2> QED
    BY <2>1
<1>4. IsFiniteSet(Done(b))
  BY <1>2, <1>3, FS_Subset
<1>5. /\ IsFiniteSet(Done(a))
      /\ Cardinality(Done(a)) <= Cardinality(Done(b))
  BY <1>3, <1>4, FS_Subset
<1>6. Cardinality(Done(a)) \in Nat /\ Cardinality(Done(b)) \in Nat
  BY <1>4, <1>5, FS_CardinalityType
<1> QED
  BY <1>5, <1>6 DEF Commands

LEMMA InitIInv == Init => IInv
<1> SUFFICES ASSUME Init  PROVE IInv
  OBVIOUS
<1>0. /\ sent = 0 /\ preview = 0 /\ passed = 0 /\ replied = 0 /\ relayed = 0
      /\ eaten = 0 /\ phase = "stuff" /\ to = None /\ got = <<>>
      /\ ~bEof /\ ~cEof
  BY DEF Init
<1>1. TypeOK
  <2>1. /\ preview \in 0 .. Conn!MaxLookahead /\ passed \in 0 .. sent
        /\ replied \in Nat /\ relayed \in 0 .. replied - eaten
    BY <1>0 DEF Conn!MaxLookahead
  <2>2. eaten \in 0 .. Min({Ahead, replied})
    BY <1>0, MinOfTwo DEF Ahead
  <2>3. got \in Seq(Nat \X Nat)
    BY <1>0, EmptySeq
  <2> QED
    BY <2>1, <2>2, <2>3 DEF Init, TypeOK, Conn!Sides
<1>2. Staged /\ Copying /\ CommandsIntact /\ Routed
  BY <1>0 DEF Staged, Copying, CommandsIntact, Routed, Before, Ahead
<1>3. InTurn
  <2>1. Commands(passed) \in Nat
    BY <1>0, <1>1, MailType, CommandsGrow
  <2> QED
    BY <1>0, <2>1, MaxOfTwo DEF InTurn, MaySay
<1> QED
  BY <1>1, <1>2, <1>3 DEF IInv

-----------------------------------------------------------------------------
\* The ways in which handleSMTP returns, all of them by Return.
Fails ==
    \/ StuffFails \/ ReadFails \/ DialFails \/ EatFails
    \/ Conn!WriteFirstFails /\ UNCHANGED <<manner, eaten>>
    \/ BothDone

LEMMA FailsReturns == Fails => Return /\ phase # "closed"
BY DEF Fails, StuffFails, ReadFails, DialFails, EatFails, Return,
       Conn!WriteFirstFails, BothDone, Conn!BothDone

LEMMA NextCases ==
    Next => \/ Fails \/ StuffSMTP \/ ReadCommands \/ Dial \/ Eat
            \/ Conn!WriteFirst /\ UNCHANGED <<manner, eaten>>
            \/ Conn!CopyUp /\ UNCHANGED <<manner, eaten>>
            \/ (Conn!UpEnds /\ UNCHANGED <<manner, eaten>>) \/ DownEnds
            \/ CopyDown \/ Peers
BY DEF Next, Handler, Fails, Forward, CopyUp, Down

LEMMA WriteFirstDelivers ==
    ASSUME IInv, Conn!WriteFirst
    PROVE  /\ phase = "first" /\ phase' = "relay"
           /\ passed' = preview /\ got = <<>> /\ got' = <<<<1, preview>>>>
           /\ UNCHANGED <<served, stream, client, backend, sent, replied,
                           deadline, preview, to, up, down, relayed, bEof, cEof>>
<1>1. /\ phase = "first" /\ phase' = "relay" /\ passed' = preview
      /\ got' = Conn!Deliver(got, 1, preview)
      /\ UNCHANGED <<served, stream, client, backend, sent, replied,
                      deadline, preview, to, up, down, relayed, bEof, cEof>>
  BY DEF Conn!WriteFirst, Conn!peers, Conn!choice, Conn!eofs
<1>2. got = <<>> /\ preview \in Nat
  BY <1>1, MailType DEF IInv, Staged, Before
<1>3. 1 \in Nat
  OBVIOUS
<1>4. got' = <<<<1, preview>>>>
  BY <1>1, <1>2, <1>3, DeliverNext
<1> QED
  BY <1>1, <1>2, <1>4

LEMMA CopyUpDelivers ==
    ASSUME IInv, Conn!CopyUp
    PROVE  /\ phase = "relay" /\ up = "copy" /\ sent > passed
           /\ passed' = sent /\ got' = <<<<1, sent>>>> /\ got = <<<<1, passed>>>>
           /\ UNCHANGED <<served, stream, client, backend, sent, replied, phase,
                           deadline, preview, to, up, down, relayed, bEof, cEof>>
<1>1. /\ phase = "relay" /\ up = "copy" /\ passed' = sent /\ sent > passed
      /\ got' = Conn!Deliver(got, passed + 1, sent)
      /\ UNCHANGED <<served, stream, client, backend, sent, replied, phase,
                      deadline, preview, to, up, down, relayed, bEof, cEof>>
  BY DEF Conn!CopyUp, Conn!peers, Conn!choice, Conn!eofs
<1>2. got = <<<<1, passed>>>>
  BY <1>1 DEF IInv, Copying, CommandsIntact
<1>3. 1 \in Nat /\ passed \in Nat /\ sent \in Nat
  BY MailType DEF IInv
<1>4. got' = <<<<1, sent>>>>
  BY <1>1, <1>2, <1>3, DeliverNext
<1> QED
  BY <1>1, <1>2, <1>4

\* Types.
LEMMA TypeStep ==
    ASSUME IInv, Next
    PROVE  TypeOK'
<1> USE DEF Conn!Sides
<1>0. TypeOK /\ Staged
  BY DEF IInv
<1>1. CASE Fails
  <2>1. Conn!Return /\ UNCHANGED <<manner, eaten>>
    BY <1>1, FailsReturns DEF Return
  <2> QED
    BY <1>0, <2>1 DEF TypeOK, Conn!Return, Conn!peers, Conn!copies, Conn!choice
<1>2. CASE StuffSMTP
  BY <1>0, <1>2 DEF StuffSMTP, TypeOK, peers, copies, eofs
<1>3. CASE ReadCommands
  <2>1. Window \in 0 .. Conn!MaxLookahead
    <3>1. sent \in Nat /\ Conn!MaxLookahead \in Nat
      BY <1>0, MailType DEF Conn!MaxLookahead
    <3>2. Window \in Nat /\ Window <= Conn!MaxLookahead
      BY <3>1, MinOfTwo DEF Window
    <3> QED
      BY <3>1, <3>2
  <2>2. RouteTCP(served, ExtractRcptDomain(stream, Window), SmtpPort)
            \in Mapping \cup {None}
    BY <1>0, MailType, RouteType
  <2>3. /\ preview' = Window /\ to' \in Mapping \cup {None}
        /\ phase' \in {"closed", "read", "dial"} /\ cEof' \in BOOLEAN
    BY <1>3, <2>2 DEF ReadCommands
  <2>4. UNCHANGED <<served, stream, peers, deadline, copies, bEof, manner, eaten>>
    BY <1>3 DEF ReadCommands
  <2> QED
    BY <1>0, <2>1, <2>3, <2>4 DEF TypeOK, peers, copies
<1>4. CASE Dial
  BY <1>0, <1>4 DEF Dial, TypeOK, choice, copies, eofs
<1>5. CASE Eat
  <2>1. /\ phase = "eat" /\ replied > eaten /\ eaten' = eaten + 1
        /\ phase' \in {"first", "eat"}
        /\ UNCHANGED <<served, stream, peers, choice, copies, eofs, manner>>
    BY <1>5 DEF Eat
  <2>2. relayed = 0 /\ eaten < Ahead
    BY <1>0, <2>1 DEF Staged, Before
  <2>3. eaten' \in 0 .. Min({Ahead, replied})
    <3>1. eaten \in Nat /\ replied \in Nat /\ Ahead \in Nat
      BY <1>0, MailType DEF TypeOK, Ahead
    <3>2. Min({Ahead, replied}) \in {Ahead, replied}
      BY <3>1, MinOfTwo
    <3> QED
      BY <2>1, <2>2, <3>1, <3>2
  <2>4. relayed \in 0 .. replied - eaten'
    <3>1. eaten \in Nat /\ replied \in Nat
      BY <1>0, MailType DEF TypeOK, Ahead
    <3> QED
      BY <2>1, <2>2, <3>1
  <2> QED
    BY <1>0, <2>1, <2>3, <2>4 DEF TypeOK, peers, choice, copies, eofs
<1>6. CASE Conn!WriteFirst /\ UNCHANGED <<manner, eaten>>
  <2>1. preview \in Nat /\ preview <= sent /\ sent \in Nat
    BY <1>0, MailType DEF Staged
  <2>2. /\ phase' = "relay" /\ passed' \in 0 .. sent
        /\ got' = <<<<1, preview>>>>
        /\ UNCHANGED <<served, stream, client, backend, sent, replied,
                        deadline, preview, to, up, down, relayed, bEof, cEof>>
    BY <1>6, <2>1, WriteFirstDelivers
  <2>3. got' \in Seq(Nat \X Nat)
    BY <2>1, <2>2
  <2> QED
    BY <1>0, <1>6, <2>2, <2>3 DEF TypeOK
<1>7. CASE Conn!CopyUp /\ UNCHANGED <<manner, eaten>>
  <2>1. sent \in Nat
    BY <1>0, MailType
  <2>2. /\ passed' = sent /\ got' = <<<<1, sent>>>>
        /\ UNCHANGED <<served, stream, client, backend, sent, replied, phase,
                        deadline, preview, to, up, down, relayed, bEof, cEof>>
    BY <1>7, CopyUpDelivers
  <2>3. got' \in Seq(Nat \X Nat)
    BY <2>1, <2>2
  <2> QED
    BY <1>0, <1>7, <2>1, <2>2, <2>3 DEF TypeOK
<1>8. CASE (Conn!UpEnds /\ UNCHANGED <<manner, eaten>>) \/ DownEnds
  BY <1>0, <1>8
     DEF TypeOK, Conn!UpEnds, DownEnds, peers, choice, Conn!peers, Conn!choice
<1>9. CASE CopyDown
  <2>1. /\ relayed' = replied - eaten
        /\ UNCHANGED <<served, stream, peers, phase, choice, up, down, passed,
                        got, eofs, manner, eaten>>
    BY <1>9 DEF CopyDown, Unread
  <2>2. replied \in Nat /\ eaten \in Nat /\ eaten <= replied
    BY <1>0, MailType DEF TypeOK, Ahead
  <2> QED
    BY <1>0, <2>1, <2>2 DEF TypeOK, peers, choice, eofs
<1>10. CASE SendSegment
  <2>1. /\ sent' \in stream.cuts /\ sent' > sent
        /\ UNCHANGED <<served, stream, client, backend, replied, phase,
                        choice, copies, eofs, manner, eaten>>
    BY <1>10 DEF SendSegment
  <2>2. sent \in Nat /\ passed \in 0 .. sent /\ stream.cuts \subseteq Nat
    BY <1>0, MailType DEF TypeOK, Mail
  <2> QED
    BY <1>0, <2>1, <2>2 DEF TypeOK, choice, copies, eofs
<1>11. CASE Reply
  <2>1. /\ replied' = replied + 1
        /\ UNCHANGED <<served, stream, sent, client, backend, phase, choice,
                        copies, eofs, manner, eaten>>
    BY <1>11 DEF Reply
  <2>2. replied \in Nat /\ eaten \in Nat /\ eaten <= replied /\ eaten <= Ahead
    BY <1>0, MailType DEF TypeOK, Ahead
  <2>3. eaten \in 0 .. Min({Ahead, replied'})
    <3>1. Ahead \in Nat /\ replied' \in Nat
      BY <2>1, <2>2 DEF Ahead
    <3>2. Min({Ahead, replied'}) \in {Ahead, replied'}
      BY <3>1, MinOfTwo
    <3> QED
      BY <2>1, <2>2, <3>1, <3>2
  <2> QED
    BY <1>0, <2>1, <2>2, <2>3 DEF TypeOK, choice, copies, eofs
<1>12. CASE /\ \/ Conn!ClientFin \/ Conn!ClientReset
               \/ Conn!BackendFin \/ Conn!BackendReset
            /\ UNCHANGED <<manner, eaten>>
  BY <1>0, <1>12
     DEF Conn!ClientFin, Conn!ClientReset, Conn!BackendFin, Conn!BackendReset,
         TypeOK, Conn!choice, Conn!copies, Conn!eofs
<1> QED
  BY <1>1, <1>2, <1>3, <1>4, <1>5, <1>6, <1>7, <1>8, <1>9, <1>10, <1>11, <1>12,
     NextCases DEF Peers

\* Where a connection stands, what its backend has got and why.
LEMMA ProgressStep ==
    ASSUME IInv, Next
    PROVE  Staged' /\ Copying' /\ CommandsIntact' /\ Routed'
<1>0. /\ TypeOK /\ Staged /\ Copying /\ CommandsIntact /\ Routed
      /\ preview \in Nat /\ sent \in Nat /\ preview <= sent
      /\ eaten \in Nat /\ replied \in Nat
  BY MailType DEF IInv, Staged, TypeOK, Ahead
<1> USE DEF ExtractRcptDomain
<1>1. CASE Fails
  <2>1. Conn!Return /\ UNCHANGED <<manner, eaten>>
    BY <1>1, FailsReturns DEF Return
  <2> QED
    BY <1>0, <2>1 DEF Conn!Return, Staged, Copying, CommandsIntact, Routed,
                      Before, Conn!peers, Conn!copies, Conn!choice
<1>2. CASE StuffSMTP
  <2>1. /\ phase = "stuff" /\ phase' = "read"
        /\ UNCHANGED <<served, stream, backend, sent, preview, to, passed, got,
                        relayed, bEof, cEof, eaten>>
    BY <1>2 DEF StuffSMTP, peers, copies, eofs
  <2> QED
    BY <1>0, <2>1 DEF Staged, Copying, CommandsIntact, Routed, Before
<1>3. CASE ReadCommands
  <2> DEFINE name == ExtractRcptDomain(stream, Window)
             target == RouteTCP(served, name, SmtpPort)
  <2>1. /\ phase = "read" /\ preview' = Window
        /\ to' = IF name = NoName THEN None ELSE target
        /\ \/ phase' = "closed"
           \/ phase' = "read" /\ to' = None /\ ~cEof'
           \/ phase' = "dial" /\ to' # None /\ ~cEof'
        /\ UNCHANGED <<served, stream, backend, sent, passed, got, relayed,
                        bEof, eaten>>
    BY <1>3 DEF ReadCommands, peers, copies
  <2>2. Window <= sent
    BY <1>0, MinOfTwo DEF Window, Conn!MaxLookahead
  <2> HIDE DEF ExtractRcptDomain
  <2>3. Routed'
    BY <2>1 DEF Routed, ExtractRcptDomain
  <2> HIDE DEF name, target
  <2>4. Staged' /\ Copying' /\ CommandsIntact'
    BY <1>0, <2>1, <2>2 DEF Staged, Copying, CommandsIntact, Before
  <2> QED
    BY <2>3, <2>4
<1>4. CASE Dial
  <2>1. /\ phase = "dial" /\ phase' = "eat" /\ backend' = "open"
        /\ UNCHANGED <<served, stream, sent, preview, to, passed, got, relayed,
                        bEof, cEof, eaten>>
    BY <1>4 DEF Dial, choice, copies, eofs
  <2> QED
    BY <1>0, <2>1 DEF Staged, Copying, CommandsIntact, Routed, Before, Ahead
<1>5. CASE Eat
  <2>1. /\ phase = "eat" /\ eaten' = eaten + 1
        /\ phase' = IF eaten' = Ahead THEN "first" ELSE "eat"
        /\ UNCHANGED <<served, stream, backend, sent, preview, to, passed, got,
                        relayed, bEof, cEof>>
    BY <1>5 DEF Eat, peers, choice, copies, eofs
  <2> QED
    BY <1>0, <2>1 DEF Staged, Copying, CommandsIntact, Routed, Before, Ahead
<1>6. CASE Conn!WriteFirst /\ UNCHANGED <<manner, eaten>>
  <2>1. /\ phase = "first" /\ phase' = "relay"
        /\ passed' = preview /\ got' = <<<<1, preview>>>>
        /\ UNCHANGED <<served, stream, backend, sent, preview, to, relayed,
                        bEof, cEof, eaten>>
    BY <1>6, WriteFirstDelivers DEF IInv
  <2> QED
    BY <1>0, <2>1 DEF Staged, Copying, CommandsIntact, Routed, Before
<1>7. CASE Conn!CopyUp /\ UNCHANGED <<manner, eaten>>
  <2>1. /\ phase = "relay" /\ passed' = sent /\ got' = <<<<1, sent>>>>
        /\ UNCHANGED <<served, stream, backend, sent, phase, preview, to, up,
                        down, relayed, bEof, cEof, eaten>>
    BY <1>7, CopyUpDelivers
  <2> QED
    BY <1>0, <2>1 DEF Staged, Copying, CommandsIntact, Routed, Before
<1>8. CASE (Conn!UpEnds /\ UNCHANGED <<manner, eaten>>) \/ DownEnds
  <2>1. /\ phase = "relay"
        /\ \/ up' = "done" /\ UNCHANGED <<down, cEof>>
           \/ down' = "done" /\ UNCHANGED <<up, bEof>>
        /\ UNCHANGED <<served, stream, backend, sent, phase, preview, to,
                        passed, got, relayed, eaten>>
    BY <1>8
       DEF Conn!UpEnds, DownEnds, peers, choice, Conn!peers, Conn!choice
  <2> QED
    BY <1>0, <2>1 DEF Staged, Copying, CommandsIntact, Routed, Before
<1>9. CASE CopyDown
  <2>1. /\ phase = "relay"
        /\ UNCHANGED <<served, stream, backend, sent, phase, preview, to,
                        passed, got, up, down, bEof, cEof, eaten>>
    BY <1>9 DEF CopyDown, peers, choice, eofs
  <2> QED
    BY <1>0, <2>1 DEF Staged, Copying, CommandsIntact, Routed, Before
<1>10. CASE Peers
  <2>1. /\ sent' \in Nat /\ sent' >= sent
        /\ backend # "none" => backend' # "none"
        /\ UNCHANGED <<served, stream, preview, phase, to, passed, got, up,
                        down, relayed, bEof, cEof, eaten>>
    <3>1. stream.cuts \subseteq Nat
      BY <1>0, MailType DEF Mail
    <3> QED
      BY <1>0, <1>10, <3>1
         DEF Peers, SendSegment, Reply, Conn!ClientFin, Conn!ClientReset,
             Conn!BackendFin, Conn!BackendReset, choice, copies, eofs,
             Conn!choice, Conn!copies, Conn!eofs
  <2> QED
    BY <1>0, <2>1 DEF Staged, Copying, CommandsIntact, Routed, Before
<1> QED
  BY <1>1, <1>2, <1>3, <1>4, <1>5, <1>6, <1>7, <1>8, <1>9, <1>10, NextCases

\* A backend speaks when it may, and what it may say only grows.
LEMMA TurnStep ==
    ASSUME IInv, Next
    PROVE  InTurn'
<1>0. /\ TypeOK /\ Staged /\ InTurn /\ stream \in Mail
      /\ passed \in Nat /\ replied \in Nat /\ preview \in Nat /\ sent \in Nat
  BY MailType DEF IInv, TypeOK
<1>1. CASE UNCHANGED <<stream, manner, passed>> /\ replied' \in {replied, replied + 1}
           /\ (replied' # replied => replied < MaySay)
  <2>1. MaySay' = MaySay
    BY <1>1 DEF MaySay, Commands
  <2>2. MaySay \in Nat
    <3>1. Commands(passed) \in Nat
      BY <1>0, CommandsGrow
    <3> QED
      BY <3>1, MaxOfTwo DEF MaySay
  <2> QED
    BY <1>0, <1>1, <2>1, <2>2 DEF InTurn
<1>2. CASE /\ UNCHANGED <<stream, manner, replied>>
           /\ passed' \in Nat /\ passed' >= passed
  <2>1. /\ Commands(passed) \in Nat /\ Commands(passed') \in Nat
        /\ Commands(passed) <= Commands(passed')
    BY <1>0, <1>2, CommandsGrow
  <2>2. Commands(passed)' = Commands(passed')
    BY <1>2 DEF Commands
  <2> DEFINE a == 1 + Commands(passed)
             b == 1 + Commands(passed')
  <2>3. a \in Nat /\ b \in Nat /\ a <= b
    BY <2>1
  <2>4. /\ MaySay = IF manner = "turn" THEN a ELSE Max({a, 3})
        /\ MaySay' = IF manner = "turn" THEN b ELSE Max({b, 3})
    BY <1>2, <2>2 DEF MaySay
  <2> HIDE DEF a, b
  <2>5. Max({a, 3}) \in {a, 3} /\ Max({b, 3}) >= b /\ Max({b, 3}) >= 3
        /\ Max({b, 3}) \in {b, 3}
    BY <2>3, MaxOfTwo
  <2> QED
    BY <1>0, <1>2, <2>3, <2>4, <2>5 DEF InTurn
<1>3. CASE Conn!WriteFirst /\ UNCHANGED <<manner, eaten>>
  <2>1. /\ phase = "first" /\ passed' = preview
        /\ UNCHANGED <<stream, replied>>
    BY <1>3, WriteFirstDelivers
  <2>2. passed = 0
    BY <1>0, <2>1 DEF Staged, Before
  <2> QED
    BY <1>0, <1>2, <1>3, <2>1, <2>2
<1>4. CASE Conn!CopyUp /\ UNCHANGED <<manner, eaten>>
  <2>1. passed' = sent /\ sent > passed /\ UNCHANGED <<stream, replied>>
    BY <1>4, CopyUpDelivers
  <2> QED
    BY <1>0, <1>2, <1>4, <2>1
<1>5. CASE Reply
  BY <1>1, <1>5 DEF Reply, copies
<1>6. CASE Fails
  <2>1. Conn!Return /\ UNCHANGED <<manner, eaten>>
    BY <1>6, FailsReturns DEF Return
  <2> QED
    BY <1>1, <2>1 DEF Conn!Return, Conn!peers, Conn!copies
<1>7. CASE \/ StuffSMTP \/ ReadCommands \/ Dial \/ Eat \/ DownEnds \/ CopyDown
           \/ SendSegment
  BY <1>1, <1>7 DEF StuffSMTP, ReadCommands, Dial, Eat, DownEnds, CopyDown,
                    SendSegment, peers, copies
<1>8. CASE /\ \/ Conn!UpEnds \/ Conn!ClientFin \/ Conn!ClientReset
              \/ Conn!BackendFin \/ Conn!BackendReset
           /\ UNCHANGED <<manner, eaten>>
  BY <1>1, <1>8
     DEF Conn!UpEnds, Conn!ClientFin, Conn!ClientReset, Conn!BackendFin,
         Conn!BackendReset, Conn!peers, Conn!copies
<1> QED
  BY <1>3, <1>4, <1>5, <1>6, <1>7, <1>8, NextCases DEF Peers

-----------------------------------------------------------------------------
LEMMA Inductive == Spec => []IInv
<1>1. IInv /\ UNCHANGED vars => IInv'
  BY DEF IInv, TypeOK, Staged, Copying, CommandsIntact, Routed, InTurn, Before,
         ExtractRcptDomain, MaySay, Commands, vars, peers, choice, copies, eofs
<1>2. IInv /\ [Next]_vars => IInv'
  BY <1>1, TypeStep, ProgressStep, TurnStep DEF IInv
<1> QED
  BY <1>2, InitIInv, PTL DEF Spec

\* The type invariant of a connection on port 25; no more than three replies
\* of a backend are thrown away.
THEOREM TypeCorrect == Spec => []TypeOK
BY Inductive, PTL DEF IInv

\* The backend gets a mail from its first command on, without a gap or a
\* repetition, for every mail and wherever it is cut.
THEOREM MailsArriveIntact == Spec => []CommandsIntact
BY Inductive, PTL DEF IInv

\* A mail whose first recipient has arrived whole goes to the mapping of that
\* recipient, for every list.
THEOREM RecipientsDecide == Spec => []RoutedByRecipient
<1>1. IInv => RoutedByRecipient
  BY DEF IInv, Routed, RoutedByRecipient, ExtractRcptDomain
<1> QED
  BY <1>1, Inductive, PTL

\* The client is never ahead of the backend by more than the replies the
\* proxy gave itself.
LEMMA HeardIsSaid ==
    ASSUME IInv, relayed # 0
    PROVE  Heard <= replied /\ Heard \in Nat
<1>1. eaten = Ahead /\ phase # "stuff"
  BY DEF IInv, Staged, Before
<1>2. relayed \in 0 .. replied - eaten /\ replied \in Nat
  BY DEF IInv, TypeOK
<1> QED
  BY <1>1, <1>2 DEF Heard, Stuffed, Ahead

\* No reply but the three the proxy gives itself reaches the client before
\* the command it answers has reached the backend, for every mail, pipelined
\* or not, and for backends that speak in turn or ahead.
THEOREM NothingIsAnsweredBlindly == Spec => []NoFalseAnswer
<1>1. IInv => NoFalseAnswer
  <2> SUFFICES ASSUME IInv, NEW c \in 3 .. Len(stream.ends), Heard > c
               PROVE  Commands(passed) >= c
    BY DEF NoFalseAnswer
  <2>1. c \in Nat /\ c >= 3
    BY MailType, LenProperties DEF IInv
  <2>2. relayed # 0
    BY <2>1 DEF Heard, Stuffed
  <2>3. replied > c /\ replied \in Nat
    BY <2>1, <2>2, HeardIsSaid DEF IInv, TypeOK
  <2>4. Commands(passed) \in Nat
    BY MailType, CommandsGrow DEF IInv
  <2>5. MaySay \in {1 + Commands(passed), 3}
    BY <2>4, MaxOfTwo DEF MaySay
  <2> QED
    BY <2>1, <2>3, <2>4, <2>5 DEF IInv, InTurn
<1> QED
  BY <1>1, Inductive, PTL

-----------------------------------------------------------------------------
\* Every step of a connection on port 25 is one of a relay, or none.
LEMMA RelayStep ==
    ASSUME IInv, [Next]_vars
    PROVE  [Promise!RelayNext]_<<to, got, relayed, bEof, cEof>>
<1> USE DEF Promise!RelayNext
<1>0. TypeOK /\ Staged /\ Copying /\ CommandsIntact
  BY DEF IInv
<1>1. CASE Fails
  <2>1. Conn!Return /\ phase # "closed"
    BY <1>1, FailsReturns DEF Return
  <2>2. bEof => backend # "none"
    BY <1>0, <2>1 DEF TypeOK, Staged, Before
  <2>3. Promise!Tell
    BY <1>0, <2>1, <2>2 DEF Promise!Tell, Conn!Return, Conn!copies, Conn!choice
  <2> QED  BY <2>3
<1>2. CASE ReadCommands
  <2>1. /\ phase = "read"
        /\ to' \in {None, RouteTCP(served, ExtractRcptDomain(stream, Window),
                                    SmtpPort)}
        /\ to' # None => cEof' = FALSE
        /\ UNCHANGED <<copies, bEof>>
    BY <1>2 DEF ReadCommands
  <2>2. to = None /\ cEof = FALSE
    BY <1>0, <2>1 DEF TypeOK, Staged, Before
  <2>3. to' \in Mapping \cup {None}
    BY <1>0, <2>1, MailType, RouteType
  <2>4. CASE to' = None
    <3>1. Promise!Tell
      BY <2>1, <2>2, <2>4 DEF Promise!Tell, copies
    <3> QED  BY <3>1
  <2>5. CASE to' # None
    <3>1. Promise!Choose
      BY <2>1, <2>2, <2>3, <2>5 DEF Promise!Choose, copies
    <3> QED  BY <3>1
  <2> QED  BY <2>4, <2>5
<1>3. CASE Conn!WriteFirst
  <2>1. /\ got = <<>> /\ got' = <<<<1, preview>>>> /\ phase = "first"
        /\ UNCHANGED <<to, relayed, bEof, cEof>>
    BY <1>3, WriteFirstDelivers
  <2>2. to # None /\ ~bEof
    BY <1>0, <2>1 DEF Staged, Before
  <2>3. Promise!Forward
    BY <2>1, <2>2 DEF Promise!Forward
  <2> QED  BY <2>3
<1>4. CASE Conn!CopyUp
  <2>1. /\ phase = "relay" /\ up = "copy" /\ sent > passed
        /\ got = <<<<1, passed>>>> /\ got' = <<<<1, sent>>>>
        /\ UNCHANGED <<to, relayed, bEof, cEof>>
    BY <1>4, CopyUpDelivers
  <2>2. to # None /\ ~bEof
    BY <1>0, <2>1 DEF Staged, Copying
  <2>3. Promise!Forward
    BY <2>1, <2>2 DEF Promise!Forward
  <2> QED  BY <2>3
<1>5. CASE CopyDown
  <2>1. /\ phase = "relay" /\ down = "copy"
        /\ replied - eaten > relayed /\ relayed' = replied - eaten
        /\ UNCHANGED <<to, got, bEof, cEof>>
    BY <1>5 DEF CopyDown, Unread, choice, eofs
  <2>2. to # None /\ ~cEof
    BY <1>0, <2>1 DEF Staged, Copying
  <2>3. Promise!Answer
    BY <2>1, <2>2 DEF Promise!Answer
  <2> QED  BY <2>3
<1>6. CASE Conn!UpEnds \/ DownEnds
  <2>1. Promise!Tell
    BY <1>0, <1>6
       DEF Promise!Tell, Conn!UpEnds, DownEnds, Copying, choice, Conn!choice
  <2> QED  BY <2>1
<1>7. CASE StuffSMTP \/ Dial \/ Eat \/ Peers \/ UNCHANGED vars
  BY <1>7
     DEF StuffSMTP, Dial, Eat, Peers, SendSegment, Reply, Conn!ClientFin,
         Conn!ClientReset, Conn!BackendFin, Conn!BackendReset, vars, choice,
         copies, eofs, Conn!choice, Conn!copies, Conn!eofs
<1> QED
  BY <1>1, <1>2, <1>3, <1>4, <1>5, <1>6, <1>7, NextCases

\* Although its first commands are answered by the proxy and the backend's
\* first replies thrown away, a mail is relayed as any other connection is.
THEOREM MailsRelay == Spec => ImplementsRelay
<1>1. Init => Promise!RelayInit
  BY DEF Init, Promise!RelayInit
<1> QED
  BY <1>1, RelayStep, Inductive, PTL DEF Spec, ImplementsRelay, Promise!RelaySpec
=============================================================================

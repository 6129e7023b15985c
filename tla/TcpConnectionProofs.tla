------------------------ MODULE TcpConnectionProofs -------------------------
(***************************************************************************)
(* A connection is a relay: the bytes of its client arrive once and in     *)
(* order, for every list, every stream and every place where it is cut.    *)
(***************************************************************************)
EXTENDS TcpConnection, RoutingProofs

\* handleConnection before anything has been copied.
Before == phase \in {"preview", "route", "handshake", "dial", "first"}

\* What the handler relies on at each place: nothing is read that was not
\* sent, and until the copies start neither side has got anything or been
\* told the end.
Staged ==
    /\ preview <= sent
    /\ Before => got = <<>> /\ ~bEof /\ ~cEof
    /\ phase \in {"preview", "route"} => to = None
    /\ phase \in {"handshake", "dial", "first", "relay"} => to # None
    /\ phase \in {"first", "relay"} => backend # "none"
    /\ phase = "handshake" => Terminated
    /\ phase = "first" => ~Terminated
    /\ phase \in {"dial", "relay"} /\ Terminated /\ got = <<>> =>
           passed = stream.hello

\* A copy that runs has not told its side the end, and a connection that is
\* passed through starts copying with the preview at the backend.
Copying ==
    phase = "relay" =>
        /\ up = "copy" => ~bEof
        /\ down = "copy" => ~cEof
        /\ ~Terminated => got # <<>>

IInv == TypeOK /\ Staged /\ Copying /\ StreamIntact

-----------------------------------------------------------------------------
\* What follows a range extends it.
LEMMA DeliverNext ==
    ASSUME NEW a \in Nat, NEW b \in Nat, NEW c \in Nat
    PROVE  /\ Deliver(<<>>, a, c) = <<<<a, c>>>>
           /\ Deliver(<<<<a, b>>>>, b + 1, c) = <<<<a, c>>>>
<1>1. Last(<<<<a, b>>>>) = <<a, b>> /\ Front(<<<<a, b>>>>) = <<>>
  BY DEF Last, Front
<1> QED
  BY <1>1 DEF Deliver

LEMMA StreamType ==
    ASSUME TypeOK
    PROVE  /\ served \in Seq(Mapping) /\ stream \in Stream
           /\ stream.hello \in Nat /\ stream.cuts \subseteq Nat
           /\ sent \in Nat /\ stream.host \in Requested \cup {NoName}
<1>1. served \in Seq(Mapping) /\ stream \in Stream
  BY TcpAssumption DEF TypeOK
<1>2. /\ stream.hello \in Nat /\ stream.cuts \subseteq Nat
      /\ stream.host \in Requested \cup {NoName}
  BY <1>1 DEF Stream
<1>3. sent \in Nat
  BY <1>2 DEF TypeOK
<1> QED
  BY <1>1, <1>2, <1>3

LEMMA ExtractType ==
    ASSUME NEW s \in Stream, NEW n
    PROVE  Extract(s, n).host \in Requested \cup {NoName}
BY DEF Extract, FoundOrMore, Result, Stream

LEMMA InitIInv == Init => IInv
<1> SUFFICES ASSUME Init  PROVE IInv
  OBVIOUS
<1>0. /\ sent = 0 /\ preview = 0 /\ passed = 0 /\ replied = 0 /\ relayed = 0
      /\ phase = "preview" /\ to = None /\ got = <<>> /\ ~bEof /\ ~cEof
  BY DEF Init
<1>1. TypeOK
  <2>1. /\ preview \in 0 .. MaxLookahead /\ passed \in 0 .. sent
        /\ replied \in 0 .. MaxReplies /\ relayed \in 0 .. replied
    BY <1>0, TcpAssumption DEF MaxLookahead
  <2>2. found.host \in Requested \cup {NoName}
    BY DEF Init, Result
  <2>3. got \in Seq(Nat \X Nat)
    BY EmptySeq DEF Init
  <2> QED
    BY <2>1, <2>2, <2>3 DEF Init, TypeOK, Sides
<1>2. Staged /\ Copying /\ StreamIntact
  BY <1>0 DEF Staged, Copying, StreamIntact, Before
<1> QED
  BY <1>1, <1>2 DEF IInv
\* What the copy to the backend does to the one range the backend has: it
\* starts where it started, or after the handshake.
Start == IF Terminated THEN stream.hello + 1 ELSE 1

LEMMA CopyUpDelivers ==
    ASSUME IInv, CopyUp
    PROVE  got' = <<<<Start, sent>>>> /\ Start \in Nat /\ sent \in Nat
<1>1. /\ passed \in Nat /\ sent \in Nat /\ stream.hello \in Nat
      /\ Start \in Nat
  BY StreamType DEF IInv, TypeOK, Start
<1>2. phase = "relay" /\ got' = Deliver(got, passed + 1, sent)
  BY DEF CopyUp
<1>3. CASE got = <<>>
  <2>1. Terminated /\ passed = stream.hello
    BY <1>2, <1>3 DEF IInv, Staged, Copying
  <2> QED
    BY <1>1, <1>2, <1>3, <2>1, DeliverNext DEF Start
<1>4. CASE got # <<>>
  <2>1. got = <<<<Start, passed>>>>
    BY <1>4 DEF IInv, StreamIntact, Start
  <2> QED
    BY <1>1, <1>2, <2>1, DeliverNext
<1> QED
  BY <1>1, <1>3, <1>4

\* The ways in which handleConnection returns, all of them by Return.
Fails == ReadFails \/ HandshakeFails \/ DialFails \/ WriteFirstFails \/ BothDone

LEMMA FailsReturns == Fails => Return /\ ~Ended
BY DEF Fails, ReadFails, HandshakeFails, DialFails, WriteFirstFails, BothDone,
       Ended

\* Types.
LEMMA TypeStep ==
    ASSUME IInv, Next
    PROVE  TypeOK'
<1> USE DEF IInv, Sides
<1>0. TypeOK /\ preview <= sent
  BY DEF Staged
<1>1. CASE Fails
  BY <1>0, <1>1, FailsReturns DEF Return, TypeOK, peers, copies, choice
<1>2. CASE ReadPreview
  <2> DEFINE n == Min({sent, MaxLookahead})
             r == Extract(stream, n)
  <2>1. n \in 0 .. MaxLookahead
    <3>1. sent \in Nat /\ MaxLookahead \in Nat
      BY <1>0, StreamType DEF MaxLookahead
    <3>2. n \in Nat /\ n <= MaxLookahead
      BY <3>1, MinOfTwo
    <3> HIDE DEF n
    <3> QED
      BY <3>1, <3>2
  <2>2. r.host \in Requested \cup {NoName}
    BY <1>0, StreamType, ExtractType
  <2>3. preview' = n /\ (found' = found \/ found' = r)
    BY <1>2 DEF ReadPreview
  <2>4. phase' \in {"preview", "route", "served"}
    BY <1>2 DEF ReadPreview, TypeOK
  <2>5. deadline' \in BOOLEAN /\ cEof' \in BOOLEAN
    BY <1>0, <1>2 DEF ReadPreview, TypeOK
  <2>6. UNCHANGED <<served, stream, peers, to, copies, bEof>>
    BY <1>2 DEF ReadPreview
  <2> HIDE DEF n, r
  <2> QED
    BY <1>0, <2>1, <2>2, <2>3, <2>4, <2>5, <2>6 DEF TypeOK, peers, copies
<1>3. CASE Route
  <2>1. Target \in Mapping \cup {None}
    BY <1>0, StreamType, RouteType DEF Target
  <2>2. /\ to' = Target
        /\ phase' \in {"closed", "handshake", "dial"}
        /\ cEof' \in BOOLEAN /\ deadline' \in BOOLEAN
        /\ UNCHANGED <<served, stream, peers, preview, found, copies, bEof>>
    BY <1>0, <1>3 DEF Route, TypeOK, Terminates
  <2> QED
    BY <1>0, <2>1, <2>2 DEF TypeOK, peers, copies
<1>4. CASE Handshake
  <2>1. passed' = stream.hello /\ stream.hello \in 0 .. sent
    BY <1>0, <1>4, StreamType DEF Handshake
  <2> QED
    BY <1>0, <1>4, <2>1 DEF Handshake, TypeOK, peers, eofs
<1>5. CASE Dial
  BY <1>0, <1>5 DEF Dial, TypeOK, choice, copies, eofs
<1>6. CASE WriteFirst
  <2>1. phase = "first" /\ got = <<>>
    BY <1>6 DEF WriteFirst, Staged, Before
  <2>2. preview \in Nat /\ sent \in Nat
    BY <1>0, StreamType DEF TypeOK, MaxLookahead
  <2>3. got' = <<<<1, preview>>>>
    BY <1>6, <2>1, <2>2, DeliverNext DEF WriteFirst
  <2>4. got' \in Seq(Nat \X Nat)
    BY <2>2, <2>3
  <2> QED
    BY <1>0, <1>6, <2>2, <2>4 DEF WriteFirst, TypeOK, peers, choice, eofs
<1>7. CASE CopyUp
  <2>1. got' \in Seq(Nat \X Nat)
    BY <1>7, CopyUpDelivers
  <2> QED
    BY <1>0, <1>7, <2>1, StreamType DEF CopyUp, TypeOK, peers, choice, eofs
<1>8. CASE UpEnds \/ DownEnds
  BY <1>0, <1>8 DEF UpEnds, DownEnds, TypeOK, peers, choice
<1>9. CASE CopyDown
  BY <1>0, <1>9 DEF CopyDown, TypeOK, peers, choice, eofs
<1>10. CASE SendSegment
  BY <1>0, <1>10, StreamType DEF SendSegment, TypeOK, choice, copies, eofs
<1>11. CASE ClientFin \/ ClientReset \/ BackendFin \/ BackendReset
  BY <1>0, <1>11
     DEF ClientFin, ClientReset, BackendFin, BackendReset, TypeOK, choice,
         copies, eofs
<1>12. CASE Reply
  BY <1>0, <1>12, TcpAssumption DEF Reply, TypeOK, choice, copies, eofs
<1> QED
  BY <1>1, <1>2, <1>3, <1>4, <1>5, <1>6, <1>7, <1>8, <1>9, <1>10, <1>11, <1>12
     DEF Next, Proxy, Peers, Fails

\* A step that leaves the choice and the forwarded bytes alone.
LEMMA ForwardedKeeps ==
    ASSUME StreamIntact, UNCHANGED <<stream, to, found, passed, got>>
    PROVE  StreamIntact' /\ Terminated' = Terminated
BY DEF StreamIntact, Terminated

\* Where a connection stands, and what its backend has got.
LEMMA ProgressStep ==
    ASSUME IInv, Next
    PROVE  Staged' /\ Copying' /\ StreamIntact'
<1> USE DEF IInv
<1>0. /\ TypeOK /\ preview <= sent /\ sent \in Nat /\ preview \in Nat
      /\ Staged /\ Copying /\ StreamIntact
  BY StreamType DEF Staged, TypeOK, MaxLookahead
<1>1. CASE Fails
  <2>1. Return
    BY <1>1, FailsReturns
  <2> QED
    BY <1>0, <2>1, ForwardedKeeps
       DEF Return, Staged, Copying, Before, peers, copies, choice
<1>2. CASE ReadPreview
  <2>1. /\ phase = "preview" /\ phase' \in {"preview", "route", "served"}
        /\ preview' = Min({sent, MaxLookahead})
        /\ phase' = "served" \/ cEof' = cEof
        /\ UNCHANGED <<stream, sent, to, got, bEof>>
    BY <1>2 DEF ReadPreview, peers, copies
  <2>2. preview' <= sent
    BY <1>0, <2>1, MinOfTwo DEF MaxLookahead
  <2> QED
    BY <1>0, <2>1, <2>2 DEF Staged, Copying, StreamIntact, Before
<1>3. CASE Route
  <2>1. /\ phase = "route" /\ to' = Target
        /\ UNCHANGED <<stream, sent, preview, found, got, bEof>>
    BY <1>3 DEF Route, peers, copies
  <2>2. Terminated' = Terminates(Target, found.proto)
    BY <2>1 DEF Terminated
  <2>3. CASE Target = None
    <3>1. phase' = "closed"
      BY <1>3, <2>3 DEF Route
    <3> QED
      BY <1>0, <2>1, <3>1 DEF Staged, Copying, StreamIntact, Before
  <2>4. CASE Target # None
    <3>1. /\ phase' = IF Terminated' THEN "handshake" ELSE "dial"
          /\ cEof' = cEof
      BY <1>3, <2>2, <2>4 DEF Route
    <3> QED
      BY <1>0, <2>1, <2>4, <3>1 DEF Staged, Copying, StreamIntact, Before
  <2> QED
    BY <2>3, <2>4
<1>4. CASE Handshake
  <2>1. /\ phase = "handshake" /\ phase' = "dial" /\ passed' = stream.hello
        /\ UNCHANGED <<stream, sent, preview, to, found, got, bEof, cEof>>
    BY <1>4 DEF Handshake, peers, eofs
  <2> QED
    BY <1>0, <2>1 DEF Staged, Copying, StreamIntact, Before, Terminated
<1>5. CASE Dial
  <2>1. /\ phase = "dial" /\ phase' = IF Terminated THEN "relay" ELSE "first"
        /\ UNCHANGED <<stream, sent, preview, to, found, passed, got, bEof, cEof>>
    BY <1>5 DEF Dial, choice, copies, eofs
  <2>2. StreamIntact' /\ Terminated' = Terminated
    BY <1>0, <2>1, ForwardedKeeps
  <2>3. backend' = "open"
    BY <1>5 DEF Dial
  <2> QED
    BY <1>0, <2>1, <2>2, <2>3 DEF Staged, Copying, Before
<1>6. CASE WriteFirst
  <2>1. /\ phase = "first" /\ phase' = "relay" /\ passed' = preview
        /\ got' = Deliver(got, 1, preview)
        /\ UNCHANGED <<stream, backend, sent, preview, to, found, bEof, cEof>>
    BY <1>6 DEF WriteFirst, peers, choice, eofs
  <2>2. got' = <<<<1, preview>>>> /\ got' # <<>>
    <3>1. got = <<>>
      BY <1>0, <2>1 DEF Staged, Before
    <3>2. preview \in Nat /\ 1 \in Nat
      BY <1>0
    <3>3. got' = <<<<1, preview>>>>
      BY <2>1, <3>1, <3>2, DeliverNext
    <3> QED
      BY <3>3
  <2>3. ~Terminated /\ ~Terminated'
    BY <2>1 DEF Staged, Terminated
  <2> QED
    BY <1>0, <2>1, <2>2, <2>3 DEF Staged, Copying, StreamIntact, Before
<1>7. CASE CopyUp
  <2>1. /\ phase = "relay" /\ passed' = sent
        /\ UNCHANGED <<stream, backend, sent, preview, phase, to, found, up,
                       down, bEof, cEof>>
    BY <1>7 DEF CopyUp, peers, choice, eofs
  <2>2. got' = <<<<Start, sent>>>> /\ got' # <<>>
    <3>1. got' = <<<<Start, sent>>>>
      BY <1>7, CopyUpDelivers
    <3> QED
      BY <3>1
  <2>3. Terminated' = Terminated
    BY <2>1 DEF Terminated
  <2> QED
    BY <1>0, <2>1, <2>2, <2>3 DEF Staged, Copying, StreamIntact, Before, Start
<1>8. CASE UpEnds \/ DownEnds
  <2>1. /\ phase = "relay"
        /\ \/ up' = "done" /\ UNCHANGED <<down, cEof>>
           \/ down' = "done" /\ UNCHANGED <<up, bEof>>
        /\ UNCHANGED <<stream, backend, sent, preview, phase, to, found, passed,
                       got>>
    BY <1>8 DEF UpEnds, DownEnds, peers, choice
  <2>2. StreamIntact' /\ Terminated' = Terminated
    BY <1>0, <2>1, ForwardedKeeps
  <2> QED
    BY <1>0, <2>1, <2>2 DEF Staged, Copying, Before
<1>9. CASE CopyDown \/ Peers
  <2>1. /\ sent' \in Nat /\ sent' >= sent
        /\ backend # "none" => backend' # "none"
        /\ UNCHANGED <<stream, preview, phase, to, found, passed, got, up, down,
                       bEof, cEof>>
    BY <1>0, <1>9, StreamType
       DEF CopyDown, Peers, SendSegment, ClientFin, ClientReset, Reply,
           BackendFin, BackendReset, peers, choice, copies, eofs
  <2>2. StreamIntact' /\ Terminated' = Terminated
    BY <1>0, <2>1, ForwardedKeeps
  <2>3. preview' <= sent'
    BY <1>0, <2>1
  <2> QED
    BY <1>0, <2>1, <2>2, <2>3 DEF Staged, Copying, Before
<1> QED
  BY <1>1, <1>2, <1>3, <1>4, <1>5, <1>6, <1>7, <1>8, <1>9
     DEF Next, Proxy, Fails

-----------------------------------------------------------------------------
LEMMA Inductive == Spec => []IInv
<1>1. IInv /\ UNCHANGED vars => IInv'
  BY DEF IInv, TypeOK, Staged, Copying, StreamIntact, Before, Terminated, vars,
         peers, choice, copies, eofs
<1>2. IInv /\ [Next]_vars => IInv'
  BY <1>1, TypeStep, ProgressStep DEF IInv
<1> QED
  BY <1>2, InitIInv, PTL DEF Spec

\* The type invariant of a connection; the preview fits its buffer.
THEOREM TypeCorrect == Spec => []TypeOK
BY Inductive, PTL DEF IInv

\* A backend gets the client's stream from its first byte, or from the end of
\* the handshake, without a gap or a repetition.
THEOREM StreamsArriveIntact == Spec => []StreamIntact
BY Inductive, PTL DEF IInv

-----------------------------------------------------------------------------
\* Every step of a connection is one of a relay, or none.
LEMMA RelayStep ==
    ASSUME IInv, [Next]_vars
    PROVE  [Promise!RelayNext]_<<to, got, relayed, bEof, cEof>>
<1> USE DEF Promise!RelayNext
<1>0. TypeOK /\ Staged /\ Copying /\ StreamIntact
  BY DEF IInv
<1>1. CASE Fails
  <2>1. Return /\ ~Ended
    BY <1>1, FailsReturns
  <2>2. bEof => backend # "none"
    BY <1>0, <2>1 DEF TypeOK, Staged, Before, Ended
  <2>3. Promise!Tell
    BY <1>0, <2>1, <2>2 DEF Promise!Tell, Return, copies, choice
  <2> QED  BY <2>3
<1>2. CASE ReadPreview
  <2>1. Promise!Tell
    BY <1>2 DEF Promise!Tell, ReadPreview, copies
  <2> QED  BY <2>1
<1>3. CASE Route
  <2>1. /\ phase = "route" /\ to' = Target /\ Target \in Mapping \cup {None}
        /\ UNCHANGED <<copies, bEof>>
    BY <1>0, <1>3, StreamType, RouteType DEF Route, Target
  <2>2. to = None
    BY <1>0, <2>1 DEF Staged
  <2>3. CASE Target = None
    <3>1. Promise!Tell
      BY <1>3, <2>1, <2>2, <2>3 DEF Promise!Tell, Route, copies
    <3> QED  BY <3>1
  <2>4. CASE Target # None
    <3>1. Promise!Choose
      BY <1>3, <2>1, <2>2, <2>4 DEF Promise!Choose, Route, copies
    <3> QED  BY <3>1
  <2> QED  BY <2>3, <2>4
<1>4. CASE WriteFirst
  <2>1. /\ phase = "first" /\ got' = Deliver(got, 1, preview)
        /\ UNCHANGED <<to, relayed, bEof, cEof>>
    BY <1>4 DEF WriteFirst, choice, eofs
  <2>2. got = <<>> /\ to # None /\ ~bEof
    BY <1>0, <2>1 DEF Staged, Before
  <2>3. Len(got') = 1
    <3>1. preview \in Nat /\ 1 \in Nat
      BY <1>0 DEF TypeOK, MaxLookahead
    <3>2. got' = <<<<1, preview>>>>
      BY <2>1, <2>2, <3>1, DeliverNext
    <3> QED
      BY <3>2
  <2>4. Promise!Forward
    BY <2>1, <2>2, <2>3 DEF Promise!Forward
  <2> QED  BY <2>4
<1>5. CASE CopyUp
  <2>1. /\ phase = "relay" /\ up = "copy" /\ sent > passed
        /\ UNCHANGED <<to, relayed, bEof, cEof>>
    BY <1>5 DEF CopyUp, choice, eofs
  <2>2. to # None /\ ~bEof
    BY <1>0, <2>1 DEF Staged, Copying
  <2>3. got' = <<<<Start, sent>>>>
    BY <1>5, CopyUpDelivers
  <2>4. got # <<>> => got = <<<<Start, passed>>>>
    BY <1>0 DEF StreamIntact, Start
  <2>5. Promise!Forward
    BY <2>1, <2>2, <2>3, <2>4 DEF Promise!Forward
  <2> QED  BY <2>5
<1>6. CASE CopyDown
  <2>1. /\ phase = "relay" /\ down = "copy" /\ relayed' > relayed
        /\ UNCHANGED <<to, got, bEof, cEof>>
    BY <1>0, <1>6, TcpAssumption DEF CopyDown, TypeOK, choice, eofs
  <2>2. to # None /\ ~cEof
    BY <1>0, <2>1 DEF Staged, Copying
  <2>3. Promise!Answer
    BY <2>1, <2>2 DEF Promise!Answer
  <2> QED  BY <2>3
<1>7. CASE UpEnds \/ DownEnds
  <2>1. Promise!Tell
    BY <1>0, <1>7 DEF Promise!Tell, UpEnds, DownEnds, Copying, choice
  <2> QED  BY <2>1
<1>8. CASE Handshake \/ Dial \/ Peers \/ UNCHANGED vars
  BY <1>8
     DEF Handshake, Dial, Peers, SendSegment, ClientFin, ClientReset, Reply,
         BackendFin, BackendReset, vars, choice, copies, eofs
<1> QED
  BY <1>1, <1>2, <1>3, <1>4, <1>5, <1>6, <1>7, <1>8 DEF Next, Proxy, Fails

\* Whatever it reads ahead, replays or decrypts, and whatever its peers do, a
\* connection is a relay between a client and one backend.
THEOREM ConnectionsRelay == Spec => ImplementsRelay
<1>1. Init => Promise!RelayInit
  BY DEF Init, Promise!RelayInit
<1> QED
  BY <1>1, RelayStep, Inductive, PTL DEF Spec, ImplementsRelay, Promise!RelaySpec

-----------------------------------------------------------------------------
\* The result the handler goes by is that of what the buffer holds, and the
\* mapping is the one for this result, unless the client went away or the
\* deadline passed while there was none.
Looked ==
    /\ preview \in stream.cuts \cup {0, MaxLookahead}
    /\ phase = "served" => to = None
    /\ phase # "served" => found = Extract(stream, preview)
    /\ phase = "preview" => ~found.done
    /\ phase = "route" \/ to # None => found.done \/ preview = MaxLookahead
    /\ Decided => \/ to = Target
                  \/ phase = "closed" /\ to = None /\ ~found.done

LEMMA LookedInit == Init => Looked
<1> SUFFICES ASSUME Init  PROVE Looked
  OBVIOUS
<1>1. /\ preview = 0 /\ phase = "preview" /\ to = None
      /\ found = Result(NoName, NoProto, FALSE)
  BY DEF Init
<1>2. found = Extract(stream, 0)
  BY <1>1 DEF Extract, TLSMark
<1>3. ~found.done
  BY <1>1 DEF Result
<1> QED
  BY <1>1, <1>2, <1>3 DEF Looked, Decided

LEMMA LookedStep ==
    ASSUME IInv, Looked, [Next]_vars
    PROVE  Looked'
<1>0. /\ preview \in Nat /\ sent \in stream.cuts \cup {0}
      /\ phase \in {"preview", "route"} => to = None
      /\ phase \in {"handshake", "dial", "first", "relay"} => to # None
  BY DEF IInv, TypeOK, Staged, MaxLookahead
<1>1. CASE UNCHANGED <<served, stream, phase, preview, found, to>>
  BY <1>1 DEF Looked, Decided, Target
<1>2. CASE Fails
  <2>1. /\ phase' = "closed" /\ phase # "route"
        /\ UNCHANGED <<served, stream, preview, found, to>>
    BY <1>2 DEF Fails, ReadFails, HandshakeFails, DialFails, WriteFirstFails,
                BothDone, Return, choice
  <2>2. phase \notin {"served", "closed"}
    BY <1>2, FailsReturns DEF Ended
  <2> QED
    BY <1>0, <2>1, <2>2 DEF Looked, Decided, Target
<1>3. CASE ReadPreview
  <2> DEFINE n == Min({sent, MaxLookahead})
             r == Extract(stream, n)
  <2>1. /\ phase = "preview" /\ preview' = n /\ UNCHANGED <<served, stream, to>>
        /\ \/ phase' = "served"
           \/ /\ found' = r
              /\ \/ phase' = "route" /\ (r.done \/ n = MaxLookahead)
                 \/ phase' = "preview" /\ ~r.done
    BY <1>3 DEF ReadPreview
  <2>2. n \in {sent, MaxLookahead}
    <3>1. sent \in Nat /\ MaxLookahead \in Nat
      BY StreamType DEF IInv, MaxLookahead
    <3> QED
      BY <3>1, MinOfTwo
  <2> HIDE DEF n
  <2>4. phase' # "served" => found' = Extract(stream, preview)'
    BY <2>1
  <2> QED
    BY <1>0, <2>1, <2>2, <2>4 DEF Looked, Decided
<1>4. CASE Route
  <2>1. /\ phase = "route" /\ to' = Target
        /\ phase' \in {"closed", "handshake", "dial"}
        /\ UNCHANGED <<served, stream, preview, found>>
    BY <1>4 DEF Route
  <2> QED
    BY <2>1 DEF Looked, Decided, Target
<1>5. CASE Handshake \/ Dial \/ WriteFirst
  <2>1. /\ phase \in {"handshake", "dial", "first"}
        /\ phase' \in {"dial", "first", "relay"}
        /\ UNCHANGED <<served, stream, preview, found, to>>
    BY <1>5 DEF Handshake, Dial, WriteFirst, choice
  <2> QED
    BY <1>0, <2>1 DEF Looked, Decided, Target
<1>6. CASE CopyUp \/ UpEnds \/ CopyDown \/ DownEnds \/ Peers \/ UNCHANGED vars
  BY <1>1, <1>6
     DEF CopyUp, UpEnds, CopyDown, DownEnds, Peers, SendSegment, ClientFin,
         ClientReset, Reply, BackendFin, BackendReset, vars, choice
<1> QED
  BY <1>2, <1>3, <1>4, <1>5, <1>6 DEF Next, Proxy, Fails

\* The extractor gives a result for a stream of these protocols when its host
\* is there, and not before, unless it sees only the length of a DNS message.
LEMMA FramedIsRead ==
    ASSUME stream \in Stream, WellFormed(stream), Framed, stream.host # NoName,
           NEW n \in stream.cuts \cup {0, MaxLookahead}
    PROVE  /\ Extract(stream, n).done =>
                  \/ HasHost(stream, n)
                  \/ stream.proto = "dns-tcp" /\ n \in {2, 3}
           /\ HasHost(stream, n) => /\ Extract(stream, n).done
                                    /\ Extract(stream, n).host = stream.host
<1>1. n \in Nat /\ stream.hostAt \in Nat /\ stream.dnsLen \in Nat
  <2>1. stream.hostAt \in Nat /\ stream.dnsLen \in TwoBytes
    BY DEF Stream
  <2>2. stream.cuts \subseteq Nat
    BY DEF Stream
  <2> QED
    BY <2>1, <2>2 DEF MaxLookahead, TwoBytes
<1>2. /\ stream.proto = "tls" => stream.hostAt >= 2
      /\ stream.proto = "dns-tcp" =>
            stream.dnsLen >= 12 /\ stream.hostAt = stream.dnsLen + 2
  BY DEF WellFormed, TLSMark, DNSHeader
<1> USE DEF HasHost, Result
<1>3. CASE n < TLSMark
  BY <1>1, <1>2, <1>3 DEF Framed, Extract, TLSMark
<1>4. CASE n >= TLSMark /\ stream.proto = "tls"
  BY <1>1, <1>4 DEF Extract, FoundOrMore, TLSMark
<1>5. CASE n >= TLSMark /\ stream.proto = "dns-tcp"
  BY <1>1, <1>2, <1>5 DEF Extract, IsSSH, IsDNS, MaybeDNS, IsText, TLSMark, DNSHeader
<1> QED
  BY <1>1, <1>3, <1>4, <1>5 DEF Framed, TLSMark

LEMMA LooksAhead == Spec => []Looked
BY LookedInit, LookedStep, Inductive, PTL DEF Spec

\* A TLS or DNS client is routed by its host once it has been read, for every
\* list, wherever the stream is cut and however it ends.
THEOREM HostsDecide == Spec => [](Framed => RoutedByHost)
<1>1. IInv /\ Looked => (Framed => RoutedByHost)
  <2> SUFFICES ASSUME IInv, Looked, Framed, HostRead, Decided
               PROVE  to = RouteTCP(served, stream.host, ListenPort)
    BY DEF RoutedByHost
  <2>1. stream \in Stream /\ WellFormed(stream) /\ stream.host # NoName
    BY TcpAssumption DEF IInv, TypeOK, HostRead, HasHost
  <2>2. /\ found = Extract(stream, preview)
        /\ preview \in stream.cuts \cup {0, MaxLookahead}
    BY DEF Looked, Decided
  <2>3. found.done /\ found.host = stream.host
    BY <2>1, <2>2, FramedIsRead DEF HostRead
  <2> QED
    BY <2>3 DEF Looked, Target
<1> QED
  BY <1>1, Inductive, LooksAhead, PTL

\* A TLS client is not forwarded before its host has been read, wherever its
\* stream is cut, nor is a DNS client unless the first two or three bytes of
\* its message were all that the proxy found to read.
THEOREM NobodyIsForwardedUnnamed == Spec => []NeverForwardedUnnamed
<1>1. IInv /\ Looked => NeverForwardedUnnamed
  <2> SUFFICES ASSUME IInv, Looked, Framed, stream.host # NoName,
                      stream.hostAt <= MaxLookahead, to # None
               PROVE  \/ found.host = stream.host
                      \/ stream.proto = "dns-tcp" /\ preview \in {2, 3}
    BY DEF NeverForwardedUnnamed
  <2>1. stream \in Stream /\ WellFormed(stream)
    BY TcpAssumption DEF IInv, TypeOK
  <2>2. /\ found = Extract(stream, preview)
        /\ preview \in stream.cuts \cup {0, MaxLookahead}
        /\ found.done \/ preview = MaxLookahead
    BY DEF Looked
  <2>3. CASE HasHost(stream, preview)
    BY <2>1, <2>2, <2>3, FramedIsRead
  <2>4. CASE ~HasHost(stream, preview)
    <3>1. found.done
      BY <2>2, <2>4 DEF HasHost
    <3> QED
      BY <2>1, <2>2, <2>4, <3>1, FramedIsRead
  <2> QED
    BY <2>3, <2>4
<1> QED
  BY <1>1, Inductive, LooksAhead, PTL
=============================================================================

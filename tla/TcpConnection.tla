--------------------------- MODULE TcpConnection ----------------------------
(***************************************************************************)
(* One client connection of TCPProxy on a port other than 25, from accept  *)
(* to the return of handleConnection: the incremental read with its        *)
(* deadline, the choice of a mapping, TLS termination, the dial, the       *)
(* replay of what was read and the two copying goroutines.                 *)
(*                                                                         *)
(* The client's stream is a range of positions; what the backend receives  *)
(* is kept as the list of ranges written to it, adjacent ranges merged, so *)
(* that a gap, a repetition or a swap would be seen.  The reply is a count *)
(* of chunks.  A connection shares nothing with other connections but the  *)
(* list of the daemon, which never changes, and the certificate cache,     *)
(* which is in Router.                                                     *)
(***************************************************************************)
EXTENDS Routing

CONSTANTS
    Lists,      \* the lists the daemon may serve
    ListenPort, \* the port the connection came in on
    Streams,    \* what the client may send
    MaxReplies, \* bound: chunks a backend sends
    PeerFaults  \* "reset": a peer may reset; "dial": a dial may fail

MaxLookahead == 4096

INSTANCE Extractor WITH HostName <- Requested, NoHost <- NoName

ASSUME TcpAssumption ==
    /\ Lists \subseteq Seq(Mapping)
    /\ Streams \subseteq Stream /\ \A s \in Streams : WellFormed(s)
    /\ MaxReplies \in Nat
    /\ PeerFaults \subseteq {"reset", "dial"}

VARIABLES
    served,   \* the daemon's list
    stream,   \* what this client has to send
    sent,     \* how many bytes of it have arrived
    client,   \* the client's side: open, fin (half-closed) or gone
    backend,  \* the backend's side: none before the dial
    phase,    \* where handleConnection stands
    deadline, \* whether a read deadline of the client's side is armed
    preview,  \* previewLen
    found,    \* the extractor's last result
    to,       \* the mapping chosen
    passed,   \* client bytes forwarded, or used up by the handshake
    got,      \* the ranges of positions the backend has received
    up, down, \* the copying goroutines, client to backend and back
    replied,  \* chunks the backend has sent
    relayed,  \* chunks the client has received
    bEof, cEof \* whether each peer has been shown the end of the stream

peers == <<client, backend, sent, replied>>
copies == <<up, down, passed, got, relayed>>
eofs == <<bEof, cEof>>
choice == <<deadline, preview, found, to>>
vars == <<served, stream, peers, phase, choice, copies, eofs>>

-----------------------------------------------------------------------------
Ended == phase \in {"served", "closed"}

\* handleConnection returns: its deferred Close calls close what is open.
Return ==
    /\ phase' = "closed"
    /\ cEof' = TRUE
    /\ bEof' = (backend # "none")
    /\ UNCHANGED <<served, stream, peers, choice, copies>>

\* Bytes a .. b are written to the backend.
Deliver(runs, a, b) ==
    IF runs # <<>> /\ Last(runs)[2] + 1 = a
    THEN Append(Front(runs), <<Last(runs)[1], b>>)
    ELSE Append(runs, <<a, b>>)

Terminated == Terminates(to, found.proto)

-----------------------------------------------------------------------------
(***************************************************************************)
(* The peers.                                                              *)
(***************************************************************************)
SendSegment ==
    /\ client = "open" /\ ~Ended
    /\ \E n \in stream.cuts : n > sent /\ sent' = n
    \* application data follows the handshake
    /\ Terminated /\ phase # "relay" => sent' <= stream.hello
    /\ UNCHANGED <<served, stream, client, backend, replied, phase, choice,
                   copies, eofs>>

ClientFin ==
    /\ client = "open"
    /\ client' = "fin"
    /\ UNCHANGED <<served, stream, sent, backend, replied, phase, choice,
                   copies, eofs>>

ClientReset ==
    /\ "reset" \in PeerFaults /\ client # "gone"
    /\ client' = "gone"
    /\ UNCHANGED <<served, stream, sent, backend, replied, phase, choice,
                   copies, eofs>>

Reply ==
    /\ backend = "open" /\ ~Ended
    /\ replied < MaxReplies
    /\ replied' = replied + 1
    /\ UNCHANGED <<served, stream, sent, client, backend, phase, choice,
                   copies, eofs>>

BackendFin ==
    /\ backend = "open"
    /\ backend' = "fin"
    /\ UNCHANGED <<served, stream, sent, client, replied, phase, choice,
                   copies, eofs>>

BackendReset ==
    /\ "reset" \in PeerFaults /\ backend \in {"open", "fin"}
    /\ backend' = "gone"
    /\ UNCHANGED <<served, stream, sent, client, replied, phase, choice,
                   copies, eofs>>

-----------------------------------------------------------------------------
(***************************************************************************)
(* handleConnection.                                                       *)
(***************************************************************************)
IsACME(n) == stream.acmeAt # 0 /\ n >= 20 /\ n >= stream.acmeAt

\* Mutants of ReadPreview: no bound, and a deadline that stays armed.
ReadUnbounded ==
    LET r == Extract(stream, sent) IN
    /\ phase = "preview" /\ client # "gone" /\ sent > preview
    /\ preview' = sent /\ found' = r
    /\ phase' = IF r.done THEN "route" ELSE "preview"
    /\ deadline' = (deadline /\ ~r.done)
    /\ UNCHANGED <<served, stream, peers, to, copies, eofs>>
ReadStaysArmed ==
    LET n == Min({sent, MaxLookahead})
        r == Extract(stream, n)
    IN
    /\ phase = "preview" /\ client # "gone" /\ n > preview
    /\ preview' = n /\ found' = r
    /\ phase' = IF r.done \/ n = MaxLookahead THEN "route" ELSE "preview"
    /\ UNCHANGED <<served, stream, peers, deadline, to, copies, eofs>>

\* One turn of the read loop.  It ends with an answer to an ACME challenge,
\* with a definite result, or with a full buffer; the deadline is cleared.
ReadPreview ==
    LET n == Min({sent, MaxLookahead})
        r == Extract(stream, n)
    IN
    /\ phase = "preview" /\ client # "gone" /\ n > preview
    /\ preview' = n
    /\ \/ /\ IsACME(n)
          /\ phase' = "served" /\ cEof' = TRUE
          /\ UNCHANGED <<found, deadline>>
       \/ /\ ~IsACME(n)
          /\ found' = r
          /\ LET enough == r.done \/ n = MaxLookahead IN
                /\ phase' = IF enough THEN "route" ELSE "preview"
                /\ deadline' = (deadline /\ ~enough)
          /\ UNCHANGED cEof
    /\ UNCHANGED <<served, stream, peers, to, copies, bEof>>

\* Mutant of ReadFails: no deadline.
ReadFailsAtEnd ==
    /\ phase = "preview"
    /\ (client = "fin" /\ sent = preview) \/ client = "gone"
    /\ Return

\* The 5 seconds are over, or the stream ended or broke before a result.
ReadFails ==
    /\ phase = "preview"
    /\ \/ deadline
       \/ client = "fin" /\ sent = preview
       \/ client = "gone"
    /\ Return

Target == RouteTCP(served, found.host, ListenPort)

\* routeConnection up to the choice; TLS termination arms a deadline of 10 s
\* for the handshake.
Route ==
    /\ phase = "route"
    /\ to' = Target
    /\ IF Target = None
       THEN /\ phase' = "closed" /\ cEof' = TRUE
            /\ UNCHANGED deadline
       ELSE LET tls == Terminates(Target, found.proto) IN
            /\ phase' = IF tls THEN "handshake" ELSE "dial"
            /\ deadline' = (deadline \/ tls)
            /\ UNCHANGED cEof
    /\ UNCHANGED <<served, stream, peers, preview, found, copies, bEof>>

\* The handshake is over once the client's part of it has arrived, whether it
\* was in the preview or not.
Handshake ==
    /\ phase = "handshake" /\ client # "gone" /\ sent >= stream.hello
    /\ phase' = "dial"
    /\ deadline' = FALSE
    /\ passed' = stream.hello
    /\ UNCHANGED <<served, stream, peers, preview, found, to, up, down, got,
                   relayed, eofs>>

\* No certificate, a client that rejects it, goes away, or is too slow.
HandshakeFails == phase = "handshake" /\ Return

\* A terminated connection starts copying at once, any other writes the
\* preview first.
Dial ==
    /\ phase = "dial"
    /\ backend' = "open"
    /\ phase' = IF Terminated THEN "relay" ELSE "first"
    /\ UNCHANGED <<served, stream, client, sent, replied, choice, copies, eofs>>

DialFails == phase = "dial" /\ "dial" \in PeerFaults /\ Return

\* Mutant of WriteFirst: what was read to find the host is not replayed.
WriteNothingFirst ==
    /\ phase = "first" /\ backend # "gone"
    /\ phase' = "relay"
    /\ passed' = preview
    /\ UNCHANGED <<served, stream, peers, choice, up, down, got, relayed, eofs>>

WriteFirst ==
    /\ phase = "first" /\ backend # "gone"
    /\ phase' = "relay"
    /\ got' = Deliver(got, 1, preview)
    /\ passed' = preview
    /\ UNCHANGED <<served, stream, peers, choice, up, down, relayed, eofs>>

WriteFirstFails == phase = "first" /\ backend = "gone" /\ Return

-----------------------------------------------------------------------------
(***************************************************************************)
(* bidirectionalCopy.  io.Copy ends at the end of its source or at an      *)
(* error of either side; then CloseWrite is called on the destination if   *)
(* it is a TCP connection, which the client's side of a terminated         *)
(* connection, a *tls.Conn, is not.                                        *)
(***************************************************************************)
CopyUp ==
    /\ phase = "relay" /\ up = "copy"
    /\ client # "gone" /\ backend # "gone" /\ sent > passed
    /\ got' = Deliver(got, passed + 1, sent)
    /\ passed' = sent
    /\ UNCHANGED <<served, stream, peers, phase, choice, up, down, relayed, eofs>>

\* Mutant of UpEnds: the end of the client's stream is not noticed.
UpEndsOnError ==
    /\ phase = "relay" /\ up = "copy"
    /\ client = "gone" \/ (backend = "gone" /\ sent > passed) \/ deadline
    /\ up' = "done" /\ bEof' = TRUE
    /\ UNCHANGED <<served, stream, peers, phase, choice, down, passed, got,
                   relayed, cEof>>

UpEnds ==
    /\ phase = "relay" /\ up = "copy"
    /\ \/ client = "fin" /\ sent = passed
       \/ client = "gone"
       \/ backend = "gone" /\ sent > passed
       \/ deadline
    /\ up' = "done" /\ bEof' = TRUE
    /\ UNCHANGED <<served, stream, peers, phase, choice, down, passed, got,
                   relayed, cEof>>

CopyDown ==
    /\ phase = "relay" /\ down = "copy"
    /\ client # "gone" /\ backend # "gone" /\ replied > relayed
    /\ relayed' = replied
    /\ UNCHANGED <<served, stream, peers, phase, choice, up, down, passed, got, eofs>>

\* Mutant of DownEnds: no CloseWrite.
DownEndsSilently ==
    /\ phase = "relay" /\ down = "copy"
    /\ \/ backend = "fin" /\ replied = relayed
       \/ backend = "gone"
       \/ client = "gone" /\ replied > relayed
    /\ down' = "done"
    /\ UNCHANGED <<served, stream, peers, phase, choice, up, passed, got,
                   relayed, eofs>>

\* Mutant of DownEnds: it closes the backend's socket.
DownEndsBoth ==
    /\ phase = "relay" /\ down = "copy"
    /\ \/ backend = "fin" /\ replied = relayed
       \/ backend = "gone"
       \/ client = "gone" /\ replied > relayed
    /\ down' = "done" /\ cEof' = ~Terminated /\ bEof' = TRUE
    /\ UNCHANGED <<served, stream, peers, phase, choice, up, passed, got,
                   relayed>>

DownEnds ==
    /\ phase = "relay" /\ down = "copy"
    /\ \/ backend = "fin" /\ replied = relayed
       \/ backend = "gone"
       \/ client = "gone" /\ replied > relayed
    /\ down' = "done" /\ cEof' = ~Terminated
    /\ UNCHANGED <<served, stream, peers, phase, choice, up, passed, got,
                   relayed, bEof>>

BothDone == phase = "relay" /\ up = "done" /\ down = "done" /\ Return

-----------------------------------------------------------------------------
Proxy ==
    \/ ReadPreview \/ ReadFails \/ Route \/ Handshake \/ HandshakeFails
    \/ Dial \/ DialFails \/ WriteFirst \/ WriteFirstFails \/ BothDone

Peers ==
    \/ SendSegment \/ ClientFin \/ ClientReset
    \/ Reply \/ BackendFin \/ BackendReset

Init ==
    /\ served \in Lists /\ stream \in Streams
    /\ sent = 0 /\ client = "open" /\ backend = "none"
    /\ phase = "preview" /\ deadline = TRUE
    /\ preview = 0 /\ found = Result(NoName, NoProto, FALSE) /\ to = None
    /\ passed = 0 /\ got = <<>> /\ up = "copy" /\ down = "copy"
    /\ replied = 0 /\ relayed = 0 /\ bEof = FALSE /\ cEof = FALSE

Next == Proxy \/ CopyUp \/ UpEnds \/ CopyDown \/ DownEnds \/ Peers

\* The three goroutines run when they can; a deadline that is armed ends the
\* read it was armed for.  Nothing is assumed of the peers.
Fairness ==
    /\ WF_vars(Proxy)
    /\ WF_vars(CopyUp \/ UpEnds)
    /\ WF_vars(CopyDown \/ DownEnds)

Spec == Init /\ [][Next]_vars /\ Fairness

-----------------------------------------------------------------------------
(***************************************************************************)
(* Properties.                                                             *)
(***************************************************************************)
Sides == {"open", "fin", "gone"}

\* Type correctness; the buffer never holds more than MaxLookahead bytes.
TypeOK ==
    /\ served \in Lists /\ stream \in Streams
    /\ sent \in stream.cuts \cup {0}
    /\ client \in Sides /\ backend \in Sides \cup {"none"}
    /\ phase \in {"preview", "route", "handshake", "dial", "first", "relay",
                  "served", "closed"}
    /\ deadline \in BOOLEAN /\ preview \in 0 .. MaxLookahead
    /\ found.host \in Requested \cup {NoName}
    /\ to \in Mapping \cup {None}
    /\ passed \in 0 .. sent /\ got \in Seq(Nat \X Nat)
    /\ up \in {"copy", "done"} /\ down \in {"copy", "done"}
    /\ replied \in 0 .. MaxReplies /\ relayed \in 0 .. replied
    /\ bEof \in BOOLEAN /\ cEof \in BOOLEAN

\* What a backend has received is the client's stream from its first byte, or
\* from the end of the TLS handshake, without a gap or a repetition: the bytes
\* read to find the host are replayed exactly once, before anything else.
StreamIntact ==
    got # <<>> => got = <<<<IF Terminated THEN stream.hello + 1 ELSE 1, passed>>>>

\* "The proxy reads data incrementally until the host is identified": once the
\* host has been read, within the lookahead, the connection is routed by it.
HostRead == HasHost(stream, preview)
Decided == phase \notin {"preview", "route", "served"}
RoutedByHost ==
    HostRead /\ Decided => to = RouteTCP(served, stream.host, ListenPort)

\* The protocols that put their host in a record of a known length.  A text is
\* held as the beginning of a long DNS message until the buffer is full.
Framed == stream.proto \in {"tls", "dns-tcp"}

\* "Returns Done=false when more data is needed": a TLS or DNS client with a
\* host within the lookahead is never forwarded before the host has arrived.
\* The code keeps this for every TLS client; of DNS it gives up when it finds
\* two or three bytes, the length without what follows it, and goes by port.
NeverForwardedUnnamed ==
    (Framed /\ stream.host # NoName /\ stream.hostAt <= MaxLookahead) =>
        (to # None => \/ found.host = stream.host
                      \/ stream.proto = "dns-tcp" /\ preview \in {2, 3})

\* Whatever is read ahead, replayed or decrypted, a connection is a relay
\* between its client and one backend, which is chosen once: nothing reaches
\* either side after the end of its stream, and nothing comes out of order.
Promise == INSTANCE Relay WITH
              Destination <- Mapping, Nowhere <- None, dest <- to,
              answers <- relayed, toldBackend <- bEof, toldClient <- cEof
ImplementsRelay == Promise!RelaySpec

\* All a client sends before it half-closes reaches the backend, and then the
\* end of the stream: no deadline of the preview or the handshake is left
\* behind to cut a long-lived connection.
Healthy == client # "gone" /\ backend # "gone"
AllForwarded ==
    phase = "relay" /\ client = "fin" ~> (passed = sent /\ bEof) \/ ~Healthy

\* A client that sends too little, too slowly or nothing does not hold its
\* goroutine: the connection is forwarded or closed.
Decides == ~(phase = "relay") ~> phase = "relay" \/ Ended

\* When both peers are done the handler returns and both sockets are closed.
HandlerReturns ==
    phase = "relay" /\ client # "open" /\ backend # "open" ~> Ended

\* "Uses CloseWrite() to signal EOF per direction": on a connection that is
\* passed through, the end of the backend's reply reaches the client, who may
\* be waiting for it.
PlainEofReachesClient ==
    phase = "relay" /\ backend = "fin" /\ ~Terminated ~> cEof \/ ~Healthy
=============================================================================

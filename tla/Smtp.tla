-------------------------------- MODULE Smtp --------------------------------
(***************************************************************************)
(* One connection on port 25: TCPProxy.handleSMTP, handleSMTPForward and   *)
(* internal/smtp.  The proxy answers the first two commands itself, before *)
(* they are sent, so that the client comes to its first RCPT TO; then it   *)
(* dials the backend, throws away the backend's first three replies, sends *)
(* on what it has read, and copies as any other connection is copied:      *)
(* the variables and the copying are those of TcpConnection.               *)
(*                                                                         *)
(* A mail is known by the offsets at which its commands end and at which   *)
(* its first recipient can be read.  Replies are counted: reply n + 1      *)
(* answers command n, reply 1 is the banner.                               *)
(***************************************************************************)
EXTENDS Routing

CONSTANTS
    Lists,      \* the lists the daemon may serve
    SmtpPort,   \* 25
    Mails,      \* what the client may send
    Manners,    \* how backends may speak, a subset of {"turn", "ahead"}
    PeerFaults  \* "reset", "dial" as in TcpConnection; "refuse": a backend
                \* may answer with another code than the one expected

Mail ==
    [ends : Seq(Nat),   \* where each command ends
     rcpt : Nat,        \* which command is the first RCPT TO, or 0
     host : Requested \cup {NoName}, \* the domain of its address
     hostAt : Nat,      \* the bytes that hold this domain
     part : Requested \cup {NoName}, \* what looks like a domain before that
     partAt : Nat,      \* the bytes that hold it
     pipelined : BOOLEAN, \* commands are sent without waiting for replies
     cuts : SUBSET Nat] \* where a segment may end

\* Mutant of Stuffed: RCPT TO is answered too.
StuffedRcpt == 4

Stuffed == 3   \* the replies StuffSMTP sends: 220, 250, 250
Ahead == 3     \* the replies EatSMTP throws away: 220, 250, 250

ASSUME SmtpAssumption ==
    /\ Lists \subseteq Seq(Mapping)
    \* a daemon listens on the ports of its list only
    /\ \A ms \in Lists : GetFirstDomain(ms, SmtpPort) # NoName
    /\ Mails \subseteq Mail
    /\ \A m \in Mails : m.rcpt \in 0 .. Len(m.ends)
    /\ Manners \subseteq {"turn", "ahead"}
    /\ PeerFaults \subseteq {"reset", "dial", "refuse"}

VARIABLES
    served, stream, sent, client, backend, phase, deadline, preview, to,
    passed, got, up, down, replied, relayed, bEof, cEof,
    manner,   \* how the backend speaks: in turn, or ahead as this proxy does
    eaten     \* the replies thrown away

\* Nothing on this port is ever decrypted.
Conn == INSTANCE TcpConnection WITH
            ListenPort <- SmtpPort, Streams <- Mails, MaxReplies <- Ahead,
            found <- [host |-> NoName, proto |-> "smtp", done |-> TRUE]

peers == <<client, backend, sent, replied>>
choice == <<deadline, preview, to>>
copies == <<up, down, passed, got, relayed>>
eofs == <<bEof, cEof>>
vars == <<served, stream, peers, phase, choice, copies, eofs, manner, eaten>>

-----------------------------------------------------------------------------
\* The commands that are complete, and those begun, in the first n bytes.
Commands(n) == Cardinality({i \in DOMAIN stream.ends : stream.ends[i] <= n})
Begun(n) ==
    Cardinality({i \in DOMAIN stream.ends :
                    n > (IF i = 1 THEN 0 ELSE stream.ends[i - 1])})

\* The replies the client has received: the proxy's own, then the backend's.
Heard == (IF phase = "stuff" THEN 0 ELSE Stuffed) + relayed

\* A backend speaks when it is its turn; one that speaks ahead gives its
\* first three replies at once and each later one in turn.
MaySay ==
    LET inTurn == 1 + Commands(passed)
    IN  IF manner = "turn" THEN inTurn ELSE Max({inTurn, 3})

-----------------------------------------------------------------------------
(***************************************************************************)
(* The peers.                                                              *)
(***************************************************************************)
\* A client waits for the banner, and for a reply before each next command
\* unless it pipelines.
SendSegment ==
    /\ client = "open" /\ ~Conn!Ended
    /\ \E n \in stream.cuts :
          /\ n > sent /\ sent' = n
          /\ Heard >= (IF stream.pipelined THEN 1 ELSE Begun(n))
    /\ UNCHANGED <<served, stream, client, backend, replied, phase,
                   choice, copies, eofs, manner, eaten>>

Reply ==
    /\ backend = "open" /\ ~Conn!Ended
    /\ replied < MaySay
    /\ replied' = replied + 1
    /\ UNCHANGED <<served, stream, sent, client, backend, phase, choice,
                   copies, eofs, manner, eaten>>

Peers ==
    \/ SendSegment \/ Reply
    \/ /\ \/ Conn!ClientFin \/ Conn!ClientReset
          \/ Conn!BackendFin \/ Conn!BackendReset
       /\ UNCHANGED <<manner, eaten>>

-----------------------------------------------------------------------------
(***************************************************************************)
(* handleSMTP.                                                             *)
(***************************************************************************)
Return == Conn!Return /\ UNCHANGED <<manner, eaten>>

\* Mutant of StuffSMTP: no deadline.
StuffUnarmed ==
    /\ phase = "stuff" /\ client # "gone"
    /\ phase' = "read"
    /\ UNCHANGED <<served, stream, peers, deadline, preview, to,
                   copies, eofs, manner, eaten>>

\* The replies to EHLO and MAIL FROM are sent with the banner; the deadline of
\* 30 s is armed, and never cleared.
StuffSMTP ==
    /\ phase = "stuff" /\ client # "gone"
    /\ phase' = "read"
    /\ deadline' = TRUE
    /\ UNCHANGED <<served, stream, peers, preview, to, copies,
                   eofs, manner, eaten>>

StuffFails == phase = "stuff" /\ client = "gone" /\ Return

\* ExtractRcptDomain: a line that is not complete counts as it is.
ExtractRcptDomain(m, n) ==
    IF n >= m.hostAt THEN m.host ELSE IF n >= m.partAt THEN m.part ELSE NoName

\* Mutant of Window: no bound.
WindowUnbounded == sent

\* What the buffer holds after the next read.
Window == Min({sent, Conn!MaxLookahead})

\* Mutant of ReadCommands: the recipient is not looked at.
ReadFirstDomain ==
    LET n == Window
        name == ExtractRcptDomain(stream, n)
        target == RouteTCP(served, GetFirstDomain(served, SmtpPort), SmtpPort)
    IN
    /\ phase = "read" /\ client # "gone" /\ n > preview
    /\ preview' = n
    /\ to' = IF name = NoName THEN None ELSE target
    /\ phase' = IF name = NoName THEN "read" ELSE "dial"
    /\ UNCHANGED <<served, stream, peers, deadline, copies,
                   eofs, manner, eaten>>

\* One turn of the read loop: it ends with a recipient, whose mapping may be
\* missing, or with a full buffer.
ReadCommands ==
    LET n == Window
        name == ExtractRcptDomain(stream, n)
        target == RouteTCP(served, name, SmtpPort)
        over == IF name = NoName THEN n = Conn!MaxLookahead ELSE target = None
    IN
    /\ phase = "read" /\ client # "gone" /\ n > preview
    /\ preview' = n
    /\ to' = IF name = NoName THEN None ELSE target
    /\ phase' = IF over THEN "closed" ELSE IF name = NoName THEN "read" ELSE "dial"
    /\ cEof' = over
    /\ UNCHANGED <<served, stream, peers, deadline, copies, bEof,
                   manner, eaten>>

ReadFails ==
    /\ phase = "read"
    /\ \/ deadline
       \/ client = "fin" /\ sent = preview
       \/ client = "gone"
    /\ Return

Dial ==
    /\ phase = "dial"
    /\ backend' = "open"
    /\ phase' = "eat"
    /\ UNCHANGED <<served, stream, client, sent, replied, choice,
                   copies, eofs, manner, eaten>>

DialFails == phase = "dial" /\ "dial" \in PeerFaults /\ Return

\* eatSMTPReply, with the code it expects.
Eat ==
    /\ phase = "eat" /\ backend # "gone" /\ replied > eaten
    /\ eaten' = eaten + 1
    /\ phase' = IF eaten' = Ahead THEN "first" ELSE "eat"
    /\ UNCHANGED <<served, stream, peers, choice, copies,
                   eofs, manner>>

\* Another code, or the end of the backend's stream.  No deadline is armed.
EatFails ==
    /\ phase = "eat"
    /\ \/ "refuse" \in PeerFaults /\ replied > eaten
       \/ backend = "fin" /\ replied = eaten
       \/ backend = "gone"
    /\ Return

\* Mutant of Forward: only what follows the recipient is sent.
ForwardNothing ==
    (Conn!WriteNothingFirst \/ Conn!WriteFirstFails) /\ UNCHANGED <<manner, eaten>>

\* What was read is sent on, from the first byte.
Forward == (Conn!WriteFirst \/ Conn!WriteFirstFails) /\ UNCHANGED <<manner, eaten>>

\* bidirectionalCopy: the replies thrown away are not there to be copied.
CopyUp == (Conn!CopyUp \/ Conn!UpEnds) /\ UNCHANGED <<manner, eaten>>

Unread == replied - eaten

CopyDown ==
    /\ phase = "relay" /\ down = "copy"
    /\ client # "gone" /\ backend # "gone" /\ Unread > relayed
    /\ relayed' = Unread
    /\ UNCHANGED <<served, stream, peers, phase, choice, up, down,
                   passed, got, eofs, manner, eaten>>

\* Mutant of DownEnds: the end of the backend's stream is not noticed.
DownEndsOnError ==
    /\ phase = "relay" /\ down = "copy"
    /\ backend = "gone" \/ (client = "gone" /\ Unread > relayed)
    /\ down' = "done" /\ cEof' = TRUE
    /\ UNCHANGED <<served, stream, peers, phase, choice, up, passed,
                   got, relayed, bEof, manner, eaten>>

\* Mutant of DownEnds: it closes the backend's socket.
DownEndsBoth ==
    /\ phase = "relay" /\ down = "copy"
    /\ \/ backend = "fin" /\ Unread = relayed
       \/ backend = "gone"
       \/ client = "gone" /\ Unread > relayed
    /\ down' = "done" /\ cEof' = TRUE /\ bEof' = TRUE
    /\ UNCHANGED <<served, stream, peers, phase, choice, up, passed,
                   got, relayed, manner, eaten>>

DownEnds ==
    /\ phase = "relay" /\ down = "copy"
    /\ \/ backend = "fin" /\ Unread = relayed
       \/ backend = "gone"
       \/ client = "gone" /\ Unread > relayed
    /\ down' = "done" /\ cEof' = TRUE
    /\ UNCHANGED <<served, stream, peers, phase, choice, up, passed,
                   got, relayed, bEof, manner, eaten>>

BothDone == Conn!BothDone /\ UNCHANGED <<manner, eaten>>

-----------------------------------------------------------------------------
Handler ==
    \/ StuffSMTP \/ StuffFails \/ ReadCommands \/ ReadFails
    \/ Dial \/ DialFails \/ Eat \/ EatFails \/ Forward \/ BothDone

Down == CopyDown \/ DownEnds

Init ==
    /\ served \in Lists /\ stream \in Mails /\ manner \in Manners
    /\ sent = 0 /\ client = "open" /\ backend = "none"
    /\ phase = "stuff" /\ deadline = FALSE /\ preview = 0 /\ to = None
    /\ passed = 0 /\ got = <<>> /\ up = "copy" /\ down = "copy"
    /\ replied = 0 /\ relayed = 0 /\ eaten = 0 /\ bEof = FALSE /\ cEof = FALSE

Next == Handler \/ CopyUp \/ Down \/ Peers

\* The goroutines run when they can, an armed deadline ends the read it was
\* armed for, and a backend that may speak does.  Nothing is assumed of the
\* client, or of the end of either stream.
Fairness == WF_vars(Handler) /\ WF_vars(CopyUp) /\ WF_vars(Down) /\ WF_vars(Reply)

Spec == Init /\ [][Next]_vars /\ Fairness

-----------------------------------------------------------------------------
(***************************************************************************)
(* Properties.                                                             *)
(***************************************************************************)
\* Type correctness; the buffer never holds more than MaxLookahead bytes.
TypeOK ==
    /\ served \in Lists /\ stream \in Mails /\ manner \in Manners
    /\ sent \in stream.cuts \cup {0}
    /\ client \in Conn!Sides /\ backend \in Conn!Sides \cup {"none"}
    /\ phase \in {"stuff", "read", "dial", "eat", "first", "relay", "closed"}
    /\ deadline \in BOOLEAN /\ preview \in 0 .. Conn!MaxLookahead
    /\ to \in Mapping \cup {None}
    /\ passed \in 0 .. sent /\ got \in Seq(Nat \X Nat)
    /\ up \in {"copy", "done"} /\ down \in {"copy", "done"}
    /\ eaten \in 0 .. Min({Ahead, replied})
    /\ replied \in Nat /\ relayed \in 0 .. replied - eaten
    /\ bEof \in BOOLEAN /\ cEof \in BOOLEAN

\* A mail that is forwarded reaches the backend from its first command on,
\* EHLO and MAIL FROM included, without a gap or a repetition, although the
\* proxy has answered these two itself.
CommandsIntact == got # <<>> => got = <<<<1, passed>>>>

\* "Read client commands until we see RCPT TO -> now we know the domain": a
\* connection is forwarded to the mapping of its first recipient if the whole
\* name had arrived.  (A segment that ends inside the name, after one of its
\* dots, is routed by what has arrived: ExtractRcptDomain wants no line end.)
RoutedByRecipient ==
    to # None /\ preview >= stream.hostAt =>
        to = RouteTCP(served, stream.host, SmtpPort)

\* "After this, the next data from the server is a real response to RCPT TO":
\* from the third command on, no reply reaches the client before the command
\* it answers has reached the backend: no recipient is accepted blindly, and
\* the two sides of the conversation do not shift against each other.
NoFalseAnswer ==
    \A c \in 3 .. Len(stream.ends) : Heard > c => Commands(passed) >= c

\* Although it is answered by the proxy first, a mail is relayed as any other
\* connection is: to one backend, in order, until the end of each stream.
Promise == INSTANCE Relay WITH
              Destination <- Mapping, Nowhere <- None, dest <- to,
              answers <- relayed, toldBackend <- bEof, toldClient <- cEof
ImplementsRelay == Promise!RelaySpec

\* The deadline is armed before the first reply, not at the first read: a client
\* that never names a recipient does not hold its goroutine, however long it is
\* silent and however few commands it sends.
RecipientInTime == phase \in {"stuff", "read"} ~> phase \notin {"stuff", "read"}

\* When both peers have ended their streams the handler returns, from the
\* wait for the backend's replies too, and both sockets are closed.
HandlerReturns ==
    client # "open" /\ backend \in {"fin", "gone"} ~> phase = "closed"

\* "After StuffSMTP+EatSMTP, client and backend are synchronized": while both
\* stay, the replies thrown away come to an end and the copy begins.
Synchronised ==
    phase = "eat" ~>
        phase = "relay" \/ client # "open" \/ backend # "open"
=============================================================================

---------------------------- MODULE UdpSessions -----------------------------
(***************************************************************************)
(* The sessions of one UDPProxy.  Every datagram is handled by a goroutine *)
(* of its own, every session has a goroutine that reads the backend's      *)
(* answers, and cleanupLoop and Stop walk the session table beside them.   *)
(* They share the table, a sync.Map from client addresses to sessions, and *)
(* the sockets.  One operation on the table or on a socket is one step: a  *)
(* handler that finds no session stores one some steps later, and whoever  *)
(* removes a session removes whatever the client's key then holds.         *)
(*                                                                         *)
(* A datagram is the name it carries.  A session is its backend socket.    *)
(***************************************************************************)
EXTENDS Routing

CONSTANTS
    Client,     \* client addresses
    Handler,    \* goroutines that may run handlePacket at once
    Socket,     \* bound: the backend sockets that can be dialled
    List,       \* the daemon's list
    ListenPort, \* the port of this proxy
    SendFaults, \* "refused": a write to a backend may fail
    Silent      \* the sockets whose backend does not answer

ASSUME UdpAssumption ==
    /\ None \notin Socket \cup Client
    /\ List \in Seq(Mapping)
    /\ SendFaults \subseteq {"refused"}
    /\ Silent \subseteq Socket

VARIABLES
    sessions, \* the table: the session of each client, or None
    sock,     \* each socket: unused, open or closed
    owner,    \* the client it was dialled for
    reader,   \* where the readBackend of a session stands
    stale,    \* sessions idle for longer than 120 s
    packet,   \* what each handler works on
    janitor,  \* the session cleanupLoop is removing, or None
    proxy,    \* run, stopping or stopped
    toStop    \* the clients Stop still has to visit

socks == <<sock, owner, reader, stale>>
stop  == <<proxy, toStop>>
vars  == <<sessions, socks, packet, janitor, stop>>

Idle == [at |-> "idle", client |-> None, name |-> NoName, sock |-> None]

-----------------------------------------------------------------------------
\* Handler x goes on at another place, or is done with its datagram.
Move(x, place) == packet' = [packet EXCEPT ![x].at = place]
Done(x) == packet' = [packet EXCEPT ![x] = Idle]

At(x, place) == packet[x].at = place

Close(s)  == sock' = [sock EXCEPT ![s] = "closed"]
Delete_(c) == sessions' = [sessions EXCEPT ![c] = None]

CanSend(s) == sock[s] = "open"
MayFail(s) == sock[s] = "closed" \/ "refused" \in SendFaults

-----------------------------------------------------------------------------
(***************************************************************************)
(* handlePacket.                                                           *)
(***************************************************************************)
Receive(x, c, name) ==
    /\ proxy = "run" /\ At(x, "idle")
    /\ packet' = [packet EXCEPT ![x] = [at |-> "load", client |-> c,
                                        name |-> name, sock |-> None]]
    /\ UNCHANGED <<sessions, socks, janitor, stop>>

\* The client has a session.
LoadSession(x) ==
    LET s == sessions[packet[x].client] IN
    /\ At(x, "load") /\ s # None
    /\ packet' = [packet EXCEPT ![x].at = "forward", ![x].sock = s,
                                ![x].name = NoName]
    /\ stale' = stale \ {s}
    /\ UNCHANGED <<sessions, sock, owner, reader, janitor, stop>>

\* It has none: the datagram is dropped unless its name has a mapping.
NoSession(x) ==
    /\ At(x, "load") /\ sessions[packet[x].client] = None
    /\ IF RouteUDP(List, packet[x].name, ListenPort) = None
       THEN Done(x)
       ELSE packet' = [packet EXCEPT ![x].at = "dial", ![x].name = NoName]
    /\ UNCHANGED <<sessions, socks, janitor, stop>>

Forward(x) ==
    /\ At(x, "forward") /\ CanSend(packet[x].sock)
    /\ Done(x)
    /\ UNCHANGED <<sessions, socks, janitor, stop>>

ForwardFails(x) ==
    /\ At(x, "forward") /\ MayFail(packet[x].sock)
    /\ Delete_(packet[x].client)
    /\ Move(x, "close")
    /\ UNCHANGED <<socks, janitor, stop>>

CloseFailed(x) ==
    /\ At(x, "close")
    /\ Close(packet[x].sock)
    /\ Done(x)
    /\ UNCHANGED <<sessions, owner, reader, stale, janitor, stop>>

Dial(x) ==
    /\ At(x, "dial")
    /\ \E s \in Socket :
          /\ sock[s] = "unused"
          /\ sock' = [sock EXCEPT ![s] = "open"]
          /\ owner' = [owner EXCEPT ![s] = packet[x].client]
          /\ packet' = [packet EXCEPT ![x].at = "store", ![x].sock = s]
    /\ UNCHANGED <<sessions, reader, stale, janitor, stop>>

\* Mutant of DialFails: the handler goes on without a socket.
DialFailsUnnoticed(x) ==
    /\ At(x, "dial")
    /\ Move(x, "store")
    /\ UNCHANGED <<sessions, socks, janitor, stop>>

DialFails(x) ==
    /\ At(x, "dial")
    /\ Done(x)
    /\ UNCHANGED <<sessions, socks, janitor, stop>>

\* Mutant of StoreSession: a handler that comes second leaves its socket.
StoreSessionOnce(x) ==
    /\ At(x, "store")
    /\ IF sessions[packet[x].client] # None
       THEN Done(x) /\ UNCHANGED sessions
       ELSE /\ sessions' = [sessions EXCEPT ![packet[x].client] = packet[x].sock]
            /\ Move(x, "first")
    /\ UNCHANGED <<socks, janitor, stop>>

\* The session is stored without a second look at the table.
StoreSession(x) ==
    /\ At(x, "store")
    /\ sessions' = [sessions EXCEPT ![packet[x].client] = packet[x].sock]
    /\ Move(x, "first")
    /\ UNCHANGED <<socks, janitor, stop>>

\* The first datagram is sent and the reader started.
SendFirst(x) ==
    /\ At(x, "first") /\ CanSend(packet[x].sock)
    /\ reader' = [reader EXCEPT ![packet[x].sock] = "read"]
    /\ Done(x)
    /\ UNCHANGED <<sessions, sock, owner, stale, janitor, stop>>

\* Mutant of SendFirstFails: the socket is not closed.
SendFirstGivesUp(x) ==
    /\ At(x, "first") /\ MayFail(packet[x].sock)
    /\ Move(x, "delete")
    /\ UNCHANGED <<sessions, socks, janitor, stop>>

SendFirstFails(x) ==
    /\ At(x, "first") /\ MayFail(packet[x].sock)
    /\ Close(packet[x].sock)
    /\ Move(x, "delete")
    /\ UNCHANGED <<sessions, owner, reader, stale, janitor, stop>>

DeleteFirst(x) ==
    /\ At(x, "delete")
    /\ Delete_(packet[x].client)
    /\ Done(x)
    /\ UNCHANGED <<socks, janitor, stop>>

Handle(x) ==
    \/ LoadSession(x) \/ NoSession(x)
    \/ Forward(x) \/ ForwardFails(x) \/ CloseFailed(x)
    \/ Dial(x) \/ DialFails(x) \/ StoreSession(x)
    \/ SendFirst(x) \/ SendFirstFails(x) \/ DeleteFirst(x)

-----------------------------------------------------------------------------
(***************************************************************************)
(* readBackend: its deferred function closes the socket, then removes the  *)
(* client's entry.                                                         *)
(***************************************************************************)
Answer(s) ==
    /\ reader[s] = "read" /\ sock[s] = "open" /\ s \notin Silent
    /\ stale' = stale \ {s}
    /\ UNCHANGED <<sessions, sock, owner, reader, packet, janitor, stop>>

\* 30 s without an answer, or the socket was closed.
ReadEnds(s) ==
    /\ reader[s] = "read"
    /\ reader' = [reader EXCEPT ![s] = "close"]
    /\ UNCHANGED <<sessions, sock, owner, stale, packet, janitor, stop>>

\* Mutant of ReaderCloses: the entry stays in the table.
ReaderOnlyCloses(s) ==
    /\ reader[s] = "close"
    /\ Close(s)
    /\ reader' = [reader EXCEPT ![s] = "done"]
    /\ UNCHANGED <<sessions, owner, stale, packet, janitor, stop>>

ReaderCloses(s) ==
    /\ reader[s] = "close"
    /\ Close(s)
    /\ reader' = [reader EXCEPT ![s] = "delete"]
    /\ UNCHANGED <<sessions, owner, stale, packet, janitor, stop>>

ReaderDeletes(s) ==
    /\ reader[s] = "delete"
    /\ Delete_(owner[s])
    /\ reader' = [reader EXCEPT ![s] = "done"]
    /\ UNCHANGED <<sock, owner, stale, packet, janitor, stop>>

Read(s) == ReaderCloses(s) \/ ReaderDeletes(s)

-----------------------------------------------------------------------------
(***************************************************************************)
(* cleanupLoop, and the time that passes for it.  A reader that waits sets *)
(* lastActive or gives up every 30 s, so a session grows stale only while  *)
(* a goroutine is held up before or after it reads.                        *)
(***************************************************************************)
GrowStale(s) ==
    /\ \E c \in Client : sessions[c] = s
    /\ reader[s] # "read" /\ s \notin stale
    /\ stale' = stale \cup {s}
    /\ UNCHANGED <<sessions, sock, owner, reader, packet, janitor, stop>>

CleanupCloses(c) ==
    /\ janitor = None /\ proxy = "run"
    /\ sessions[c] \in stale
    /\ Close(sessions[c])
    /\ janitor' = c
    /\ UNCHANGED <<sessions, owner, reader, stale, packet, stop>>

CleanupDeletes ==
    /\ janitor # None
    /\ Delete_(janitor)
    /\ janitor' = None
    /\ UNCHANGED <<socks, packet, stop>>

-----------------------------------------------------------------------------
(***************************************************************************)
(* Stop: nothing more is received; the sessions in the table are closed,   *)
(* one client after the other.                                             *)
(***************************************************************************)
StopBegins ==
    /\ proxy = "run"
    /\ proxy' = "stopping" /\ toStop' = Client
    /\ UNCHANGED <<sessions, socks, packet, janitor>>

StopOne(c) ==
    /\ c \in toStop
    /\ toStop' = toStop \ {c}
    /\ sock' = [s \in Socket |-> IF s = sessions[c] THEN "closed" ELSE sock[s]]
    /\ UNCHANGED <<sessions, owner, reader, stale, packet, janitor, proxy>>

StopEnds ==
    /\ proxy = "stopping" /\ toStop = {}
    /\ proxy' = "stopped"
    /\ UNCHANGED <<sessions, socks, packet, janitor, toStop>>

Stopping == StopBegins \/ (\E c \in Client : StopOne(c)) \/ StopEnds

-----------------------------------------------------------------------------
Init ==
    /\ sessions = [c \in Client |-> None]
    /\ sock = [s \in Socket |-> "unused"]
    /\ owner = [s \in Socket |-> None]
    /\ reader = [s \in Socket |-> "none"]
    /\ stale = {}
    /\ packet = [x \in Handler |-> Idle]
    /\ janitor = None /\ proxy = "run" /\ toStop = {}

Next ==
    \/ \E x \in Handler :
          \/ \E c \in Client, n \in Requested \cup {NoName} : Receive(x, c, n)
          \/ Handle(x)
    \/ \E s \in Socket :
          Answer(s) \/ ReadEnds(s) \/ Read(s) \/ GrowStale(s)
    \/ (\E c \in Client : CleanupCloses(c)) \/ CleanupDeletes
    \/ Stopping

Spec == Init /\ [][Next]_vars

\* Goroutines run; the read of a silent backend, or of a closed socket, ends.
Fairness ==
    /\ \A x \in Handler : WF_vars(Handle(x))
    /\ \A s \in Socket :
          /\ WF_vars(Read(s))
          /\ WF_vars((s \in Silent \/ sock[s] = "closed") /\ ReadEnds(s))
    /\ WF_vars(CleanupDeletes)

FairSpec == Spec /\ Fairness

-----------------------------------------------------------------------------
(***************************************************************************)
(* Properties.                                                             *)
(***************************************************************************)
Places == {"idle", "load", "forward", "close", "dial", "store", "first",
           "delete"}

\* Type correctness; a handler has a socket from the moment it needs one.
TypeOK ==
    /\ sessions \in [Client -> Socket \cup {None}]
    /\ sock \in [Socket -> {"unused", "open", "closed"}]
    /\ owner \in [Socket -> Client \cup {None}]
    /\ reader \in [Socket -> {"none", "read", "close", "delete", "done"}]
    /\ stale \subseteq Socket
    /\ packet \in [Handler -> [at : Places, client : Client \cup {None},
                               name : Requested \cup {NoName},
                               sock : Socket \cup {None}]]
    /\ \A x \in Handler :
          packet[x].sock = None <=> packet[x].at \in {"idle", "load", "dial"}
    /\ janitor \in Client \cup {None}
    /\ proxy \in {"run", "stopping", "stopped"}
    /\ toStop \subseteq Client

\* A socket is never left open with no goroutine that will close it, whatever
\* sessions overtake and remove each other: either a handler is still
\* establishing the session or its reader runs.
Establishing(s) ==
    \E x \in Handler : packet[x].sock = s /\ packet[x].at \in {"store", "first"}
NoSocketLeaks ==
    \A s \in Socket :
        sock[s] = "open" => Establishing(s) \/ reader[s] \in {"read", "close"}

\* A client is never left with a session whose socket is closed: as long as
\* the table holds one, a goroutine is on its way to remove it.  Otherwise
\* every datagram of that client would be written to a closed socket.
Leaving(c, s) ==
    \/ \E x \in Handler : packet[x].sock = s /\ packet[x].at \in {"first", "delete"}
    \/ reader[s] \in {"read", "close", "delete"}
NoDeadSession ==
    \A c \in Client :
        LET s == sessions[c] IN
        s # None /\ sock[s] = "closed" => Leaving(c, s) \/ janitor = c

\* The socket of a backend that does not answer is closed, also when it is no
\* longer in the table.
SocketsReclaimed == \A s \in Silent : sock[s] = "open" ~> sock[s] = "closed"
=============================================================================

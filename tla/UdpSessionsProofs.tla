------------------------- MODULE UdpSessionsProofs --------------------------
(***************************************************************************)
(* Safety of the session table for any number of clients, handlers and     *)
(* sockets, and for every order of their steps.                            *)
(***************************************************************************)
EXTENDS UdpSessions, TLAPS

\* A handler works for a client as long as it has a datagram.
Working == \A x \in Handler : ~At(x, "idle") => packet[x].client \in Client

\* A socket that a handler or the table knows has been dialled, and the one
\* of a session that is being established, or is in the table, was dialled
\* for the client whose session it is.
Attributed ==
    /\ \A x \in Handler :
          /\ packet[x].sock # None => sock[packet[x].sock] # "unused"
          /\ packet[x].at \in {"store", "first", "delete"} =>
                 owner[packet[x].sock] = packet[x].client
    /\ \A c \in Client : sessions[c] # None =>
          sock[sessions[c]] # "unused" /\ owner[sessions[c]] = c

\* Every session in the table, its socket open or closed, has a goroutine
\* that will look at it again and remove it.
Attended ==
    \A c \in Client : sessions[c] # None =>
        Leaving(c, sessions[c]) \/ janitor = c

IInv == TypeOK /\ Working /\ Attributed /\ NoSocketLeaks /\ Attended

-----------------------------------------------------------------------------
LEMMA InitIInv == Init => IInv
BY UdpAssumption
   DEF Init, IInv, TypeOK, Working, Attributed, NoSocketLeaks, Attended, Idle,
       Places, At

\* A handler that is done with its datagram has forgotten it.
LEMMA DoneType ==
    ASSUME TypeOK, Working, NEW x \in Handler, Done(x),
           UNCHANGED <<owner, stale, janitor, proxy, toStop>>,
           sessions' \in [Client -> Socket \cup {None}],
           sock' \in [Socket -> {"unused", "open", "closed"}],
           reader' \in [Socket -> {"none", "read", "close", "delete", "done"}]
    PROVE  TypeOK' /\ Working'
BY UdpAssumption DEF TypeOK, Working, Places, At, Done, Idle

\* Types, and the client of a handler that works.
LEMMA TypeStep ==
    ASSUME IInv, Next
    PROVE  TypeOK' /\ Working'
<1> USE UdpAssumption DEF IInv, TypeOK, Working, Places, At
<1>1. ASSUME NEW x \in Handler, NEW c \in Client,
             NEW n \in Requested \cup {NoName}, Receive(x, c, n)
      PROVE  TypeOK' /\ Working'
  BY <1>1 DEF Receive, socks, stop
<1>2. ASSUME NEW x \in Handler, LoadSession(x)
      PROVE  TypeOK' /\ Working'
  <2>1. packet[x].client \in Client
    BY <1>2 DEF LoadSession
  <2>2. sessions[packet[x].client] \in Socket
    BY <1>2, <2>1 DEF LoadSession
  <2> QED
    BY <1>2, <2>1, <2>2 DEF LoadSession, stop
<1>3. ASSUME NEW x \in Handler, NoSession(x)
      PROVE  TypeOK' /\ Working'
  <2>0. UNCHANGED <<sessions, sock, owner, reader, stale, janitor, proxy, toStop>>
    BY <1>3 DEF NoSession, socks, stop
  <2>1. CASE Done(x)
    BY <2>1, <2>0, DoneType
  <2>2. CASE packet' = [packet EXCEPT ![x].at = "dial", ![x].name = NoName]
    <3>1. packet[x].client \in Client /\ packet[x].sock = None
      BY <1>3 DEF NoSession
    <3>2. packet' \in [Handler -> [at : Places, client : Client \cup {None},
                                   name : Requested \cup {NoName},
                                   sock : Socket \cup {None}]]
      <4> DEFINE r == [packet[x] EXCEPT !.at = "dial", !.name = NoName]
      <4>1. r \in [at : Places, client : Client \cup {None},
                  name : Requested \cup {NoName}, sock : Socket \cup {None}]
        <5>1. packet[x] \in [at : Places, client : Client \cup {None},
                             name : Requested \cup {NoName},
                             sock : Socket \cup {None}]
          OBVIOUS
        <5>2. NoName \in Requested \cup {NoName} /\ "dial" \in Places
          OBVIOUS
        <5> HIDE DEF IInv, TypeOK, Working, Places
        <5> QED
          BY ONLY <5>1, <5>2
      <4>2. packet' = [packet EXCEPT ![x] = r]
        BY <2>2
      <4> HIDE DEF r
      <4> QED
        BY <4>1, <4>2
    <3>3. /\ packet'[x].at = "dial" /\ packet'[x].sock = None
          /\ packet'[x].client = packet[x].client
          /\ \A y \in Handler \ {x} : packet'[y] = packet[y]
      BY <2>2, <3>1
    <3> QED
      BY <2>0, <3>1, <3>2, <3>3
  <2> QED
    BY <1>3, <2>1, <2>2 DEF NoSession
<1>4. ASSUME NEW x \in Handler, Forward(x) \/ DialFails(x)
      PROVE  TypeOK' /\ Working'
  BY <1>4, DoneType DEF Forward, DialFails, socks, stop
<1>5. ASSUME NEW x \in Handler, ForwardFails(x)
      PROVE  TypeOK' /\ Working'
  BY <1>5 DEF ForwardFails, Delete_, Move, socks, stop
<1>6. ASSUME NEW x \in Handler, CloseFailed(x)
      PROVE  TypeOK' /\ Working'
  BY <1>6, DoneType DEF CloseFailed, Close, stop
<1>7. ASSUME NEW x \in Handler, Dial(x)
      PROVE  TypeOK' /\ Working'
  BY <1>7 DEF Dial, stop
<1>8. ASSUME NEW x \in Handler, StoreSession(x)
      PROVE  TypeOK' /\ Working'
  BY <1>8 DEF StoreSession, Move, socks, stop
<1>9. ASSUME NEW x \in Handler, SendFirst(x)
      PROVE  TypeOK' /\ Working'
  BY <1>9, DoneType DEF SendFirst, stop
<1>10. ASSUME NEW x \in Handler, SendFirstFails(x)
       PROVE  TypeOK' /\ Working'
  <2>1. sock' \in [Socket -> {"unused", "open", "closed"}]
    BY <1>10 DEF SendFirstFails, Close
  <2>2. /\ At(x, "first") /\ Move(x, "delete")
        /\ UNCHANGED <<sessions, owner, reader, stale, janitor, stop>>
    BY <1>10 DEF SendFirstFails
  <2> QED
    BY <2>1, <2>2 DEF Move, stop
<1>11. ASSUME NEW x \in Handler, DeleteFirst(x)
       PROVE  TypeOK' /\ Working'
  BY <1>11, DoneType DEF DeleteFirst, Delete_, socks, stop
<1>12. ASSUME NEW s \in Socket, Answer(s) \/ ReadEnds(s) \/ Read(s) \/ GrowStale(s)
       PROVE  TypeOK' /\ Working'
  <2>1. CASE Answer(s) \/ GrowStale(s)
    BY <2>1 DEF Answer, GrowStale, stop
  <2>2. CASE ReadEnds(s)
    BY <2>2 DEF ReadEnds, stop
  <2>3. CASE ReaderCloses(s)
    BY <2>3 DEF ReaderCloses, Close, stop
  <2>4. CASE ReaderDeletes(s)
    BY <2>4 DEF ReaderDeletes, Delete_, stop
  <2> QED
    BY <1>12, <2>1, <2>2, <2>3, <2>4 DEF Read
<1>13. ASSUME (\E c \in Client : CleanupCloses(c)) \/ CleanupDeletes
       PROVE  TypeOK' /\ Working'
  BY <1>13 DEF CleanupCloses, CleanupDeletes, Close, Delete_, socks, stop
<1>14. ASSUME Stopping
       PROVE  TypeOK' /\ Working'
  BY <1>14 DEF Stopping, StopBegins, StopOne, StopEnds, socks
<1> QED
  BY <1>1, <1>2, <1>3, <1>4, <1>5, <1>6, <1>7, <1>8, <1>9, <1>10, <1>11,
     <1>12, <1>13, <1>14 DEF Next, Handle

\* What the table and the handlers know stays theirs: a socket is dialled
\* once, for one client.
LEMMA AttributedStep ==
    ASSUME IInv, Next
    PROVE  Attributed'
<1> USE UdpAssumption DEF IInv, TypeOK, Working, Attributed, At
<1>1. ASSUME NEW x \in Handler, NEW c \in Client,
             NEW n \in Requested \cup {NoName}, Receive(x, c, n)
      PROVE  Attributed'
  BY <1>1 DEF Receive, socks
<1>2. ASSUME NEW x \in Handler, LoadSession(x)
      PROVE  Attributed'
  <2>1. packet[x].client \in Client
    BY <1>2 DEF LoadSession
  <2> QED
    BY <1>2, <2>1 DEF LoadSession
<1>3. ASSUME NEW x \in Handler, NoSession(x)
      PROVE  Attributed'
  BY <1>3 DEF NoSession, Done, Idle, socks
<1>4. ASSUME NEW x \in Handler, Forward(x) \/ DialFails(x)
      PROVE  Attributed'
  <2>1. /\ UNCHANGED <<sessions, sock, reader, owner>>
        /\ packet' = [packet EXCEPT ![x] = Idle]
    BY <1>4 DEF Forward, DialFails, Done, socks
  <2> QED
    BY <2>1 DEF Idle
<1>5. ASSUME NEW x \in Handler, ForwardFails(x)
      PROVE  Attributed'
  BY <1>5 DEF ForwardFails, Delete_, Move, socks
<1>6. ASSUME NEW x \in Handler, CloseFailed(x)
      PROVE  Attributed'
  BY <1>6 DEF CloseFailed, Close, Done, Idle
<1>7. ASSUME NEW x \in Handler, Dial(x)
      PROVE  Attributed'
  BY <1>7 DEF Dial
<1>8. ASSUME NEW x \in Handler, StoreSession(x)
      PROVE  Attributed'
  BY <1>8 DEF StoreSession, Move, socks
<1>9. ASSUME NEW x \in Handler, SendFirst(x)
      PROVE  Attributed'
  BY <1>9 DEF SendFirst, Done, Idle
<1>10. ASSUME NEW x \in Handler, SendFirstFails(x)
       PROVE  Attributed'
  BY <1>10 DEF SendFirstFails, Close, Move
<1>11. ASSUME NEW x \in Handler, DeleteFirst(x)
       PROVE  Attributed'
  BY <1>11 DEF DeleteFirst, Delete_, Done, Idle, socks
<1>12. ASSUME NEW s \in Socket, Answer(s) \/ ReadEnds(s) \/ Read(s) \/ GrowStale(s)
       PROVE  Attributed'
  BY <1>12
     DEF Answer, ReadEnds, Read, ReaderCloses, ReaderDeletes, GrowStale, Close,
         Delete_
<1>13. ASSUME (\E c \in Client : CleanupCloses(c)) \/ CleanupDeletes
       PROVE  Attributed'
  BY <1>13 DEF CleanupCloses, CleanupDeletes, Close, Delete_, socks
<1>14. ASSUME Stopping
       PROVE  Attributed'
  BY <1>14 DEF Stopping, StopBegins, StopOne, StopEnds, socks
<1> QED
  BY <1>1, <1>2, <1>3, <1>4, <1>5, <1>6, <1>7, <1>8, <1>9, <1>10, <1>11,
     <1>12, <1>13, <1>14 DEF Next, Handle

\* An open socket passes from the handler that dialled it to its reader, which
\* closes it.
LEMMA NoSocketLeaksStep ==
    ASSUME IInv, Next
    PROVE  NoSocketLeaks'
<1> USE UdpAssumption DEF IInv, TypeOK, NoSocketLeaks, Establishing, At
<1>1. ASSUME NEW x \in Handler, NEW c \in Client,
             NEW n \in Requested \cup {NoName}, Receive(x, c, n)
      PROVE  NoSocketLeaks'
  BY <1>1 DEF Receive, socks
<1>2. ASSUME NEW x \in Handler, LoadSession(x)
      PROVE  NoSocketLeaks'
  BY <1>2 DEF LoadSession
<1>3. ASSUME NEW x \in Handler, NoSession(x)
      PROVE  NoSocketLeaks'
  BY <1>3 DEF NoSession, Done, Idle, socks
<1>4. ASSUME NEW x \in Handler, Forward(x) \/ DialFails(x)
      PROVE  NoSocketLeaks'
  BY <1>4 DEF Forward, DialFails, Done, Idle, socks
<1>5. ASSUME NEW x \in Handler, ForwardFails(x)
      PROVE  NoSocketLeaks'
  BY <1>5 DEF ForwardFails, Move, socks
<1>6. ASSUME NEW x \in Handler, CloseFailed(x)
      PROVE  NoSocketLeaks'
  BY <1>6 DEF CloseFailed, Close, Done, Idle
<1>7. ASSUME NEW x \in Handler, Dial(x)
      PROVE  NoSocketLeaks'
  BY <1>7 DEF Dial
<1>8. ASSUME NEW x \in Handler, StoreSession(x)
      PROVE  NoSocketLeaks'
  BY <1>8 DEF StoreSession, Move, socks
<1>9. ASSUME NEW x \in Handler, SendFirst(x)
      PROVE  NoSocketLeaks'
  BY <1>9 DEF SendFirst, Done, Idle
<1>10. ASSUME NEW x \in Handler, SendFirstFails(x)
       PROVE  NoSocketLeaks'
  BY <1>10 DEF SendFirstFails, Close, Move
<1>11. ASSUME NEW x \in Handler, DeleteFirst(x)
       PROVE  NoSocketLeaks'
  BY <1>11 DEF DeleteFirst, Done, Idle, socks
<1>12. ASSUME NEW s \in Socket, Answer(s) \/ ReadEnds(s) \/ Read(s) \/ GrowStale(s)
       PROVE  NoSocketLeaks'
  BY <1>12
     DEF Answer, ReadEnds, Read, ReaderCloses, ReaderDeletes, GrowStale, Close
<1>13. ASSUME (\E c \in Client : CleanupCloses(c)) \/ CleanupDeletes
       PROVE  NoSocketLeaks'
  BY <1>13 DEF CleanupCloses, CleanupDeletes, Close, socks
<1>14. ASSUME Stopping
       PROVE  NoSocketLeaks'
  BY <1>14 DEF Stopping, StopBegins, StopOne, StopEnds, socks
<1> QED
  BY <1>1, <1>2, <1>3, <1>4, <1>5, <1>6, <1>7, <1>8, <1>9, <1>10, <1>11,
     <1>12, <1>13, <1>14 DEF Next, Handle

\* Whoever was to remove a session has removed it when it is through, since
\* the session was its client's.
LEMMA AttendedStep ==
    ASSUME IInv, Next
    PROVE  Attended'
<1> USE UdpAssumption DEF IInv, TypeOK, Working, Attributed, Attended, Leaving, At
<1>1. ASSUME NEW x \in Handler, NEW c \in Client,
             NEW n \in Requested \cup {NoName}, Receive(x, c, n)
      PROVE  Attended'
  BY <1>1 DEF Receive, socks
<1>2. ASSUME NEW x \in Handler, LoadSession(x)
      PROVE  Attended'
  BY <1>2 DEF LoadSession
<1>3. ASSUME NEW x \in Handler, NoSession(x)
      PROVE  Attended'
  BY <1>3 DEF NoSession, Done, Idle, socks
<1>4. ASSUME NEW x \in Handler, Forward(x) \/ DialFails(x)
      PROVE  Attended'
  BY <1>4 DEF Forward, DialFails, Done, Idle, socks
<1>5. ASSUME NEW x \in Handler, ForwardFails(x)
      PROVE  Attended'
  BY <1>5 DEF ForwardFails, Delete_, Move, socks
<1>6. ASSUME NEW x \in Handler, CloseFailed(x)
      PROVE  Attended'
  BY <1>6 DEF CloseFailed, Close, Done, Idle
<1>7. ASSUME NEW x \in Handler, Dial(x)
      PROVE  Attended'
  BY <1>7 DEF Dial
<1>8. ASSUME NEW x \in Handler, StoreSession(x)
      PROVE  Attended'
  <2>1. /\ packet'[x].at = "first" /\ packet'[x].sock = packet[x].sock
        /\ \A y \in Handler : y # x => packet'[y] = packet[y]
        /\ packet[x].at = "store"
        /\ UNCHANGED <<reader, janitor>>
    BY <1>8 DEF StoreSession, Move, socks
  <2>2. sessions' = [sessions EXCEPT ![packet[x].client] = packet[x].sock]
    BY <1>8 DEF StoreSession
  <2>3. SUFFICES ASSUME NEW c \in Client, sessions'[c] # None
                 PROVE  (Leaving(c, sessions[c]) \/ janitor = c)'
    OBVIOUS
  <2>4. CASE c = packet[x].client
    <3>1. sessions'[c] = packet[x].sock
      BY <2>2, <2>4
    <3> QED  BY <2>1, <3>1
  <2>5. CASE c # packet[x].client
    <3>1. sessions'[c] = sessions[c]
      BY <2>2, <2>5
    <3>2. Leaving(c, sessions[c]) \/ janitor = c
      BY <2>3, <3>1
    <3> QED  BY <2>1, <3>1, <3>2
  <2> QED  BY <2>4, <2>5
<1>9. ASSUME NEW x \in Handler, SendFirst(x)
      PROVE  Attended'
  BY <1>9 DEF SendFirst, Done, Idle
<1>10. ASSUME NEW x \in Handler, SendFirstFails(x)
       PROVE  Attended'
  BY <1>10 DEF SendFirstFails, Close, Move
<1>11. ASSUME NEW x \in Handler, DeleteFirst(x)
       PROVE  Attended'
  BY <1>11 DEF DeleteFirst, Delete_, Done, Idle, socks
<1>12. ASSUME NEW s \in Socket, Answer(s) \/ ReadEnds(s) \/ Read(s) \/ GrowStale(s)
       PROVE  Attended'
  BY <1>12
     DEF Answer, ReadEnds, Read, ReaderCloses, ReaderDeletes, GrowStale, Close,
         Delete_
<1>13. ASSUME (\E c \in Client : CleanupCloses(c)) \/ CleanupDeletes
       PROVE  Attended'
  BY <1>13 DEF CleanupCloses, CleanupDeletes, Close, Delete_, socks
<1>14. ASSUME Stopping
       PROVE  Attended'
  BY <1>14 DEF Stopping, StopBegins, StopOne, StopEnds, socks
<1> QED
  BY <1>1, <1>2, <1>3, <1>4, <1>5, <1>6, <1>7, <1>8, <1>9, <1>10, <1>11,
     <1>12, <1>13, <1>14 DEF Next, Handle

-----------------------------------------------------------------------------
LEMMA Inductive == Spec => []IInv
<1>1. IInv /\ UNCHANGED vars => IInv'
  BY DEF IInv, TypeOK, Working, Attributed, NoSocketLeaks, Attended, Leaving,
         Establishing, At, vars, socks, stop
<1>2. IInv /\ [Next]_vars => IInv'
  BY <1>1, TypeStep, AttributedStep, NoSocketLeaksStep, AttendedStep DEF IInv
<1> QED
  BY <1>2, InitIInv, PTL DEF Spec

\* The type invariant of the session table and everything that touches it.
THEOREM TypeCorrect == Spec => []TypeOK
BY Inductive, PTL DEF IInv

\* No socket is left open without a goroutine that will close it, for any
\* number of clients, handlers and sockets.
THEOREM SocketsAreOwned == Spec => []NoSocketLeaks
BY Inductive, PTL DEF IInv

\* No client is left with a session whose socket is closed: whoever closed it,
\* a goroutine is on its way to remove the session.
THEOREM DeadSessionsGo == Spec => []NoDeadSession
<1>1. IInv => NoDeadSession
  BY DEF IInv, Attended, NoDeadSession
<1> QED
  BY <1>1, Inductive, PTL
=============================================================================

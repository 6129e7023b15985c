------------------------------ MODULE Upgrade -------------------------------
(***************************************************************************)
(* The daemon as processes: start-up and shutdown of handleDaemon, the     *)
(* listeners of TCPProxy, and the hand-over of internal/upgrade, in which  *)
(* a SIGHUP makes a process start its own binary again.  Around them are   *)
(* the administrator, who sends signals, and the service manager, which    *)
(* restarts the daemon as the installed unit says.                         *)
(*                                                                         *)
(* A process has two goroutines that matter here, main and HandleSIGHUP,   *)
(* and a table of file descriptors, because the hand-over speaks of        *)
(* listeners by the numbers of their descriptors.  A TCP listener is the   *)
(* address and port it is bound to: no two can be bound to the same ones,  *)
(* and one stays bound as long as any process has it in its table.         *)
(* Connections, accepted or dialled, take descriptors as well; that is all *)
(* there is of them here.                                                  *)
(***************************************************************************)
EXTENDS Integers, Sequences, FiniteSets, SequencesExt

CONSTANTS
    Proc,     \* bound: the processes that live at once
    PortList, \* the ports of the list, in its order
    Addr,     \* public addresses
    UpFirst,  \* those that are up when the daemon is started
    Runtime,  \* how many descriptors a Go program keeps for itself
    MaxFd,    \* the highest descriptor a process may open
    MaxHups,  \* bound: SIGHUPs the administrator sends
    MaxTerms, \* bound: SIGTERMs
    MaxConns, \* bound: connections
    Faults,   \* "spawn": the new process may not start
    Conn,     \* bound: the connections a process may have at once
    ConnFile, \* the socket of a connection,
    UdpFile,  \* a UDP socket, and
    OwnFile,  \* a descriptor of the runtime: three files that are no listeners
    None

Port == ToSet(PortList)
Fd == 3 .. MaxFd
Listener == Addr \X Port
File == Listener \cup {ConnFile, UdpFile, OwnFile}

\* The limit on descriptors leaves room for those a process starts with.
ASSUME UpgradeAssumption ==
    /\ Proc # {} /\ None \notin Proc \cup File
    /\ ConnFile \notin Listener /\ UdpFile \notin Listener \cup {ConnFile}
    /\ OwnFile \notin Listener \cup {ConnFile, UdpFile}
    /\ PortList \in Seq(Port) /\ PortList # <<>> /\ IsInjective(PortList)
    /\ IsFiniteSet(Addr) /\ UpFirst \subseteq Addr /\ UpFirst # {}
    /\ Runtime \in Nat /\ MaxFd \in Nat
    /\ MaxHups \in Nat /\ MaxTerms \in Nat /\ MaxConns \in Nat
    /\ MaxFd >= 2 + Cardinality(Port) + Runtime
    /\ Faults \subseteq {"spawn"}

VARIABLES
    proc,   \* the processes
    links,  \* whether the dummy interfaces are there
    public, \* the public addresses that are up
    unit,   \* the main process of the unit, "dead" or "killed" when it has
            \* ended; "none" for a daemon started by hand
    hups, terms, \* signals sent
    opened  \* connections opened

env  == <<links, public, hups, terms, opened>>
vars == <<proc, unit, env>>

-----------------------------------------------------------------------------
(***************************************************************************)
(* Processes and their descriptors.                                        *)
(***************************************************************************)
Nowhere == [p \in Port |-> 0]

Gone ==
    [pc |-> "gone",        \* where main stands
     hup |-> "off",        \* where HandleSIGHUP stands
     parent |-> None,
     announced |-> Nowhere, \* SHARED_IP_LISTENERS
     todo |-> <<>>,        \* the ports not yet started
     left |-> {},          \* the addresses to try for the first of them
     fd |-> [n \in Fd |-> None],
     saved |-> Nowhere,    \* the listeners saved for an upgrade
     listeners |-> [p \in Port |-> {}], \* of each TCPProxy, by descriptor: an
                           \* accept loop runs on each
     conns |-> [c \in Conn |-> 0], \* the descriptors of connections
     quit |-> FALSE,       \* the quit channels are closed
     mainSig |-> FALSE, hupSig |-> FALSE, termSig |-> FALSE] \* channels

Alive == {g \in Proc : proc[g].pc # "gone"}

\* The names of processes mean nothing: a new one takes the next.
Unused(S) == CHOOSE g \in S : TRUE

\* Descriptors are given out from the lowest free one on.
Free(t) == {n \in Fd : t[n] = None}
Rank(t, n) == Cardinality({m \in Free(t) : m <= n})
NthFree(t, i) == CHOOSE n \in Free(t) : Rank(t, n) = i
OpenAll(t, files) ==
    [n \in Fd |-> IF t[n] = None /\ Rank(t, n) <= Len(files)
                  THEN files[Rank(t, n)] ELSE t[n]]
Copies(f, n) == [i \in 1 .. n |-> f]

Bound(l) == \E g \in Proc, n \in Fd : proc[g].fd[n] = l

Loops(r) == UNION {r.listeners[p] : p \in Port}

\* A process starts with the descriptors it was passed, numbered from 3.
Started(parent, announced, passed) ==
    [Gone EXCEPT
        !.pc = "setup", !.parent = parent, !.announced = announced,
        !.fd = OpenAll(Gone.fd, passed \o Copies(OwnFile, Runtime))]

\* Mutant of Become: getppid is asked at the start.
BecomeRemembering(ps) ==
    /\ proc' = ps
    /\ unit' = IF unit \in Proc /\ ps[unit].pc = "gone" THEN "dead" ELSE unit

\* The children of a process that is gone are orphans.
Orphaned(ps) ==
    [g \in Proc |->
        IF ps[g].parent # None /\ ps[ps[g].parent].pc = "gone"
        THEN [ps[g] EXCEPT !.parent = None] ELSE ps[g]]

\* The processes become ps, and the manager sees the end of its own.
Become(ps) ==
    /\ proc' = Orphaned(ps)
    /\ unit' = IF unit \in Proc /\ ps[unit].pc = "gone" THEN "dead" ELSE unit

Now(g, r) == Become([proc EXCEPT ![g] = r])

\* SIGTERM: a process that has not asked for it yet ends; any other finds it in
\* every channel it has registered.
Terminated(ps, S) ==
    [g \in Proc |->
        LET main == ps[g].pc \in {"serving", "close", "clean"}
            hup  == ps[g].hup = "wait"
        IN  IF g \notin S \/ ps[g].pc = "gone" THEN ps[g]
            ELSE IF ~main /\ ~hup THEN Gone
            ELSE [ps[g] EXCEPT !.mainSig = @ \/ main, !.termSig = @ \/ hup]]

-----------------------------------------------------------------------------
(***************************************************************************)
(* handleDaemon up to its wait, and TCPProxy.Start.                        *)
(***************************************************************************)
\* Mutant of Setup: interfaces are made by the add command only.
SetupSkipped(g) ==
    /\ proc[g].pc = "setup"
    /\ Now(g, [proc[g] EXCEPT !.pc = "port", !.todo = PortList])
    /\ UNCHANGED env

\* A dummy interface for every mapping.
Setup(g) ==
    /\ proc[g].pc = "setup"
    /\ links' = TRUE
    /\ Now(g, [proc[g] EXCEPT !.pc = "port", !.todo = PortList])
    /\ UNCHANGED <<public, hups, terms, opened>>

\* InheritListener: the descriptor announced is duplicated if it is that of a
\* TCP socket, listening or not, and the limit allows it; and closed whatever
\* it is.
Inherits(r, p) ==
    /\ r.announced[p] # 0 /\ r.fd[r.announced[p]] \in Listener \cup {ConnFile}
    /\ Free(r.fd) # {}

Inherit(r, p) ==
    LET n   == r.announced[p]
        new == NthFree(r.fd, 1)
    IN  [r EXCEPT !.fd = [r.fd EXCEPT ![new] = r.fd[n], ![n] = None],
                  !.listeners[p] = @ \cup {new}]

Close(r, n) == IF n = 0 THEN r ELSE [r EXCEPT !.fd[n] = None]

BeginPort(g) ==
    LET r == proc[g]
        p == Head(r.todo)
    IN
    /\ r.pc = "port"
    /\ Now(g, IF Inherits(r, p) THEN [Inherit(r, p) EXCEPT !.pc = "udp"]
              ELSE [Close(r, r.announced[p]) EXCEPT
                        !.pc = "listen", !.left = public])
    /\ UNCHANGED env

\* net.Listen on one address; an error is skipped: the address is taken, or the
\* limit is reached.  The first listener of the port is the one saved.
Listen(g) ==
    /\ proc[g].pc = "listen"
    /\ \E a \in proc[g].left :
          LET r == [proc[g] EXCEPT !.left = @ \ {a}]
              p == Head(r.todo)
              n == NthFree(r.fd, 1)
          IN  Now(g, IF Bound(<<a, p>>) \/ Free(r.fd) = {} THEN r
                     ELSE [r EXCEPT !.fd[n] = <<a, p>>,
                                    !.listeners[p] = @ \cup {n},
                                    !.saved[p] = IF @ = 0 THEN n ELSE @])
    /\ UNCHANGED env

\* Mutant of EndPort: the error is logged, as that of UDP is.
EndPortSkips(g) ==
    /\ proc[g].pc = "listen" /\ proc[g].left = {}
    /\ Now(g, [proc[g] EXCEPT !.pc = "udp"])
    /\ UNCHANGED env

\* Without a listener for the port log.Fatalf ends the process.
EndPort(g) ==
    /\ proc[g].pc = "listen" /\ proc[g].left = {}
    /\ Now(g, IF proc[g].saved[Head(proc[g].todo)] = 0 THEN Gone
              ELSE [proc[g] EXCEPT !.pc = "udp"])
    /\ UNCHANGED env

\* UDPProxy.Start; SO_REUSEPORT lets it bind what another process has bound.
\* Sockets above the limit are skipped.
ListenUDP(g) ==
    LET rest == Tail(proc[g].todo) IN
    /\ proc[g].pc = "udp"
    /\ Now(g, [proc[g] EXCEPT
                  !.fd = OpenAll(@, Copies(UdpFile, Cardinality(public))),
                  !.todo = rest,
                  !.pc = IF rest = <<>> THEN "ready" ELSE "port"])
    /\ UNCHANGED env

\* Ready: a child signals its parent, if it still has it.
Ready(g) ==
    LET ps == [proc EXCEPT ![g].pc = "notify", ![g].hup = "start"]
        tell == proc[g].announced # Nowhere /\ proc[g].parent # None
    IN
    /\ proc[g].pc = "ready"
    /\ Become(Terminated(ps, IF tell THEN {proc[g].parent} ELSE {}))
    /\ UNCHANGED env

NotifyMain(g) ==
    /\ proc[g].pc = "notify"
    /\ Now(g, [proc[g] EXCEPT !.pc = "serving"])
    /\ UNCHANGED env

-----------------------------------------------------------------------------
(***************************************************************************)
(* The end of a process, by either goroutine: Stop closes the quit channel *)
(* of each proxy, its listeners and its sockets; Cleanup removes the       *)
(* interfaces.  A channel closed twice is a panic.  The channel of the     *)
(* first proxy is closed in a step of its own, because the closing of a    *)
(* listener may take long: f.Fd() in doUpgrade has put the listener into   *)
(* blocking mode, and Close waits for an accept that is under way until    *)
(* one more client has connected.                                          *)
(***************************************************************************)
Closed(r) ==
    [r EXCEPT !.listeners = [p \in Port |-> {}],
              !.fd = [n \in Fd |->
                        IF n \in Loops(r) \/ @[n] = UdpFile THEN None ELSE @[n]]]

StopMain(g) ==
    /\ proc[g].pc = "serving" /\ proc[g].mainSig
    /\ Now(g, IF proc[g].quit THEN Gone
              ELSE [proc[g] EXCEPT !.quit = TRUE, !.pc = "close"])
    /\ UNCHANGED env

CloseMain(g) ==
    /\ proc[g].pc = "close"
    /\ Now(g, [Closed(proc[g]) EXCEPT !.pc = "clean"])
    /\ UNCHANGED env

CleanupMain(g) ==
    /\ proc[g].pc = "clean"
    /\ links' = FALSE
    /\ Now(g, Gone)
    /\ UNCHANGED <<public, hups, terms, opened>>

StopHup(g) ==
    /\ proc[g].hup = "stop"
    /\ Now(g, IF proc[g].quit THEN Gone
              ELSE [proc[g] EXCEPT !.quit = TRUE, !.hup = "close"])
    /\ UNCHANGED env

CloseHup(g) ==
    /\ proc[g].hup = "close"
    /\ Now(g, [Closed(proc[g]) EXCEPT !.hup = "clean"])
    /\ UNCHANGED env

CleanupHup(g) ==
    /\ proc[g].hup = "clean"
    /\ links' = FALSE
    /\ Now(g, Gone)
    /\ UNCHANGED <<public, hups, terms, opened>>

-----------------------------------------------------------------------------
(***************************************************************************)
(* HandleSIGHUP and doUpgrade.                                             *)
(***************************************************************************)
NotifyHup(g) ==
    /\ proc[g].hup = "start"
    /\ Now(g, [proc[g] EXCEPT !.hup = "idle"])
    /\ UNCHANGED env

Saved(g) == {p \in Port : proc[g].saved[p] # 0}

\* The listeners whose duplicates are passed, in some order, and the place of
\* each in it.
Place(order, p) == CHOOSE i \in DOMAIN order : order[i] = p

\* The numbers the duplicates have in this process.
Announced(g, order) ==
    [p \in Port |-> IF p \in Saved(g)
                    THEN NthFree(proc[g].fd, Place(order, p)) ELSE 0]

\* There are listeners, and File gives a duplicate of each: not once they are
\* closed, nor above the limit.
HasFiles(g) ==
    /\ Saved(g) # {}
    /\ \A p \in Saved(g) : /\ proc[g].saved[p] \in proc[g].listeners[p]
                          /\ proc[g].fd[proc[g].saved[p]] # None
    /\ Cardinality(Saved(g)) <= Cardinality(Free(proc[g].fd))

\* doUpgrade: the duplicates are passed in the order of a map, and announced
\* by their numbers here; they are closed again before it returns.
Upgrade(g) ==
    /\ proc[g].hup = "idle" /\ proc[g].hupSig /\ HasFiles(g)
    /\ Alive # Proc
    /\ \E order \in SetToSeqs(Saved(g)) :
          LET c == Unused(Proc \ Alive)
              passed == [i \in DOMAIN order |->
                            proc[g].fd[proc[g].saved[order[i]]]]
          IN  Become([proc EXCEPT
                         ![g].hupSig = FALSE, ![g].hup = "spawned",
                         ![c] = Started(g, Announced(g, order), passed)])
    /\ UNCHANGED env

\* A listener is closed, or the binary cannot be started.
UpgradeFails(g) ==
    /\ proc[g].hup = "idle" /\ proc[g].hupSig
    /\ ~HasFiles(g) \/ "spawn" \in Faults
    /\ Now(g, [proc[g] EXCEPT !.hupSig = FALSE])
    /\ UNCHANGED env

NotifyTerm(g) ==
    /\ proc[g].hup = "spawned"
    /\ Now(g, [proc[g] EXCEPT !.hup = "wait"])
    /\ UNCHANGED env

\* Mutant of EndWait: no timeout.
EndWaitOnSignal(g) ==
    /\ proc[g].hup = "wait" /\ proc[g].termSig
    /\ Now(g, [proc[g] EXCEPT !.hup = "stop"])
    /\ UNCHANGED env

\* The SIGTERM of the child, or the end of 30 s: the process ends either way.
EndWait(g) ==
    /\ proc[g].hup = "wait"
    /\ Now(g, [proc[g] EXCEPT !.hup = "stop"])
    /\ UNCHANGED env

-----------------------------------------------------------------------------
(***************************************************************************)
(* Clients, the administrator, the host and the service manager.           *)
(***************************************************************************)
\* A connection is accepted, or one that was dials its backend.
Connect(g) ==
    LET free == {c \in Conn : proc[g].conns[c] = 0}
        new  == NthFree(proc[g].fd, 1)
    IN
    /\ opened < MaxConns /\ opened' = opened + 1
    /\ free # {} /\ Free(proc[g].fd) # {}
    /\ \/ \E n \in Loops(proc[g]) : proc[g].fd[n] \in Listener
       \/ free # Conn
    /\ Now(g, [proc[g] EXCEPT !.fd[new] = ConnFile,
                              !.conns[Unused(free)] = new])
    /\ UNCHANGED <<links, public, hups, terms>>

\* A connection ends: its number is closed, whatever file has it by then.
Disconnect(g) ==
    /\ \E c \in Conn :
          /\ proc[g].conns[c] # 0
          /\ Now(g, [Close(proc[g], proc[g].conns[c]) EXCEPT !.conns[c] = 0])
    /\ UNCHANGED env

Clients == \E g \in Alive : Connect(g) \/ Disconnect(g)

\* SIGHUP ends a process whose HandleSIGHUP has not asked for it yet.
Hangup ==
    /\ hups < MaxHups /\ hups' = hups + 1
    /\ \E g \in Alive :
          Now(g, IF proc[g].hup \in {"off", "start"} THEN Gone
                 ELSE [proc[g] EXCEPT !.hupSig = TRUE])
    /\ UNCHANGED <<links, public, terms, opened>>

Kill ==
    /\ terms < MaxTerms /\ terms' = terms + 1
    /\ \E g \in Alive : Become(Terminated(proc, {g}))
    /\ UNCHANGED <<links, public, hups, opened>>

AddressUp ==
    /\ \E a \in Addr \ public : public' = public \cup {a}
    /\ UNCHANGED <<proc, unit, links, hups, terms, opened>>

\* Type=simple: when the main process has ended, what is left of the unit is
\* sent SIGTERM, then SIGKILL; Restart=always.
Reap ==
    /\ unit = "dead" /\ Alive # {}
    /\ proc' = Orphaned(Terminated(proc, Alive)) /\ unit' = "killed"
    /\ UNCHANGED env

ReapKill ==
    /\ unit = "killed"
    /\ \E g \in Alive : Now(g, Gone)
    /\ UNCHANGED env

Restart ==
    /\ unit \in {"dead", "killed"} /\ Alive = {}
    /\ unit' = Unused(Proc)
    /\ proc' = [proc EXCEPT ![unit'] = Started(None, Nowhere, <<>>)]
    /\ UNCHANGED env

Manager == Reap \/ ReapKill \/ Restart

-----------------------------------------------------------------------------
Main(g) ==
    \/ Setup(g) \/ BeginPort(g) \/ Listen(g) \/ EndPort(g) \/ ListenUDP(g)
    \/ Ready(g) \/ NotifyMain(g)
    \/ StopMain(g) \/ CloseMain(g) \/ CleanupMain(g)

Handler(g) ==
    \/ NotifyHup(g) \/ Upgrade(g) \/ UpgradeFails(g) \/ NotifyTerm(g)
    \/ EndWait(g) \/ StopHup(g) \/ CloseHup(g) \/ CleanupHup(g)

\* One daemon is being started.
Init ==
    /\ proc = [g \in Proc |-> IF g = Unused(Proc)
                              THEN Started(None, Nowhere, <<>>) ELSE Gone]
    /\ unit \in {Unused(Proc), "none"}
    /\ links = FALSE /\ public = UpFirst
    /\ hups = 0 /\ terms = 0 /\ opened = 0

System == Manager \/ \E g \in Proc : Main(g) \/ Handler(g)

Next == System \/ Clients \/ Hangup \/ Kill \/ AddressUp

\* The system does not stand still while a goroutine, the timer of 30 s or the
\* manager can take a step; connections, signals and addresses may or may not
\* come.  That Close returns assumes that somebody still connects to a port
\* with an accept under way.
Fairness == WF_vars(System)

Spec == Init /\ [][Next]_vars /\ Fairness

-----------------------------------------------------------------------------
(***************************************************************************)
(* Properties.                                                             *)
(***************************************************************************)
Process ==
    [pc : {"gone", "setup", "port", "listen", "udp", "ready", "notify",
           "serving", "close", "clean"},
     hup : {"off", "start", "idle", "spawned", "wait", "stop", "close", "clean"},
     parent : Proc \cup {None},
     announced : [Port -> Fd \cup {0}],
     todo : Seq(Port), left : SUBSET Addr,
     fd : [Fd -> File \cup {None}],
     saved : [Port -> Fd \cup {0}],
     listeners : [Port -> SUBSET Fd], conns : [Conn -> Fd \cup {0}],
     quit : BOOLEAN,
     mainSig : BOOLEAN, hupSig : BOOLEAN, termSig : BOOLEAN]

\* Type correctness; a child's parent is a living process.
TypeOK ==
    /\ proc \in [Proc -> Process]
    /\ \A g \in Alive : proc[g].parent \in Alive \cup {None}
    /\ links \in BOOLEAN /\ public \in SUBSET Addr
    /\ unit \in Alive \cup {"dead", "killed", "none"}
    /\ hups \in 0 .. MaxHups /\ terms \in 0 .. MaxTerms
    /\ opened \in 0 .. MaxConns

Accepts(g) == {proc[g].fd[n] : n \in Loops(proc[g])} \cap Listener
Serves(g, p) == \E a \in Addr : <<a, p>> \in Accepts(g)
ServesAll(g) == \A p \in Port : Serves(g, p)
Serving(g) == proc[g].pc \in {"ready", "notify", "serving"} /\ ~proc[g].quit
Told(r) == {r.announced[p] : p \in Port} \ {0}

\* A process that says it is ready has a listener for every port, its own or
\* what it found at a number it was told; and a port it has bound itself it goes
\* on accepting connections for, whatever else it opens and closes, unless the
\* number of that listener is one it was told.  So a daemon that was not
\* started by an upgrade serves every port.  (No more can be said of a child:
\* what it finds may be a connection or the listener of another port.)
OwnPortsServed ==
    \A g \in Proc : Serving(g) =>
        \A p \in Port :
            LET n == proc[g].saved[p] IN
            IF n = 0 THEN proc[g].announced[p] # 0 /\ proc[g].listeners[p] # {}
            ELSE n \in Told(proc[g]) \/ Serves(g, p)

\* A process that has been asked to stop, or that has started its successor,
\* ends, whatever the other process and its own other goroutine do.
Asked(g) ==
    \/ proc[g].mainSig
    \/ proc[g].hup \in {"spawned", "wait", "stop", "close", "clean"}
EndsWhenAsked == \A g \in Proc : Asked(g) ~> proc[g].pc = "gone"

\* Under a service manager the outage that an upgrade or a signal brings is
\* over in the end: one daemon serves every port, and the interfaces that an
\* exiting process has removed are there again.
Healthy == links /\ \E g \in Proc : Serving(g) /\ ServesAll(g)
Recovers == unit = "none" \/ <>[]Healthy

\* "Graceful Upgrade (Zero-Downtime Restart)": when no process is starting up,
\* no step leaves a port unserved that was served.
Settled ==
    \A g \in Alive : proc[g].pc = "serving" /\ proc[g].hup \notin {"off", "start"}
AllServed == \A p \in Port : \E g \in Proc, a \in Addr : <<a, p>> \in Accepts(g)
ZeroDowntime == [][Settled /\ AllServed => AllServed']_vars
=============================================================================

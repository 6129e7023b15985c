# A TLA+ model of shared-ip

shared-ip shares one public address between many hosts. An administrator lists
mappings (a domain and a listen port, an address to forward to) with short-lived
commands; a daemon listens on every port of the list, reads enough of each
connection to find the host it is for, and forwards it. This directory holds the
model of that program: what its parts keep, what they do, what can be said about
them, what TLC has checked and what TLAPS has proved. Paths below are those of the
repository, under `src/`.

## 1. Inventory

| Component | State | Operations | Talks to |
|---|---|---|---|
| config (`internal/config/config.go`) | the list of mappings of one process; one JSON file for all of them | Load, save, Add, Update, Delete, Reset, Get, the lookups | every command, the daemon |
| commands (`cmd/root.go`) | local variables of one process | add, update, delete, reset, list, show, daemon | config, dummy, certbot, proxies |
| dummy (`internal/dummy/dummy.go`) | the dummy interfaces of the host and their addresses | Setup, Teardown, Cleanup | ip(8) |
| certbot (`internal/certbot/certbot.go`) | certificate files | RequestCert, RenewAll, GetCertPaths, HasCerts | certbot(1), commands, TCP proxy |
| extractor (`internal/extractor/*.go`) | none: a function of a buffer | ExtractDomainIncremental, ExtractUDPDomain | both proxies |
| TCP proxy (`internal/proxy/tcp.go`) | one listener for each port and address, the certificate cache, per connection: preview, deadlines, two copying goroutines | acceptLoop, handleConnection, routeConnection, handleTLSTermination, bidirectionalCopy, handleSMTP, Stop | config, extractor, smtp |
| UDP proxy (`internal/proxy/udp.go`) | a table of sessions by client address, one backend socket each | handlePacket, readBackend, cleanupLoop, Stop | config, extractor |
| transparent dial (`internal/proxy/transparent.go`) | none | DialTransparentFallback: a transparent dial, then a plain one | both proxies |
| public addresses (`internal/proxy/ifaces.go`) | none | a filter over the kernel's list | both proxies |
| SMTP eater (`internal/smtp/*.go`) | none: calls on the streams of a connection | StuffSMTP, EatSMTP, ExtractRcptDomain | TCP proxy, port 25 |
| upgrade (`internal/upgrade/upgrade.go`) | inherited listeners, parent and child | HandleSIGHUP, doUpgrade, InheritListener, Ready | daemon, TCP proxy |
| service (`internal/service/service.go`) | a unit file | Install, Uninstall, Start, Stop, Restart, Status | systemctl, service |

What is hard in it:

- **Many processes, one file.** Every command is a process that loads the file,
  changes its own copy and writes the whole list back. The mutex of `Config`
  protects one process. `os.WriteFile` truncates before it writes.
- **Many processes, one host.** Commands and the daemon create and remove the same
  interfaces; `Setup` looks before it creates, `Cleanup` removes what it listed.
- **First match wins.** Every lookup takes the first mapping that matches, so the
  order of the list, wildcards, spellings and ports decide where a client goes.
- **Guessing from a prefix.** The extractor answers "done" or "more" for whatever
  part of the stream has arrived; segments end anywhere.
- **Deadlines and half-closed streams.** Three deadlines, two copying goroutines, and
  an end of stream that has to travel in each direction.
- **Sessions without locks.** Every datagram has a goroutine; handlers, readers, the
  cleaner and Stop remove sessions that may by then be somebody else's.
- **Answering ahead.** On port 25 the proxy answers for a backend it does not know
  yet, and later throws the backend's own answers away: the three sides must not shift.
- **Upgrades.** Parent and child overlap; they name descriptors by numbers, share bound
  addresses and interfaces, and a signal reaches every goroutine that asked for it.

What makes each component correct, in a sentence: the file keeps what was added and
never holds two mappings of one key or one without an address; the interfaces follow
the file; a name reaches the mapping of its own port, on no account one of several by
chance, and is shown a certificate that covers it; a connection is routed by the host
it carries, its bytes arrive once and in order, and its goroutines end; a UDP socket
is always somebody's to close, and a dead session is always somebody's to remove; a
mail reaches the backend of its recipient whole and no reply reaches the client before
the command it answers has reached the backend; a daemon that is told to end ends, one
that says it is ready serves the ports it has bound, and a managed one comes back.

## 2. Modules

| Module | Models | Extends |
|---|---|---|
| `Mappings` | the list operations of config, as operators | |
| `Registry` | the commands and the daemon as processes over file and interfaces | `Mappings` |
| `MappingStore` | the abstract table the commands promise | |
| `Routing` | the lookups, wildcards, case folding, the choice of TCP and UDP | `Mappings` |
| `Router` | the daemon choosing mapping and certificate for a sequence of connections | `Routing` |
| `Extractor` | ExtractDomainIncremental over the offsets it depends on | |
| `TcpConnection` | one connection from accept to its end | `Routing`, instance of `Extractor` |
| `UdpSessions` | the session table and everything that touches it | `Routing` |
| `Relay` | what the proxy promises for any connection, in the abstract | |
| `Smtp` | one connection on port 25, with the replies sent ahead and thrown away | `Routing`, instance of `TcpConnection` |
| `Upgrade` | daemons as processes: start, stop, signals, the hand-over by descriptors, the service manager | |
| `MappingsProofs`, `RegistryProofs`, `RoutingProofs`, `RouterProofs`, `TcpConnectionProofs`, `UdpSessionsProofs`, `SmtpProofs`, `UpgradeProofs` | theorems and proofs | the module named |
| `MCRegistry`, `MCRouter`, `MCTcpConnection`, `MCUdpSessions`, `MCSmtp`, `MCUpgrade` | small instances for TLC | the module named |

An operator with the comment *Mutant of X* is an alternative form of X with a
plausible mistake in it. No specification uses it. Putting it in the place of X must
make one of the properties fail: that is how we know the property can fail.

### Registry

A step is one access to something shared: reading the file, truncating it, writing
it, one call of ip(8). What a handler works out in between is part of the next step.
`file` is what a Load would find (`absent`, `empty` after a truncation, `torn`,
`json` with a list), `links` and `plugged` are the interfaces and their addresses.
For each process `pc` says where its handler stands; `cmd`, `mem`, `dummyIF`, `todo`
and `doomed` are its arguments, `cfg.Domains`, the variable `dummyIF`, the Setup
calls and the interfaces its Cleanup listed. `added` is a history variable.

- `Load`, `InitFile`, `Truncate`, `Write`, `WriteFails`, `OpenFails`: Load and save.
- `CheckLink`, `CreateLink`, `BringUp`, `CheckAddress`, `Plug`, `SetupFails`,
  `SkipAddress`: `dummy.Setup`, for the IPv4 address and then the IPv6 address of each
  mapping. Each is one question or one call; what it was told may have changed by the next.
- `BeginAdd` to `Finish`: handleAdd. `BeginUpdate`, `UpdateEntry`: handleUpdate.
  `Ask`, `Decline`, `ConfirmDelete`, `DropEntry`, `ConfirmReset`, `CleanupOne`,
  `ResetFile`: handleDelete and handleReset with their prompts. `BeginDaemon` to
  `DaemonStopped`: handleDaemon.
- `Faults` names what may go wrong: `ip` a call of ip(8), `write` a save, `listen` a
  listener, `crash` a process killed at any point.

`MappingStore` is the abstract specification: a table by domain and port that a
command changes at one key at most, or clears; an update never takes a certificate away; a
save that is interrupted loses all of it and never part of it. `Registry` with one
terminal implements it under the mapping `StoredTable` (property `ImplementsStore`).

### Routing and Router

A name is the sequence of its labels and `Lower` folds the case of a label, so the
wildcard rule (`matchDomainFold`), which compares what follows the star, is a
comparison of labels. `Router` starts the daemon with a list, keeps the certificate cache across
connections and records the last one in `last`. The certificate of a mapping is the
file of its own domain; the cache is indexed by what the client asked for. Looking it up
and storing it are one step: two connections that both miss store what each would have
stored alone.

### Extractor and TcpConnection

A stream is a record of the offsets the code compares with: the end of the host name,
the end of an HTTP method, the first two bytes read as a DNS length, the end of the
client's handshake, the end of an ACME path. `Extract(stream, n)` is the result for a
buffer of n bytes, with the tests in the code's order, so a stream may be taken for
another protocol. `stream.cuts` are the places where a segment may end. `knownAt` is where
a text shows what it is, at the end of its method or greeting, `hostAt` where its host ends:
between them the code waits, before the first it gives up. `WellFormed` is what the formats
of TLS and DNS say of these offsets.

`TcpConnection` follows handleConnection: `ReadPreview` (one turn of the read loop),
`ReadFails` (5 s deadline, end, error), `Route`, `Handshake` (10 s deadline), `Dial`,
`WriteFirst` (the preview is replayed), `CopyUp`, `UpEnds`, `CopyDown`, `DownEnds`,
`BothDone`. The peers may send, half-close or reset at any time. `got` are the ranges
of the client's stream that the backend has received.

`Relay` is the abstract specification of a connection: the destination is chosen once,
the backend gets one growing range of the client's stream, the client a growing number
of answers, and neither gets anything after it was told the end. `TcpConnection` and
`Smtp` implement it (property `ImplementsRelay`), whatever they read ahead, replay,
decrypt, answer or throw away on the way.

### UdpSessions

A session is its socket. `packet[x]` is what handler x works on and where it stands;
`reader[s]` is the readBackend of a session. Each operation on the table or on a
socket is a step of its own; a deletion removes whatever the client's key then holds,
as `sync.Map.Delete` does.

### Smtp

On port 25 `handleConnection` hands over to `handleSMTP`. A mail is a record of offsets:
where each command ends, and how many bytes hold the domain of the first recipient, or
what looks like a domain before that. Replies are counted: reply n + 1 answers command
n, reply 1 is the banner. The end of the connection is that of `TcpConnection`: `Smtp`
takes `Return`, `WriteFirst`, `CopyUp`, `UpEnds` and `BothDone` and the peers' FIN and
reset from an instance of it over the same variables, and adds `manner`, how the
backend speaks, and `eaten`, how many of its replies are gone.

- `StuffSMTP`, `StuffFails`: the three replies sent ahead; a deadline of 30 s is armed.
- `ReadCommands`, `ReadFails`: the read loop with `ExtractRcptDomain` and the choice of
  a mapping.
- `Dial`, `Eat`, `EatFails`, `Forward`: handleSMTPForward with `EatSMTP`.
- `CopyUp`, `CopyDown`, `DownEnds`, `BothDone`: bidirectionalCopy.
- A client waits for the banner, and for a reply before its next command unless it
  pipelines. A backend of manner `turn` answers a command when it has read it; one of
  manner `ahead` gives its first three replies at once, as this proxy does itself.

### Upgrade

A process is a record: where main stands (`pc`), where `HandleSIGHUP` stands (`hup`),
its table of descriptors, the listeners saved for an upgrade, those each proxy accepts on
(`listeners`), the descriptors of accepted and dialled connections (`conns`), the signal
channels. A TCP listener is the address and port it is bound to; it stays bound while any
process has it in its table.

- `Setup` to `NotifyMain`: handleDaemon up to its wait. `BeginPort`, `Listen`, `EndPort`
  are TCPProxy.Start of one port: inherit, or bind each public address; without any
  listener the process ends. `ListenUDP` is UDPProxy.Start, `Ready` the signal to the
  parent.
- `StopMain`, `CloseMain`, `CleanupMain`; `StopHup`, `CloseHup`, `CleanupHup`: the two
  goroutines that end the process. The second Stop closes a closed channel and panics.
  Closing is a step of its own because it may wait: `f.Fd()` (`upgrade.go:183`) puts the
  open file behind the listener into blocking mode, and Close then waits for the accept
  that is under way.
- `Upgrade`: doUpgrade. The duplicates get the lowest free numbers here and are passed
  as 3, 4, ... in the order of a Go map, so every order is tried; `Announced` are their
  numbers here. `Inherits` and `Inherit` are InheritListener: the child takes what it has
  at that number if it is a TCP socket, be it a connection, and closes it (`Close`) if not.
  Opening a descriptor fails when none below `MaxFd` is free (`Listen`, `HasFiles`).
- `NotifyTerm`, `EndWait`: the wait for the child, ended by SIGTERM or 30 s.
- `Connect`, `Disconnect`: a connection takes the lowest free number, from the moment the
  first accept loop runs, while later ports are still being started; its end closes that
  number, whatever file it is by then.
- `Hangup`, `Kill`: signals of the administrator; a process that has not asked for one
  yet ends. `AddressUp`: an address comes up between two starts.
- `Reap`, `ReapKill`, `Restart`: what the unit of `service.go` asks of the manager
  (`Type=simple`, `Restart=always`). `unit = "none"` is a daemon started by hand.

## 3. Runs

| Run | Question | States | Result |
|---|---|---|---|
| `concurrent` | can two commands on one file ever leave duplicate keys, a mapping without an address or another order? | 1 344 059 | they cannot |
| `daemon` | a command beside a daemon on the same interfaces, with ip(8), saves and listening that fail and processes that are killed: is the file still the abstract table, lost only as a whole, and does every command return? | 197 793 | it is and they do |
| `router` | where does every name on every port go, and with which certificate? | 53 030 | holds |
| `tcp` | one connection of every protocol, cut at every interesting offset, with peers that misbehave: is it a `Relay`, is it routed by its host, does it end? | 21 576 | holds |
| `udp` | handlers, readers, cleaner and Stop on one table: is a socket ever left behind, a dead session ever left in the table, and is the socket of a silent backend closed in the end? | 244 248 | never, never, and it is |
| `smtp` | port 25: mails with an early, late, missing recipient, in turn or pipelined, backends of both manners: still a `Relay`? | 19 599 | holds |
| `upgrade` | a daemon on two ports with a connection, one SIGHUP and one SIGTERM at any moment, a second address that comes up: does it serve the ports it has bound, end when it should and come back? | 270 224 | it does |

The other runs check one statement of the documentation, a comment or a test each,
and TLC shows how the code departs from it:

| Run | Statement | What happens |
|---|---|---|
| `lost_add` | `AddedAreListed` | two adds at once, both report success, one is lost |
| `shared_interface` | `ServicesCanBind` | `delete` takes the interface of its domain away from a mapping of another port, or of another domain whose interface name is cut to the same 15 characters, and even if there is no mapping to delete (`root.go:493`) |
| `tcp_http` | `RoutedByHost` | an HTTP request is held as an incomplete DNS message and closed after 5 s |
| `smtp_in_turn` | `Synchronised` | a backend that speaks in turn gives only its banner: `EatSMTP` waits for replies to commands that were not sent yet |
| `upgrade_downtime` | `ZeroDowntime` | the child cannot bind what its parent holds and ends; the parent waits 30 s and ends too |

What the runs leave out on purpose, because the code behaves otherwise than a reader
of its documentation may expect:

- Streams of `tcp` contain no plain HTTP request: the run `tcp_http` has it.
- `NeverForwardedUnnamed` has one exception, a DNS message of which two or three bytes have
  been read: the test of `sni.go:49` wants four, and `sni.go:75` then gives up, so the
  connection is forwarded by port. `sni.go:18` asks for more bytes there. `DnsShort` in
  `MCTcpConnection` reaches it, and without the exception TLC finds the property violated.
- `OwnPortFirst` and `NeverGuesses` state the fallbacks as they are: a name without a
  mapping on its port goes to its mapping on another port, and a name without any
  mapping goes to the only mapping of the port. `cmd/root.go:117` speaks of "the same
  port", `test.sh:256` of rejecting an unmapped domain.
- Every domain has an interface of its own in `OwnIfName`, which the runs `concurrent`,
  `daemon` and `lost_add` use: none of their properties is about interfaces.
  `shared_interface` has one for both domains. For a mapping that shares its interface with
  no other the statement holds; that is proved (`ServicesFindTheirAddress`).
- An update builds its mapping without `TLSTerminate`, which `Config.Update` always
  copies: every update turns termination off (`root.go:439`, `config.go:98`). The model
  does the same (`Revised`); no property is about it.
- With TLS terminated the end of the backend's reply does not travel: `CloseWrite` is
  called on a `*net.TCPConn` only (`tcp.go:395`). `PlainEofReachesClient` is about
  connections that are passed through.
- `RoutedByRecipient` is about names that have arrived whole. A segment that ends inside
  a recipient's name, after one of its dots, is routed by what is there (`CutAfter` in
  `MCSmtp`). Parameters after the address of a RCPT TO make it no domain: such a mail is
  one of `Nobody`.
- The 30 s deadline of the command phase is never cleared (`tcp.go:179`) and ends the
  client's half of the copy of any mail that takes longer, although `tcp.go:138` says to
  clear such a deadline before routing and `eater.go:14` and README.md:217 describe a copy
  without a limit. The model does as the code does; `RecipientInTime` is about the phase
  the deadline is meant for.
- A client that leaves while `EatSMTP` waits is not noticed; `HandlerReturns` is about
  both peers having ended.
- `OwnPortsServed` says of a child only that it has a listener for each port, and that the
  ports it has bound itself, at numbers it was not told, are served. It does not say that
  a child that is ready serves every port, because that is false: the number it is told for
  a port can by then be that of a connection, which `net.FileListener` (`upgrade.go:86`)
  takes as it takes a listener, or of a listener of another port. TLC finds this on the
  instance of `upgrade`: the second address comes up, the child binds it for the first port
  while its parent holds the other, accepts a connection, and takes that connection for the
  listener of the second port.
- Nor is it said that two processes never accept on one listener. That they do is the
  purpose of the hand-over (README.md:231); that they do not is the defect that
  `upgrade_downtime` shows.
- Descriptors passed to a child and not found by it stay open in it: they keep the
  addresses bound with nobody accepting, which is why the child fails to bind even when
  its parent is gone.
- Stop of the UDP proxy can miss the socket of a session that was overtaken, or stored
  after Stop passed. It is closed by its reader or by the end of the process:
  `NoSocketLeaks` and `SocketsReclaimed` hold with Stop at any time.

### Bounds, and why they are enough

- Registry: two domains, two ports, at most two IPv4 addresses and one IPv6 address;
  what a handler does depends on equality of keys and addresses and on which of them
  are absent. Two terminals give every pairwise race. There
  are no counters: every reachable list is finite because keys are unique.
  The commands of each run are chosen for its question and named in `MCRegistry`.
- Router: every list of up to `MaxMappings` = 2 mappings out of six candidates, in
  every order: two spellings of a name, a wildcard above a name of another port, a
  name with an IPv6 address only, and port 25. A first match is decided between two.
- TcpConnection: one connection, because connections share only the list and the
  certificate cache. Cuts lie before, at and after every offset the code looks at,
  and around `MaxLookahead` = 4096, the value of the code. `MaxReplies` = 1: a reply
  is only counted, and a second would repeat the first.
- UdpSessions: one client, because everything is done to the entry of one client and
  to its sockets; two handlers at once, enough for one to overtake the other; two
  sockets (`Socket` bounds the dials of a behaviour), one of a backend that answers and
  one of a silent one.
- Smtp: one connection, for the reason of TcpConnection; lists with one mapping of the
  port, two, and one of another port; nine mails. `Ahead` = `Stuffed` = 3 are the code's.
  A backend has three replies of its own to give before it only answers.
- Upgrade: two processes at once (`Proc`); two ports, so that a connection of the first can
  be there before the second is started; one address at the start and one that may come up,
  so that a child may bind one and miss the other; one connection, opened once; `MaxFd` = 12
  is reached by a daemon that serves both addresses beside a connection; `MaxHups` = `MaxTerms` = 1.
  The safety properties were also checked once with two connections in a behaviour,
  one after the other (1 355 496 states) or at once (2 855 742). The
  instance of `upgrade_downtime` has no connection and no SIGTERM.
- `daemon` has an add with a certificate, an update, a delete and the daemon on one
  mapping; the daemon alone, beside each of them, gives every pairwise race, and the
  four faults multiply the rest.

`CHECK_DEADLOCK FALSE` appears where the system stops: a connection that has ended,
a UDP proxy that has been stopped, a daemon without a manager that has ended.

### Fairness

- `Registry!FairSpec`: the operating system runs every process that can run (weak
  fairness of `Step(p)`); nothing is assumed of what an administrator types.
- `TcpConnection!Fairness`: weak fairness of each of the three goroutines. A deadline
  that is armed makes the end of its read possible at any time, so that it ends is
  part of the same fairness. Peers are not fair: they may stay silent for ever.
- `UdpSessions!FairSpec`: handlers and readers run; a read of a socket that is
  `Silent` or closed ends (30 s deadline, error). A backend that answers keeps its
  session alive, which is why reclaiming is stated for silent ones.
- `Smtp!Fairness`: the handler, the two copies and the replies of a backend that may
  speak. Without the last `smtp_in_turn` would only show a backend that says nothing.
- `Upgrade!Fairness`: weak fairness of all goroutines, timers and the manager together:
  the system takes a step while it can. Every loop among them is finite, so nothing
  stronger is needed. Signals, addresses and connections are not fair. That Close of a
  listener returns is assumed: in the code it needs one more client on a port whose accept
  is under way in blocking mode. Without one, Stop hangs.

## 4. Proofs

TLAPS checks, for all values of the constants that satisfy their assumptions:

| Theorem | Module | Says |
|---|---|---|
| `TypeCorrect` | `RegistryProofs` | the type invariant of Registry |
| `KeysAreUnique` | `RegistryProofs` | no list, in the file or in memory, has two mappings of one key |
| `AddressesArePresent` | `RegistryProofs` | no list has a mapping without an address |
| `SavesKeepOrder` | `RegistryProofs` | a save keeps the order of the mappings it does not drop, for any number of terminals |
| `AddedStayListed` | `RegistryProofs` | with one writer, what an add has reported stays listed until it is deleted or reset |
| `StoreIsImplemented` | `RegistryProofs` | with one writer, `Registry` implements `MappingStore` |
| `ServicesFindTheirAddress` | `RegistryProofs` | with one terminal alone, every address of a mapping that shares its interface with no other is on it between commands |
| `NothingIsLeftBehind` | `RegistryProofs` | and, shared or not, there is no interface that is not of a mapping |
| `TypeCorrect` | `RouterProofs` | the type invariant of Router |
| `CertificatesCoverNames` | `RouterProofs` | a configured name is shown a certificate it matches |
| `OwnPortComesFirst` | `RouterProofs` | a connection leaves its port only for a name its port has no mapping for |
| `NothingIsGuessed` | `RouterProofs` | a name without any mapping goes to the only mapping of the port or nowhere |
| `SpellingsAgree` | `RouterProofs` | two spellings of a name are routed alike |
| `TypeCorrect` | `TcpConnectionProofs` | the type invariant of a connection, the bound of its preview included |
| `StreamsArriveIntact` | `TcpConnectionProofs` | the backend gets the client's stream once, in order, without a gap |
| `ConnectionsRelay` | `TcpConnectionProofs` | `TcpConnection` implements `Relay` |
| `HostsDecide` | `TcpConnectionProofs` | the backend of a TLS or DNS stream is that of the host it carries |
| `NobodyIsForwardedUnnamed` | `TcpConnectionProofs` | and one with a host is never forwarded without it, wherever it is cut but after two or three bytes of a DNS message |
| `TypeCorrect` | `SmtpProofs` | the type invariant of a mail's connection |
| `MailsArriveIntact` | `SmtpProofs` | the backend gets the client's commands once, in order, without a gap |
| `RecipientsDecide` | `SmtpProofs` | the backend is that of the first recipient's domain, once the name has arrived |
| `NothingIsAnsweredBlindly` | `SmtpProofs` | no reply reaches the client before the command it answers has reached the backend, but for the three sent ahead |
| `MailsRelay` | `SmtpProofs` | `Smtp` implements `Relay` |
| `TypeCorrect` | `UpgradeProofs` | the type invariant of the daemons |
| `OwnPortsAreServed` | `UpgradeProofs` | a process that says it is ready has a listener for every port, and serves those it has bound itself at numbers it was not told |
| `TypeCorrect` | `UdpSessionsProofs` | the type invariant of the session table |
| `SocketsAreOwned` | `UdpSessionsProofs` | an open socket always has a goroutine that will close it |
| `DeadSessionsGo` | `UdpSessionsProofs` | a session whose socket is closed is about to be removed |

*Registry.* The assumptions are `NoneAssumption` (the empty string is no address)
and `RegistryAssumption` (types of the constants; the file starts absent or as an
empty list). `KeysUnique` and `AddressPresent` are not inductive: an add appends
without looking again, an update merges into whatever position its key has. What
carries them is `IInv`: types, both properties, and what a handler knows at
each label: between its check and its save an add holds a key that is not in its own
list, an update one that is, with an address left. The snapshot of a process is its
own, so no other process can disturb that. `MappingsProofs` has the lemmas on the
list operations: Add, Update and Delete keep types, unique keys and addresses, and
what they do to the set of keys.

`SavesKeepOrder` looks at the steps by kind (`StepKinds`): a step leaves the file alone,
ends its process or begins a save, and only a save that begins changes the list in memory,
each in one of four ways (`SaveKinds`).
`AddedStayListed` and `StoreIsImplemented` assume `OneWriter(c)`: one terminal, and no
daemon that starts without a file. Such a daemon writes an empty list, and may truncate
the file while a command saves; the add that was reported is then lost, as in `lost_add`.
Their invariant is `InStep`: the memory of the only writer and the file agree whenever it
is not about to save. With it every step is one of `MappingStore` under `StoredTable`, or
a stutter.

`ServicesFindTheirAddress` and `NothingIsLeftBehind` assume `Alone(c)`: one terminal, no
daemon, and no fault but a port that cannot be listened on. None can be dropped: a daemon
that ends removes every interface, a command that fails half-way leaves what it did.
The first is about the mappings that are `Apart`, whose interface no add, update or delete for
another mapping names; the others lose it to a delete (`shared_interface`). The second is
about every interface. The invariant is `HostInv`, which says at each label of a command
which interfaces there are and which addresses they have, given the calls it still has to
make.

*Router.* The cache is filled also by connections that fell back to a mapping that
does not match, so `CertCoversName` needs an invariant on the cache itself: a
certificate cached under a configured name is of a domain that name matches. It
holds because a configured name never falls back: `RouteTCP` then returns a match.
The other three follow from `LastRouted`, that the last connection went where the lookups
sent it, and from what `RoutingProofs` proves of the lookups: `FirstOf` is the first of
the positions it is given, the fallback finds the only mapping of a port
(`OnlyOnPortIsAlone`), two spellings match the same mappings (`SpellingsMatch`).

*TcpConnection.* The assumption is `TcpAssumption`: the types of lists and streams. The
theorems hold for streams of any length, cut anywhere, and for every `PeerFaults`;
`StreamIntact` is not inductive, because it does not say when nothing has been forwarded
yet. `Staged` does: until the copies start the backend has got nothing and no side was
told the end, a connection is in the handshake only if it is terminated, and a
terminated one that has copied nothing stands at the end of the handshake. `Copying`
adds that a copy that runs has not told its side the end. With these each step of a
connection is `Choose`, `Forward`, `Answer`, `Tell` or a stutter of `Relay`, under the
mapping written at `Promise`; the step lemma is `RelayStep`.
`HostsDecide` and `NobodyIsForwardedUnnamed` are about streams of TLS and of DNS (`Framed`),
however they are cut: these are recognised by what they are, while the first bytes of a text
are taken for a DNS length (`tcp_http`). That a DNS message is found as soon as it is whole
needs `WellFormed`, which TLC evaluates for every stream of the runs. The
invariant is `Looked`: what has been decided follows from `Extract` of what was read.

*Smtp.* The same stages, and two invariants of its own. `Routed`: the mapping that was
chosen is that of the recipient in the part that was read. `InTurn`: a backend has never
given more replies than its manner allows for the commands that were passed to it
(`MaySay`). As the client is shown only what the backend gave, less what was thrown away,
after the three replies sent ahead, `NoFalseAnswer` follows by arithmetic.

*Upgrade.* The assumption is `UpgradeAssumption`: ports without repetition, at least one
address up, and a limit on descriptors that leaves room for those a process starts with.
A descriptor is closed by the one who opened it, or by
InheritListener because it was told its number (`Told`), or by the end of everything. So
whatever a process has opened at a number it was not told is still there until Stop: this is
`SavedOK` for the first listener of each port, and `ConnsOK` for connections, which is
needed because the end of a connection closes a number, and must not be that of a listener.
Opening takes free numbers only (`NthFreeIsFree`, `OpenAllFills`), so it overwrites nothing
(`TableKeeps`). `BegunOK` adds that a port that is started and not saved has been inherited,
and the inductive invariant is `IInv == TypeOK`, with `ProcOK` of each process. Nothing is
assumed of how many descriptors, connections or processes there are, nor of the order of
the hand-over: what a process finds at a number it was told may be anything.

*UdpSessions.* `NoSocketLeaks` needs only types: a socket passes from the handler that
dialled it to its reader. `NoDeadSession` is proved as `Attended`, that every session in
the table, its socket closed or not, has a goroutine that will remove it. What carries
it is `Attributed`: a socket is dialled once and for one client, and the session found
in the table under a client was dialled for that client, so that a reader that removes
"whatever its client has" does remove its own session if that is still there.

### Model-checked only

- Liveness: `CommandsReturn`, `AllForwarded`, `Decides`, `HandlerReturns`,
  `PlainEofReachesClient`, `SocketsReclaimed`, `RecipientInTime`,
  `EndsWhenAsked`, `Recovers` (fairness is out of the prover's reach).
- `RoutedByHost` and `NeverForwardedUnnamed` of SSH, HTTP and other streams; of an HTTP
  request the first fails (`tcp_http`). What is about one terminal is not true of two (`lost_add`).

## 5. Not modelled

- `internal/service`, the installation scripts, `test.sh`: I/O without state of their
  own, but for what the installed unit makes of the daemon (`Upgrade`). `test.sh` gives
  `--port=` where `parseAddFlags` reads `--localport=`. The sysvinit script, which starts
  a daemon without a manager, is `unit = "none"`; its pid file is left out.
- In `Upgrade`: what becomes of the connections themselves, which are in `TcpConnection`;
  the UDP sockets that sessions dial; the fallback to all addresses when
  there is no public one, the effect on a Go program of losing a descriptor of its
  runtime, and the file and mappings of the daemon, which are in `Registry`.
- In `Smtp`: the text of commands and replies, and multi-line replies, which are one.
- The bytes of TLS, QUIC, DNS and HTTP messages: a parser succeeds at an offset.
- Which addresses of the kernel's list are public.
- Argument parsing. A run chooses from commands that parse. An update that gives
  `--localipv4=` with an empty value is not among them: the code counts it as a
  request and keeps the old address.
- Certificate renewal on disk and its reload (the cache is never refreshed).
- Time: a deadline may end its wait at any moment while it is armed.

## 6. Plan

Order: the registry first, because everything else reads its file; then routing,
connections and sessions; then port 25 and the hand-over. These are written, checked and
proved about: every safety property of a passing run and the refinements of both abstract
specifications are theorems. What is left, in this order:

1. The interfaces beside a daemon: which part of `Alone` can be exchanged for what the
   daemon itself guarantees while it serves.
2. The life of the proxies in one daemon composed with their sessions: Stop of several
   ports while connections and sessions live.

------------------------------ MODULE Registry ------------------------------
(***************************************************************************)
(* The shared-ip commands as processes over the two things they share: the *)
(* config file and the dummy interfaces of the host.                       *)
(*                                                                         *)
(* Every invocation is a process of its own (cmd/root.go): it loads the    *)
(* file once, works on that snapshot, and saves the whole list back.  The  *)
(* mutex of config.Config protects the list inside one process; nothing is *)
(* locked between processes.  A save is os.WriteFile, which truncates the  *)
(* file in one step and writes it in another.  The daemon is one more      *)
(* process: it loads the same file, plugs every address and never loads    *)
(* the file again.                                                         *)
(*                                                                         *)
(* One step is one access to the shared state: a read, a truncation or a   *)
(* write of the file, one call of ip(8).  What a handler computes in       *)
(* between touches only its own memory and is part of the next step.       *)
(***************************************************************************)
EXTENDS Mappings

CONSTANTS
    IfOf,         \* [Domain -> IfName], the operator dummy.ifName
    Cli,          \* terminals running one command at a time
    Daemon,       \* the daemon process
    Commands,     \* the commands that may be given
    Faults,       \* what may go wrong, a subset of FaultKinds
    InitialFiles  \* the config file before the first command

FaultKinds == {"ip", "write", "listen", "crash"}

Proc == Cli \cup {Daemon}

Command ==
    [op : {"add", "update", "delete", "reset", "list", "daemon"},
     domain : Domain, port : Port,
     ip4 : IPv4 \cup {None}, ip6 : IPv6 \cup {None},
     clear4 : BOOLEAN, clear6 : BOOLEAN,
     certbot : BOOLEAN, tls : BOOLEAN]

\* The file holds a list, or nothing a Load can parse.
File == [kind : {"absent", "empty", "torn", "json"}, maps : Seq(Mapping)]
NoFile   == [kind |-> "absent", maps |-> <<>>]
Empty    == [kind |-> "empty",  maps |-> <<>>]
Torn     == [kind |-> "torn",   maps |-> <<>>]
Json(ms) == [kind |-> "json",   maps |-> ms]

ASSUME RegistryAssumption ==
    /\ IfOf \in [Domain -> IfName]
    /\ Daemon \notin Cli
    /\ Commands \subseteq Command
    /\ Faults \subseteq FaultKinds
    /\ InitialFiles \subseteq {NoFile, Json(<<>>)}
    /\ \A S \in SUBSET (Domain \X Port) : None \notin [S -> Mapping]

VARIABLES
    file,     \* the config file
    links,    \* the dummy interfaces that exist
    plugged,  \* the <<interface, address>> pairs assigned
    pc,       \* where the command of each process stands
    cmd,      \* its arguments
    mem,      \* its cfg.Domains
    dummyIF,  \* its variable dummyIF
    todo,     \* the addresses it still has to set up
    doomed,   \* the interfaces its Cleanup still has to remove
    added     \* history: the keys reported as added and not removed since

host  == <<links, plugged>>
local == <<cmd, mem, dummyIF, todo, doomed>>
vars  == <<file, links, plugged, pc, cmd, mem, dummyIF, todo, doomed, added>>

-----------------------------------------------------------------------------
(***************************************************************************)
(* What a command works out from its arguments and its snapshot.           *)
(***************************************************************************)
CmdKey(c)    == <<c.domain, c.port>>
Known(c, ms) == CmdKey(c) \in Keys(ms)
Old(c, ms)   == Get(ms, CmdKey(c))

\* The addresses of the mapping command c asks for on list ms: those of the
\* arguments, or for an update the old ones with the arguments merged in.
Final4(c, ms) == CASE c.op = "add" -> c.ip4
                   [] c.op # "add" /\ c.clear4 -> None
                   [] OTHER -> IF c.ip4 # None THEN c.ip4 ELSE Old(c, ms).ip4
Final6(c, ms) == CASE c.op = "add" -> c.ip6
                   [] c.op # "add" /\ c.clear6 -> None
                   [] OTHER -> IF c.ip6 # None THEN c.ip6 ELSE Old(c, ms).ip6

HasAddress(c, ms) == Final4(c, ms) # None \/ Final6(c, ms) # None

\* The DomainMapping an add builds; certbot fills in the certificate later.
Asked(c, ms, iface, cert) ==
    [domain |-> c.domain, port |-> c.port,
     ip4 |-> Final4(c, ms), ip6 |-> Final6(c, ms),
     iface |-> iface, cert |-> cert, tls |-> c.tls]

\* The DomainMapping an update builds has neither a certificate nor
\* TLSTerminate.
Revised(c, ms, iface) == [Asked(c, ms, iface, FALSE) EXCEPT !.tls = FALSE]

\* The Setup calls for a list of mappings: each mapping in turn, IPv4 first.
Setups(ms) ==
    [n \in 1 .. 2 * Len(ms) |->
        LET m == ms[(n + 1) \div 2]
        IN  <<IfOf[m.domain], IF n % 2 = 1 THEN m.ip4 ELSE m.ip6>>]

-----------------------------------------------------------------------------
(***************************************************************************)
(* The steps the handlers are made of.                                     *)
(***************************************************************************)
Goto(p, label) == pc' = [pc EXCEPT ![p] = label]

\* The process ends, whatever its exit status.
Exit(p) ==
    /\ Goto(p, "idle")
    /\ cmd' = [cmd EXCEPT ![p] = None]
    /\ mem' = [mem EXCEPT ![p] = <<>>]
    /\ dummyIF' = [dummyIF EXCEPT ![p] = None]
    /\ todo' = [todo EXCEPT ![p] = <<>>]
    /\ doomed' = [doomed EXCEPT ![p] = {}]

\* saveUnsafe up to the truncation of the file; Write is its second half.
Saving == {"save_init", "save_added", "save_last"}
AfterSave == [save_init |-> "begin", save_added |-> "added",
              save_last |-> "finish"]

Truncate(p, ms, label) ==
    /\ mem' = [mem EXCEPT ![p] = ms]
    /\ file' = Empty
    /\ Goto(p, label)
    /\ UNCHANGED <<host, cmd, dummyIF, todo, doomed>>

\* Teardown, and one round of Cleanup: "ip link del".  A failure is logged.
Unlink(i) ==
    \/ /\ links' = links \ {i}
       /\ plugged' = {x \in plugged : x[1] # i}
    \/ /\ "ip" \in Faults
       /\ UNCHANGED host

-----------------------------------------------------------------------------
(***************************************************************************)
(* Loading the file.                                                       *)
(***************************************************************************)
Load(p, c) ==
    /\ pc[p] = "idle"
    /\ (c.op = "daemon") <=> (p = Daemon)
    /\ file.kind \in {"json", "absent"}
    /\ cmd' = [cmd EXCEPT ![p] = c]
    /\ mem' = [mem EXCEPT ![p] = file.maps]
    /\ Goto(p, IF file.kind = "json" THEN "begin" ELSE "init")
    /\ UNCHANGED <<file, host, dummyIF, todo, doomed, added>>

\* Every command of a file that does not parse ends at once.
Refused(p) ==
    /\ pc[p] = "idle"
    /\ file.kind \in {"empty", "torn"}
    /\ UNCHANGED vars

\* No file was found: Load saves the empty list.
InitFile(p) ==
    /\ pc[p] = "init"
    /\ Truncate(p, <<>>, "save_init")
    /\ UNCHANGED added

(***************************************************************************)
(* The second half of a save.  If another process has written the file     *)
(* since this one truncated it, the shorter text may leave a tail of the   *)
(* longer one behind.                                                      *)
(***************************************************************************)
Overwritten(p) ==
    {Json(mem[p])} \cup
    (IF file \in {Empty, Json(mem[p])} THEN {} ELSE {Torn})

Write(p) ==
    /\ pc[p] \in Saving
    /\ file' \in Overwritten(p)
    /\ Goto(p, AfterSave[pc[p]])
    /\ UNCHANGED <<host, local, added>>

\* The save returns an error, before or after part of the text was written.
\* An add whose certificate was being saved only warns.
WriteFails(p) ==
    /\ pc[p] \in Saving
    /\ "write" \in Faults
    /\ file' \in {file, Torn}
    /\ IF pc[p] = "save_last" /\ cmd[p].op = "add"
       THEN Goto(p, "finish") /\ UNCHANGED local
       ELSE Exit(p)
    /\ UNCHANGED <<host, added>>

-----------------------------------------------------------------------------
(***************************************************************************)
(* dummy.Setup for each address in turn.  A failure is a warning: the      *)
(* command goes on with the next address.                                  *)
(***************************************************************************)
Iface(p) == Head(todo[p])[1]

\* The mapping has no address of this family.
SkipAddress(p) ==
    /\ pc[p] = "setup" /\ todo[p] # <<>> /\ Head(todo[p])[2] = None
    /\ todo' = [todo EXCEPT ![p] = Tail(@)]
    /\ UNCHANGED <<file, host, pc, cmd, mem, dummyIF, doomed, added>>

\* Mutant of CheckLink: an empty address is not skipped.
CheckLinkAlways(p) ==
    /\ pc[p] = "setup" /\ todo[p] # <<>>
    /\ Goto(p, IF Iface(p) \in links THEN "up" ELSE "create")
    /\ UNCHANGED <<file, host, local, added>>

CheckLink(p) ==
    /\ pc[p] = "setup" /\ todo[p] # <<>> /\ Head(todo[p])[2] # None
    /\ Goto(p, IF Iface(p) \in links THEN "up" ELSE "create")
    /\ UNCHANGED <<file, host, local, added>>

CreateLink(p) ==
    /\ pc[p] = "create"
    /\ Iface(p) \notin links
    /\ links' = links \cup {Iface(p)}
    /\ Goto(p, "up")
    /\ UNCHANGED <<file, plugged, local, added>>

\* "ip link set up"
BringUp(p) ==
    /\ pc[p] = "up"
    /\ Iface(p) \in links
    /\ Goto(p, "look")
    /\ UNCHANGED <<file, host, local, added>>

\* Setup returns the interface: the command remembers it, the daemon does not.
SetupReturns(p) ==
    /\ dummyIF' = [dummyIF EXCEPT
                     ![p] = IF cmd[p].op = "daemon" THEN None ELSE Iface(p)]
    /\ todo' = [todo EXCEPT ![p] = Tail(@)]
    /\ Goto(p, "setup")
    /\ UNCHANGED <<file, links, cmd, mem, doomed, added>>

\* ipExistsOnInterface: of an interface that is gone it says no.
CheckAddress(p) ==
    /\ pc[p] = "look"
    /\ \/ Head(todo[p]) \in plugged /\ SetupReturns(p) /\ UNCHANGED plugged
       \/ /\ Head(todo[p]) \notin plugged
          /\ Goto(p, "assign")
          /\ UNCHANGED <<file, host, local, added>>

\* "ip addr add"
Plug(p) ==
    /\ pc[p] = "assign"
    /\ Iface(p) \in links /\ Head(todo[p]) \notin plugged
    /\ plugged' = plugged \cup {Head(todo[p])}
    /\ SetupReturns(p)

\* Another process made or removed the interface meanwhile, or assigned the
\* address, or ip(8) failed.
SetupCanFail(p) ==
    \/ pc[p] = "create" /\ Iface(p) \in links
    \/ pc[p] \in {"up", "assign"} /\ Iface(p) \notin links
    \/ pc[p] = "assign" /\ Head(todo[p]) \in plugged
    \/ pc[p] \in {"create", "up", "assign"} /\ "ip" \in Faults

\* Mutant of SetupFails: the address is tried again.
SetupRetries(p) ==
    /\ SetupCanFail(p)
    /\ Goto(p, "setup")
    /\ UNCHANGED <<file, host, local, added>>

SetupFails(p) ==
    /\ SetupCanFail(p)
    /\ todo' = [todo EXCEPT ![p] = Tail(@)]
    /\ Goto(p, "setup")
    /\ UNCHANGED <<file, host, cmd, mem, dummyIF, doomed, added>>

StartSetup(p, setups) ==
    /\ todo' = [todo EXCEPT ![p] = setups]
    /\ Goto(p, "setup")
    /\ UNCHANGED <<file, cmd, mem, dummyIF, doomed, added>>

SetupDone(p, op) == pc[p] = "setup" /\ todo[p] = <<>> /\ cmd[p].op = op

-----------------------------------------------------------------------------
(***************************************************************************)
(* add                                                                     *)
(***************************************************************************)
Begin(p, op) == pc[p] = "begin" /\ cmd[p].op = op

\* Leaves the handler without touching anything shared.
Quit(p) == Exit(p) /\ UNCHANGED <<file, host, added>>

BeginAdd(p) ==
    /\ Begin(p, "add")
    /\ \/ ~HasAddress(cmd[p], mem[p]) /\ Quit(p)
       \/ /\ HasAddress(cmd[p], mem[p])
          /\ StartSetup(p, Setups(<<Asked(cmd[p], mem[p], None, FALSE)>>))
          /\ UNCHANGED host

\* Mutant of AddEntry: a mapping that exists is added once more.
AddEntryAgain(p) ==
    /\ SetupDone(p, "add")
    /\ Truncate(p, Add(mem[p], Asked(cmd[p], mem[p], dummyIF[p], FALSE)),
                "save_added")
    /\ UNCHANGED added

\* Mutant of AddEntry: the mapping is only saved with its certificate.
AddEntryUnsaved(p) ==
    /\ SetupDone(p, "add")
    /\ ~Known(cmd[p], mem[p])
    /\ mem' = [mem EXCEPT
                 ![p] = Add(@, Asked(cmd[p], @, dummyIF[p], FALSE))]
    /\ Goto(p, "added")
    /\ UNCHANGED <<file, host, cmd, dummyIF, todo, doomed, added>>

AddEntry(p) ==
    /\ SetupDone(p, "add")
    /\ \/ Known(cmd[p], mem[p]) /\ Quit(p)
       \/ /\ ~Known(cmd[p], mem[p])
          /\ Truncate(p, Add(mem[p], Asked(cmd[p], mem[p], dummyIF[p], FALSE)),
                      "save_added")
          /\ UNCHANGED added

\* certbot has, or obtains, a certificate: the mapping is saved again.
SaveCert(p) ==
    /\ pc[p] = "added" /\ cmd[p].certbot
    /\ Truncate(p, Update(mem[p], Asked(cmd[p], mem[p], dummyIF[p], TRUE)),
                "save_last")
    /\ UNCHANGED added

\* No certificate was asked for, or none was obtained.
NoCert(p) ==
    /\ pc[p] = "added"
    /\ Goto(p, "finish")
    /\ UNCHANGED <<file, host, local, added>>

\* The command reports success.
Finish(p) ==
    /\ pc[p] = "finish"
    /\ added' = IF cmd[p].op = "add" THEN added \cup {CmdKey(cmd[p])} ELSE added
    /\ Exit(p)
    /\ UNCHANGED <<file, host>>

-----------------------------------------------------------------------------
(***************************************************************************)
(* update                                                                  *)
(***************************************************************************)
NothingAsked(c) == c.ip4 = None /\ ~c.clear4 /\ c.ip6 = None /\ ~c.clear6

\* Mutant of UpdateRefused: an update may clear the last address.
UpdateAllowed(c, ms) == NothingAsked(c) \/ ~Known(c, ms)

UpdateRefused(c, ms) ==
    \/ NothingAsked(c)
    \/ ~Known(c, ms)
    \/ Known(c, ms) /\ ~HasAddress(c, ms)

NeedRebuild(c, ms) ==
    Old(c, ms).ip4 # Final4(c, ms) \/ Old(c, ms).ip6 # Final6(c, ms)

\* The interface is rebuilt when an address changes, or kept as recorded.
BeginUpdate(p) ==
    /\ Begin(p, "update")
    /\ \/ UpdateRefused(cmd[p], mem[p]) /\ Quit(p)
       \/ /\ ~UpdateRefused(cmd[p], mem[p]) /\ NeedRebuild(cmd[p], mem[p])
          /\ Unlink(IfOf[cmd[p].domain])
          /\ StartSetup(p, Setups(<<Asked(cmd[p], mem[p], None, FALSE)>>))
       \/ /\ ~UpdateRefused(cmd[p], mem[p]) /\ ~NeedRebuild(cmd[p], mem[p])
          /\ dummyIF' = [dummyIF EXCEPT ![p] = Old(cmd[p], mem[p]).iface]
          /\ Goto(p, "setup")
          /\ UNCHANGED <<file, host, cmd, mem, todo, doomed, added>>

UpdateEntry(p) ==
    /\ SetupDone(p, "update")
    /\ Truncate(p, Update(mem[p], Revised(cmd[p], mem[p], dummyIF[p])),
                "save_last")
    /\ UNCHANGED added

-----------------------------------------------------------------------------
(***************************************************************************)
(* delete, reset, list                                                     *)
(***************************************************************************)
Ask(p) ==
    /\ Begin(p, "delete") \/ Begin(p, "reset")
    /\ Goto(p, "prompt")
    /\ UNCHANGED <<file, host, local, added>>

Decline(p) == pc[p] = "prompt" /\ Quit(p)

ConfirmDelete(p) ==
    /\ pc[p] = "prompt" /\ cmd[p].op = "delete"
    /\ Unlink(IfOf[cmd[p].domain])
    /\ Goto(p, "drop")
    /\ UNCHANGED <<file, local, added>>

DropEntry(p) ==
    /\ pc[p] = "drop"
    /\ \/ ~Known(cmd[p], mem[p]) /\ Quit(p)
       \/ /\ Known(cmd[p], mem[p])
          /\ Truncate(p, Delete(mem[p], CmdKey(cmd[p])), "save_last")
          /\ added' = added \ {CmdKey(cmd[p])}

StartCleanup(p) ==
    /\ doomed' = [doomed EXCEPT ![p] = links]
    /\ Goto(p, "cleanup")
    /\ UNCHANGED <<file, host, cmd, mem, dummyIF, todo, added>>

ConfirmReset(p) ==
    pc[p] = "prompt" /\ cmd[p].op = "reset" /\ StartCleanup(p)

CleanupOne(p) ==
    /\ pc[p] = "cleanup"
    /\ \E i \in doomed[p] :
          /\ Unlink(i)
          /\ doomed' = [doomed EXCEPT ![p] = @ \ {i}]
    /\ UNCHANGED <<file, pc, cmd, mem, dummyIF, todo, added>>

ResetFile(p) ==
    /\ pc[p] = "cleanup" /\ doomed[p] = {} /\ cmd[p].op = "reset"
    /\ Truncate(p, <<>>, "save_last")
    /\ added' = {}

List(p) == Begin(p, "list") /\ Quit(p)

-----------------------------------------------------------------------------
(***************************************************************************)
(* daemon                                                                  *)
(***************************************************************************)
BeginDaemon(p) ==
    /\ Begin(p, "daemon")
    /\ StartSetup(p, Setups(mem[p]))
    /\ UNCHANGED host

\* A daemon without mappings stops; one that cannot listen stops too, and
\* leaves the interfaces it made.
Serve(p) ==
    /\ SetupDone(p, "daemon")
    /\ \/ mem[p] # <<>> /\ Goto(p, "serve")
          /\ UNCHANGED <<file, host, local, added>>
       \/ (mem[p] = <<>> \/ "listen" \in Faults) /\ Quit(p)

\* SIGINT or SIGTERM.
StopDaemon(p) == pc[p] = "serve" /\ StartCleanup(p)

DaemonStopped(p) ==
    /\ pc[p] = "cleanup" /\ doomed[p] = {} /\ cmd[p].op = "daemon"
    /\ Quit(p)

-----------------------------------------------------------------------------
\* The file cannot be opened for writing: the save of a command that is about
\* to make one returns an error and the file stays as it was.
OpenFails(p) ==
    /\ "write" \in Faults
    /\ \/ pc[p] \in {"init", "drop"}
       \/ SetupDone(p, "add") \/ SetupDone(p, "update")
       \/ pc[p] = "cleanup" /\ doomed[p] = {} /\ cmd[p].op = "reset"
    /\ Quit(p)

\* A process is killed at any point: what it had done stays.
Crash(p) ==
    /\ "crash" \in Faults
    /\ pc[p] # "idle"
    /\ Quit(p)

\* What a process does by itself once it has been started.
Step(p) ==
    \/ InitFile(p) \/ Write(p) \/ WriteFails(p)
    \/ OpenFails(p)
    \/ SkipAddress(p) \/ CheckLink(p) \/ CreateLink(p) \/ BringUp(p)
    \/ CheckAddress(p) \/ Plug(p) \/ SetupFails(p)
    \/ BeginAdd(p) \/ AddEntry(p) \/ SaveCert(p) \/ NoCert(p) \/ Finish(p)
    \/ BeginUpdate(p) \/ UpdateEntry(p)
    \/ Ask(p) \/ DropEntry(p) \/ CleanupOne(p) \/ ResetFile(p) \/ List(p)
    \/ BeginDaemon(p) \/ Serve(p) \/ DaemonStopped(p)

\* What the administrator and the host do to it.
Given(p) ==
    \/ \E c \in Commands : Load(p, c)
    \/ Refused(p)
    \/ Decline(p) \/ ConfirmDelete(p) \/ ConfirmReset(p)
    \/ StopDaemon(p) \/ Crash(p)

Init ==
    /\ file \in InitialFiles
    /\ links = {} /\ plugged = {} /\ added = {}
    /\ pc = [p \in Proc |-> "idle"]
    /\ cmd = [p \in Proc |-> None]
    /\ mem = [p \in Proc |-> <<>>]
    /\ dummyIF = [p \in Proc |-> None]
    /\ todo = [p \in Proc |-> <<>>]
    /\ doomed = [p \in Proc |-> {}]

Next == \E p \in Proc : Step(p) \/ Given(p)

Spec == Init /\ [][Next]_vars

\* The operating system runs every process that can run.
FairSpec == Spec /\ \A p \in Proc : WF_vars(Step(p))
-----------------------------------------------------------------------------
(***************************************************************************)
(* Properties.                                                             *)
(***************************************************************************)
Labels == {"idle", "begin", "init", "setup", "create", "up", "look", "assign",
           "added", "finish", "prompt", "drop", "cleanup", "serve"} \cup Saving

\* Type correctness: the variables keep their types (config.DomainMapping and
\* the local variables of the handlers).
TypeOK ==
    /\ file \in File
    /\ links \subseteq IfName
    /\ plugged \subseteq IfName \X (IPv4 \cup IPv6)
    /\ pc \in [Proc -> Labels]
    /\ cmd \in [Proc -> Command \cup {None}]
    /\ mem \in [Proc -> Seq(Mapping)]
    /\ dummyIF \in [Proc -> IfName \cup {None}]
    /\ todo \in [Proc -> Seq(IfName \X (IPv4 \cup IPv6 \cup {None}))]
    /\ doomed \in [Proc -> SUBSET IfName]
    /\ added \subseteq Domain \X Port

\* However many commands run at once, and whatever they lose of each other's
\* work, no list ever holds two mappings of one domain and port: Get, Update
\* and Delete, which take the first match, mean the only one.
KeysUnique == Unique(file.maps) /\ \A p \in Proc : Unique(mem[p])

\* No list ever holds a mapping without a backend address, whatever addresses
\* an update clears: GetBackendAddr always has one to return.
AddressPresent ==
    Addressed(file.maps) /\ \A p \in Proc : Addressed(mem[p])

\* When one command runs at a time, a mapping reported as added stays in the
\* file until it is deleted or reset, through every later command and every
\* crash; only a save that was cut short makes the whole file unreadable.
AddedAreListed == file.kind = "json" => added \subseteq Keys(file.maps)

\* The mappings that survive a save keep their order, which decides the first
\* match of every lookup.
OrderKept ==
    [][\A p \in Proc : pc'[p] \in Saving => SameOrder(mem[p], mem'[p])]_vars

\* "Each domain gets its own dummy interface so services can bind to the
\* assigned IP" and "Cleanup is per-domain": with no command under way, every
\* mapping's addresses are plugged into the interface of its domain.
Quiet == \A p \in Proc : pc[p] = "idle"
Assigned(m) == {<<IfOf[m.domain], a>> : a \in {m.ip4, m.ip6} \ {None}}
ServicesCanBind ==
    Quiet /\ file.kind = "json" =>
        \A i \in DOMAIN file.maps : Assigned(file.maps[i]) \subseteq plugged

\* It is so for the mappings that have their interface for themselves: no
\* command is about another domain whose name is cut to the same interface
\* name, or about another port of the same domain.
Changes == {c \in Commands : c.op \in {"add", "update", "delete"}}
Apart(k) == \A c \in Changes : IfOf[c.domain] = IfOf[k[1]] => CmdKey(c) = k
OwnInterfaceServes ==
    Quiet /\ file.kind = "json" =>
        \A i \in DOMAIN file.maps :
            Apart(Key(file.maps[i])) => Assigned(file.maps[i]) \subseteq plugged

\* And no interface is left that is not that of a mapping, whether interfaces
\* are shared or not.
NoStrayLinks ==
    Quiet => links \subseteq {IfOf[file.maps[i].domain] : i \in DOMAIN file.maps}

\* A command that was started returns, or waits for an answer or as a daemon:
\* no interleaving of saves, setups and cleanups keeps it busy for ever.
Busy(p) == pc[p] \notin {"idle", "prompt", "serve"}
CommandsReturn == \A p \in Proc : Busy(p) ~> ~Busy(p)

\* With one command at a time the file implements a table that a command
\* changes at one key at most, and that is lost only as a whole, only when a
\* save can be interrupted.  While a save is between its two halves the table
\* is the one being written.
StoredTable ==
    IF file.kind \in {"json", "absent"} THEN Table(file.maps)
    ELSE IF \E p \in Proc : pc[p] \in Saving /\ file = Empty
         THEN Table(mem[CHOOSE p \in Proc : pc[p] \in Saving])
         ELSE None

HasCertificate(m) == m.cert

Store == INSTANCE MappingStore WITH
            table <- StoredTable,
            StoreKey <- Domain \X Port,
            Entry <- Mapping,
            HasCert <- HasCertificate,
            Lost <- None,
            Lossy <- Faults \cap {"write", "crash"} # {}

ImplementsStore == Store!StoreSpec
=============================================================================

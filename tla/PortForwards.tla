---------------------------- MODULE PortForwards ----------------------------
(***************************************************************************)
(* Public ports: adding and removing a forward, allocating an SSH port,    *)
(* and the SSH ports of a batch.                                           *)
(*                                                                         *)
(* Natbox keeps no table of ports.  A forward is a proxy device of its     *)
(* container, and whether a port is free is found out by reading the       *)
(* devices of one container after the other.  mutationMu keeps two         *)
(* requests from choosing the same port; the operator, who adds devices    *)
(* and deletes containers from the command line, takes no lock.            *)
(***************************************************************************)
EXTENDS Integers, FiniteSets

CONSTANTS Names,      \* container names
          Listens,    \* the public ports the configuration allows: <<protocol, number>>
          SshPorts,   \* sshPortStart..sshPortEnd
          Addresses,  \* what DHCP may give
          Requests,   \* concurrent API requests
          NoName,
          NoOne,
          RuntimeFails, \* whether commands may fail
          MaxMeddling \* bound: how often the operator interferes

\* A name has at most 63 characters.
ASSUME NamesAreFinite == IsFiniteSet(Names)
ASSUME NoNameIsNone == NoName \notin Names
ASSUME NoOneIsNone == NoOne \notin Requests
ASSUME ListensArePorts == Listens \subseteq {"tcp", "udp"} \X Nat
ASSUME SshPortsAreListens == {"tcp"} \X SshPorts \subseteq Listens
ASSUME SshPortsAreFinite == IsFiniteSet(SshPorts) /\ SshPorts \subseteq Nat
ASSUME AddressesAreOthers == {"absent", "none"} \cap Addresses = {}
ASSUME FaultsAreKnown == RuntimeFails \in BOOLEAN /\ MaxMeddling \in Nat

VARIABLES address,    \* of each container: "absent", "none" while it is down, its IPv4 address
          devices,    \* of each container: its proxy devices
          meddled,    \* ghost: how often the operator added a device or deleted a container
          mutationMu,
          \* Of each request:
          kind, step,
          item,       \* the container in hand
          want,       \* the forward to be added or removed
          seen,       \* the address of that container when the instances were listed
          unread,     \* the containers whose devices it has yet to read
          used,       \* the public TCP ports it has met
          todo,       \* the names of a batch still to be created
          made        \* and those created

portVars == <<address, devices, meddled>>
scan     == <<seen, unread, used>>
vars     == <<portVars, scan, mutationMu, kind, step, item, want, todo, made>>

-----------------------------------------------------------------------------
(* Values.                                                                 *)

Targets == {"ssh", "other"}
Forwards == [listen : Listens, target : Targets]
\* An "odd" device is one whose endpoints portForwardsFromDevices leaves out: an
\* IPv6 address, a range of ports, two protocols.
\* Where an operator's device leads does not matter.
Devices == [listen : Listens, target : Targets, to : Addresses, by : {"natbox"}]
           \cup [listen : Listens, target : Targets, to : {"none"}, by : {"operator", "odd"}]

Kinds == {"idle", "add", "remove", "ssh", "batch"}
Steps == {"idle", "own", "list", "scan", "add", "remove", "sshOwn", "sshList", "sshScan",
          "capList", "capScan", "next", "undo", "done"}

Present(n) == address[n] # "absent"
FreeAddresses == Addresses \ {address[n] : n \in Names}
Existing == {n \in Names : Present(n)}

\* ListPortForwards.
Listed(n) == {d \in devices[n] : d.by # "odd"}
TcpPorts(n) == {d.listen[2] : d \in {e \in Listed(n) : e.listen[1] = "tcp"}}

TypeOK ==
    /\ address \in [Names -> Addresses \cup {"absent", "none"}]
    /\ devices \in [Names -> SUBSET Devices]
    /\ meddled \in 0..MaxMeddling
    /\ mutationMu \in Requests \cup {NoOne}
    /\ kind \in [Requests -> Kinds]
    /\ step \in [Requests -> Steps]
    /\ item \in [Requests -> Names \cup {NoName}]
    /\ want \in [Requests -> Forwards \cup {NoName}]
    /\ seen \in [Requests -> Addresses \cup {"absent", "none"}]
    /\ unread \in [Requests -> SUBSET Names]
    /\ used \in [Requests -> SUBSET Nat]
    /\ todo \in [Requests -> SUBSET Names]
    /\ made \in [Requests -> SUBSET Names]

Init ==
    /\ address \in [Names -> {"absent", "none"}]
    /\ devices = [n \in Names |-> {}]
    /\ meddled = 0
    /\ mutationMu = NoOne
    /\ kind = [w \in Requests |-> "idle"]
    /\ step = [w \in Requests |-> "idle"]
    /\ item = [w \in Requests |-> NoName]
    /\ want = [w \in Requests |-> NoName]
    /\ seen = [w \in Requests |-> "absent"]
    /\ unread = [w \in Requests |-> {}]
    /\ used = [w \in Requests |-> {}]
    /\ todo = [w \in Requests |-> {}]
    /\ made = [w \in Requests |-> {}]

-----------------------------------------------------------------------------
(* The critical section.                                                   *)

\* Mutant: no mutex.
LockNothing(w, k, s) ==
    /\ kind[w] = "idle"
    /\ mutationMu' = w
    /\ kind' = [kind EXCEPT ![w] = k]
    /\ step' = [step EXCEPT ![w] = s]

Lock(w, k, s) ==
    /\ mutationMu = NoOne /\ kind[w] = "idle"
    /\ mutationMu' = w
    /\ kind' = [kind EXCEPT ![w] = k]
    /\ step' = [step EXCEPT ![w] = s]

Unlock(w) ==
    /\ step[w] = "done"
    /\ mutationMu' = NoOne
    /\ kind' = [kind EXCEPT ![w] = "idle"]
    /\ step' = [step EXCEPT ![w] = "idle"]
    /\ item' = [item EXCEPT ![w] = NoName]
    /\ want' = [want EXCEPT ![w] = NoName]
    /\ seen' = [seen EXCEPT ![w] = "absent"]
    /\ unread' = [unread EXCEPT ![w] = {}]
    /\ used' = [used EXCEPT ![w] = {}]
    /\ todo' = [todo EXCEPT ![w] = {}]
    /\ made' = [made EXCEPT ![w] = {}]
    /\ UNCHANGED portVars

\* A port outside the configured range is refused before the first command.
BeginAdd(w, n, f) ==
    /\ Lock(w, "add", "own")
    /\ item' = [item EXCEPT ![w] = n]
    /\ want' = [want EXCEPT ![w] = f]
    /\ UNCHANGED <<portVars, scan, todo, made>>

BeginRemove(w, n, f) ==
    /\ Lock(w, "remove", "remove")
    /\ item' = [item EXCEPT ![w] = n]
    /\ want' = [want EXCEPT ![w] = f]
    /\ UNCHANGED <<portVars, scan, todo, made>>

BeginSsh(w, n) ==
    /\ Lock(w, "ssh", "sshOwn")
    /\ item' = [item EXCEPT ![w] = n]
    /\ UNCHANGED <<portVars, scan, want, todo, made>>

\* A batch with allocateSsh; the duplicate-name preflight.
BeginBatch(w, ns) ==
    /\ \A n \in ns : ~Present(n)
    /\ Lock(w, "batch", "capList")
    /\ todo' = [todo EXCEPT ![w] = ns]
    /\ UNCHANGED <<portVars, scan, item, want, made>>

-----------------------------------------------------------------------------
(* One step of a request.                                                  *)

Go(w, s) == step' = [step EXCEPT ![w] = s]

\* An error ends the request; a batch first deletes what it created.
Fail(w) == Go(w, IF kind[w] = "batch" THEN "undo" ELSE "done")

\* What is to follow once a forward exists.
Succeed(w) == Go(w, IF kind[w] = "batch" THEN "next" ELSE "done")

\* AddPortForward: the devices of the container itself come first.
ReadOwn(w) ==
    /\ step[w] = "own"
    /\ \/ /\ Present(item[w])
          /\ \A d \in Listed(item[w]) : d.listen # want[w].listen
          /\ Go(w, "list")
       \/ /\ \/ RuntimeFails \/ ~Present(item[w])
             \/ \E d \in Listed(item[w]) : d.listen = want[w].listen
          /\ Fail(w)
    /\ UNCHANGED <<portVars, scan, mutationMu, kind, item, want, todo, made>>

\* Mutant: a forward that is already there is not looked for.
ReadSshNotAtAll(w) ==
    /\ step[w] = "sshOwn"
    /\ \/ Present(item[w]) /\ Go(w, "sshList")
       \/ (RuntimeFails \/ ~Present(item[w])) /\ Fail(w)
    /\ UNCHANGED <<portVars, scan, mutationMu, kind, item, want, todo, made>>

\* allocateSSH: a forward to port 22 that is already there is returned.
ReadSsh(w) ==
    /\ step[w] = "sshOwn"
    /\ \/ /\ Present(item[w])
          /\ IF \E d \in Listed(item[w]) : d.listen[1] = "tcp" /\ d.target = "ssh"
             THEN Succeed(w) ELSE Go(w, "sshList")
       \/ /\ RuntimeFails \/ ~Present(item[w])
          /\ Fail(w)
    /\ UNCHANGED <<portVars, scan, mutationMu, kind, item, want, todo, made>>

\* Mutant: only what runs is read.
ToReadRunning(w) ==
    {n \in Existing : address[n] # "none"} \ (IF step[w] = "list" THEN {item[w]} ELSE {})

\* AddPortForward leaves out the container itself.
ToRead(w) == Existing \ (IF step[w] = "list" THEN {item[w]} ELSE {})

\* List, whose answer is then gone through.
ListInstances(w) ==
    /\ step[w] \in {"list", "sshList", "capList"}
    /\ \/ /\ seen' = IF step[w] = "list" THEN [seen EXCEPT ![w] = address[item[w]]] ELSE seen
          /\ unread' = [unread EXCEPT ![w] = ToRead(w)]
          /\ used' = [used EXCEPT ![w] = {}]
          /\ Go(w, CASE step[w] = "list" -> "scan" [] step[w] = "sshList" -> "sshScan" [] OTHER -> "capScan")
       \/ RuntimeFails /\ Fail(w) /\ UNCHANGED scan
    /\ UNCHANGED <<portVars, mutationMu, kind, item, want, todo, made>>

\* Mutant: a container whose devices cannot be read is passed over.
ReadOtherOrSkip(w) ==
    /\ step[w] \in {"scan", "sshScan", "capScan"}
    /\ \E m \in unread[w] :
          \/ /\ \/ RuntimeFails \/ ~Present(m)
                \/ step[w] = "scan" => \A d \in Listed(m) : d.listen # want[w].listen
             /\ unread' = [unread EXCEPT ![w] = @ \ {m}]
             /\ used' = IF step[w] = "scan" THEN used ELSE [used EXCEPT ![w] = @ \cup TcpPorts(m)]
             /\ UNCHANGED <<seen, step>>
          \/ /\ step[w] = "scan" /\ \E d \in Listed(m) : d.listen = want[w].listen
             /\ unread' = [unread EXCEPT ![w] = {}]
             /\ Fail(w)
             /\ UNCHANGED <<seen, used>>
    /\ UNCHANGED <<portVars, mutationMu, kind, item, want, todo, made>>

\* The devices of one more container; one that is gone by now is an error.
ReadOther(w) ==
    /\ step[w] \in {"scan", "sshScan", "capScan"}
    /\ \E m \in unread[w] :
          \/ /\ Present(m)
             /\ step[w] = "scan" => \A d \in Listed(m) : d.listen # want[w].listen
             /\ unread' = [unread EXCEPT ![w] = @ \ {m}]
             /\ used' = IF step[w] = "scan" THEN used ELSE [used EXCEPT ![w] = @ \cup TcpPorts(m)]
             /\ UNCHANGED <<seen, step>>
          \/ /\ \/ RuntimeFails \/ ~Present(m)
                \/ step[w] = "scan" /\ \E d \in Listed(m) : d.listen = want[w].listen
             /\ unread' = [unread EXCEPT ![w] = {}]
             /\ Fail(w)
             /\ UNCHANGED <<seen, used>>
    /\ UNCHANGED <<portVars, mutationMu, kind, item, want, todo, made>>

\* Mutant: the address is not looked at.
PortIsFreeAnyway(w) ==
    /\ step[w] = "scan" /\ unread[w] = {}
    /\ Go(w, "add")
    /\ UNCHANGED <<portVars, scan, mutationMu, kind, item, want, todo, made>>

\* No other container has the port: the container needs the address it was
\* listed with.
PortIsFree(w) ==
    /\ step[w] = "scan" /\ unread[w] = {}
    /\ IF seen[w] \in Addresses THEN Go(w, "add") ELSE Fail(w)
    /\ UNCHANGED <<portVars, scan, mutationMu, kind, item, want, todo, made>>

FreeSshPorts(w) == SshPorts \ used[w]

\* allocateSSH takes the lowest port it has not met, to AddPortForward.
PickSshPort(w) ==
    /\ step[w] = "sshScan" /\ unread[w] = {}
    /\ used' = [used EXCEPT ![w] = {}]
    /\ \/ FreeSshPorts(w) = {} /\ Fail(w) /\ UNCHANGED want
       \/ \E p \in FreeSshPorts(w) :
             /\ \A q \in FreeSshPorts(w) : p <= q
             /\ want' = [want EXCEPT ![w] = [listen |-> <<"tcp", p>>, target |-> "ssh"]]
             /\ Go(w, "own")
    /\ UNCHANGED <<portVars, seen, unread, mutationMu, kind, item, todo, made>>

\* Mutant: the size of the range is one too many.
CheckSshCapacityOffByOne(w) ==
    /\ step[w] = "capScan" /\ unread[w] = {}
    /\ IF Cardinality(todo[w]) > Cardinality(SshPorts) + 1 - Cardinality(used[w] \cap SshPorts)
       THEN Go(w, "done") ELSE Go(w, "next")
    /\ used' = [used EXCEPT ![w] = {}]
    /\ UNCHANGED <<portVars, seen, unread, mutationMu, kind, item, want, todo, made>>

\* checkSSHCapacity.
CheckSshCapacity(w) ==
    /\ step[w] = "capScan" /\ unread[w] = {}
    /\ IF Cardinality(todo[w]) > Cardinality(SshPorts) - Cardinality(used[w] \cap SshPorts)
       THEN Go(w, "done") ELSE Go(w, "next")
    /\ used' = [used EXCEPT ![w] = {}]
    /\ UNCHANGED <<portVars, seen, unread, mutationMu, kind, item, want, todo, made>>

NewDevice(w) ==
    [listen |-> want[w].listen, target |-> want[w].target, to |-> seen[w], by |-> "natbox"]

\* incus config device add.  It may fail after all, done or not.
AddDevice(w) ==
    LET n == item[w] IN
    /\ step[w] = "add"
    /\ \/ /\ Present(n)
          /\ devices' = [devices EXCEPT ![n] = @ \cup {NewDevice(w)}]
          /\ Succeed(w) \/ (RuntimeFails /\ Fail(w))
       \/ /\ RuntimeFails \/ ~Present(n)
          /\ Fail(w) /\ UNCHANGED devices
    /\ want' = [want EXCEPT ![w] = NoName]
    /\ seen' = [seen EXCEPT ![w] = "absent"]
    /\ UNCHANGED <<address, meddled, unread, used, mutationMu, kind, item, todo, made>>

\* incus config device remove, by the name Natbox gives a forward.
RemoveDevice(w) ==
    LET n == item[w]
        removed == {d \in devices[n] : d.by = "natbox" /\ d.listen = want[w].listen}
    IN
    /\ step[w] = "remove"
    /\ devices' = [devices EXCEPT ![n] = @ \ removed] \/ (RuntimeFails /\ UNCHANGED devices)
    /\ Go(w, "done")
    /\ UNCHANGED <<address, meddled, scan, mutationMu, kind, item, want, todo, made>>

\* The next container of a batch is created and has its address.
CreateNext(w) ==
    /\ step[w] = "next"
    /\ \E n \in todo[w] :
          /\ item' = [item EXCEPT ![w] = n]
          /\ todo' = [todo EXCEPT ![w] = @ \ {n}]
          /\ \/ /\ ~Present(n)
                /\ \E a \in FreeAddresses : address' = [address EXCEPT ![n] = a]
                /\ made' = [made EXCEPT ![w] = @ \cup {n}]
                /\ Go(w, "sshOwn")
             \/ /\ Present(n) \/ RuntimeFails
                /\ Fail(w) /\ UNCHANGED <<address, made>>
    /\ UNCHANGED <<devices, meddled, scan, mutationMu, kind, want>>

BatchIsComplete(w) ==
    /\ step[w] = "next" /\ todo[w] = {}
    /\ Go(w, "done")
    /\ UNCHANGED <<portVars, scan, mutationMu, kind, item, want, todo, made>>

\* cleanupContainer and rollbackBulk: a container takes its devices with it.
UndoBatch(w) ==
    /\ step[w] = "undo"
    /\ \/ \E n \in made[w] :
             /\ made' = [made EXCEPT ![w] = @ \ {n}]
             /\ \/ /\ address' = [address EXCEPT ![n] = "absent"]
                   /\ devices' = [devices EXCEPT ![n] = {}]
                \/ RuntimeFails /\ UNCHANGED <<address, devices>>
             /\ UNCHANGED step
       \/ made[w] = {} /\ Go(w, "done") /\ UNCHANGED <<address, devices, made>>
    /\ UNCHANGED <<meddled, scan, mutationMu, kind, item, want, todo>>

-----------------------------------------------------------------------------
(* The world around the ports.                                             *)

\* A container is created or stopped by the operator, or by a request that
\* knows nothing of ports.
Create(n) ==
    /\ ~Present(n)
    /\ address' = [address EXCEPT ![n] = "none"]
    /\ UNCHANGED <<devices, meddled, scan, mutationMu, kind, step, item, want, todo, made>>

Stop(n) ==
    /\ address[n] \in Addresses
    /\ address' = [address EXCEPT ![n] = "none"]
    /\ UNCHANGED <<devices, meddled, scan, mutationMu, kind, step, item, want, todo, made>>

\* DHCP gives an address nobody has; once a lease has run out it is another
\* one than before.
Start(n) ==
    /\ address[n] = "none"
    /\ \E a \in FreeAddresses : address' = [address EXCEPT ![n] = a]
    /\ UNCHANGED <<devices, meddled, scan, mutationMu, kind, step, item, want, todo, made>>

Gone(n) ==
    /\ Present(n)
    /\ address' = [address EXCEPT ![n] = "absent"]
    /\ devices' = [devices EXCEPT ![n] = {}]
    /\ UNCHANGED <<scan, mutationMu, kind, step, item, want, todo, made>>

\* A request deletes a container under the mutex; the operator takes none.
Delete(n) == mutationMu = NoOne /\ Gone(n) /\ UNCHANGED meddled

Interfering == meddled < MaxMeddling /\ meddled' = meddled + 1

DeleteByHand(n) == Interfering /\ Gone(n)

AddByHand(n) ==
    /\ Interfering
    /\ Present(n)
    /\ \E d \in Devices : d.by # "natbox" /\ devices' = [devices EXCEPT ![n] = @ \cup {d}]
    /\ UNCHANGED <<address, scan, mutationMu, kind, step, item, want, todo, made>>

-----------------------------------------------------------------------------

Work(w) ==
    \/ ReadOwn(w) \/ ReadSsh(w) \/ ListInstances(w) \/ ReadOther(w)
    \/ PortIsFree(w) \/ PickSshPort(w) \/ CheckSshCapacity(w)
    \/ AddDevice(w) \/ RemoveDevice(w)
    \/ CreateNext(w) \/ BatchIsComplete(w) \/ UndoBatch(w)
    \/ Unlock(w)

Begin(w) ==
    \/ \E n \in Names, f \in Forwards : BeginAdd(w, n, f) \/ BeginRemove(w, n, f)
    \/ \E n \in Names : BeginSsh(w, n)
    \/ \E ns \in (SUBSET Names) \ {{}} : BeginBatch(w, ns)

World == \E n \in Names : Create(n) \/ Stop(n) \/ Start(n) \/ Delete(n) \/ DeleteByHand(n) \/ AddByHand(n)

Next == World \/ \E w \in Requests : Begin(w) \/ Work(w)

Spec == Init /\ [][Next]_vars

-----------------------------------------------------------------------------
(* Properties.                                                             *)

\* Natbox made the device by which n listens on l.
Owns(n, l) == \E d \in devices[n] : d.by = "natbox" /\ d.listen = l

\* Each public listen port belongs to only one container: though every request
\* finds the ports in use by reading one container after the other, while the
\* operator creates, stops and deletes them, no two containers get the same.
OnePortOneContainer ==
    \A n, m \in Names, l \in Listens : Owns(n, l) /\ Owns(m, l) => n = m

\* Asking again for SSH access changes nothing: while no operator interferes, a
\* container that has a forward to its port 22 never gets a second one from the
\* automatic allocation.
AllocationIsIdempotent ==
    meddled = 0 =>
        \A w \in Requests : kind[w] \in {"ssh", "batch"} /\ step[w] = "add" =>
            \A d \in Listed(item[w]) : d.listen[1] = "udp" \/ d.target # "ssh"

\* A batch that passed the SSH preflight does not run out of SSH ports half way:
\* while no operator interferes, each of its allocations finds one free.
PreflightSuffices ==
    meddled = 0 =>
        \A w \in Requests : kind[w] = "batch" /\ step[w] = "sshScan" /\ unread[w] = {} =>
            FreeSshPorts(w) # {}

OwnerOf ==
    [l \in Listens |->
        IF \E n \in Names : Owns(n, l) THEN CHOOSE n \in Names : Owns(n, l) ELSE NoName]

Registry == INSTANCE PortRegistry WITH Nobody <- NoName, owner <- OwnerOf

\* The devices implement a registry that gives a port only while nobody has it.
PortsAreRegistered == Registry!Spec

\* docs/release-checklist.md: "Real TCP and UDP forwarding pass before and after
\* restart and stop/start."  A forward leads to the address the container had
\* when it was added; no start writes it anew.
ForwardsReachTheirContainer ==
    \A n \in Names : address[n] \in Addresses =>
        \A d \in devices[n] : d.by = "natbox" => d.to = address[n]

=============================================================================

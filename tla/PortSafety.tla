----------------------------- MODULE PortSafety -----------------------------
(***************************************************************************)
(* Proofs about PortForwards: no two containers ever get the same public   *)
(* port, for any number of containers, ports and requests, whatever the    *)
(* operator does; and the devices implement PortRegistry.                  *)
(*                                                                         *)
(* The argument: a request whose scan has reached the containers outside   *)
(* unread[w] knows that none of them has the port it wants, and this       *)
(* knowledge does not grow stale, because only the holder of mutationMu    *)
(* adds a device in Natbox's name.                                         *)
(***************************************************************************)
EXTENDS PortForwards, FiniteSetTheorems, TLAPS

USE NoNameIsNone, NoOneIsNone, ListensArePorts, SshPortsAreListens, AddressesAreOthers,
     FaultsAreKnown

-----------------------------------------------------------------------------
(* The inductive invariant.                                                *)

\* Only the holder of the mutex is executing a request.
Alone == \A w \in Requests : step[w] # "idle" => mutationMu = w

\* A container that does not exist has no devices.
NothingLeft == \A n \in Names : address[n] = "absent" => devices[n] = {}

\* What the steps of a request work on is known when they are reached.
InHand(w) ==
    /\ step[w] \in {"own", "list", "scan", "add", "remove", "sshOwn", "sshList", "sshScan"}
          => item[w] \in Names
    /\ step[w] \in {"own", "list", "scan", "add", "remove"} => want[w] \in Forwards
    /\ step[w] = "add" => seen[w] \in Addresses

\* What the scan has found out is still true.
StillFree(w) ==
    /\ step[w] \in {"list", "scan", "add"} => ~Owns(item[w], want[w].listen)
    /\ step[w] \in {"scan", "add"} =>
          \A m \in Names : Owns(m, want[w].listen) => m \in unread[w]
    /\ step[w] = "add" => unread[w] = {}

Inv ==
    /\ TypeOK
    /\ Alone
    /\ NothingLeft
    /\ \A w \in Requests : InHand(w) /\ StillFree(w)
    /\ OnePortOneContainer

-----------------------------------------------------------------------------
(* What a step may do to the forwards.                                     *)

\* n gets a port nobody has.
Gains(n, l) ==
    /\ \A m \in Names : ~Owns(m, l)
    /\ \A m \in Names, k \in Listens : Owns(m, k)' <=> (Owns(m, k) \/ (m = n /\ k = l))

\* At most n gives up ports.
Drops(n) ==
    \A m \in Names, k \in Listens :
        /\ Owns(m, k)' => Owns(m, k)
        /\ m # n /\ Owns(m, k) => Owns(m, k)'

-----------------------------------------------------------------------------
(* Every step preserves the invariant.                                     *)

\* What is left to show of a step of w that touches no device: the others are
\* idle, and what w knows of devices it knew before.
LEMMA QuietStep ==
    ASSUME Inv, NEW w \in Requests, UNCHANGED devices,
           \A v \in Requests \ {w} : step[v] = "idle" /\ step'[v] = "idle",
           TypeOK', Alone', NothingLeft', InHand(w)', StillFree(w)'
    PROVE  Inv'
<1>1. \A n \in Names : \A l : Owns(n, l)' <=> Owns(n, l)
  BY DEF Owns
<1>2. \A v \in Requests \ {w} : InHand(v)' /\ StillFree(v)'
  BY DEF InHand, StillFree
<1>3. OnePortOneContainer'
  BY <1>1 DEF Inv, OnePortOneContainer
<1>4. QED
  BY <1>2, <1>3 DEF Inv

\* A request for a forward begins with nothing read.
LEMMA BeginAddKeeps ==
    ASSUME Inv, NEW w \in Requests, NEW n \in Names, NEW f \in Forwards, BeginAdd(w, n, f)
    PROVE  Inv' /\ UNCHANGED devices
<1> USE DEF BeginAdd, Lock, portVars, scan
<1>1. UNCHANGED devices
  OBVIOUS
<1>2. \A v \in Requests \ {w} : step[v] = "idle" /\ step'[v] = "idle"
  BY DEF Inv, TypeOK, Alone
<1>3. TypeOK'
  BY <1>1 DEF Inv, InHand, TypeOK, Kinds, Steps, Targets, Forwards, Devices
<1>4. Alone' /\ NothingLeft'
  BY <1>1, <1>2 DEF Inv, TypeOK, Alone, NothingLeft
<1>5. InHand(w)'
  BY DEF Inv, InHand, TypeOK
<1>6. StillFree(w)'
  BY <1>1 DEF Inv, StillFree, NothingLeft, InHand, Forwards, TypeOK, Owns
<1>7. QED
  BY <1>1, <1>2, <1>3, <1>4, <1>5, <1>6, QuietStep

\* So does one that removes a forward.
LEMMA BeginRemoveKeeps ==
    ASSUME Inv, NEW w \in Requests, NEW n \in Names, NEW f \in Forwards, BeginRemove(w, n, f)
    PROVE  Inv' /\ UNCHANGED devices
<1> USE DEF BeginRemove, Lock, portVars, scan
<1>1. UNCHANGED devices
  OBVIOUS
<1>2. \A v \in Requests \ {w} : step[v] = "idle" /\ step'[v] = "idle"
  BY DEF Inv, TypeOK, Alone
<1>3. TypeOK'
  BY <1>1 DEF Inv, InHand, TypeOK, Kinds, Steps, Targets, Forwards, Devices
<1>4. Alone' /\ NothingLeft'
  BY <1>1, <1>2 DEF Inv, TypeOK, Alone, NothingLeft
<1>5. InHand(w)'
  BY DEF Inv, InHand, TypeOK
<1>6. StillFree(w)'
  BY <1>1 DEF Inv, StillFree, NothingLeft, InHand, Forwards, TypeOK, Owns
<1>7. QED
  BY <1>1, <1>2, <1>3, <1>4, <1>5, <1>6, QuietStep

\* And one for SSH access.
LEMMA BeginSshKeeps ==
    ASSUME Inv, NEW w \in Requests, NEW n \in Names, BeginSsh(w, n)
    PROVE  Inv' /\ UNCHANGED devices
<1> USE DEF BeginSsh, Lock, portVars, scan
<1>1. UNCHANGED devices
  OBVIOUS
<1>2. \A v \in Requests \ {w} : step[v] = "idle" /\ step'[v] = "idle"
  BY DEF Inv, TypeOK, Alone
<1>3. TypeOK'
  BY <1>1 DEF Inv, InHand, TypeOK, Kinds, Steps, Targets, Forwards, Devices
<1>4. Alone' /\ NothingLeft'
  BY <1>1, <1>2 DEF Inv, TypeOK, Alone, NothingLeft
<1>5. InHand(w)'
  BY DEF Inv, InHand, TypeOK
<1>6. StillFree(w)'
  BY <1>1 DEF Inv, StillFree, NothingLeft, InHand, Forwards, TypeOK, Owns
<1>7. QED
  BY <1>1, <1>2, <1>3, <1>4, <1>5, <1>6, QuietStep

\* And a batch.
LEMMA BeginBatchKeeps ==
    ASSUME Inv, NEW w \in Requests, NEW ns \in SUBSET Names, BeginBatch(w, ns)
    PROVE  Inv' /\ UNCHANGED devices
<1> USE DEF BeginBatch, Lock, portVars, scan
<1>1. UNCHANGED devices
  OBVIOUS
<1>2. \A v \in Requests \ {w} : step[v] = "idle" /\ step'[v] = "idle"
  BY DEF Inv, TypeOK, Alone
<1>3. TypeOK'
  BY <1>1 DEF Inv, InHand, TypeOK, Kinds, Steps, Targets, Forwards, Devices
<1>4. Alone' /\ NothingLeft'
  BY <1>1, <1>2 DEF Inv, TypeOK, Alone, NothingLeft
<1>5. InHand(w)'
  BY DEF Inv, InHand, TypeOK
<1>6. StillFree(w)'
  BY <1>1 DEF Inv, StillFree, NothingLeft, InHand, Forwards, TypeOK, Owns
<1>7. QED
  BY <1>1, <1>2, <1>3, <1>4, <1>5, <1>6, QuietStep

\* A request ends and leaves nothing behind.
LEMMA UnlockKeeps ==
    ASSUME Inv, NEW w \in Requests, Unlock(w)
    PROVE  Inv' /\ UNCHANGED devices
<1> USE DEF Unlock, portVars
<1>1. UNCHANGED devices
  OBVIOUS
<1>2. \A v \in Requests \ {w} : step[v] = "idle" /\ step'[v] = "idle"
  BY DEF Inv, TypeOK, Alone
<1>3. TypeOK'
  BY <1>1 DEF Inv, InHand, TypeOK, Kinds, Steps, Targets, Forwards, Devices
<1>4. Alone' /\ NothingLeft'
  BY <1>1, <1>2 DEF Inv, TypeOK, Alone, NothingLeft
<1>5. InHand(w)'
  BY DEF Inv, InHand, TypeOK
<1>6. StillFree(w)'
  BY <1>1 DEF Inv, StillFree, NothingLeft, InHand, Forwards, TypeOK, Owns
<1>7. QED
  BY <1>1, <1>2, <1>3, <1>4, <1>5, <1>6, QuietStep

\* The container's own devices do not have the port.
LEMMA ReadOwnKeeps ==
    ASSUME Inv, NEW w \in Requests, ReadOwn(w)
    PROVE  Inv' /\ UNCHANGED devices
<1> USE DEF ReadOwn, Go, Fail, Listed, portVars, scan
<1>1. UNCHANGED devices
  OBVIOUS
<1>2. \A v \in Requests \ {w} : step[v] = "idle" /\ step'[v] = "idle"
  BY DEF Inv, TypeOK, Alone
<1>3. TypeOK'
  BY <1>1 DEF Inv, InHand, TypeOK, Kinds, Steps, Targets, Forwards, Devices
<1>4. Alone' /\ NothingLeft'
  BY <1>1, <1>2 DEF Inv, TypeOK, Alone, NothingLeft
<1>5. InHand(w)'
  BY DEF Inv, InHand, TypeOK
<1>6. StillFree(w)'
  BY <1>1 DEF Inv, StillFree, NothingLeft, InHand, Forwards, TypeOK, Owns
<1>7. QED
  BY <1>1, <1>2, <1>3, <1>4, <1>5, <1>6, QuietStep

\* The look for an SSH forward changes nothing the invariant is about.
LEMMA ReadSshKeeps ==
    ASSUME Inv, NEW w \in Requests, ReadSsh(w)
    PROVE  Inv' /\ UNCHANGED devices
<1> USE DEF ReadSsh, Go, Fail, Succeed, portVars, scan
<1>1. UNCHANGED devices
  OBVIOUS
<1>2. \A v \in Requests \ {w} : step[v] = "idle" /\ step'[v] = "idle"
  BY DEF Inv, TypeOK, Alone
<1>3. TypeOK'
  BY <1>1 DEF Inv, InHand, TypeOK, Kinds, Steps, Targets, Forwards, Devices
<1>4. Alone' /\ NothingLeft'
  BY <1>1, <1>2 DEF Inv, TypeOK, Alone, NothingLeft
<1>5. InHand(w)'
  BY DEF Inv, InHand, TypeOK
<1>6. StillFree(w)'
  BY <1>1 DEF Inv, StillFree, NothingLeft, InHand, Forwards, TypeOK, Owns
<1>7. QED
  BY <1>1, <1>2, <1>3, <1>4, <1>5, <1>6, QuietStep

\* The list holds every container that exists; the others have no device.
LEMMA ListInstancesKeeps ==
    ASSUME Inv, NEW w \in Requests, ListInstances(w)
    PROVE  Inv' /\ UNCHANGED devices
<1> USE DEF ListInstances, Go, Fail, ToRead, Existing, Present, portVars, scan
<1>1. UNCHANGED devices
  OBVIOUS
<1>2. \A v \in Requests \ {w} : step[v] = "idle" /\ step'[v] = "idle"
  BY DEF Inv, TypeOK, Alone
<1>3. TypeOK'
  BY <1>1 DEF Inv, InHand, TypeOK, Kinds, Steps, Targets, Forwards, Devices
<1>4. Alone' /\ NothingLeft'
  BY <1>1, <1>2 DEF Inv, TypeOK, Alone, NothingLeft
<1>5. InHand(w)'
  BY DEF Inv, InHand, TypeOK
<1>6. StillFree(w)'
  BY <1>1 DEF Inv, StillFree, NothingLeft, InHand, Forwards, TypeOK, Owns
<1>7. QED
  BY <1>1, <1>2, <1>3, <1>4, <1>5, <1>6, QuietStep

\* One more container is known not to have the port.
LEMMA ReadOtherKeeps ==
    ASSUME Inv, NEW w \in Requests, ReadOther(w)
    PROVE  Inv' /\ UNCHANGED devices
<1> USE DEF ReadOther, Go, Fail, Listed, portVars, scan
<1>1. UNCHANGED devices
  OBVIOUS
<1>2. \A v \in Requests \ {w} : step[v] = "idle" /\ step'[v] = "idle"
  BY DEF Inv, TypeOK, Alone
<1>3. TypeOK'
  <2>1. \A m \in Names : TcpPorts(m) \subseteq Nat
    BY DEF Inv, TypeOK, Devices, TcpPorts
  <2>2. QED
    BY <1>1, <2>1 DEF Inv, InHand, TypeOK, Kinds, Steps
<1>4. Alone' /\ NothingLeft'
  BY <1>1, <1>2 DEF Inv, TypeOK, Alone, NothingLeft
<1>5. InHand(w)'
  BY DEF Inv, InHand, TypeOK
<1>6. StillFree(w)'
  BY <1>1 DEF Inv, StillFree, NothingLeft, InHand, Forwards, TypeOK, Owns
<1>7. QED
  BY <1>1, <1>2, <1>3, <1>4, <1>5, <1>6, QuietStep

\* The scan is complete and the address known.
LEMMA PortIsFreeKeeps ==
    ASSUME Inv, NEW w \in Requests, PortIsFree(w)
    PROVE  Inv' /\ UNCHANGED devices
<1> USE DEF PortIsFree, Go, Fail, portVars, scan
<1>1. UNCHANGED devices
  OBVIOUS
<1>2. \A v \in Requests \ {w} : step[v] = "idle" /\ step'[v] = "idle"
  BY DEF Inv, TypeOK, Alone
<1>3. TypeOK'
  BY <1>1 DEF Inv, InHand, TypeOK, Kinds, Steps, Targets, Forwards, Devices
<1>4. Alone' /\ NothingLeft'
  BY <1>1, <1>2 DEF Inv, TypeOK, Alone, NothingLeft
<1>5. InHand(w)'
  BY DEF Inv, InHand, TypeOK
<1>6. StillFree(w)'
  BY <1>1 DEF Inv, StillFree, NothingLeft, InHand, Forwards, TypeOK, Owns
<1>7. QED
  BY <1>1, <1>2, <1>3, <1>4, <1>5, <1>6, QuietStep

\* The port picked is one of the configured.
LEMMA PickSshPortKeeps ==
    ASSUME Inv, NEW w \in Requests, PickSshPort(w)
    PROVE  Inv' /\ UNCHANGED devices
<1> USE DEF PickSshPort, Go, Fail, FreeSshPorts, portVars
<1>1. UNCHANGED devices
  OBVIOUS
<1>2. \A v \in Requests \ {w} : step[v] = "idle" /\ step'[v] = "idle"
  BY DEF Inv, TypeOK, Alone
<1>3. TypeOK'
  BY <1>1 DEF Inv, InHand, TypeOK, Kinds, Steps, Targets, Forwards, Devices
<1>4. Alone' /\ NothingLeft'
  BY <1>1, <1>2 DEF Inv, TypeOK, Alone, NothingLeft
<1>5. InHand(w)'
  <2>1. \A p \in SshPorts : [listen |-> <<"tcp", p>>, target |-> "ssh"] \in Forwards
    BY DEF Forwards, Targets
  <2>2. QED
    BY <2>1 DEF Inv, InHand, TypeOK
<1>6. StillFree(w)'
  BY <1>1 DEF Inv, StillFree, NothingLeft, InHand, Forwards, TypeOK, Owns
<1>7. QED
  BY <1>1, <1>2, <1>3, <1>4, <1>5, <1>6, QuietStep

\* The preflight of a batch writes nothing.
LEMMA CheckSshCapacityKeeps ==
    ASSUME Inv, NEW w \in Requests, CheckSshCapacity(w)
    PROVE  Inv' /\ UNCHANGED devices
<1> USE DEF CheckSshCapacity, Go, portVars
<1>1. UNCHANGED devices
  OBVIOUS
<1>2. \A v \in Requests \ {w} : step[v] = "idle" /\ step'[v] = "idle"
  BY DEF Inv, TypeOK, Alone
<1>3. TypeOK'
  BY <1>1 DEF Inv, InHand, TypeOK, Kinds, Steps, Targets, Forwards, Devices
<1>4. Alone' /\ NothingLeft'
  BY <1>1, <1>2 DEF Inv, TypeOK, Alone, NothingLeft
<1>5. InHand(w)'
  BY DEF Inv, InHand, TypeOK
<1>6. StillFree(w)'
  BY <1>1 DEF Inv, StillFree, NothingLeft, InHand, Forwards, TypeOK, Owns
<1>7. QED
  BY <1>1, <1>2, <1>3, <1>4, <1>5, <1>6, QuietStep

\* A batch comes to its end.
LEMMA BatchIsCompleteKeeps ==
    ASSUME Inv, NEW w \in Requests, BatchIsComplete(w)
    PROVE  Inv' /\ UNCHANGED devices
<1> USE DEF BatchIsComplete, Go, portVars, scan
<1>1. UNCHANGED devices
  OBVIOUS
<1>2. \A v \in Requests \ {w} : step[v] = "idle" /\ step'[v] = "idle"
  BY DEF Inv, TypeOK, Alone
<1>3. TypeOK'
  BY <1>1 DEF Inv, InHand, TypeOK, Kinds, Steps, Targets, Forwards, Devices
<1>4. Alone' /\ NothingLeft'
  BY <1>1, <1>2 DEF Inv, TypeOK, Alone, NothingLeft
<1>5. InHand(w)'
  BY DEF Inv, InHand, TypeOK
<1>6. StillFree(w)'
  BY <1>1 DEF Inv, StillFree, NothingLeft, InHand, Forwards, TypeOK, Owns
<1>7. QED
  BY <1>1, <1>2, <1>3, <1>4, <1>5, <1>6, QuietStep

\* A container is created without a device.
LEMMA CreateNextKeeps ==
    ASSUME Inv, NEW w \in Requests, CreateNext(w)
    PROVE  Inv' /\ UNCHANGED devices
<1> USE DEF CreateNext, Go, Fail, scan, FreeAddresses, Present, portVars
<1>1. UNCHANGED devices
  OBVIOUS
<1>2. \A v \in Requests \ {w} : step[v] = "idle" /\ step'[v] = "idle"
  BY DEF Inv, TypeOK, Alone
<1>3. TypeOK'
  BY <1>1 DEF Inv, InHand, TypeOK, Kinds, Steps, Targets, Forwards, Devices
<1>4. Alone' /\ NothingLeft'
  BY <1>1, <1>2 DEF Inv, TypeOK, Alone, NothingLeft
<1>5. InHand(w)'
  BY DEF Inv, InHand, TypeOK
<1>6. StillFree(w)'
  BY <1>1 DEF Inv, StillFree, NothingLeft, InHand, Forwards, TypeOK, Owns
<1>7. QED
  BY <1>1, <1>2, <1>3, <1>4, <1>5, <1>6, QuietStep

\* The one step that adds a device: nobody had the port.
LEMMA AddDeviceKeeps ==
    ASSUME Inv, NEW w \in Requests, AddDevice(w)
    PROVE  /\ Inv'
           /\ UNCHANGED devices \/ \E n \in Names, l \in Listens : Gains(n, l)
<1> DEFINE n == item[w]
           l == want[w].listen
<1>1. /\ step[w] = "add"
      /\ n \in Names /\ l \in Listens
      /\ NewDevice(w) \in Devices
      /\ NewDevice(w).by = "natbox" /\ NewDevice(w).listen = l
  BY DEF Inv, TypeOK, InHand, AddDevice, NewDevice, Devices, Forwards, Targets
<1>2. \A m \in Names : ~Owns(m, l)
  BY <1>1 DEF Inv, StillFree
<1>3. \/ UNCHANGED devices
      \/ Present(n) /\ devices' = [devices EXCEPT ![n] = @ \cup {NewDevice(w)}]
  BY DEF AddDevice
<1>4. UNCHANGED devices \/ Gains(n, l)
  <2>1. SUFFICES ASSUME devices' = [devices EXCEPT ![n] = @ \cup {NewDevice(w)}]
                 PROVE  Gains(n, l)
    BY <1>3
  <2>2. \A m \in Names : devices'[m] = IF m = n THEN devices[m] \cup {NewDevice(w)} ELSE devices[m]
    BY <2>1, <1>1 DEF Inv, TypeOK
  <2>3. QED
    BY <1>1, <1>2, <2>2 DEF Gains, Owns
<1>5. \A v \in Requests \ {w} : step[v] = "idle" /\ step'[v] = "idle"
  BY <1>1 DEF Inv, TypeOK, Alone, AddDevice, Go, Fail, Succeed
<1>6. TypeOK'
  BY <1>1, <1>3 DEF Inv, TypeOK, Kinds, Steps, AddDevice, Go, Fail, Succeed
<1>7. Alone'
  BY <1>5 DEF Inv, TypeOK, Alone, AddDevice, Go, Fail, Succeed
<1>8. NothingLeft'
  BY <1>1, <1>3 DEF Inv, TypeOK, NothingLeft, Present, AddDevice
<1>9. step'[w] \in {"next", "undo", "done"}
  BY DEF Inv, TypeOK, AddDevice, Go, Fail, Succeed
<1>10. \A v \in Requests : InHand(v)' /\ StillFree(v)'
  BY <1>5, <1>9 DEF InHand, StillFree
<1>11. OnePortOneContainer'
  BY <1>2, <1>4 DEF Inv, OnePortOneContainer, Gains, Owns
<1>12. QED
  BY <1>1, <1>4, <1>6, <1>7, <1>8, <1>10, <1>11 DEF Inv

\* A request gives up devices of one container.
LEMMA DropKeeps ==
    ASSUME Inv, NEW w \in Requests, RemoveDevice(w) \/ UndoBatch(w)
    PROVE  Inv' /\ (UNCHANGED devices \/ \E n \in Names : Drops(n))
<1>1. \A v \in Requests \ {w} : step[v] = "idle" /\ step'[v] = "idle"
  BY DEF Inv, TypeOK, Alone, RemoveDevice, UndoBatch, Go
<1>2. step'[w] \in {"done", "undo"}
  BY DEF Inv, TypeOK, RemoveDevice, UndoBatch, Go
<1>3. \A v \in Requests : InHand(v)' /\ StillFree(v)'
  BY <1>1, <1>2 DEF InHand, StillFree
<1>4. Alone'
  BY <1>1 DEF Inv, TypeOK, Alone, RemoveDevice, UndoBatch, Go
<1>5. PICK n : \/ UNCHANGED <<address, devices>>
               \/ /\ n \in Names
                  /\ \/ UNCHANGED address
                     \/ address' = [address EXCEPT ![n] = "absent"]
                  /\ \/ devices' = [devices EXCEPT ![n] = {}]
                     \/ /\ UNCHANGED address
                        /\ \E r : devices' = [devices EXCEPT ![n] = @ \ r]
  <2>1. CASE RemoveDevice(w)
    BY <2>1 DEF Inv, InHand, RemoveDevice
  <2>2. CASE UndoBatch(w)
    BY <2>2 DEF Inv, TypeOK, UndoBatch
  <2>3. QED
    BY <2>1, <2>2
<1>6. /\ address' \in [Names -> Addresses \cup {"absent", "none"}]
      /\ devices' \in [Names -> SUBSET Devices]
      /\ \A m \in Names : devices'[m] \subseteq devices[m]
      /\ \A m \in Names : m # n => devices'[m] = devices[m]
  BY <1>5 DEF Inv, TypeOK
<1>7. TypeOK'
  <2>1. CASE RemoveDevice(w)
    BY <2>1, <1>6 DEF Inv, TypeOK, Steps, RemoveDevice, Go, scan
  <2>2. CASE UndoBatch(w)
    BY <2>2, <1>6 DEF Inv, TypeOK, Steps, UndoBatch, Go, scan
  <2>3. QED
    BY <2>1, <2>2
<1>8. NothingLeft'
  BY <1>5 DEF Inv, TypeOK, NothingLeft
<1>9. UNCHANGED devices \/ (n \in Names /\ Drops(n))
  BY <1>5, <1>6 DEF Drops, Owns
<1>10. OnePortOneContainer'
  BY <1>9 DEF Inv, OnePortOneContainer, Drops, Owns
<1>11. QED
  BY <1>3, <1>4, <1>7, <1>8, <1>9, <1>10 DEF Inv

\* Whatever happens around the ports, nobody gets one in Natbox's name.
LEMMA WorldKeeps ==
    ASSUME Inv, World
    PROVE  Inv' /\ \E n \in Names : Drops(n)
<1>1. PICK n \in Names : Create(n) \/ Stop(n) \/ Start(n) \/ Delete(n) \/ DeleteByHand(n) \/
     AddByHand(n)
  BY DEF World
<1>2. UNCHANGED <<scan, mutationMu, kind, step, item, want, todo, made>>
  BY <1>1 DEF Create, Stop, Start, Delete, DeleteByHand, AddByHand, Gone
<1>3. \/ devices' = devices /\ Present(n)
      \/ devices' = devices /\ ~Present(n)
      \/ devices' = [devices EXCEPT ![n] = {}]
      \/ /\ Present(n)
         /\ \E d \in Devices : d.by # "natbox" /\ devices' = [devices EXCEPT ![n] = @ \cup {d}]
  BY <1>1 DEF Create, Stop, Start, Delete, DeleteByHand, AddByHand, Gone
<1>4. Drops(n)
  BY <1>3 DEF Inv, TypeOK, Drops, Owns
<1>5. TypeOK'
  <2>1. devices' \in [Names -> SUBSET Devices]
    BY <1>3 DEF Inv, TypeOK
  <2>2. address' \in [Names -> Addresses \cup {"absent", "none"}]
    BY <1>1 DEF Inv, TypeOK, Create, Stop, Start, Delete, DeleteByHand, AddByHand, Gone,
     FreeAddresses
  <2>3. meddled' \in 0..MaxMeddling
    BY <1>1 DEF Inv, TypeOK, Create, Stop, Start, Delete, DeleteByHand, AddByHand, Interfering
  <2>4. QED
    BY <1>2, <2>1, <2>2, <2>3 DEF Inv, TypeOK, scan
<1>6. Alone'
  BY <1>2 DEF Inv, Alone
<1>7. NothingLeft'
  <2>1. CASE Delete(n) \/ DeleteByHand(n)
    BY <2>1 DEF Inv, TypeOK, NothingLeft, Delete, DeleteByHand, Gone
  <2>2. CASE AddByHand(n)
    BY <2>2 DEF Inv, TypeOK, NothingLeft, AddByHand, Present
  <2>3. CASE Create(n) \/ Stop(n) \/ Start(n)
    BY <2>3 DEF Inv, TypeOK, NothingLeft, Create, Stop, Start, Present, FreeAddresses
  <2>4. QED
    BY <1>1, <2>1, <2>2, <2>3
<1>8. \A m \in Names, l \in Listens : Owns(m, l)' => Owns(m, l)
  BY <1>4 DEF Drops
<1>9. ASSUME NEW v \in Requests
      PROVE  InHand(v)' /\ StillFree(v)'
  <2>1. InHand(v)'
    BY <1>2 DEF Inv, InHand, scan
  <2>2. step[v] \in {"list", "scan", "add"} => item[v] \in Names /\ want[v].listen \in Listens
    BY DEF Inv, InHand, Forwards
  <2>3. UNCHANGED <<step[v], item[v], want[v], unread[v]>>
    BY <1>2 DEF scan
  <2>4. StillFree(v)
    BY DEF Inv
  <2>5. step[v] \in {"list", "scan", "add"} => ~Owns(item[v], want[v].listen)'
    BY <1>8, <2>2, <2>3, <2>4 DEF StillFree, Owns
  <2>6. step[v] \in {"scan", "add"} => \A m \in Names : Owns(m, want[v].listen)' => m \in unread[v]
    BY <1>2, <1>8, <2>2, <2>4 DEF StillFree
  <2>7. StillFree(v)'
    BY <1>2, <2>3, <2>4, <2>5, <2>6 DEF StillFree
  <2>8. QED
    BY <2>1, <2>7
<1>10. OnePortOneContainer'
  BY <1>8 DEF Inv, OnePortOneContainer
<1>11. QED
  BY <1>4, <1>5, <1>6, <1>7, <1>9, <1>10 DEF Inv

-----------------------------------------------------------------------------
(* Theorems.                                                               *)

\* A step gives a port nobody has to a container, takes ports from one, or
\* leaves every port where it is.
LEMMA StepKeeps ==
    ASSUME Inv, [Next]_vars
    PROVE  /\ Inv'
           /\ \/ \A n \in Names, l \in Listens : Owns(n, l)' <=> Owns(n, l)
              \/ \E n \in Names : Drops(n)
              \/ \E n \in Names, l \in Listens : Gains(n, l)
<1> DEFINE Goal == /\ Inv'
                   /\ \/ UNCHANGED devices
                      \/ \E n \in Names : Drops(n)
                      \/ \E n \in Names, l \in Listens : Gains(n, l)
<1> SUFFICES Goal
  BY DEF Owns
<1>1. CASE World
  BY <1>1, WorldKeeps
<1>2. ASSUME NEW w \in Requests, Begin(w)
      PROVE  Goal
  <2>1. ASSUME NEW n \in Names, NEW f \in Forwards, BeginAdd(w, n, f)
        PROVE  Goal
    BY <2>1, BeginAddKeeps
  <2>2. ASSUME NEW n \in Names, NEW f \in Forwards, BeginRemove(w, n, f)
        PROVE  Goal
    BY <2>2, BeginRemoveKeeps
  <2>3. ASSUME NEW n \in Names, BeginSsh(w, n)
        PROVE  Goal
    BY <2>3, BeginSshKeeps
  <2>4. ASSUME NEW ns \in SUBSET Names, BeginBatch(w, ns)
        PROVE  Goal
    BY <2>4, BeginBatchKeeps
  <2>5. QED
    BY <1>2, <2>1, <2>2, <2>3, <2>4 DEF Begin
<1>3. ASSUME NEW w \in Requests, Work(w)
      PROVE  Goal
  <2>1. CASE AddDevice(w)
    BY <2>1, AddDeviceKeeps
  <2>2. CASE RemoveDevice(w) \/ UndoBatch(w)
    BY <2>2, DropKeeps
  <2>3. CASE ReadOwn(w) \/ ReadSsh(w) \/ ListInstances(w) \/ ReadOther(w)
    BY <2>3, ReadOwnKeeps, ReadSshKeeps, ListInstancesKeeps, ReadOtherKeeps
  <2>4. CASE PortIsFree(w) \/ PickSshPort(w) \/ CheckSshCapacity(w)
    BY <2>4, PortIsFreeKeeps, PickSshPortKeeps, CheckSshCapacityKeeps
  <2>5. CASE CreateNext(w) \/ BatchIsComplete(w) \/ Unlock(w)
    BY <2>5, CreateNextKeeps, BatchIsCompleteKeeps, UnlockKeeps
  <2>6. QED
    BY <1>3, <2>1, <2>2, <2>3, <2>4, <2>5 DEF Work
<1>4. CASE UNCHANGED vars
  <2>1. UNCHANGED devices
    BY <1>4 DEF vars, portVars
  <2>2. TypeOK' /\ Alone' /\ NothingLeft' /\ OnePortOneContainer'
    BY <1>4 DEF Inv, TypeOK, Alone, NothingLeft, OnePortOneContainer, Owns, vars, portVars, scan
  <2>3. \A w \in Requests : InHand(w)' /\ StillFree(w)'
    BY <1>4 DEF Inv, InHand, StillFree, Owns, vars, portVars, scan
  <2>4. QED
    BY <2>1, <2>2, <2>3 DEF Inv
<1>5. QED
  BY <1>1, <1>2, <1>3, <1>4 DEF Next

\* Nobody has a port to begin with.
LEMMA InitInv == Init => Inv
<1>1. SUFFICES ASSUME Init PROVE Inv
  OBVIOUS
<1>2. TypeOK
  BY <1>1 DEF Init, TypeOK, Kinds, Steps
<1>3. \A n \in Names : \A l : ~Owns(n, l)
  BY <1>1 DEF Init, Owns
<1>4. QED
  BY <1>1, <1>2, <1>3 DEF Init, Inv, Alone, NothingLeft, InHand, StillFree, OnePortOneContainer

\* The inductive invariant holds of every behaviour.
THEOREM AlwaysInv == Spec => []Inv
<1>1. Inv /\ [Next]_vars => Inv'
  BY StepKeeps
<1>2. QED
  BY InitInv, <1>1, PTL DEF Spec

\* The types of the variables, for every number of containers, ports and requests.
THEOREM PortsTyped == Spec => []TypeOK
<1>1. Inv => TypeOK
  BY DEF Inv
<1>2. QED
  BY AlwaysInv, <1>1, PTL

\* Each public listen port belongs to only one container, whatever the operator
\* does and whichever commands fail.
THEOREM OnePort == Spec => []OnePortOneContainer
<1>1. Inv => OnePortOneContainer
  BY DEF Inv
<1>2. QED
  BY AlwaysInv, <1>1, PTL

-----------------------------------------------------------------------------
(* The devices implement the registry.                                     *)

\* The owner of a port is who has it.
LEMMA OwnerHasPort ==
    ASSUME OnePortOneContainer, NEW l \in Listens
    PROVE  /\ \A n \in Names : Owns(n, l) => OwnerOf[l] = n
           /\ (\A n \in Names : ~Owns(n, l)) => OwnerOf[l] = NoName
           /\ OwnerOf[l] \in Names => Owns(OwnerOf[l], l)
BY DEF OnePortOneContainer, OwnerOf

\* A step that gives n a port is an Assign of the registry.
LEMMA GainIsAssign ==
    ASSUME OnePortOneContainer, OnePortOneContainer', NEW n \in Names, NEW l \in Listens, Gains(n,
     l)
    PROVE  Registry!Assign(n, l)
<1>1. OwnerOf[l] = NoName
  BY OwnerHasPort DEF Gains
<1>2. \A k \in Listens : OwnerOf'[k] = IF k = l THEN n ELSE OwnerOf[k]
  <2>1. ASSUME NEW k \in Listens
        PROVE  OwnerOf'[k] = IF k = l THEN n ELSE OwnerOf[k]
    <3>1. \A m \in Names : Owns(m, k)' <=> (Owns(m, k) \/ (m = n /\ k = l))
      BY DEF Gains
    <3>2. \A m \in Names : Owns(m, k)' => OwnerOf'[k] = m
      BY DEF OnePortOneContainer, OwnerOf
    <3>3. (\A m \in Names : ~(Owns(m, k)')) => OwnerOf'[k] = NoName
      BY DEF OwnerOf
    <3>4. CASE \E m \in Names : Owns(m, k)
      BY <3>1, <3>2, <3>4, OwnerHasPort DEF Gains
    <3>5. CASE \A m \in Names : ~Owns(m, k)
      BY <3>1, <3>2, <3>3, <3>5, OwnerHasPort
    <3>6. QED
      BY <3>4, <3>5
  <2>2. QED
    BY <2>1
<1>3. OwnerOf' = [OwnerOf EXCEPT ![l] = n]
  BY <1>2 DEF OwnerOf
<1>4. QED
  BY <1>1, <1>3 DEF Registry!Assign

\* A step by which n gives up ports is a Release of the registry.
LEMMA DropIsRelease ==
    ASSUME OnePortOneContainer, OnePortOneContainer', NEW n \in Names, Drops(n)
    PROVE  \E ls \in SUBSET Listens : Registry!Release(n, ls)
<1> DEFINE had(m, l) == Owns(m, l)
           has(m, l) == Owns(m, l)'
<1>0. PICK ls \in SUBSET Listens : \A l \in Listens : l \in ls <=> had(n, l) /\ ~has(n, l)
  <2>1. {l \in Listens : had(n, l) /\ ~has(n, l)} \in SUBSET Listens
    OBVIOUS
  <2>2. QED
    BY <2>1 DEF Owns
<1>1. \A l \in ls : OwnerOf[l] = n
  BY <1>0, OwnerHasPort
<1>2. ASSUME NEW k \in Listens
      PROVE  OwnerOf'[k] = IF k \in ls THEN NoName ELSE OwnerOf[k]
  <2>1. \A m \in Names : (has(m, k) => had(m, k)) /\ (m # n /\ had(m, k) => has(m, k))
    BY DEF Drops
  <2>2. \A m \in Names : has(m, k) => OwnerOf'[k] = m
    BY DEF OnePortOneContainer, OwnerOf
  <2>3. (\A m \in Names : ~has(m, k)) => OwnerOf'[k] = NoName
    BY DEF OwnerOf
  <2>4. \A m \in Names : had(m, k) => OwnerOf[k] = m
    BY OwnerHasPort
  <2>5. (\A m \in Names : ~had(m, k)) => OwnerOf[k] = NoName
    BY OwnerHasPort
  <2>6. \A m \in Names : had(m, k) /\ had(n, k) => m = n
    BY DEF OnePortOneContainer
  <2>7. k \in ls <=> had(n, k) /\ ~has(n, k)
    BY <1>0
  <2> HIDE DEF had, has
  <2>8. QED
    BY <2>1, <2>2, <2>3, <2>4, <2>5, <2>6, <2>7
<1>3. OwnerOf' = [l \in Listens |-> IF l \in ls THEN NoName ELSE OwnerOf[l]]
  BY <1>2 DEF OwnerOf
<1>4. Registry!Release(n, ls)
  BY <1>1, <1>3 DEF Registry!Release
<1>5. QED
  BY <1>4

\* The devices Natbox makes implement a registry that gives a port only while
\* nobody has it.
THEOREM Registered == Spec => PortsAreRegistered
<1>1. Init => Registry!Init
  BY DEF Registry!Init, OwnerOf
<1>2. Inv /\ Inv' /\ [Next]_vars => [Registry!Next]_OwnerOf
  <2>1. SUFFICES ASSUME Inv, Inv', [Next]_vars
                 PROVE  Registry!Next \/ UNCHANGED OwnerOf
    OBVIOUS
  <2>2. OnePortOneContainer /\ OnePortOneContainer'
    BY <2>1 DEF Inv
  <2>3. CASE \A n \in Names, l \in Listens : Owns(n, l)' <=> Owns(n, l)
    <3>1. \A l \in Listens : OwnerOf'[l] = OwnerOf[l]
      <4>1. ASSUME NEW l \in Listens
            PROVE  OwnerOf'[l] = OwnerOf[l]
        <5>1. \A n \in Names : Owns(n, l)' => OwnerOf'[l] = n
          BY <2>2 DEF OnePortOneContainer, OwnerOf
        <5>2. (\A n \in Names : ~(Owns(n, l)')) => OwnerOf'[l] = NoName
          BY DEF OwnerOf
        <5>3. QED
          BY <2>2, <2>3, <5>1, <5>2, OwnerHasPort
      <4>2. QED
        BY <4>1
    <3>2. QED
      BY <3>1 DEF OwnerOf
  <2>4. CASE \E n \in Names : Drops(n)
    BY <2>2, <2>4, DropIsRelease DEF Registry!Next
  <2>5. CASE \E n \in Names, l \in Listens : Gains(n, l)
    BY <2>2, <2>5, GainIsAssign DEF Registry!Next
  <2>6. QED
    BY <2>1, <2>3, <2>4, <2>5, StepKeeps
<1>3. QED
  BY AlwaysInv, <1>1, <1>2, PTL DEF Spec, PortsAreRegistered, Registry!Spec

-----------------------------------------------------------------------------
(* The automatic SSH forwards: what an allocation and the preflight of a   *)
(* batch have found out stays true while no operator interferes.           *)

\* The SSH ports in use.
Taken == {p \in SshPorts : \E n \in Names : p \in TcpPorts(n)}

\* The steps of one allocation.
Allocating == {"sshOwn", "sshList", "sshScan", "own", "list", "scan", "add"}

\* Which request is where.
OwnSteps(w) ==
    /\ step[w] \in {"sshOwn", "sshList", "sshScan"} => kind[w] \in {"ssh", "batch"}
    /\ step[w] \in {"capList", "capScan", "next"} => kind[w] = "batch"

\* Past the look at its own devices, the container has no forward to port 22.
NoSshYet(w) ==
    kind[w] \in {"ssh", "batch"} /\ step[w] \in Allocating \ {"sshOwn"} =>
        \A d \in Listed(item[w]) : d.listen[1] = "udp" \/ d.target # "ssh"

\* The preflight has met the ports of every container it has read; an
\* allocation has met no port that is not in use.
CountsAll(w) ==
    step[w] = "capScan" => \A n \in Names : n \in unread[w] \/ TcpPorts(n) \subseteq used[w]

CountsNoMore(w) == step[w] = "sshScan" => used[w] \cap SshPorts \subseteq Taken

\* There are enough ports for what is left of the batch.
Enough(w) ==
    kind[w] = "batch" =>
        /\ step[w] = "next" => Cardinality(todo[w]) <= Cardinality(SshPorts \ Taken)
        /\ step[w] \in Allocating => Cardinality(todo[w]) + 1 <= Cardinality(SshPorts \ Taken)

Steady(w) == OwnSteps(w) /\ NoSshYet(w) /\ CountsAll(w) /\ CountsNoMore(w) /\ Enough(w)

Access == meddled = 0 => \A w \in Requests : Steady(w)

\* Every number of ports or containers is a natural number.
LEMMA PortsAreCounted ==
    ASSUME NEW S
    PROVE  /\ IsFiniteSet(SshPorts \ S) /\ Cardinality(SshPorts \ S) \in Nat
           /\ IsFiniteSet(SshPorts \cap S) /\ Cardinality(SshPorts \cap S) \in Nat
           /\ Cardinality(SshPorts) = Cardinality(SshPorts \ S) + Cardinality(SshPorts \cap S)
<1>1. IsFiniteSet(SshPorts \ S) /\ IsFiniteSet(SshPorts \cap S)
  BY SshPortsAreFinite, FS_Subset
<1>2. /\ Cardinality(SshPorts \ S) \in Nat /\ Cardinality(SshPorts \cap S) \in Nat
  BY <1>1, FS_CardinalityType
<1>3. SshPorts = (SshPorts \ S) \cup (SshPorts \cap S) /\ (SshPorts \ S) \cap (SshPorts \cap S) = {}
  OBVIOUS
<1>4. Cardinality(SshPorts) =
        Cardinality(SshPorts \ S) + Cardinality(SshPorts \cap S) - Cardinality({})
  BY <1>1, <1>3, FS_Union
<1> QED
  BY <1>1, <1>2, <1>4, FS_EmptySet

LEMMA NamesAreCounted ==
    ASSUME NEW S \in SUBSET Names
    PROVE  IsFiniteSet(S) /\ Cardinality(S) \in Nat
BY NamesAreFinite, FS_Subset, FS_CardinalityType

\* A request that does nothing is steady.
LEMMA IdleIsSteady == ASSUME NEW w, step[w] = "idle" PROVE Steady(w)
BY DEF Steady, OwnSteps, NoSshYet, CountsAll, CountsNoMore, Enough, Allocating

\* Where no device changes, nothing that is known of the devices does.
LEMMA DevicesKept ==
    ASSUME UNCHANGED devices
    PROVE  /\ Taken' = Taken
           /\ \A n : Listed(n)' = Listed(n) /\ TcpPorts(n)' = TcpPorts(n)
BY DEF Taken, Listed, TcpPorts

\* The preflight lets a batch pass only when the ports suffice for it.
LEMMA PreflightCounts ==
    ASSUME Inv, NEW w \in Requests, Steady(w), CheckSshCapacity(w)
    PROVE  Steady(w)'
<1> USE DEF CheckSshCapacity, Go, portVars
<1>1. /\ kind' = kind /\ todo' = todo /\ Taken' = Taken /\ kind[w] = "batch"
      /\ step'[w] \in {"next", "done"}
  BY DevicesKept DEF Inv, TypeOK, Steady, OwnSteps
<1>2. Taken \subseteq SshPorts \cap used[w]
  BY DEF Steady, CountsAll, Taken
<1>3. ASSUME step'[w] = "next"
      PROVE  Cardinality(todo[w]) <= Cardinality(SshPorts \ Taken)
  <2>1. Cardinality(todo[w]) \in Nat
    BY NamesAreCounted DEF Inv, TypeOK
  <2>2. ~(Cardinality(todo[w]) > Cardinality(SshPorts) - Cardinality(SshPorts \cap used[w]))
    <3>1. used[w] \cap SshPorts = SshPorts \cap used[w]
      OBVIOUS
    <3> QED
      BY <1>3, <3>1 DEF Inv, TypeOK
  <2>4. Cardinality(SshPorts \cap Taken) <= Cardinality(SshPorts \cap used[w])
    <3>1. SshPorts \cap Taken \subseteq SshPorts \cap used[w]
      BY <1>2
    <3> QED
      BY <3>1, PortsAreCounted, FS_Subset
  <2>5. /\ Cardinality(SshPorts) = Cardinality(SshPorts \ Taken) + Cardinality(SshPorts \cap Taken)
        /\ Cardinality(SshPorts \ Taken) \in Nat /\ Cardinality(SshPorts \cap Taken) \in Nat
        /\ Cardinality(SshPorts \cap used[w]) \in Nat
    BY PortsAreCounted
  <2> HIDE DEF CheckSshCapacity
  <2> QED
    BY <2>1, <2>2, <2>4, <2>5
<1> QED
  BY <1>1, <1>3 DEF Steady, OwnSteps, NoSshYet, CountsAll, CountsNoMore, Enough, Allocating

\* A forward takes one port, and the batch has one container less to serve.
LEMMA AllocationCounts ==
    ASSUME Inv, NEW w \in Requests, Steady(w), AddDevice(w)
    PROVE  Steady(w)'
<1>1. /\ kind' = kind /\ todo' = todo /\ step[w] = "add" /\ item[w] \in Names
      /\ step'[w] \in {"next", "undo", "done"} /\ (step'[w] = "next" => kind[w] = "batch")
  BY DEF AddDevice, Go, Fail, Succeed, Inv, TypeOK, InHand
<1>2. \A n \in Names : devices'[n] \subseteq devices[n] \cup {NewDevice(w)}
  BY DEF AddDevice, Inv, TypeOK
<1>3. Taken' \subseteq Taken \cup {NewDevice(w).listen[2]}
  BY <1>2 DEF Taken, TcpPorts, Listed
<1>4. kind[w] = "batch" => Cardinality(todo[w]) <= Cardinality((SshPorts \ Taken)')
  <2> DEFINE left == (SshPorts \ Taken) \ {NewDevice(w).listen[2]}
  <2>1. left \subseteq (SshPorts \ Taken)'
    BY <1>3
  <2>2. Cardinality(left) <= Cardinality((SshPorts \ Taken)')
    BY <2>1, PortsAreCounted, FS_Subset
  <2>6. IsFiniteSet(SshPorts \ Taken) /\ Cardinality(SshPorts \ Taken) \in Nat
    BY PortsAreCounted
  <2>3. /\ IsFiniteSet(left) /\ Cardinality(left) \in Nat
        /\ Cardinality(left) >= Cardinality(SshPorts \ Taken) - 1
    <3>1. /\ IsFiniteSet(left)
          /\ Cardinality(left) = IF NewDevice(w).listen[2] \in SshPorts \ Taken
                                 THEN Cardinality(SshPorts \ Taken) - 1
                                 ELSE Cardinality(SshPorts \ Taken)
      BY <2>6, FS_RemoveElement
    <3> HIDE DEF left
    <3>2. Cardinality(left) \in Nat
      BY <3>1, FS_CardinalityType
    <3> QED
      BY <2>6, <3>1, <3>2
  <2>4. kind[w] = "batch" => Cardinality(todo[w]) + 1 <= Cardinality(SshPorts \ Taken)
    BY <1>1 DEF Steady, Enough, Allocating
  <2>5. Cardinality((SshPorts \ Taken)') \in Nat /\ Cardinality(todo[w]) \in Nat
    BY PortsAreCounted, NamesAreCounted DEF Inv, TypeOK
  <2> HIDE DEF left
  <2> QED
    BY <2>6, <2>2, <2>3, <2>4, <2>5
<1> QED
  BY <1>1, <1>4 DEF Steady, OwnSteps, NoSshYet, CountsAll, CountsNoMore, Enough, Allocating

\* The next container of a batch.
LEMMA NextCounts ==
    ASSUME Inv, NEW w \in Requests, Steady(w), CreateNext(w)
    PROVE  Steady(w)'
<1>1. /\ kind' = kind /\ devices' = devices /\ step[w] = "next" /\ kind[w] = "batch"
      /\ step'[w] \in {"sshOwn", "undo"}
  BY DEF CreateNext, Go, Fail, Inv, TypeOK, Steady, OwnSteps
<1>2. PICK n \in todo[w] : todo'[w] = todo[w] \ {n}
  BY DEF CreateNext, Inv, TypeOK
<1>3. Cardinality(todo'[w]) = Cardinality(todo[w]) - 1 /\ Cardinality(todo[w]) \in Nat
  BY <1>2, NamesAreCounted, FS_RemoveElement DEF Inv, TypeOK
<1>4. Taken' = Taken /\ Cardinality(SshPorts \ Taken) \in Nat
  BY <1>1, DevicesKept, PortsAreCounted
<1>5. Cardinality(todo'[w]) + 1 <= Cardinality(SshPorts \ Taken)
  BY <1>1, <1>3, <1>4 DEF Steady, Enough
<1> QED
  BY <1>1, <1>4, <1>5 DEF Steady, OwnSteps, NoSshYet, CountsAll, CountsNoMore, Enough, Allocating

\* The scans: the preflight adds the ports of what it reads, so does the
\* allocation, and the list begins with what exists.
LEMMA ScanCounts ==
    ASSUME Inv, NEW w \in Requests, Steady(w), ListInstances(w) \/ ReadOther(w)
    PROVE  Steady(w)'
<1>1. /\ kind' = kind /\ todo' = todo /\ item' = item /\ devices' = devices
  BY DEF ListInstances, ReadOther, portVars
<1>2. Taken' = Taken /\ \A n : Listed(n)' = Listed(n) /\ TcpPorts(n)' = TcpPorts(n)
  BY <1>1, DevicesKept
<1>3. \/ step[w] = "list" /\ step'[w] \in {"scan", "undo", "done"}
      \/ step[w] = "sshList" /\ step'[w] \in {"sshScan", "undo", "done"}
      \/ step[w] = "capList" /\ step'[w] \in {"capScan", "undo", "done"}
      \/ step[w] \in {"scan", "sshScan", "capScan"} /\ step'[w] \in {step[w], "undo", "done"}
  BY DEF ListInstances, ReadOther, Go, Fail, Inv, TypeOK
<1>4. OwnSteps(w)' /\ NoSshYet(w)' /\ Enough(w)'
  BY <1>1, <1>2, <1>3 DEF Steady, OwnSteps, NoSshYet, Enough, Allocating
<1>5. CountsAll(w)'
  <2>1. CASE ListInstances(w)
    <3>1. \A n \in Names : n \in ToRead(w) \/ step[w] = "list" \/ TcpPorts(n) = {}
      BY DEF Inv, NothingLeft, ToRead, Existing, Present, TcpPorts, Listed
    <3> QED
      BY <1>2, <1>3, <2>1, <3>1 DEF ListInstances, Go, Fail, Inv, TypeOK, CountsAll
  <2>2. CASE ReadOther(w)
    BY <1>2, <1>3, <2>2 DEF ReadOther, Go, Fail, Inv, TypeOK, Steady, CountsAll
  <2> QED
    BY <2>1, <2>2
<1>6. CountsNoMore(w)'
  <2>1. CASE ListInstances(w)
    BY <1>2, <1>3, <2>1 DEF ListInstances, Go, Fail, Inv, TypeOK, CountsNoMore
  <2>2. CASE ReadOther(w)
    <3>1. \A n \in Names : TcpPorts(n) \cap SshPorts \subseteq Taken
      BY DEF Taken
    <3> QED
      BY <1>2, <1>3, <2>2, <3>1 DEF ReadOther, Go, Fail, Inv, TypeOK, Steady, CountsNoMore
  <2> QED
    BY <2>1, <2>2
<1> QED
  BY <1>4, <1>5, <1>6 DEF Steady

\* Every other step of a request.
LEMMA WorkIsSteady ==
    ASSUME Inv, NEW w \in Requests, Steady(w), Work(w)
    PROVE  Steady(w)'
<1> USE DEF Inv, TypeOK, Go, Fail, Succeed
<1>1. CASE ReadOwn(w)
  <2>1. UNCHANGED devices
    BY <1>1 DEF ReadOwn, portVars
  <2> QED
    BY <1>1, <2>1, DevicesKept DEF ReadOwn, Steady, OwnSteps, NoSshYet, CountsAll, CountsNoMore, Enough,
       Allocating
<1>2. CASE ReadSsh(w)
  <2>1. UNCHANGED <<devices, kind, item, todo, used>>
    BY <1>2 DEF ReadSsh, portVars, scan
  <2>2. step[w] = "sshOwn" /\ step'[w] \in {"next", "sshList", "undo", "done"} /\ kind[w] \in {"ssh", "batch"}
        /\ (step'[w] = "next" => kind[w] = "batch")
    BY <1>2 DEF ReadSsh, Steady, OwnSteps
  <2>3. item[w] \in Names /\ \A d \in Listed(item[w]) : d.listen[1] \in {"tcp", "udp"}
    BY <2>2 DEF InHand, Listed, Devices
  <2>4. step'[w] = "sshList" => \A d \in Listed(item[w]) : d.listen[1] = "udp" \/ d.target # "ssh"
    BY <1>2, <2>3 DEF ReadSsh
  <2>5. Cardinality(todo[w]) \in Nat /\ Cardinality(SshPorts \ Taken) \in Nat
    BY PortsAreCounted, NamesAreCounted
  <2> QED
    BY <2>1, <2>2, <2>4, <2>5, DevicesKept DEF Steady, OwnSteps, NoSshYet, CountsAll, CountsNoMore,
       Enough, Allocating
<1>3. CASE ListInstances(w) \/ ReadOther(w)
  BY <1>3, ScanCounts
<1>4. CASE PortIsFree(w) \/ PickSshPort(w)
  <2>1. UNCHANGED devices
    BY <1>4 DEF PortIsFree, PickSshPort, portVars
  <2> QED
    BY <1>4, <2>1, DevicesKept DEF PortIsFree, PickSshPort, Steady, OwnSteps, NoSshYet, CountsAll,
       CountsNoMore, Enough, Allocating
<1>5. CASE CheckSshCapacity(w)
  BY <1>5, PreflightCounts
<1>6. CASE AddDevice(w)
  BY <1>6, AllocationCounts
<1>7. CASE CreateNext(w)
  BY <1>7, NextCounts
<1>8. CASE RemoveDevice(w) \/ BatchIsComplete(w) \/ UndoBatch(w) \/ Unlock(w)
  <2>1. step'[w] \in {"undo", "done", "idle"}
    BY <1>8 DEF RemoveDevice, BatchIsComplete, UndoBatch, Unlock
  <2> QED
    BY <2>1 DEF Steady, OwnSteps, NoSshYet, CountsAll, CountsNoMore, Enough, Allocating
<1> QED
  BY <1>1, <1>2, <1>3, <1>4, <1>5, <1>6, <1>7, <1>8 DEF Work

\* Nobody adds a forward but the holder of the mutex and the operator.
LEMMA AccessStep == Inv /\ Access /\ [Next]_vars => Access'
<1> SUFFICES ASSUME Inv, Access, [Next]_vars, meddled' = 0
             PROVE  \A w \in Requests : Steady(w)'
  BY DEF Access
<1>1. CASE World
  <2>1. PICK n \in Names : Create(n) \/ Stop(n) \/ Start(n) \/ Delete(n) \/ DeleteByHand(n) \/ AddByHand(n)
    BY <1>1 DEF World
  <2>2. CASE Create(n) \/ Stop(n) \/ Start(n)
    <3>1. UNCHANGED <<devices, meddled, kind, step, item, unread, used, todo>>
      BY <2>2 DEF Create, Stop, Start, scan
    <3>2. Taken' = Taken /\ \A m : Listed(m)' = Listed(m) /\ TcpPorts(m)' = TcpPorts(m)
      BY <3>1, DevicesKept
    <3> QED
      BY <3>1, <3>2 DEF Access, Steady, OwnSteps, NoSshYet, CountsAll, CountsNoMore, Enough
  <2>3. CASE Delete(n)
    <3>1. \A w \in Requests : step'[w] = "idle"
      BY <2>3 DEF Delete, Gone, Inv, Alone
    <3> QED
      BY <3>1 DEF Steady, OwnSteps, NoSshYet, CountsAll, CountsNoMore, Enough, Allocating
  <2>4. CASE DeleteByHand(n) \/ AddByHand(n)
    BY <2>4 DEF DeleteByHand, AddByHand, Interfering, Inv, TypeOK
  <2> QED
    BY <2>1, <2>2, <2>3, <2>4
<1>2. ASSUME NEW w \in Requests, Begin(w) \/ Work(w) PROVE \A v \in Requests : Steady(v)'
  <2>1. meddled = 0
    BY <1>2 DEF Begin, BeginAdd, BeginRemove, BeginSsh, BeginBatch, Work, ReadOwn, ReadSsh,
       ListInstances, ReadOther, PortIsFree, PickSshPort, CheckSshCapacity, AddDevice, RemoveDevice,
       CreateNext, BatchIsComplete, UndoBatch, Unlock, portVars
  <2>2. ASSUME NEW v \in Requests \ {w} PROVE step'[v] = "idle"
    BY <1>2 DEF Begin, BeginAdd, BeginRemove, BeginSsh, BeginBatch, Lock, Work, ReadOwn, ReadSsh,
       ListInstances, ReadOther, PortIsFree, PickSshPort, CheckSshCapacity, AddDevice, RemoveDevice,
       CreateNext, BatchIsComplete, UndoBatch, Unlock, Go, Fail, Succeed, Inv, TypeOK, Alone
  <2>3. \A v \in Requests \ {w} : Steady(v)'
    BY <2>2 DEF Steady, OwnSteps, NoSshYet, CountsAll, CountsNoMore, Enough, Allocating
  <2>4. ASSUME Work(w) PROVE Steady(w)'
    BY <2>1, <2>4, WorkIsSteady DEF Access
  <2>5. ASSUME Begin(w) PROVE Steady(w)'
    <3>1. /\ step'[w] \in {"own", "remove", "sshOwn", "capList"}
          /\ step'[w] = "own" => kind'[w] = "add"
          /\ step'[w] = "sshOwn" => kind'[w] = "ssh"
          /\ step'[w] = "capList" => kind'[w] = "batch"
      BY <2>5 DEF Begin, BeginAdd, BeginRemove, BeginSsh, BeginBatch, Lock, Inv, TypeOK
    <3> QED
      BY <3>1 DEF Steady, OwnSteps, NoSshYet, CountsAll, CountsNoMore, Enough, Allocating
  <2> QED
    BY <1>2, <2>3, <2>4, <2>5
<1>3. CASE UNCHANGED vars
  <2>1. UNCHANGED <<devices, meddled, kind, step, item, unread, used, todo>>
    BY <1>3 DEF vars, portVars, scan
  <2>2. Taken' = Taken /\ \A m : Listed(m)' = Listed(m) /\ TcpPorts(m)' = TcpPorts(m)
    BY <2>1, DevicesKept
  <2> QED
    BY <2>1, <2>2 DEF Access, Steady, OwnSteps, NoSshYet, CountsAll, CountsNoMore, Enough
<1> QED
  BY <1>1, <1>2, <1>3 DEF Next

\* While no operator interferes, what an allocation and a preflight have found
\* out stays true until they use it.
THEOREM AlwaysAccess == Spec => [](Inv /\ Access)
<1>1. Init => Access
  BY IdleIsSteady DEF Init, Access
<1>2. Inv /\ Access /\ [Next]_vars => Access'
  BY AccessStep
<1> QED
  BY AlwaysInv, <1>1, <1>2, PTL DEF Spec

\* A container that has a forward to its port 22 never gets a second one from
\* allocateSSH, while no operator interferes.
THEOREM Idempotent == Spec => []AllocationIsIdempotent
<1>1. Access => AllocationIsIdempotent
  BY DEF Access, Steady, NoSshYet, Allocating, AllocationIsIdempotent
<1> QED
  BY AlwaysAccess, <1>1, PTL

\* A batch that passes checkSSHCapacity finds a port for each of its containers,
\* while no operator interferes: for any range of ports and any batch.
THEOREM PreflightIsEnough == Spec => []PreflightSuffices
<1>1. Inv /\ Access => PreflightSuffices
  <2> SUFFICES ASSUME Inv, Access, meddled = 0, NEW w \in Requests, kind[w] = "batch",
                      step[w] = "sshScan", FreeSshPorts(w) = {}
               PROVE  FALSE
    BY DEF PreflightSuffices
  <2>1. SshPorts \ Taken = {}
    BY DEF Access, Steady, CountsNoMore, FreeSshPorts
  <2>2. Cardinality(todo[w]) + 1 <= Cardinality(SshPorts \ Taken)
    BY DEF Access, Steady, Enough, Allocating
  <2>3. Cardinality(todo[w]) \in Nat
    BY NamesAreCounted DEF Inv, TypeOK
  <2>4. Cardinality(SshPorts \ Taken) = 0
    BY <2>1, FS_EmptySet
  <2> QED
    BY <2>2, <2>3, <2>4
<1> QED
  BY AlwaysAccess, <1>1, PTL

=============================================================================
